------------------------------ MODULE Breaker ------------------------------
(***************************************************************************)
(* One pool's breaker (domain/breaker.rs) and the callers that hold its    *)
(* permits.  A caller is admitted, and later records the outcome of its    *)
(* call or abandons the permit (AdmissionGuard and BreakerExecutor drop).  *)
(* Callers interleave freely: a permit may be redeemed any number of       *)
(* transitions after it was handed out.                                    *)
(***************************************************************************)
EXTENDS BreakerCore

CONSTANTS
    Callers,        \* concurrent holders of permits
    MaxGeneration   \* bound: nobody is admitted from this generation on

ASSUME BreakerBounds == MaxGeneration \in Nat

VARIABLES
    breaker,  \* the mutex-protected Inner
    permit,   \* the permit each caller holds
    quiet,    \* history: ticks since the last failure that counted, saturated
    hint      \* history: the last refusal of each caller still being waited out

vars == <<breaker, permit, quiet, hint>>

NoHint == [left |-> 0, generation |-> -1]

TypeOK ==
    /\ breaker \in Inner
    /\ permit \in [Callers -> BreakerPermit \cup {NoPermit}]
    /\ quiet \in 0 .. Cooldown
    /\ hint \in [Callers -> [left : Nat, generation : Nat \cup {-1}]]

Init ==
    /\ breaker = NewBreaker
    /\ permit = [c \in Callers |-> NoPermit]
    /\ quiet = Cooldown
    /\ hint = [c \in Callers |-> NoHint]

Admit(c) ==
    /\ permit[c] = NoPermit
    /\ breaker.generation < MaxGeneration
    /\ Admits(breaker)
    /\ breaker' = Admitted(breaker)
    /\ permit' = [permit EXCEPT ![c] = AdmittedPermit(breaker)]
    /\ hint' = [hint EXCEPT ![c] = NoHint]
    /\ UNCHANGED quiet

\* A refused caller is told how long to wait.
Refuse(c) ==
    /\ permit[c] = NoPermit
    /\ ~Admits(breaker)
    /\ hint' = [hint EXCEPT ![c] =
                   [left |-> RetryAfterSecs(breaker) * TicksPerSec,
                    generation |-> breaker.generation]]
    /\ UNCHANGED <<breaker, permit, quiet>>

Record(c, failed) ==
    /\ permit[c] # NoPermit
    /\ breaker' = Recorded(breaker, permit[c], failed)
    /\ permit' = [permit EXCEPT ![c] = NoPermit]
    /\ quiet' = IF failed /\ breaker' # breaker THEN 0 ELSE quiet
    /\ UNCHANGED hint

Cancel(c) ==
    /\ permit[c] # NoPermit
    /\ breaker' = Cancelled(breaker, permit[c])
    /\ permit' = [permit EXCEPT ![c] = NoPermit]
    /\ UNCHANGED <<quiet, hint>>

Tick ==
    /\ breaker' = Aged(breaker)
    /\ quiet' = IF quiet < Cooldown THEN quiet + 1 ELSE quiet
    /\ hint' = [c \in Callers |->
                   [hint[c] EXCEPT !.left = IF @ > 0 THEN @ - 1 ELSE 0]]
    /\ UNCHANGED permit

Next ==
    \/ \E c \in Callers : \/ Admit(c)
                          \/ Refuse(c)
                          \/ \E failed \in BOOLEAN : Record(c, failed)
                          \/ Cancel(c)
    \/ Tick

Spec == Init /\ [][Next]_vars

-----------------------------------------------------------------------------
LiveProbe(c) == permit[c].probe /\ Live(breaker, permit[c])

\* The breaker is half-open exactly while one caller holds the current probe
\* permit.  Two holders would be two probes; none would leave the breaker
\* half-open, refusing everybody, for ever.
HalfOpenHasOneProbe ==
    /\ breaker.state = "HalfOpen" => \E c \in Callers : LiveProbe(c)
    /\ \A c \in Callers : LiveProbe(c) => breaker.state = "HalfOpen"
    /\ \A c, d \in Callers : LiveProbe(c) /\ LiveProbe(d) => c = d

\* An open or half-open breaker always knows when it opened.  `admit` reads a
\* missing `opened_at` as zero elapsed time, so an open breaker without one
\* would never be due for a probe again.
TrippedKnowsWhen == breaker.state # "Closed" <=> breaker.opened_ago # NotOpened

\* A closed breaker is always below its threshold: closing forgets the failures
\* that opened it, so one failure after a recovery does not reopen the circuit
\* of a breaker configured to tolerate several.
ClosedBelowThreshold ==
    breaker.state = "Closed" => breaker.consecutive_failures < FailureThreshold

\* A probe is in flight only after a full cooldown without any failure that
\* counted: a failed probe starts a fresh cooldown, and outcomes of calls
\* admitted in earlier generations neither shorten nor prolong one.
ProbeAfterCooldown == breaker.state = "HalfOpen" => quiet = Cooldown

\* Waiting out the Retry-After of a refusal is enough: unless the breaker moved
\* on in the meantime, the caller is admitted.  (A refusal while a probe is in
\* flight promises nothing: that probe may take longer than the cooldown.)
RetryAfterSuffices ==
    \A c \in Callers :
        /\ hint[c].left = 0
        /\ hint[c].generation = breaker.generation
        /\ breaker.state # "HalfOpen"
        => Admits(breaker)

-----------------------------------------------------------------------------
(***************************************************************************)
(* The inductive invariant behind the properties above.  Every change of   *)
(* state opens a new generation, so a permit of the current generation     *)
(* still knows the state it was handed out in.                             *)
(***************************************************************************)

\* No permit comes from the future, one of the current generation fits the
\* current state, and no two callers share a probe.
PermitsAreFenced ==
    /\ \A c \in Callers :
          /\ permit[c].generation =< breaker.generation
          /\ Live(breaker, permit[c]) =>
                breaker.state = (IF permit[c].probe THEN "HalfOpen" ELSE "Closed")
    /\ \A c, d \in Callers :
          /\ permit[c].probe /\ permit[d].probe
          /\ permit[c].generation = permit[d].generation
          => c = d

\* The quiet period is at least as long as the breaker has been open.
QuietSinceOpened ==
    /\ breaker.state # "Closed" => quiet >= breaker.opened_ago
    /\ breaker.state = "HalfOpen" => breaker.opened_ago = Cooldown

\* A hint given in the current generation never runs out before the cooldown.
HintsCoverCooldown ==
    \A c \in Callers :
        /\ hint[c].generation =< breaker.generation
        /\ hint[c].generation = breaker.generation /\ breaker.state = "Open"
              => breaker.opened_ago + hint[c].left >= Cooldown

IndInv ==
    /\ TypeOK
    /\ HalfOpenHasOneProbe
    /\ TrippedKnowsWhen
    /\ ClosedBelowThreshold
    /\ PermitsAreFenced
    /\ QuietSinceOpened
    /\ HintsCoverCooldown

-----------------------------------------------------------------------------
(***************************************************************************)
(* What the breaker promises, without generations or instants.             *)
(***************************************************************************)

TokenOf(c) ==
    IF permit[c] = NoPermit THEN "none"
    ELSE IF ~Live(breaker, permit[c]) THEN "stale"
    ELSE IF permit[c].probe THEN "probe" ELSE "call"

Promise == INSTANCE CircuitBreaker
    WITH status <- breaker.state,
         cooled <- (breaker.opened_ago = Cooldown),
         token <- [c \in Callers |-> TokenOf(c)]

\* The generation-fenced breaker implements the abstract circuit breaker.
ImplementsPromise == Promise!Spec
=============================================================================
