--------------------------- MODULE CircuitBreaker ---------------------------
(***************************************************************************)
(* What a pool's circuit breaker promises its callers, with no generation  *)
(* counter, failure counter or clock: a call's verdict counts only in the  *)
(* era it was admitted in, one probe at a time decides whether the circuit *)
(* closes, and a probe nobody decides on lets the next caller probe.       *)
(***************************************************************************)
EXTENDS Naturals

CONSTANT Callers

VARIABLES
    status,  \* "Closed", "HalfOpen" or "Open"
    cooled,  \* has the cooldown of the last opening run out?
    token    \* what each caller holds: "none", "call", "probe" or "stale"

vars == <<status, cooled, token>>

Init ==
    /\ status = "Closed"
    /\ cooled = FALSE
    /\ token = [c \in Callers |-> "none"]

\* c gives up its token; on a new era everybody else's becomes worthless.
Spend(c) == token' = [token EXCEPT ![c] = "none"]

SpendAndRetireOthers(c) ==
    token' = [d \in Callers |-> IF d = c \/ token[d] = "none" THEN "none" ELSE "stale"]

AdmitCall(c) ==
    /\ status = "Closed"
    /\ token[c] = "none"
    /\ token' = [token EXCEPT ![c] = "call"]
    /\ UNCHANGED <<status, cooled>>

AdmitProbe(c) ==
    /\ status = "Open"
    /\ cooled
    /\ token[c] = "none"
    /\ status' = "HalfOpen"
    /\ token' = [token EXCEPT ![c] = "probe"]
    /\ UNCHANGED cooled

\* A verdict that changes nothing: a success, a failure below the threshold,
\* an abandoned call, or any verdict of an earlier era.
Settle(c) ==
    /\ token[c] \in {"call", "stale"}
    /\ Spend(c)
    /\ UNCHANGED <<status, cooled>>

Trip(c) ==
    /\ token[c] = "call"
    /\ status' = "Open"
    /\ cooled' = FALSE
    /\ SpendAndRetireOthers(c)

ProbeFails(c) ==
    /\ token[c] = "probe"
    /\ status' = "Open"
    /\ cooled' = FALSE
    /\ Spend(c)

\* Mutant: a successful probe only makes way for the next one.
ProbeSucceedsInVain(c) ==
    /\ token[c] = "probe"
    /\ status' = "Open"
    /\ cooled' = TRUE
    /\ Spend(c)

ProbeSucceeds(c) ==
    /\ token[c] = "probe"
    /\ status' = "Closed"
    /\ cooled' = FALSE
    /\ Spend(c)

ProbeAbandoned(c) ==
    /\ token[c] = "probe"
    /\ status' = "Open"
    /\ Spend(c)
    /\ UNCHANGED cooled

CoolDown ==
    /\ status = "Open"
    /\ ~cooled
    /\ cooled' = TRUE
    /\ UNCHANGED <<status, token>>

Next ==
    \/ \E c \in Callers : \/ AdmitCall(c)
                          \/ AdmitProbe(c)
                          \/ Settle(c)
                          \/ Trip(c)
                          \/ ProbeFails(c)
                          \/ ProbeSucceeds(c)
                          \/ ProbeAbandoned(c)
    \/ CoolDown

Spec == Init /\ [][Next]_vars

-----------------------------------------------------------------------------
(***************************************************************************)
(* Liveness.  Time passes, requests keep arriving, and an admitted request *)
(* ends: its commands and its HTTP handler run under timeouts, and both    *)
(* guards report when they are dropped.  A probe that is retried for ever  *)
(* is not abandoned by its client every single time.                       *)
(***************************************************************************)
Decide(c) ==
    \/ Settle(c) \/ Trip(c)
    \/ ProbeFails(c) \/ ProbeSucceeds(c) \/ ProbeAbandoned(c)

Fairness ==
    /\ WF_vars(CoolDown)
    /\ WF_vars(\E c \in Callers : AdmitProbe(c))
    /\ \A c \in Callers : WF_vars(Decide(c))
    /\ SF_vars(\E c \in Callers : ProbeFails(c) \/ ProbeSucceeds(c))

FairSpec == Spec /\ Fairness

\* Once probes stop failing, a circuit that is open closes: half-open, in which
\* the breaker refuses everybody, never lasts, whatever becomes of the request
\* that probes.
RecoversWithBackend ==
    <>[][\A c \in Callers : ~ProbeFails(c)]_vars
        => (status # "Closed" ~> status = "Closed")
=============================================================================
