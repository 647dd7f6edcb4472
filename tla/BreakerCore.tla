---------------------------- MODULE BreakerCore ----------------------------
(***************************************************************************)
(* The circuit breaker of domain/breaker.rs as operators on a value: the   *)
(* fields of `Inner`, and what each method makes of them.  Every method    *)
(* runs under the mutex around `Inner`, so one operator is one atomic      *)
(* step; Breaker and Acquire say who takes these steps, and when.          *)
(*                                                                         *)
(* Time is counted in ticks, TicksPerSec of them to a second.  `opened_at` *)
(* is kept as `opened_ago`, the ticks since that instant, saturated at     *)
(* Cooldown: the code never looks at an elapsed time beyond it.  The       *)
(* generation is a u64 that wraps; here it is a natural number, so the     *)
(* model covers the behaviours before the 2^64th transition.               *)
(***************************************************************************)
EXTENDS Integers

CONSTANTS
    FailureThreshold,  \* breaker.failure_threshold
    Cooldown,          \* breaker.cooldown_ms, in ticks
    TicksPerSec        \* the clock's resolution

\* Config::validate rejects a zero threshold and a zero cooldown.
ASSUME BreakerConfig ==
    /\ FailureThreshold \in Nat \ {0}
    /\ Cooldown \in Nat \ {0}
    /\ TicksPerSec \in Nat \ {0}

BreakerState == {"Closed", "HalfOpen", "Open"}

NotOpened == -1   \* opened_at = None

Inner == [state : BreakerState,
          consecutive_failures : Nat,
          opened_ago : {NotOpened} \cup (0 .. Cooldown),
          generation : Nat]

BreakerPermit == [generation : Nat, probe : BOOLEAN]
NoPermit == [generation |-> -1, probe |-> FALSE]

NewBreaker == [state |-> "Closed",
               consecutive_failures |-> 0,
               opened_ago |-> NotOpened,
               generation |-> 0]

(***************************************************************************)
(* Time.                                                                   *)
(***************************************************************************)

Elapsed(b) == IF b.opened_ago = NotOpened THEN 0 ELSE b.opened_ago

\* One tick of the injected clock, as the breaker sees it.
Aged(b) ==
    IF b.opened_ago \in 0 .. (Cooldown - 1)
    THEN [b EXCEPT !.opened_ago = @ + 1]
    ELSE b

\* Mutant: rounds down.
seconds_floor(ticks) == ticks \div TicksPerSec

seconds_ceil(ticks) ==
    ticks \div TicksPerSec + (IF ticks % TicksPerSec > 0 THEN 1 ELSE 0)

(***************************************************************************)
(* Every change of state opens a new generation.                           *)
(***************************************************************************)

\* Mutant: the generation stays.
TransitionSameEra(b, state, failures, opened_ago) ==
    [state |-> state, consecutive_failures |-> failures,
     opened_ago |-> opened_ago, generation |-> b.generation]

Transition(b, state, failures, opened_ago) ==
    [state |-> state, consecutive_failures |-> failures,
     opened_ago |-> opened_ago, generation |-> b.generation + 1]

Opened(b) == Transition(b, "Open", b.consecutive_failures, 0)

(***************************************************************************)
(* admit.                                                                  *)
(***************************************************************************)

Admits(b) ==
    \/ b.state = "Closed"
    \/ b.state = "Open" /\ Elapsed(b) >= Cooldown

\* The breaker after an admission: the first one due after the cooldown is the
\* probe, and takes the breaker to half-open.
Admitted(b) ==
    IF b.state = "Closed"
    THEN b
    ELSE Transition(b, "HalfOpen", b.consecutive_failures, b.opened_ago)

AdmittedPermit(b) ==
    IF b.state = "Closed"
    THEN [generation |-> b.generation, probe |-> FALSE]
    ELSE [generation |-> b.generation + 1, probe |-> TRUE]

\* The Retry-After of a refusal, in seconds.
RetryAfterSecs(b) ==
    seconds_ceil(IF b.state = "HalfOpen" THEN Cooldown ELSE Cooldown - Elapsed(b))

(***************************************************************************)
(* record and cancel.                                                      *)
(***************************************************************************)

Live(b, p) == p.generation = b.generation

\* Mutant: a failed probe keeps the instant of the first opening.
ProbeRecordedKeepingInstant(b, failed) ==
    IF failed THEN Transition(b, "Open", b.consecutive_failures, b.opened_ago)
    ELSE Transition(b, "Closed", 0, NotOpened)

ProbeRecorded(b, failed) ==
    IF failed THEN Opened(b) ELSE Transition(b, "Closed", 0, NotOpened)

Counted(b) == [b EXCEPT !.consecutive_failures = @ + 1]

CallRecorded(b, failed) ==
    IF ~failed THEN [b EXCEPT !.consecutive_failures = 0]
    ELSE IF Counted(b).consecutive_failures >= FailureThreshold
         THEN Opened(Counted(b))
         ELSE Counted(b)

\* Mutant: outcomes are not fenced by their generation.
RecordedUnfenced(b, p, failed) ==
    CASE p.probe /\ b.state = "HalfOpen" -> ProbeRecorded(b, failed)
      [] ~p.probe /\ b.state = "Closed"  -> CallRecorded(b, failed)
      [] OTHER                           -> b

Recorded(b, p, failed) ==
    CASE Live(b, p) /\ p.probe /\ b.state = "HalfOpen" -> ProbeRecorded(b, failed)
      [] Live(b, p) /\ ~p.probe /\ b.state = "Closed"  -> CallRecorded(b, failed)
      [] OTHER                                         -> b

Cancelled(b, p) ==
    IF p.probe /\ b.state = "HalfOpen" /\ Live(b, p)
    THEN Transition(b, "Open", b.consecutive_failures, b.opened_ago)
    ELSE b
=============================================================================
