--------------------------- MODULE BreakerProofs ---------------------------
(***************************************************************************)
(* The breaker's safety properties for any number of callers, any          *)
(* threshold, cooldown and clock resolution.                               *)
(***************************************************************************)
EXTENDS Breaker, TLAPS

USE BreakerConfig, BreakerBounds

\* Rounding a duration up to whole seconds never shortens it: the seconds_ceil
\* behind every Retry-After.
LEMMA CeilCovers ==
    ASSUME NEW d \in Nat
    PROVE  /\ seconds_ceil(d) \in Nat
           /\ seconds_ceil(d) * TicksPerSec >= d
<1> DEFINE T == TicksPerSec
           q == d \div T
           r == d % T
<1>1. T \in Nat \ {0} /\ q \in Nat /\ r \in 0 .. (T - 1) /\ d = q * T + r
  BY DEF BreakerConfig
<1>2. CASE r > 0
  <2>1. seconds_ceil(d) = q + 1
    BY <1>2 DEF seconds_ceil
  <2>2. (q + 1) * T = q * T + T
    BY <1>1
  <2>. QED BY <1>1, <2>1, <2>2
<1>3. CASE r = 0
  <2>1. seconds_ceil(d) = q
    BY <1>1, <1>3 DEF seconds_ceil
  <2>. QED BY <1>1, <1>3, <2>1
<1>. QED BY <1>1, <1>2, <1>3

-----------------------------------------------------------------------------
(***************************************************************************)
(* What the methods of the breaker make of a well-typed value.             *)
(***************************************************************************)

\* Every operation keeps Inner's type.
LEMMA TransitionType ==
    ASSUME NEW b \in Inner, NEW s \in BreakerState, NEW n \in Nat,
           NEW t \in {NotOpened} \cup (0 .. Cooldown)
    PROVE  Transition(b, s, n, t) \in Inner
BY DEF Transition, Inner

\* A recorded outcome either is ignored, counts towards the threshold, opens
\* the breaker in a new generation, or (a successful probe) closes it in one.
LEMMA RecordedCases ==
    ASSUME NEW b \in Inner, NEW p \in BreakerPermit, NEW failed \in BOOLEAN
    PROVE  /\ Recorded(b, p, failed) \in Inner
           /\ \/ Recorded(b, p, failed) = b
              \/ /\ Live(b, p) /\ ~p.probe /\ b.state = "Closed" /\ ~failed
                 /\ Recorded(b, p, failed) = [b EXCEPT !.consecutive_failures = 0]
              \/ /\ Live(b, p) /\ ~p.probe /\ b.state = "Closed" /\ failed
                 /\ b.consecutive_failures + 1 < FailureThreshold
                 /\ Recorded(b, p, failed) =
                       [b EXCEPT !.consecutive_failures = b.consecutive_failures + 1]
              \/ /\ Live(b, p) /\ ~p.probe /\ b.state = "Closed" /\ failed
                 /\ Recorded(b, p, failed) = Opened(Counted(b))
              \/ /\ Live(b, p) /\ p.probe /\ b.state = "HalfOpen" /\ failed
                 /\ Recorded(b, p, failed) = Opened(b)
              \/ /\ Live(b, p) /\ p.probe /\ b.state = "HalfOpen" /\ ~failed
                 /\ Recorded(b, p, failed) =
                       Transition(b, "Closed", 0, NotOpened)
<1> DEFINE R == Recorded(b, p, failed)
<1>1. Counted(b) \in Inner
  BY DEF Counted, Inner
<1>2. CASE Live(b, p) /\ p.probe /\ b.state = "HalfOpen"
  <2>1. R = ProbeRecorded(b, failed)
    BY <1>2 DEF Recorded
  <2>. QED BY <1>2, <2>1, TransitionType
           DEF ProbeRecorded, Opened, Inner, BreakerState, BreakerConfig
<1>3. CASE Live(b, p) /\ ~p.probe /\ b.state = "Closed"
  <2>1. R = CallRecorded(b, failed)
    BY <1>3 DEF Recorded
  <2>2. Opened(Counted(b)) \in Inner
    BY <1>1, TransitionType DEF Opened, Inner, BreakerState, BreakerConfig
  <2>. QED BY <1>1, <1>3, <2>1, <2>2 DEF CallRecorded, Counted, Inner
<1>4. CASE /\ ~(Live(b, p) /\ p.probe /\ b.state = "HalfOpen")
           /\ ~(Live(b, p) /\ ~p.probe /\ b.state = "Closed")
  BY <1>4 DEF Recorded
<1>. QED BY <1>2, <1>3, <1>4

\* A cancelled permit reopens the breaker in a new generation if it is the live
\* probe's, and changes nothing otherwise.
LEMMA CancelledCases ==
    ASSUME NEW b \in Inner, NEW p \in BreakerPermit
    PROVE  /\ Cancelled(b, p) \in Inner
           /\ \/ Cancelled(b, p) = b
              \/ /\ p.probe /\ b.state = "HalfOpen" /\ Live(b, p)
                 /\ Cancelled(b, p) =
                       Transition(b, "Open", b.consecutive_failures, b.opened_ago)
BY TransitionType DEF Cancelled, Inner, BreakerState

-----------------------------------------------------------------------------
(***************************************************************************)
(* The invariant is inductive.                                             *)
(***************************************************************************)

\* A new breaker satisfies the invariant.
LEMMA InitIndInv == Init => IndInv
BY DEF Init, IndInv, TypeOK, HalfOpenHasOneProbe, TrippedKnowsWhen,
       ClosedBelowThreshold, PermitsAreFenced, QuietSinceOpened,
       HintsCoverCooldown, LiveProbe, Live, NewBreaker, NoPermit, NoHint,
       NotOpened, Inner, BreakerState, BreakerPermit, BreakerConfig

\* An admission to a closed breaker leaves it alone; any other is the probe.
LEMMA AdmitIndInv ==
    ASSUME IndInv, NEW c \in Callers, Admit(c)
    PROVE  IndInv'
<1> USE DEF IndInv, NoPermit
<1>1. CASE breaker.state = "Closed"
  <2>1. /\ breaker' = breaker
        /\ permit' = [permit EXCEPT ![c] =
                         [generation |-> breaker.generation, probe |-> FALSE]]
        /\ hint' = [hint EXCEPT ![c] = NoHint]
        /\ quiet' = quiet
    BY <1>1 DEF Admit, Admitted, AdmittedPermit
  <2>2. TypeOK'
    BY <2>1 DEF TypeOK, Inner, BreakerPermit, NoHint
  <2>3. HalfOpenHasOneProbe' /\ PermitsAreFenced'
    BY <1>1, <2>1
    DEF TypeOK, HalfOpenHasOneProbe, PermitsAreFenced, LiveProbe, Live, Inner, BreakerPermit
  <2>4. TrippedKnowsWhen' /\ ClosedBelowThreshold' /\ QuietSinceOpened'
    BY <2>1 DEF TrippedKnowsWhen, ClosedBelowThreshold, QuietSinceOpened
  <2>5. HintsCoverCooldown'
    BY <1>1, <2>1 DEF HintsCoverCooldown, TypeOK, Inner, NoHint
  <2>. QED BY <2>2, <2>3, <2>4, <2>5
<1>2. CASE breaker.state # "Closed"
  <2>0. /\ breaker.state = "Open"
        /\ breaker.opened_ago = Cooldown
        /\ breaker.generation \in Nat
    <3>1. breaker.state = "Open" /\ Elapsed(breaker) >= Cooldown
      BY <1>2 DEF Admit, Admits
    <3>2. /\ breaker.opened_ago \in {-1} \cup (0 .. Cooldown)
          /\ breaker.generation \in Nat
      BY DEF TypeOK, Inner, NotOpened
    <3>. QED BY <3>1, <3>2 DEF Elapsed, NotOpened, BreakerConfig
  <2>1. /\ breaker' = [state |-> "HalfOpen",
                       consecutive_failures |-> breaker.consecutive_failures,
                       opened_ago |-> breaker.opened_ago,
                       generation |-> breaker.generation + 1]
        /\ permit' = [permit EXCEPT ![c] =
                         [generation |-> breaker.generation + 1, probe |-> TRUE]]
        /\ hint' = [hint EXCEPT ![c] = NoHint]
        /\ quiet' = quiet
    BY <1>2 DEF Admit, Admitted, AdmittedPermit, Transition
  <2>2. TypeOK'
    BY <2>0, <2>1 DEF TypeOK, Inner, BreakerState, BreakerPermit, NoHint
  <2>3. HalfOpenHasOneProbe' /\ PermitsAreFenced'
    BY <2>0, <2>1, <2>2, SMTT(30)
    DEF TypeOK, HalfOpenHasOneProbe, PermitsAreFenced, LiveProbe, Live, BreakerPermit
  <2>4. TrippedKnowsWhen' /\ ClosedBelowThreshold' /\ QuietSinceOpened'
    BY <2>0, <2>1
    DEF TrippedKnowsWhen, ClosedBelowThreshold, QuietSinceOpened, NotOpened, BreakerConfig
  <2>5. HintsCoverCooldown'
    BY <2>0, <2>1 DEF HintsCoverCooldown, TypeOK, Inner, NoHint
  <2>. QED BY <2>2, <2>3, <2>4, <2>5
<1>. QED BY <1>1, <1>2

\* A refusal only hands out a hint, and RetryAfterSecs covers the cooldown.
LEMMA RefuseIndInv ==
    ASSUME IndInv, NEW c \in Callers, Refuse(c)
    PROVE  IndInv'
<1> USE DEF IndInv
<1> DEFINE w == RetryAfterSecs(breaker) * TicksPerSec
<1>1. /\ breaker' = breaker /\ permit' = permit /\ quiet' = quiet
      /\ hint' = [hint EXCEPT ![c] = [left |-> w, generation |-> breaker.generation]]
  BY DEF Refuse
<1>2. /\ w \in Nat
      /\ breaker.state = "Open" => breaker.opened_ago + w >= Cooldown
  <2>1. /\ breaker.state \in BreakerState
        /\ breaker.opened_ago \in {-1} \cup (0 .. Cooldown)
    BY DEF TypeOK, Inner, NotOpened
  <2>2. CASE breaker.state = "HalfOpen"
    BY <2>2, CeilCovers DEF RetryAfterSecs, BreakerConfig
  <2>3. CASE breaker.state # "HalfOpen"
    <3>1. /\ Elapsed(breaker) \in 0 .. Cooldown
          /\ breaker.state = "Open" => Elapsed(breaker) = breaker.opened_ago
      BY <2>1 DEF Elapsed, NotOpened, TrippedKnowsWhen, BreakerConfig
    <3>2. Cooldown - Elapsed(breaker) \in Nat
      BY <3>1 DEF BreakerConfig
    <3>3. RetryAfterSecs(breaker) = seconds_ceil(Cooldown - Elapsed(breaker))
      BY <2>3 DEF RetryAfterSecs
    <3>4. /\ seconds_ceil(Cooldown - Elapsed(breaker)) \in Nat
          /\ seconds_ceil(Cooldown - Elapsed(breaker)) * TicksPerSec
                >= Cooldown - Elapsed(breaker)
      BY <3>2, CeilCovers
    <3>5. w \in Nat /\ w >= Cooldown - Elapsed(breaker)
      BY <3>3, <3>4 DEF BreakerConfig
    <3>. QED BY <2>1, <3>1, <3>5 DEF BreakerConfig
  <2>. QED BY <2>2, <2>3
<1> HIDE DEF w
<1>3. TypeOK'
  BY <1>1, <1>2 DEF TypeOK, Inner
<1>4. /\ HalfOpenHasOneProbe' /\ PermitsAreFenced'
      /\ TrippedKnowsWhen' /\ ClosedBelowThreshold' /\ QuietSinceOpened'
  BY <1>1 DEF HalfOpenHasOneProbe, PermitsAreFenced, LiveProbe, Live,
              TrippedKnowsWhen, ClosedBelowThreshold, QuietSinceOpened
<1>5. HintsCoverCooldown'
  BY <1>1, <1>2 DEF HintsCoverCooldown, TypeOK, Inner
<1>. QED BY <1>3, <1>4, <1>5

\* A new generation outdates every permit that is still out.
LEMMA NewGenerationFences ==
    ASSUME IndInv, NEW c \in Callers,
           permit' = [permit EXCEPT ![c] = NoPermit],
           breaker'.generation = breaker.generation + 1,
           breaker'.state # "HalfOpen"
    PROVE  HalfOpenHasOneProbe' /\ PermitsAreFenced'
<1>1. \A d \in Callers : /\ permit'[d].generation < breaker'.generation
                         /\ permit'[d] = permit[d] \/ permit'[d] = NoPermit
  BY DEF IndInv, TypeOK, PermitsAreFenced, Inner, BreakerPermit, NoPermit
<1>2. breaker'.generation \in Nat
  BY DEF IndInv, TypeOK, Inner
<1>3. \A d \in Callers : permit'[d].generation \in Nat \cup {-1}
  BY DEF IndInv, TypeOK, BreakerPermit, NoPermit
<1>4. \A d \in Callers : ~Live(breaker, permit[d])'
  BY <1>1, <1>2, <1>3 DEF Live
<1>5. PermitsAreFenced'
  BY <1>1, <1>2, <1>3, <1>4 DEF PermitsAreFenced, IndInv, NoPermit, TypeOK
<1>. QED BY <1>4, <1>5 DEF HalfOpenHasOneProbe, LiveProbe

\* A permit that is no live probe can be given back in the same generation.
LEMMA SameGenerationFences ==
    ASSUME IndInv, NEW c \in Callers,
           permit' = [permit EXCEPT ![c] = NoPermit],
           breaker'.generation = breaker.generation,
           breaker'.state = breaker.state,
           ~LiveProbe(c)
    PROVE  HalfOpenHasOneProbe' /\ PermitsAreFenced'
<1>1. \A d \in Callers : IF d = c THEN permit'[d] = NoPermit ELSE permit'[d] = permit[d]
  BY DEF IndInv, TypeOK
<1>2. breaker.generation \in Nat
  BY DEF IndInv, TypeOK, Inner
<1>3. ~LiveProbe(c)' /\ \A d \in Callers : d # c => LiveProbe(d)' = LiveProbe(d)
  BY <1>1 DEF LiveProbe, Live, NoPermit
<1>4. HalfOpenHasOneProbe'
  BY <1>3 DEF IndInv, HalfOpenHasOneProbe
<1>5. PermitsAreFenced'
  BY <1>1, <1>2 DEF IndInv, PermitsAreFenced, Live, NoPermit
<1>. QED BY <1>4, <1>5

\* A recorded outcome: one step per case of RecordedCases.
LEMMA RecordIndInv ==
    ASSUME IndInv, NEW c \in Callers, NEW failed \in BOOLEAN, Record(c, failed)
    PROVE  IndInv'
<1> DEFINE p == permit[c]
<1>0. /\ p \in BreakerPermit
      /\ breaker \in Inner
      /\ quiet \in 0 .. Cooldown
  BY DEF IndInv, TypeOK, Record
<1>1. /\ breaker' = Recorded(breaker, p, failed)
      /\ breaker' \in Inner
      /\ permit' = [permit EXCEPT ![c] = NoPermit]
      /\ hint' = hint
      /\ quiet' = IF failed /\ breaker' # breaker THEN 0 ELSE quiet
  BY <1>0, RecordedCases DEF Record
<1>2. TypeOK'
  BY <1>0, <1>1 DEF IndInv, TypeOK, BreakerConfig
<1>a. ASSUME breaker' = breaker, ~LiveProbe(c) PROVE IndInv'
  <2>1. quiet' = quiet
    BY <1>a, <1>1
  <2>2. HalfOpenHasOneProbe' /\ PermitsAreFenced'
    BY <1>1, <1>a, SameGenerationFences
  <2>3. /\ TrippedKnowsWhen' /\ ClosedBelowThreshold'
        /\ QuietSinceOpened' /\ HintsCoverCooldown'
    BY <1>1, <1>a, <2>1
    DEF IndInv, TrippedKnowsWhen, ClosedBelowThreshold, QuietSinceOpened, HintsCoverCooldown
  <2>. QED BY <1>2, <2>2, <2>3 DEF IndInv
<1>b. ASSUME NEW n \in Nat, n < FailureThreshold,
             breaker.state = "Closed", ~p.probe,
             breaker' = [breaker EXCEPT !.consecutive_failures = n]
      PROVE  IndInv'
  <2>1. /\ breaker'.state = breaker.state
        /\ breaker'.generation = breaker.generation
        /\ breaker'.opened_ago = breaker.opened_ago
        /\ breaker'.consecutive_failures = n
    BY <1>0, <1>b DEF Inner
  <2>2. HalfOpenHasOneProbe' /\ PermitsAreFenced'
    BY <1>1, <1>b, <2>1, SameGenerationFences DEF LiveProbe
  <2>3. TrippedKnowsWhen' /\ ClosedBelowThreshold' /\ QuietSinceOpened'
    BY <1>b, <2>1
    DEF IndInv, TrippedKnowsWhen, ClosedBelowThreshold, QuietSinceOpened
  <2>4. HintsCoverCooldown'
    BY <1>1, <1>b, <2>1 DEF IndInv, HintsCoverCooldown
  <2>. QED BY <1>2, <2>2, <2>3, <2>4 DEF IndInv
<1>c. ASSUME breaker'.generation = breaker.generation + 1,
             \/ /\ breaker'.state = "Open"
                /\ breaker'.opened_ago = 0
             \/ /\ breaker'.state = "Closed"
                /\ breaker'.opened_ago = NotOpened
                /\ breaker'.consecutive_failures = 0
      PROVE  IndInv'
  <2>1. HalfOpenHasOneProbe' /\ PermitsAreFenced'
    BY <1>1, <1>c, NewGenerationFences
  <2>2. TrippedKnowsWhen' /\ ClosedBelowThreshold' /\ QuietSinceOpened'
    BY <1>0, <1>1, <1>c
    DEF TrippedKnowsWhen, ClosedBelowThreshold, QuietSinceOpened, NotOpened, BreakerConfig
  <2>3. HintsCoverCooldown'
    BY <1>0, <1>1, <1>c DEF IndInv, TypeOK, HintsCoverCooldown, Inner
  <2>. QED BY <1>2, <2>1, <2>2, <2>3 DEF IndInv
<1>3. CASE breaker' = breaker
  <2>1. ~LiveProbe(c)
    <3> SUFFICES ASSUME LiveProbe(c) PROVE FALSE
      OBVIOUS
    <3>1. Live(breaker, p) /\ p.probe /\ breaker.state = "HalfOpen"
      BY DEF IndInv, HalfOpenHasOneProbe, LiveProbe
    <3>2. breaker' = ProbeRecorded(breaker, failed)
      BY <1>1, <3>1 DEF Recorded
    <3>. QED BY <1>0, <1>3, <3>2 DEF ProbeRecorded, Opened, Transition, Inner
  <2>. QED BY <1>3, <2>1, <1>a
<1>4. CASE /\ ~p.probe /\ breaker.state = "Closed"
           /\ breaker' = [breaker EXCEPT !.consecutive_failures = 0]
  BY <1>4, <1>b DEF BreakerConfig
<1>5. CASE /\ ~p.probe /\ breaker.state = "Closed"
           /\ breaker.consecutive_failures + 1 < FailureThreshold
           /\ breaker' =
                 [breaker EXCEPT !.consecutive_failures = breaker.consecutive_failures + 1]
  BY <1>0, <1>5, <1>b DEF Inner
<1>6. CASE breaker' = Opened(Counted(breaker)) \/ breaker' = Opened(breaker)
  <2>1. Counted(breaker).generation = breaker.generation
    BY <1>0 DEF Counted, Inner
  <2>. QED BY <1>6, <1>c, <2>1 DEF Opened, Transition
<1>7. CASE breaker' = Transition(breaker, "Closed", 0, NotOpened)
  BY <1>7, <1>c DEF Transition
<1>. QED BY <1>0, <1>1, <1>3, <1>4, <1>5, <1>6, <1>7, RecordedCases

\* A cancelled probe reopens the breaker with the old opening instant.
LEMMA CancelIndInv ==
    ASSUME IndInv, NEW c \in Callers, Cancel(c)
    PROVE  IndInv'
<1>0. /\ permit[c] \in BreakerPermit
      /\ breaker \in Inner
  BY DEF IndInv, TypeOK, Cancel
<1>1. /\ breaker' = Cancelled(breaker, permit[c])
      /\ breaker' \in Inner
      /\ permit' = [permit EXCEPT ![c] = NoPermit]
      /\ hint' = hint /\ quiet' = quiet
  BY <1>0, CancelledCases DEF Cancel
<1>2. TypeOK'
  BY <1>1 DEF IndInv, TypeOK
<1>3. CASE LiveProbe(c)
  <2>1. breaker.state = "HalfOpen"
    BY <1>3 DEF IndInv, HalfOpenHasOneProbe
  <2>2. /\ breaker'.state = "Open"
        /\ breaker'.generation = breaker.generation + 1
        /\ breaker'.opened_ago = breaker.opened_ago
    BY <1>1, <1>3, <2>1 DEF Cancelled, LiveProbe, Transition
  <2>3. HalfOpenHasOneProbe' /\ PermitsAreFenced'
    BY <1>1, <2>2, NewGenerationFences
  <2>4. TrippedKnowsWhen' /\ ClosedBelowThreshold' /\ QuietSinceOpened'
    BY <1>1, <2>1, <2>2
    DEF IndInv, TrippedKnowsWhen, ClosedBelowThreshold, QuietSinceOpened
  <2>5. HintsCoverCooldown'
    BY <1>0, <1>1, <2>2 DEF IndInv, TypeOK, HintsCoverCooldown, Inner
  <2>. QED BY <1>2, <2>3, <2>4, <2>5 DEF IndInv
<1>4. CASE ~LiveProbe(c)
  <2>1. breaker' = breaker
    BY <1>1, <1>4 DEF Cancelled, LiveProbe
  <2>2. HalfOpenHasOneProbe' /\ PermitsAreFenced'
    BY <1>1, <1>4, <2>1, SameGenerationFences
  <2>3. /\ TrippedKnowsWhen' /\ ClosedBelowThreshold'
        /\ QuietSinceOpened' /\ HintsCoverCooldown'
    BY <1>1, <2>1
    DEF IndInv, TrippedKnowsWhen, ClosedBelowThreshold, QuietSinceOpened, HintsCoverCooldown
  <2>. QED BY <1>2, <2>2, <2>3 DEF IndInv
<1>. QED BY <1>3, <1>4

\* A tick ages a tripped breaker by one until the cooldown is over, and touches
\* nothing else.
LEMMA AgedCases ==
    ASSUME NEW b \in Inner
    PROVE  /\ Aged(b) \in Inner
           /\ Aged(b).state = b.state
           /\ Aged(b).generation = b.generation
           /\ Aged(b).consecutive_failures = b.consecutive_failures
           /\ Aged(b).opened_ago = IF b.opened_ago \in 0 .. (Cooldown - 1)
                                   THEN b.opened_ago + 1 ELSE b.opened_ago
BY DEF Aged, Inner, BreakerConfig

\* A tick takes one from every hint and adds one to the age of the opening.
LEMMA TickIndInv ==
    ASSUME IndInv, Tick
    PROVE  IndInv'
<1>0. breaker \in Inner /\ quiet \in 0 .. Cooldown /\ Cooldown \in Nat \ {0}
  BY DEF IndInv, TypeOK, BreakerConfig
<1>1. /\ breaker' \in Inner
      /\ breaker'.state = breaker.state
      /\ breaker'.generation = breaker.generation
      /\ breaker'.consecutive_failures = breaker.consecutive_failures
      /\ breaker'.opened_ago = IF breaker.opened_ago \in 0 .. (Cooldown - 1)
                               THEN breaker.opened_ago + 1 ELSE breaker.opened_ago
  BY <1>0, AgedCases DEF Tick
<1>2. breaker.opened_ago \in {-1} \cup (0 .. Cooldown)
  BY <1>0 DEF Inner, NotOpened
<1>3. /\ permit' = permit
      /\ quiet' = IF quiet < Cooldown THEN quiet + 1 ELSE quiet
  BY DEF Tick
<1>4. \A d \in Callers :
          /\ hint[d].left \in Nat
          /\ hint'[d] \in [left : Nat, generation : Nat \cup {-1}]
          /\ hint'[d].generation = hint[d].generation
          /\ hint'[d].left = IF hint[d].left > 0 THEN hint[d].left - 1 ELSE 0
  BY DEF IndInv, TypeOK, Tick
<1>5. TypeOK'
  <2>1. hint' \in [Callers -> [left : Nat, generation : Nat \cup {-1}]]
    BY <1>4 DEF Tick
  <2>. QED BY <1>0, <1>1, <1>3, <2>1 DEF IndInv, TypeOK
<1>6. HalfOpenHasOneProbe' /\ PermitsAreFenced'
  BY <1>1, <1>3 DEF IndInv, HalfOpenHasOneProbe, PermitsAreFenced, LiveProbe, Live
<1>7. TrippedKnowsWhen' /\ ClosedBelowThreshold'
  BY <1>0, <1>1, <1>2 DEF IndInv, TrippedKnowsWhen, ClosedBelowThreshold, NotOpened
<1>8. QuietSinceOpened'
  BY <1>0, <1>1, <1>2, <1>3 DEF IndInv, QuietSinceOpened
<1>9. HintsCoverCooldown'
  <2>1. breaker.state = "Open" => breaker.opened_ago \in 0 .. Cooldown
    BY <1>2 DEF IndInv, TrippedKnowsWhen, NotOpened
  <2>. QED BY <1>0, <1>1, <1>4, <2>1 DEF IndInv, HintsCoverCooldown
<1>. QED BY <1>5, <1>6, <1>7, <1>8, <1>9 DEF IndInv

\* Every step preserves the invariant: one case per action.
LEMMA NextIndInv == IndInv /\ [Next]_vars => IndInv'
<1> SUFFICES ASSUME IndInv, [Next]_vars PROVE IndInv'
  OBVIOUS
<1>1. ASSUME NEW c \in Callers, Admit(c) PROVE IndInv'
  BY <1>1, AdmitIndInv
<1>2. ASSUME NEW c \in Callers, Refuse(c) PROVE IndInv'
  BY <1>2, RefuseIndInv
<1>3. ASSUME NEW c \in Callers, NEW failed \in BOOLEAN, Record(c, failed) PROVE IndInv'
  BY <1>3, RecordIndInv
<1>4. ASSUME NEW c \in Callers, Cancel(c) PROVE IndInv'
  BY <1>4, CancelIndInv
<1>5. CASE Tick
  BY <1>5, TickIndInv
<1>6. CASE UNCHANGED vars
  BY <1>6 DEF vars, IndInv, TypeOK, HalfOpenHasOneProbe, TrippedKnowsWhen,
              ClosedBelowThreshold, PermitsAreFenced, QuietSinceOpened,
              HintsCoverCooldown, LiveProbe, Live
<1>. QED BY <1>1, <1>2, <1>3, <1>4, <1>5, <1>6 DEF Next

\* The inductive invariant holds in every reachable state.
THEOREM BreakerInvariant == Spec => []IndInv
BY InitIndInv, NextIndInv, PTL DEF Spec

-----------------------------------------------------------------------------
(***************************************************************************)
(* The properties, for every number of callers and every configuration.    *)
(***************************************************************************)

\* The breaker's fields and permits stay well typed: in particular the age of
\* an opening never leaves 0 .. Cooldown.
THEOREM BreakerTypeOK == Spec => []TypeOK
BY BreakerInvariant, PTL DEF IndInv

\* Breaker::admit and BreakerPermit: half-open means exactly one live probe.
THEOREM OneProbe == Spec => []HalfOpenHasOneProbe
BY BreakerInvariant, PTL DEF IndInv

\* Breaker::admit's default for a missing opened_at is never used while open.
THEOREM TrippedBreakerKnowsWhen == Spec => []TrippedKnowsWhen
BY BreakerInvariant, PTL DEF IndInv

\* Breaker::record: the count of a closed breaker is below the threshold.
THEOREM ClosedIsBelowThreshold == Spec => []ClosedBelowThreshold
BY BreakerInvariant, PTL DEF IndInv

\* Breaker::admit and record: no probe before a full quiet cooldown.
THEOREM ProbesAwaitCooldown == Spec => []ProbeAfterCooldown
<1>1. IndInv => ProbeAfterCooldown
  BY DEF IndInv, TypeOK, QuietSinceOpened, ProbeAfterCooldown, BreakerConfig
<1>. QED BY BreakerInvariant, <1>1, PTL

\* Breaker::admit and seconds_ceil: waiting out a Retry-After is enough.
THEOREM RetryAfterIsEnough == Spec => []RetryAfterSuffices
<1>1. IndInv => RetryAfterSuffices
  <2> SUFFICES ASSUME IndInv, NEW c \in Callers,
                      hint[c].left = 0,
                      hint[c].generation = breaker.generation,
                      breaker.state # "HalfOpen", breaker.state # "Closed"
               PROVE  Admits(breaker)
    BY DEF RetryAfterSuffices, Admits
  <2>1. breaker.state = "Open" /\ breaker.opened_ago \in {-1} \cup (0 .. Cooldown)
    BY DEF IndInv, TypeOK, Inner, BreakerState, NotOpened
  <2>2. breaker.opened_ago >= Cooldown
    BY <2>1 DEF IndInv, HintsCoverCooldown
  <2>. QED BY <2>1, <2>2 DEF Admits, Elapsed, NotOpened, BreakerConfig
<1>. QED BY BreakerInvariant, <1>1, PTL

-----------------------------------------------------------------------------
(***************************************************************************)
(* The breaker implements CircuitBreaker: a permit is worth what its       *)
(* generation says.                                                        *)
(***************************************************************************)

\* What a caller's permit is worth, and in which state it can be worth that.
LEMMA TokenCases ==
    ASSUME IndInv, NEW c \in Callers
    PROVE  /\ TokenOf(c) \in {"none", "stale", "probe", "call"}
           /\ TokenOf(c) = "none" <=> permit[c] = NoPermit
           /\ TokenOf(c) = "probe" <=> LiveProbe(c)
           /\ TokenOf(c) = "probe" => breaker.state = "HalfOpen"
           /\ TokenOf(c) = "call" <=>
                 permit[c] # NoPermit /\ Live(breaker, permit[c]) /\ ~permit[c].probe
           /\ TokenOf(c) = "call" => breaker.state = "Closed"
<1>1. permit[c] = NoPermit => ~Live(breaker, permit[c]) /\ ~permit[c].probe
  BY DEF IndInv, TypeOK, Inner, Live, NoPermit
<1>2. Live(breaker, permit[c]) =>
         breaker.state = (IF permit[c].probe THEN "HalfOpen" ELSE "Closed")
  BY DEF IndInv, PermitsAreFenced
<1>. QED BY <1>1, <1>2 DEF TokenOf, LiveProbe

\* The token of a caller depends only on its permit and the generation.
LEMMA TokenKept ==
    ASSUME NEW c \in Callers, permit'[c] = permit[c],
           breaker'.generation = breaker.generation
    PROVE  TokenOf(c)' = TokenOf(c)
BY DEF TokenOf, Live

\* In a new generation every permit still out is stale.
LEMMA TokenOutdated ==
    ASSUME IndInv, NEW c \in Callers, permit'[c] = permit[c],
           breaker'.generation = breaker.generation + 1
    PROVE  TokenOf(c)' = IF TokenOf(c) = "none" THEN "none" ELSE "stale"
<1>1. /\ permit[c].generation =< breaker.generation
      /\ permit[c].generation \in Nat \cup {-1}
      /\ breaker.generation \in Nat
  BY DEF IndInv, TypeOK, PermitsAreFenced, Inner, BreakerPermit, NoPermit
<1>2. ~Live(breaker, permit[c])'
  BY <1>1 DEF Live
<1>3. TokenOf(c) = "none" <=> permit[c] = NoPermit
  BY TokenCases
<1>. QED BY <1>2, <1>3 DEF TokenOf

\* Breaker::admit is AdmitCall or AdmitProbe of the promise.
LEMMA AdmitImplements ==
    ASSUME IndInv, IndInv', NEW c \in Callers, Admit(c)
    PROVE  Promise!Next
<1> DEFINE tok == [d \in Callers |-> TokenOf(d)]
<1>0. tok[c] = "none"
  BY TokenCases DEF Admit
<1>1. CASE breaker.state = "Closed"
  <2>1. /\ breaker' = breaker
        /\ permit'[c] = [generation |-> breaker.generation, probe |-> FALSE]
        /\ \A d \in Callers \ {c} : permit'[d] = permit[d]
    BY <1>1 DEF Admit, Admitted, AdmittedPermit, IndInv, TypeOK
  <2>2. TokenOf(c)' = "call"
    BY <2>1 DEF TokenOf, Live, NoPermit, IndInv, TypeOK, Inner
  <2>3. tok' = [tok EXCEPT ![c] = "call"]
    BY <2>1, <2>2, TokenKept
  <2>4. Promise!AdmitCall(c)
    BY <1>0, <1>1, <2>1, <2>3 DEF Promise!AdmitCall
  <2>. QED BY <2>4 DEF Promise!Next
<1>2. CASE breaker.state # "Closed"
  <2>1. breaker.state = "Open" /\ breaker.opened_ago = Cooldown
    <3>1. breaker.state = "Open" /\ Elapsed(breaker) >= Cooldown
      BY <1>2 DEF Admit, Admits
    <3>2. breaker.opened_ago \in {-1} \cup (0 .. Cooldown)
      BY DEF IndInv, TypeOK, Inner, NotOpened
    <3>. QED BY <3>1, <3>2 DEF Elapsed, NotOpened, BreakerConfig
  <2>2. /\ breaker' = Transition(breaker, "HalfOpen",
                                 breaker.consecutive_failures, breaker.opened_ago)
        /\ permit'[c] = [generation |-> breaker.generation + 1, probe |-> TRUE]
        /\ \A d \in Callers \ {c} : permit'[d] = permit[d]
    BY <1>2 DEF Admit, Admitted, AdmittedPermit, IndInv, TypeOK
  <2>3. /\ breaker'.state = "HalfOpen"
        /\ breaker'.opened_ago = breaker.opened_ago
        /\ breaker'.generation = breaker.generation + 1
    BY <2>2 DEF Transition
  <2>4. TokenOf(c)' = "probe"
    BY <2>2, <2>3 DEF TokenOf, Live, NoPermit
  <2>5. \A d \in Callers \ {c} : TokenOf(d)' = TokenOf(d)
    BY <2>1, <2>2, <2>3, TokenCases, TokenOutdated
  <2>6. tok' = [tok EXCEPT ![c] = "probe"]
    BY <2>4, <2>5
  <2>7. Promise!AdmitProbe(c)
    BY <1>0, <2>1, <2>3, <2>6 DEF Promise!AdmitProbe
  <2>. QED BY <2>7 DEF Promise!Next
<1>. QED BY <1>1, <1>2

\* Giving a permit back without a change of generation.
LEMMA SettleImplements ==
    ASSUME IndInv, NEW c \in Callers, permit[c] # NoPermit, ~LiveProbe(c),
           permit' = [permit EXCEPT ![c] = NoPermit],
           breaker'.generation = breaker.generation,
           breaker'.state = breaker.state,
           breaker'.opened_ago = breaker.opened_ago
    PROVE  Promise!Next
<1> DEFINE tok == [d \in Callers |-> TokenOf(d)]
<1>1. tok[c] \in {"call", "stale"}
  BY TokenCases
<1>2. /\ permit'[c] = NoPermit
      /\ \A d \in Callers \ {c} : permit'[d] = permit[d]
  BY DEF IndInv, TypeOK
<1>3. TokenOf(c)' = "none"
  BY <1>2 DEF TokenOf
<1>4. tok' = [tok EXCEPT ![c] = "none"]
  BY <1>2, <1>3, TokenKept
<1>5. Promise!Settle(c)
  BY <1>1, <1>4 DEF Promise!Settle, Promise!Spend
<1>. QED BY <1>5 DEF Promise!Next

\* Giving a permit back together with a change of generation.
LEMMA RetireTokens ==
    ASSUME IndInv, NEW c \in Callers,
           permit' = [permit EXCEPT ![c] = NoPermit],
           breaker'.generation = breaker.generation + 1
    PROVE  [d \in Callers |-> TokenOf(d)]' =
              [d \in Callers |-> IF d = c \/ TokenOf(d) = "none" THEN "none" ELSE "stale"]
<1>1. /\ permit'[c] = NoPermit
      /\ \A d \in Callers \ {c} : permit'[d] = permit[d]
  BY DEF IndInv, TypeOK
<1>2. TokenOf(c)' = "none"
  BY <1>1 DEF TokenOf
<1>3. \A d \in Callers \ {c} :
          TokenOf(d)' = IF TokenOf(d) = "none" THEN "none" ELSE "stale"
  BY <1>1, TokenOutdated
<1>. QED BY <1>2, <1>3

\* While a probe is out, every other permit is stale already.
LEMMA ProbeIsAlone ==
    ASSUME IndInv, NEW c \in Callers, LiveProbe(c), NEW d \in Callers, d # c
    PROVE  TokenOf(d) \in {"none", "stale"}
<1>1. ~LiveProbe(d) /\ breaker.state = "HalfOpen"
  BY DEF IndInv, HalfOpenHasOneProbe
<1>. QED BY <1>1, TokenCases

\* Breaker::record is Settle, Trip, ProbeFails or ProbeSucceeds of the promise.
LEMMA RecordImplements ==
    ASSUME IndInv, NEW c \in Callers, NEW failed \in BOOLEAN, Record(c, failed)
    PROVE  Promise!Next
<1> DEFINE p == permit[c]
           tok == [d \in Callers |-> TokenOf(d)]
<1>0. /\ p \in BreakerPermit /\ p # NoPermit
      /\ breaker \in Inner
  BY DEF IndInv, TypeOK, Record
<1>1. /\ breaker' = Recorded(breaker, p, failed)
      /\ permit' = [permit EXCEPT ![c] = NoPermit]
  BY DEF Record
<1>2. CASE LiveProbe(c)
  <2>1. /\ tok[c] = "probe"
        /\ breaker.state = "HalfOpen"
    BY <1>2, TokenCases
  <2>2. breaker' = ProbeRecorded(breaker, failed)
    BY <1>1, <1>2, <2>1 DEF Recorded, LiveProbe
  <2>3. breaker'.generation = breaker.generation + 1
    BY <2>2 DEF ProbeRecorded, Opened, Transition
  <2>4. tok' = [tok EXCEPT ![c] = "none"]
    BY <1>1, <1>2, <2>3, RetireTokens, ProbeIsAlone
  <2>5. CASE failed
    <3>1. breaker'.state = "Open" /\ ~(breaker'.opened_ago = Cooldown)
      BY <2>2, <2>5 DEF ProbeRecorded, Opened, Transition, BreakerConfig
    <3>2. Promise!ProbeFails(c)
      BY <2>1, <2>4, <3>1 DEF Promise!ProbeFails, Promise!Spend
    <3>. QED BY <3>2 DEF Promise!Next
  <2>6. CASE ~failed
    <3>1. breaker'.state = "Closed" /\ ~(breaker'.opened_ago = Cooldown)
      BY <2>2, <2>6 DEF ProbeRecorded, Transition, NotOpened, BreakerConfig
    <3>2. Promise!ProbeSucceeds(c)
      BY <2>1, <2>4, <3>1 DEF Promise!ProbeSucceeds, Promise!Spend
    <3>. QED BY <3>2 DEF Promise!Next
  <2>. QED BY <2>5, <2>6
<1>3. CASE ~LiveProbe(c)
  <2>1. CASE breaker' = Opened(Counted(breaker)) /\ Live(breaker, p) /\ ~p.probe
    <3>1. tok[c] = "call"
      BY <1>0, <2>1, TokenCases
    <3>2. /\ breaker'.state = "Open"
          /\ ~(breaker'.opened_ago = Cooldown)
          /\ breaker'.generation = breaker.generation + 1
      BY <1>0, <2>1 DEF Opened, Counted, Transition, Inner, BreakerConfig
    <3>3. Promise!SpendAndRetireOthers(c)
      BY <1>1, <3>2, RetireTokens DEF Promise!SpendAndRetireOthers
    <3>4. Promise!Trip(c)
      BY <3>1, <3>2, <3>3 DEF Promise!Trip
    <3>. QED BY <3>4 DEF Promise!Next
  <2>2. CASE \/ breaker' = breaker
             \/ \E n \in Nat : breaker' = [breaker EXCEPT !.consecutive_failures = n]
    <3>1. /\ breaker'.generation = breaker.generation
          /\ breaker'.state = breaker.state
          /\ breaker'.opened_ago = breaker.opened_ago
      BY <1>0, <2>2 DEF Inner
    <3>. QED BY <1>0, <1>1, <1>3, <3>1, SettleImplements
  <2>3. breaker.consecutive_failures + 1 \in Nat /\ 0 \in Nat
    BY <1>0 DEF Inner
  <2>. QED BY <1>0, <1>1, <1>3, <2>1, <2>2, <2>3, RecordedCases DEF LiveProbe
<1>. QED BY <1>2, <1>3

\* Breaker::cancel is ProbeAbandoned or Settle of the promise.
LEMMA CancelImplements ==
    ASSUME IndInv, NEW c \in Callers, Cancel(c)
    PROVE  Promise!Next
<1> DEFINE tok == [d \in Callers |-> TokenOf(d)]
<1>1. /\ breaker' = Cancelled(breaker, permit[c])
      /\ permit' = [permit EXCEPT ![c] = NoPermit]
      /\ permit[c] # NoPermit
  BY DEF Cancel
<1>2. CASE LiveProbe(c)
  <2>1. /\ tok[c] = "probe"
        /\ breaker.state = "HalfOpen"
    BY <1>2, TokenCases
  <2>2. /\ breaker'.state = "Open"
        /\ breaker'.opened_ago = breaker.opened_ago
        /\ breaker'.generation = breaker.generation + 1
    BY <1>1, <1>2, <2>1 DEF Cancelled, LiveProbe, Transition
  <2>3. tok' = [tok EXCEPT ![c] = "none"]
    BY <1>1, <1>2, <2>2, RetireTokens, ProbeIsAlone
  <2>4. Promise!ProbeAbandoned(c)
    BY <2>1, <2>2, <2>3 DEF Promise!ProbeAbandoned, Promise!Spend
  <2>. QED BY <2>4 DEF Promise!Next
<1>3. CASE ~LiveProbe(c)
  <2>1. breaker' = breaker
    BY <1>1, <1>3 DEF Cancelled, LiveProbe
  <2>. QED BY <1>1, <1>3, <2>1, SettleImplements
<1>. QED BY <1>2, <1>3

\* The tick that completes the cooldown is CoolDown; all others stutter.
LEMMA TickImplements ==
    ASSUME IndInv, Tick
    PROVE  Promise!Next \/ UNCHANGED Promise!vars
<1>0. breaker \in Inner /\ Cooldown \in Nat \ {0}
  BY DEF IndInv, TypeOK, BreakerConfig
<1>1. /\ breaker'.state = breaker.state
      /\ breaker'.generation = breaker.generation
      /\ breaker'.opened_ago = IF breaker.opened_ago \in 0 .. (Cooldown - 1)
                               THEN breaker.opened_ago + 1 ELSE breaker.opened_ago
      /\ permit' = permit
  BY <1>0, AgedCases DEF Tick
<1>2. [d \in Callers |-> TokenOf(d)]' = [d \in Callers |-> TokenOf(d)]
  BY <1>1, TokenKept
<1>3. CASE (breaker'.opened_ago = Cooldown) <=> (breaker.opened_ago = Cooldown)
  BY <1>1, <1>2, <1>3 DEF Promise!vars
<1>4. CASE ~((breaker'.opened_ago = Cooldown) <=> (breaker.opened_ago = Cooldown))
  <2>1. /\ breaker.opened_ago \in 0 .. (Cooldown - 1)
        /\ breaker'.opened_ago = Cooldown
        /\ ~(breaker.opened_ago = Cooldown)
    BY <1>0, <1>1, <1>4
  <2>2. breaker.state = "Open"
    BY <1>0, <2>1 DEF IndInv, TrippedKnowsWhen, QuietSinceOpened, NotOpened, Inner, BreakerState
  <2>3. Promise!CoolDown
    BY <1>1, <1>2, <2>1, <2>2 DEF Promise!CoolDown
  <2>. QED BY <2>3 DEF Promise!Next
<1>. QED BY <1>3, <1>4

\* Callers who hold the generation-stamped permits of Breaker::admit, record
\* and cancel see the abstract circuit breaker.
THEOREM BreakerImplementsPromise == Spec => ImplementsPromise
<1>1. Init => Promise!Init
  BY DEF Init, Promise!Init, NewBreaker, TokenOf, NotOpened, BreakerConfig
<1>2. IndInv /\ IndInv' /\ [Next]_vars => [Promise!Next]_(Promise!vars)
  <2> SUFFICES ASSUME IndInv, IndInv', [Next]_vars
               PROVE  Promise!Next \/ UNCHANGED Promise!vars
    OBVIOUS
  <2>1. ASSUME NEW c \in Callers, Admit(c) PROVE Promise!Next
    BY <2>1, AdmitImplements
  <2>2. ASSUME NEW c \in Callers, Refuse(c) PROVE UNCHANGED Promise!vars
    BY <2>2 DEF Refuse, Promise!vars, TokenOf, Live
  <2>3. ASSUME NEW c \in Callers, NEW failed \in BOOLEAN, Record(c, failed)
        PROVE  Promise!Next
    BY <2>3, RecordImplements
  <2>4. ASSUME NEW c \in Callers, Cancel(c) PROVE Promise!Next
    BY <2>4, CancelImplements
  <2>5. CASE Tick
    BY <2>5, TickImplements
  <2>6. CASE UNCHANGED vars
    BY <2>6 DEF vars, Promise!vars, TokenOf, Live
  <2>. QED BY <2>1, <2>2, <2>3, <2>4, <2>5, <2>6 DEF Next
<1>. QED BY <1>1, <1>2, BreakerInvariant, PTL
         DEF Spec, ImplementsPromise, Promise!Spec
=============================================================================
