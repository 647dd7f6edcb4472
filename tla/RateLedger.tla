----------------------------- MODULE RateLedger -----------------------------
(***************************************************************************)
(* What the limiter of module RateLimiter grants, held against a ledger    *)
(* that knows the time: for every identity, the balance an ideal bucket    *)
(* would have, one that charges at the instant the lock is held and never  *)
(* loses or re-reads a tick.                                               *)
(***************************************************************************)
EXTENDS RateLimiter

VARIABLES
    ideal,  \* the ideal balance of each identity
    lag,    \* ticks its accesses and sweeps spent between clock and lock
    hint    \* ticks until an identity last refused may expect admission

ledger == <<ideal, lag, hint>>

NoHint == -1

LedgerTypeOK ==
    /\ TypeOK
    /\ ideal \in [Keys -> Int]
    /\ lag \in [Keys -> Nat]
    /\ hint \in [Keys -> {NoHint} \cup Nat]

LedgerInit ==
    /\ Init
    /\ ideal = [k \in Keys |-> Capacity]
    /\ lag = [k \in Keys |-> 0]
    /\ hint = [k \in Keys |-> NoHint]

\* Mutant: rounds down, and has no minimum.
RetryAfterFloor(balance) == (-balance) \div Rate

\* exceeded: the Retry-After of a refusal, in seconds, for a balance =< 0.
RetryAfterSecs(balance) ==
    IF balance = 0 THEN 1 ELSE ((-balance) + Rate - 1) \div Rate

\* The balance thread t's access to k is decided on.
Decisive(t, k) ==
    IF k \in Retained THEN refill(entries[k], call[t]).balance ELSE Capacity

\* An evicted identity starts afresh; the ledger follows.
Evicted == Retained \ DOMAIN entries'

Afresh(book, blank) ==
    [k \in Keys |-> IF k \in Evicted THEN blank ELSE book[k]]

Book(t, k, access) ==
    LET refused == Decisive(t, k) =< 0
    IN  /\ ideal' = Afresh([ideal EXCEPT ![k] = IF refused THEN @ ELSE @ - Cost(access)],
                           Capacity)
        /\ lag' = Afresh([lag EXCEPT ![k] = @ + (now - call[t])], 0)
        /\ hint' = Afresh([hint EXCEPT ![k] =
                              IF refused THEN RetryAfterSecs(Decisive(t, k)) * Rate + 1
                              ELSE NoHint], NoHint)

BookedAccess(t, k, access) ==
    /\ AccessKnown(t, k, access) \/ AccessNew(t, k, access)
    /\ Book(t, k, access)

BookedSweep ==
    /\ Sweep
    /\ ideal' = Afresh(ideal, Capacity)
    /\ lag' = Afresh([k \in Keys |-> IF k \in Retained THEN lag[k] + (now - sweep)
                                     ELSE lag[k]], 0)
    /\ hint' = Afresh(hint, NoHint)

BookedTick ==
    /\ Tick
    /\ ideal' = [k \in Keys |-> Least(ideal[k] + 1, Capacity)]
    /\ hint' = [k \in Keys |-> IF hint[k] > 0 THEN hint[k] - 1 ELSE hint[k]]
    /\ UNCHANGED lag

LedgerNext ==
    \/ \E t \in Threads, k \in Keys, access \in {Probe} \cup Counts :
          BookedAccess(t, k, access)
    \/ BookedSweep
    \/ BookedTick
    \/ /\ TakeForgiven \/ SweepBegin \/ \E t \in Threads : Begin(t)
       /\ UNCHANGED ledger

LedgerSpec == LedgerInit /\ [][LedgerNext]_<<vars, ledger>>

-----------------------------------------------------------------------------
\* The map of buckets, its bound and the two recency indexes agree after every
\* access, eviction and sweep.
BucketsAccounted ==
    LedgerTypeOK /\ IndexesMatchEntries /\ ListingsInStep /\ BucketsBounded

\* Nobody is throttled beyond what they drew: whatever the order in which
\* threads pass the lock, an identity has at least the balance that charging
\* its admitted requests, and only those, would have left it.
NobodyOvercharged == \A k \in Keys : Available(k) >= ideal[k]

\* The limit holds: an identity is ahead of that balance by no more than the
\* time its accesses spent between reading the clock and getting the lock.
LimitHolds == \A k \in Keys : Available(k) =< ideal[k] + lag[k]

\* An identity that waits out its Retry-After, and a moment more, is admitted:
\* what it has and what will be refilled until then is more than nothing, and
\* nothing that happens meanwhile deepens its debt.
RetryAfterSuffices ==
    \A k \in Keys : hint[k] # NoHint => Available(k) + hint[k] > 0
=============================================================================
