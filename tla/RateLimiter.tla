---------------------------- MODULE RateLimiter ----------------------------
(***************************************************************************)
(* The per-identity token buckets of domain/rate_limit.rs.  `access` and   *)
(* `sweep_idle` read the clock first and take the lock second, so threads  *)
(* may enter the critical section with instants out of order; everything   *)
(* under the lock is one atomic step.                                      *)
(*                                                                         *)
(* A tick is the time in which one token is refilled, Rate ticks to a      *)
(* second, and balances are whole numbers of tokens.  A zero rate turns    *)
(* the limiter off and is not modelled.                                    *)
(***************************************************************************)
EXTENDS Integers, FiniteSets

CONSTANTS
    Keys,           \* identities (Identity::bucket_key)
    Threads,        \* request handlers inside the limiter
    Rate,           \* per_token_commands_per_sec
    MaxBuckets,     \* MAX_BUCKETS
    IdleEviction,   \* IDLE_EVICTION, in ticks
    Counts,         \* command counts of a request; 0 is an empty batch
    MaxNow,         \* bound on the clock
    MaxOrder        \* bound on the number of accesses

ASSUME RateLimiterConfig ==
    /\ Rate \in Nat \ {0}
    /\ MaxBuckets \in Nat \ {0}
    /\ IdleEviction \in Nat
    /\ Counts \subseteq Nat
    /\ MaxNow \in Nat
    /\ MaxOrder \in Nat
    /\ IsFiniteSet(Keys)

VARIABLES
    now,       \* the clock
    entries,   \* the retained buckets, by identity
    lru,       \* the two recency indexes and the access counter
    forgiven,  \* debt_forgiven_evictions
    call,      \* per thread: the instant its access read, or NoCall
    sweep      \* the instant sweep_idle read, or NotSweeping

vars == <<now, entries, lru, forgiven, call, sweep>>

Capacity == 2 * Rate

Instant == 0 .. MaxNow
Order == 0 .. (MaxOrder - 1)
Index == SUBSET [order : Order, key : Keys]
Bucket == [balance : Int, updated : Instant, last_access : Instant,
           order : Order, indebted : BOOLEAN]

Probe == -1   \* Access::Probe; Access::Charge(n) is n
NoCall == -1
NotSweeping == -1

Retained == DOMAIN entries

TypeOK ==
    /\ now \in Instant
    /\ Retained \subseteq Keys
    /\ entries \in [Retained -> Bucket]
    /\ \A k \in Retained : entries[k].balance =< Capacity
    /\ lru \in [credit : Index, debt : Index, next_order : 0 .. MaxOrder]
    /\ forgiven \in Nat
    /\ call \in [Threads -> {NoCall} \cup (0 .. now)]
    /\ sweep \in {NotSweeping} \cup (0 .. now)

Init ==
    /\ now = 0
    /\ entries = [k \in {} |-> 0]
    /\ lru = [credit |-> {}, debt |-> {}, next_order |-> 0]
    /\ forgiven = 0
    /\ call = [t \in Threads |-> NoCall]
    /\ sweep = NotSweeping

-----------------------------------------------------------------------------
(***************************************************************************)
(* Buckets.                                                                *)
(***************************************************************************)

Least(a, b) == IF a < b THEN a ELSE b

\* saturating_duration_since
Since(from, to) == IF to > from THEN to - from ELSE 0

\* Mutant: the same time is credited again.
refill_again(b, t) ==
    [b EXCEPT !.balance = Least(@ + Since(b.updated, t), Capacity)]

refill(b, t) ==
    [b EXCEPT !.balance = Least(@ + Since(b.updated, t), Capacity),
              !.updated = t]

Cost(access) ==
    IF access = Probe THEN 0 ELSE IF access = 0 THEN 1 ELSE access

Refuses(b) == b.balance =< 0

\* Mutant: refused requests are charged too.
settle_always(b, access) == [b EXCEPT !.balance = @ - Cost(access)]

settle(b, access) ==
    IF Refuses(b) THEN b ELSE [b EXCEPT !.balance = @ - Cost(access)]

(***************************************************************************)
(* The indexes: link, unlink, evict_one.                                   *)
(***************************************************************************)

Without(index, order) == {e \in index : e.order # order}

\* Mutant: looks in the credit index only.
unlink_credit(l, b) == [l EXCEPT !.credit = Without(@, b.order)]

unlink(l, b) ==
    IF b.indebted THEN [l EXCEPT !.debt = Without(@, b.order)]
                  ELSE [l EXCEPT !.credit = Without(@, b.order)]

\* link, as the bucket sees it and as the indexes do.
Linked(l, b) == [b EXCEPT !.order = l.next_order, !.indebted = b.balance < 0]

link(l, b, k) ==
    LET e == [order |-> l.next_order, key |-> k]
    IN  IF b.balance < 0
        THEN [l EXCEPT !.debt = @ \cup {e}, !.next_order = @ + 1]
        ELSE [l EXCEPT !.credit = @ \cup {e}, !.next_order = @ + 1]

First(index) == CHOOSE e \in index : \A f \in index : e.order =< f.order

\* Mutant: plain least-recently-used.
EligibleAnyone(l) == l.credit \cup l.debt

\* evict_one pops the oldest credit, and debt only when there is no credit.
Eligible(l) == IF l.credit # {} THEN l.credit ELSE l.debt

ForgivesDebt(l) == l.credit = {} /\ l.debt # {}

\* The listing it pops, if any.
Victims(l) == IF Eligible(l) = {} THEN {} ELSE {First(Eligible(l))}

Popped(l) ==
    [l EXCEPT !.credit = @ \ Victims(l), !.debt = @ \ Victims(l)]

Full == Cardinality(Retained) >= MaxBuckets

-----------------------------------------------------------------------------
(***************************************************************************)
(* access.                                                                 *)
(***************************************************************************)

\* A handler reads the clock on its way to the lock.  For whom it asks, and for
\* how much, matters only once it has the lock.
Begin(t) ==
    /\ call[t] = NoCall
    /\ lru.next_order < MaxOrder
    /\ call' = [call EXCEPT ![t] = now]
    /\ UNCHANGED <<now, entries, lru, forgiven, sweep>>

AccessKnown(t, k, access) ==
    LET at == call[t]
        b == refill(entries[k], at)
        settled == [settle(b, access) EXCEPT !.last_access = at]
        unlinked == unlink(lru, entries[k])
    IN  /\ call[t] # NoCall
        /\ lru.next_order < MaxOrder
        /\ k \in Retained
        /\ entries' = [entries EXCEPT ![k] = Linked(unlinked, settled)]
        /\ lru' = link(unlinked, settled, k)
        /\ call' = [call EXCEPT ![t] = NoCall]
        /\ UNCHANGED <<now, forgiven, sweep>>

AccessNew(t, k, access) ==
    LET at == call[t]
        evicted == IF Full THEN {e.key : e \in Victims(lru)} ELSE {}
        spared == IF Full THEN Popped(lru) ELSE lru
        b == [balance |-> Capacity, updated |-> at, last_access |-> at,
              order |-> 0, indebted |-> FALSE]
        settled == settle(b, access)
    IN  /\ call[t] # NoCall
        /\ lru.next_order < MaxOrder
        /\ k \notin Retained
        /\ forgiven' = IF Full /\ ForgivesDebt(lru) THEN forgiven + 1 ELSE forgiven
        /\ entries' = [j \in (Retained \ evicted) \cup {k} |->
                          IF j = k THEN Linked(spared, settled) ELSE entries[j]]
        /\ lru' = link(spared, settled, k)
        /\ call' = [call EXCEPT ![t] = NoCall]
        /\ UNCHANGED <<now, sweep>>

\* take_debt_forgiven_evictions: a handler moves the count to the metric.
TakeForgiven ==
    /\ forgiven > 0
    /\ forgiven' = 0
    /\ UNCHANGED <<now, entries, lru, call, sweep>>

-----------------------------------------------------------------------------
(***************************************************************************)
(* sweep_idle.                                                             *)
(***************************************************************************)

SweepBegin ==
    /\ sweep = NotSweeping
    /\ sweep' = now
    /\ UNCHANGED <<now, entries, lru, forgiven, call>>

\* Refill every bucket, move the ones out of debt to the credit index, and drop
\* the idle ones that owe nothing.
Sweep ==
    LET swept == [k \in Retained |-> refill(entries[k], sweep)]
        repaid == {k \in Retained : entries[k].indebted /\ swept[k].balance >= 0}
        idle == {k \in Retained :
                    /\ swept[k].balance >= 0
                    /\ Since(entries[k].last_access, sweep) >= IdleEviction}
        moved == {e \in lru.debt : \E k \in repaid : e.order = entries[k].order}
        dropped == {entries[k].order : k \in idle}
        kept(index) == {e \in index : e.order \notin dropped}
    IN  /\ sweep # NotSweeping
        /\ entries' = [k \in Retained \ idle |->
                          [swept[k] EXCEPT !.indebted = @ /\ k \notin repaid]]
        /\ lru' = [lru EXCEPT
                      !.debt = kept(@ \ moved),
                      !.credit = kept(@ \cup
                          {[order |-> entries[k].order, key |-> k] : k \in repaid})]
        /\ sweep' = NotSweeping
        /\ UNCHANGED <<now, forgiven, call>>

Tick ==
    /\ now < MaxNow
    /\ now' = now + 1
    /\ UNCHANGED <<entries, lru, forgiven, call, sweep>>

Next ==
    \/ \E t \in Threads :
          \/ Begin(t)
          \/ \E k \in Keys, access \in {Probe} \cup Counts :
                AccessKnown(t, k, access) \/ AccessNew(t, k, access)
    \/ TakeForgiven
    \/ SweepBegin
    \/ Sweep
    \/ Tick

Spec == Init /\ [][Next]_vars

-----------------------------------------------------------------------------
\* What identity k could draw on right now.
Available(k) ==
    IF k \in Retained THEN refill(entries[k], now).balance ELSE Capacity

Listing(k) == [order |-> entries[k].order, key |-> k]

\* Every retained bucket is listed once, in the index its `indebted` names, and
\* the indexes list nothing else: an orphaned listing would let evict_one pop a
\* bucket that is gone and the map outgrow its bound.
IndexesMatchEntries ==
    /\ lru.credit = {Listing(k) : k \in {j \in Retained : ~entries[j].indebted}}
    /\ lru.debt = {Listing(k) : k \in {j \in Retained : entries[j].indebted}}
    /\ \A j, k \in Retained : entries[j].order = entries[k].order => j = k

\* What the indexes rely on: the next listing is newer than all others, and the
\* debt index lists exactly the buckets whose balance is negative as it stands.
ListingsInStep ==
    \A k \in Retained :
        /\ entries[k].order < lru.next_order
        /\ entries[k].indebted <=> entries[k].balance < 0
        /\ entries[k].updated =< now

\* The map never outgrows its bound.
BucketsBounded == Cardinality(Retained) =< MaxBuckets

\* A bucket that still owes is dropped only at the hard bound, when no retained
\* identity could be evicted instead, and is then counted as forgiven; the idle
\* sweep never drops one.
DebtIsNotForgotten ==
    [][\A k \in Retained \ DOMAIN entries' :
          Available(k) < 0 =>
              /\ Cardinality(Retained) = MaxBuckets
              /\ \A j \in Retained : entries[j].indebted
              /\ forgiven' = forgiven + 1]_vars
=============================================================================
