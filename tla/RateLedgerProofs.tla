-------------------------- MODULE RateLedgerProofs --------------------------
(***************************************************************************)
(* The rate limiter for any identities, threads, rate and bounds.          *)
(* BucketsAccounted is inductive; the three balance properties are, each   *)
(* with it.  An access is seen as one change of the map and its indexes:   *)
(* some buckets go, the bucket of the identity is put in (Accessed).       *)
(***************************************************************************)
EXTENDS RateLedger, FiniteSetTheorems, WellFoundedInduction, TLAPS

-----------------------------------------------------------------------------
(***************************************************************************)
(* Least elements and sizes.                                               *)
(***************************************************************************)
Below == OpToRel(<, Nat)

LEMMA LeastNat ==
    ASSUME NEW T, T \subseteq Nat, T # {}
    PROVE  \E x \in T : \A y \in T : x =< y
<1>1. IsWellFoundedOn(Below, Nat)
  BY NatLessThanWellFounded, Zenon DEF Below
<1>2. \A x, y \in Nat : x < y => <<x, y>> \in Below
  BY DEF Below, OpToRel
<1>3. \E x \in T : \A y \in T : ~ (<<y, x>> \in Below)
  BY <1>1, WFMin, Zenon
<1>4. PICK x \in T : \A y \in T : ~ (<<y, x>> \in Below)
  BY <1>3
<1>5. ASSUME NEW y \in T PROVE x =< y
  <2>1. x \in Nat /\ y \in Nat
    OBVIOUS
  <2>2. ~(y < x)
    BY <1>2, <1>4, <2>1
  <2>. QED BY <2>1, <2>2
<1>. QED BY <1>5

LEMMA Sizes ==
    ASSUME TypeOK
    PROVE  /\ IsFiniteSet(Retained) /\ Cardinality(Retained) \in Nat
           /\ MaxBuckets \in Nat \ {0} /\ Capacity \in Nat \ {0} /\ Rate \in Nat \ {0}
           /\ MaxOrder \in Nat /\ MaxNow \in Nat /\ now \in Nat
           /\ lru.next_order \in Nat
           /\ \A c \in {Probe} \cup Counts : Cost(c) \in Nat
<1>1. Retained \subseteq Keys /\ IsFiniteSet(Keys)
  BY RateLimiterConfig DEF TypeOK
<1>2. IsFiniteSet(Retained)
  BY <1>1, FS_Subset
<1>3. Cardinality(Retained) \in Nat
  BY <1>2, FS_CardinalityType
<1>4. Capacity \in Nat \ {0} /\ \A c \in {Probe} \cup Counts : Cost(c) \in Nat
  BY RateLimiterConfig DEF Capacity, Cost, Probe
<1>5. now \in Nat /\ lru.next_order \in Nat
  BY RateLimiterConfig DEF TypeOK, Instant
<1>. QED BY <1>2, <1>3, <1>4, <1>5, RateLimiterConfig

-----------------------------------------------------------------------------
(***************************************************************************)
(* What refill, settle and link do to a bucket.                            *)
(***************************************************************************)
LEMMA BucketFacts ==
    ASSUME NEW b \in Bucket
    PROVE  /\ b.balance \in Int /\ b.updated \in Nat /\ b.last_access \in Nat
           /\ b.order \in Nat /\ b.indebted \in BOOLEAN
BY RateLimiterConfig DEF Bucket, Instant, Order

LEMMA RefillFacts ==
    ASSUME NEW b \in Bucket, NEW t \in Instant
    PROVE  /\ refill(b, t) \in Bucket
           /\ refill(b, t).balance = Least(b.balance + Since(b.updated, t), Capacity)
           /\ refill(b, t).updated = t
           /\ refill(b, t).last_access = b.last_access /\ refill(b, t).order = b.order
           /\ refill(b, t).indebted = b.indebted
           /\ refill(b, t).balance =< Capacity
<1>1. b.balance \in Int /\ b.updated \in Int /\ t \in Int /\ Capacity \in Int
  BY RateLimiterConfig DEF Bucket, Instant, Capacity
<1>. DEFINE n == Least(b.balance + Since(b.updated, t), Capacity)
<1>2. n \in Int /\ n =< Capacity
  BY <1>1 DEF Least, Since
<1>. HIDE DEF n
<1>3. refill(b, t) = [[b EXCEPT !.balance = n] EXCEPT !.updated = t]
  BY DEF refill, n, Bucket
<1>. QED BY <1>2, <1>3 DEF Bucket, n

Settled(n, access) == IF n =< 0 THEN n ELSE n - Cost(access)

LEMMA SettleFacts ==
    ASSUME NEW b \in Bucket, NEW access \in {Probe} \cup Counts
    PROVE  /\ settle(b, access) \in Bucket
           /\ settle(b, access).balance = Settled(b.balance, access)
           /\ settle(b, access).updated = b.updated
<1>1. b.balance \in Int /\ Cost(access) \in Int
  BY RateLimiterConfig DEF Bucket, Cost, Probe
<1>2. b.balance - Cost(access) \in Int
  BY <1>1
<1>. QED BY <1>1, <1>2 DEF settle, Refuses, Settled, Bucket

Lru == [credit : Index, debt : Index, next_order : 0 .. MaxOrder]

LEMMA LinkedFacts ==
    ASSUME NEW l \in Lru, l.next_order < MaxOrder, NEW b \in Bucket
    PROVE  /\ Linked(l, b) \in Bucket
           /\ Linked(l, b).balance = b.balance /\ Linked(l, b).updated = b.updated
           /\ Linked(l, b).order = l.next_order
           /\ Linked(l, b).indebted <=> b.balance < 0
<1>. DEFINE v == b.balance < 0
<1>1. v \in BOOLEAN /\ l.next_order \in Order
  BY RateLimiterConfig DEF Lru, Order
<1>2. Linked(l, b) = [b EXCEPT !.order = l.next_order, !.indebted = v]
  BY DEF Linked
<1>. HIDE DEF v
<1>3. /\ Linked(l, b) \in Bucket
      /\ Linked(l, b).balance = b.balance /\ Linked(l, b).updated = b.updated
      /\ Linked(l, b).order = l.next_order /\ Linked(l, b).indebted = v
  BY <1>1, <1>2 DEF Bucket
<1>4. Linked(l, b).indebted <=> v
  BY <1>3, Zenon
<1>. QED BY <1>3, <1>4 DEF v

LEMMA LinkFacts ==
    ASSUME NEW l \in Lru, l.next_order < MaxOrder, NEW b \in Bucket, NEW k \in Keys
    PROVE  /\ link(l, b, k) \in Lru
           /\ link(l, b, k).next_order = l.next_order + 1
           /\ b.balance < 0 => /\ link(l, b, k).credit = l.credit
                               /\ link(l, b, k).debt =
                                    l.debt \cup {[order |-> l.next_order, key |-> k]}
           /\ ~(b.balance < 0) => /\ link(l, b, k).debt = l.debt
                                  /\ link(l, b, k).credit =
                                       l.credit \cup {[order |-> l.next_order, key |-> k]}
<1>. DEFINE e == [order |-> l.next_order, key |-> k]
<1>1. e \in [order : Order, key : Keys] /\ l.next_order + 1 \in 0 .. MaxOrder
  BY RateLimiterConfig DEF Lru, Order
<1>. HIDE DEF e
<1>2. l.credit \cup {e} \in Index /\ l.debt \cup {e} \in Index
  BY <1>1 DEF Lru, Index
<1>3. CASE b.balance < 0
  <2>1. link(l, b, k) = [l EXCEPT !.debt = l.debt \cup {e}, !.next_order = l.next_order + 1]
    BY <1>3 DEF link, e
  <2>. QED BY <1>1, <1>2, <1>3, <2>1 DEF Lru, e
<1>4. CASE ~(b.balance < 0)
  <2>1. link(l, b, k) = [l EXCEPT !.credit = l.credit \cup {e}, !.next_order = l.next_order + 1]
    BY <1>4 DEF link, e
  <2>. QED BY <1>1, <1>2, <1>4, <2>1 DEF Lru, e
<1>. QED BY <1>3, <1>4

-----------------------------------------------------------------------------
(***************************************************************************)
(* The map and its indexes.                                                *)
(***************************************************************************)
LEMMA ListingFields ==
    ASSUME NEW k
    PROVE  Listing(k).order = entries[k].order /\ Listing(k).key = k
BY DEF Listing

\* Buckets of Gone are taken out of map and indexes and one for k is put in,
\* with the next order.
LEMMA IndexKept ==
    ASSUME TypeOK, IndexesMatchEntries, ListingsInStep,
           NEW Gone \in SUBSET Retained, NEW k \in Keys, Retained \cap {k} \subseteq Gone,
           NEW b \in Bucket, b.order = lru.next_order,
           Retained' = (Retained \ Gone) \cup {k}, entries'[k] = b,
           \A j \in Retained \ Gone : entries'[j] = entries[j],
           lru'.credit = (lru.credit \ {Listing(j) : j \in Gone})
                            \cup (IF b.indebted THEN {} ELSE {[order |-> b.order, key |-> k]}),
           lru'.debt = (lru.debt \ {Listing(j) : j \in Gone})
                            \cup (IF b.indebted THEN {[order |-> b.order, key |-> k]} ELSE {})
    PROVE  IndexesMatchEntries'
<1>. DEFINE Left == Retained \ Gone
<1>1. \A j \in Left : Listing(j)' = Listing(j)
  BY DEF Listing
<1>2. Listing(k)' = [order |-> b.order, key |-> k]
  BY DEF Listing
<1>3. lru.credit \ {Listing(j) : j \in Gone} = {Listing(j) : j \in {i \in Left : ~entries[i].indebted}}
  BY ListingFields DEF IndexesMatchEntries
<1>4. lru.debt \ {Listing(j) : j \in Gone} = {Listing(j) : j \in {i \in Left : entries[i].indebted}}
  BY ListingFields DEF IndexesMatchEntries
<1>5. \A j \in Left : j # k /\ entries'[j] = entries[j] /\ j \in Retained'
  OBVIOUS
<1>6. {j \in Retained' : ~entries'[j].indebted} =
        {i \in Left : ~entries[i].indebted} \cup (IF b.indebted THEN {} ELSE {k})
  BY <1>5
<1>7. {j \in Retained' : entries'[j].indebted} =
        {i \in Left : entries[i].indebted} \cup (IF b.indebted THEN {k} ELSE {})
  BY <1>5
<1>. DEFINE L(j) == [order |-> entries'[j].order, key |-> j]
<1>8. lru'.credit = {L(j) : j \in {i \in Retained' : ~entries'[i].indebted}}
  BY <1>1, <1>2, <1>3, <1>5, <1>6 DEF Listing
<1>9. lru'.debt = {L(j) : j \in {i \in Retained' : entries'[i].indebted}}
  BY <1>1, <1>2, <1>4, <1>5, <1>7 DEF Listing
<1>10. ASSUME NEW i \in Retained', NEW j \in Retained', entries'[i].order = entries'[j].order
       PROVE  i = j
  <2>1. \A h \in Left : entries[h].order \in Nat /\ entries[h].order < lru.next_order
    BY BucketFacts DEF TypeOK, ListingsInStep
  <2>2. lru.next_order \in Nat
    BY Sizes
  <2>3. \A h \in Left : entries'[h].order # b.order
    BY <1>5, <2>1, <2>2
  <2>4. \A g, h \in Left : entries'[g].order = entries'[h].order => g = h
    BY <1>5 DEF IndexesMatchEntries
  <2>. QED BY <1>10, <2>3, <2>4
<1>. QED BY <1>8, <1>9, <1>10 DEF IndexesMatchEntries, Listing

\* unlink takes out the listing of the bucket, and nothing else.
LEMMA UnlinkFacts ==
    ASSUME TypeOK, IndexesMatchEntries, NEW k \in Retained
    PROVE  LET l == unlink(lru, entries[k]) IN
           /\ l \in Lru /\ l.next_order = lru.next_order
           /\ l.credit = lru.credit \ {Listing(k)}
           /\ l.debt = lru.debt \ {Listing(k)}
<1>. DEFINE C == Without(lru.credit, entries[k].order)
            D == Without(lru.debt, entries[k].order)
<1>1. lru \in Lru /\ C \in Index /\ D \in Index
  BY DEF TypeOK, Lru, Without, Index
<1>2. \A j \in Retained : Listing(j).order = entries[k].order <=> Listing(j) = Listing(k)
  BY ListingFields DEF IndexesMatchEntries
<1>3. \A e \in lru.credit \cup lru.debt : e.order = entries[k].order <=> e = Listing(k)
  BY <1>2 DEF IndexesMatchEntries
<1>4. C = lru.credit \ {Listing(k)} /\ D = lru.debt \ {Listing(k)}
  BY <1>3 DEF Without
<1>. HIDE DEF C, D
<1>5. CASE entries[k].indebted
  <2>1. unlink(lru, entries[k]) = [lru EXCEPT !.debt = D]
    BY <1>5 DEF unlink, D
  <2>2. Listing(k) \notin lru.credit
    BY <1>5, ListingFields DEF IndexesMatchEntries
  <2>3. lru.credit = lru.credit \ {Listing(k)}
    BY <2>2
  <2>. QED BY <1>1, <1>4, <2>1, <2>3 DEF Lru
<1>6. CASE ~entries[k].indebted
  <2>1. unlink(lru, entries[k]) = [lru EXCEPT !.credit = C]
    BY <1>6 DEF unlink, C
  <2>2. Listing(k) \notin lru.debt
    BY <1>6, ListingFields DEF IndexesMatchEntries
  <2>3. lru.debt = lru.debt \ {Listing(k)}
    BY <2>2
  <2>. QED BY <1>1, <1>4, <2>1, <2>3 DEF Lru
<1>. QED BY <1>5, <1>6

\* evict_one: with a bucket retained, it pops the listing of one, and that of a
\* bucket in debt only if all are.
LEMMA VictimFacts ==
    ASSUME TypeOK, IndexesMatchEntries, Retained # {}
    PROVE  \E v \in Retained :
              /\ Victims(lru) = {Listing(v)}
              /\ Popped(lru) \in Lru /\ Popped(lru).next_order = lru.next_order
              /\ Popped(lru).credit = lru.credit \ {Listing(v)}
              /\ Popped(lru).debt = lru.debt \ {Listing(v)}
              /\ entries[v].indebted => /\ \A j \in Retained : entries[j].indebted
                                        /\ ForgivesDebt(lru)
<1>. DEFINE E == Eligible(lru)
<1>0. lru.credit \cup lru.debt # {}
  <2>1. PICK k \in Retained : TRUE
    OBVIOUS
  <2>2. Listing(k) \in lru.credit \cup lru.debt
    BY DEF IndexesMatchEntries
  <2>. QED BY <2>2
<1>1. E # {} /\ E \subseteq lru.credit \cup lru.debt
  BY <1>0 DEF Eligible
<1>2. \A e \in E : \E k \in Retained : e = Listing(k) /\ e.order \in Nat
  BY <1>1, ListingFields, BucketFacts DEF IndexesMatchEntries, TypeOK
<1>3. PICK e \in E : \A f \in E : e.order =< f.order
  <2>. DEFINE O == {f.order : f \in E}
  <2>1. O # {} /\ O \subseteq Nat
    BY <1>1, <1>2
  <2>2. PICK o \in O : \A p \in O : o =< p
    BY <2>1, LeastNat
  <2>. QED BY <2>2
<1>4. First(E) \in E
  BY <1>3 DEF First
<1>5. PICK v \in Retained : First(E) = Listing(v)
  BY <1>2, <1>4
<1>6. Victims(lru) = {Listing(v)}
  BY <1>1, <1>5 DEF Victims
<1>7. lru \in Lru /\ lru.credit \ {Listing(v)} \in Index /\ lru.debt \ {Listing(v)} \in Index
  BY DEF TypeOK, Lru, Index
<1>8. Popped(lru) = [lru EXCEPT !.credit = lru.credit \ {Listing(v)},
                                !.debt = lru.debt \ {Listing(v)}]
  BY <1>6 DEF Popped
<1>9. /\ Popped(lru) \in Lru /\ Popped(lru).next_order = lru.next_order
      /\ Popped(lru).credit = lru.credit \ {Listing(v)}
      /\ Popped(lru).debt = lru.debt \ {Listing(v)}
  BY <1>7, <1>8 DEF Lru
<1>10. ASSUME entries[v].indebted
       PROVE  (\A j \in Retained : entries[j].indebted) /\ ForgivesDebt(lru)
  <2>1. Listing(v) \notin lru.credit
    BY <1>10, ListingFields DEF IndexesMatchEntries
  <2>2. lru.credit = {} /\ lru.debt # {}
    BY <1>1, <1>4, <1>5, <2>1 DEF Eligible
  <2>. QED BY <2>2 DEF ForgivesDebt, IndexesMatchEntries
<1>. QED BY <1>6, <1>9, <1>10

-----------------------------------------------------------------------------
(***************************************************************************)
(* access, of a known identity and of a new one: the buckets of Gone make  *)
(* room for the bucket b of identity k.                                    *)
(***************************************************************************)
Relinked(k, c, Gone) ==
    /\ c.order = lru.next_order /\ (c.indebted <=> c.balance < 0)
    /\ lru' \in Lru /\ lru'.next_order = lru.next_order + 1
    /\ lru'.credit = (lru.credit \ {Listing(j) : j \in Gone})
                        \cup (IF c.indebted THEN {} ELSE {[order |-> c.order, key |-> k]})
    /\ lru'.debt = (lru.debt \ {Listing(j) : j \in Gone})
                        \cup (IF c.indebted THEN {[order |-> c.order, key |-> k]} ELSE {})

Accessed(t, k, access, Gone, b) ==
    /\ Retained \cap {k} \subseteq Gone
    /\ b.updated = call[t] /\ b.balance = Settled(Decisive(t, k), access)
    /\ Retained' = (Retained \ Gone) \cup {k}
    /\ entries' \in [Retained' -> Bucket] /\ entries'[k] = b
    /\ \A j \in Retained \ Gone : entries'[j] = entries[j]
    /\ Relinked(k, b, Gone)
    /\ Cardinality((Retained \ Gone) \cup {k}) =< MaxBuckets
    /\ \A v \in Gone \ {k} :
          /\ Cardinality(Retained) >= MaxBuckets
          /\ entries[v].indebted => /\ \A j \in Retained : entries[j].indebted
                                    /\ forgiven' = forgiven + 1
    /\ call[t] \in 0 .. now /\ call' = [call EXCEPT ![t] = NoCall]
    /\ forgiven' \in Nat /\ UNCHANGED <<now, sweep>>

\* What the last steps of access, relinking the settled bucket, come to.
LEMMA LinkAccessed ==
    ASSUME TypeOK, NEW l \in Lru, NEW b \in Bucket, NEW k \in Keys,
           NEW Gone \in SUBSET Retained,
           l.next_order = lru.next_order, lru.next_order < MaxOrder,
           l.credit = lru.credit \ {Listing(j) : j \in Gone},
           l.debt = lru.debt \ {Listing(j) : j \in Gone},
           lru' = link(l, b, k)
    PROVE  /\ Linked(l, b) \in Bucket /\ Linked(l, b).updated = b.updated
           /\ Linked(l, b).balance = b.balance /\ Relinked(k, Linked(l, b), Gone)
<1>. DEFINE c == Linked(l, b)
<1>1. /\ c \in Bucket /\ c.order = lru.next_order /\ (c.indebted <=> b.balance < 0)
      /\ c.updated = b.updated /\ c.balance = b.balance
  BY LinkedFacts
<1>. HIDE DEF c
<1>2. /\ lru' \in Lru /\ lru'.next_order = lru.next_order + 1
      /\ b.balance < 0 => /\ lru'.credit = l.credit
                          /\ lru'.debt = l.debt \cup {[order |-> lru.next_order, key |-> k]}
      /\ ~(b.balance < 0) => /\ lru'.debt = l.debt
                             /\ lru'.credit = l.credit \cup {[order |-> lru.next_order, key |-> k]}
  BY LinkFacts
<1>3. ASSUME b.balance < 0 PROVE Relinked(k, c, Gone)
  BY <1>1, <1>2, <1>3 DEF Relinked
<1>4. ASSUME ~(b.balance < 0) PROVE Relinked(k, c, Gone)
  BY <1>1, <1>2, <1>4 DEF Relinked
<1>. QED BY <1>1, <1>3, <1>4 DEF c

LEMMA KnownAccessed ==
    ASSUME TypeOK, IndexesMatchEntries, BucketsBounded,
           NEW t \in Threads, NEW k \in Keys, NEW access \in {Probe} \cup Counts,
           AccessKnown(t, k, access)
    PROVE  \E Gone \in SUBSET Retained, b \in Bucket : Accessed(t, k, access, Gone, b)
<1>. DEFINE r == refill(entries[k], call[t])
            s == [settle(r, access) EXCEPT !.last_access = call[t]]
            l == unlink(lru, entries[k])
            c == Linked(l, s)
<1>1. /\ k \in Retained /\ call[t] # NoCall /\ lru.next_order < MaxOrder
      /\ entries' = [entries EXCEPT ![k] = c] /\ lru' = link(l, s, k)
      /\ call' = [call EXCEPT ![t] = NoCall] /\ UNCHANGED <<now, forgiven, sweep>>
  BY DEF AccessKnown
<1>2. call[t] \in 0 .. now /\ call[t] \in Instant /\ entries[k] \in Bucket
      /\ entries \in [Retained -> Bucket]
  BY <1>1, RateLimiterConfig DEF TypeOK, Instant
<1>3. r \in Bucket /\ r.balance = Decisive(t, k) /\ r.updated = call[t]
  BY <1>1, <1>2, RefillFacts DEF Decisive
<1>. HIDE DEF r
<1>4. /\ settle(r, access) \in Bucket /\ settle(r, access).updated = call[t]
      /\ settle(r, access).balance = Settled(Decisive(t, k), access)
  BY <1>3, SettleFacts
<1>5. s \in Bucket /\ s.updated = call[t] /\ s.balance = Settled(Decisive(t, k), access)
  BY <1>2, <1>4 DEF Bucket
<1>6. /\ l \in Lru /\ l.next_order = lru.next_order
      /\ l.credit = lru.credit \ {Listing(k)} /\ l.debt = lru.debt \ {Listing(k)}
  BY <1>1, UnlinkFacts
<1>. HIDE DEF s, l
<1>7. {k} \in SUBSET Retained /\ {Listing(j) : j \in {k}} = {Listing(k)}
  BY <1>1
<1>8. c \in Bucket /\ c.updated = s.updated /\ c.balance = s.balance /\ Relinked(k, c, {k})
  <2>1. PICK Gone \in SUBSET Retained : Gone = {k}
    BY <1>7
  <2>2. PICK s0 \in Bucket, l0 \in Lru : s0 = s /\ l0 = l
    BY <1>5, <1>6
  <2>3. /\ l0.next_order = lru.next_order /\ lru.next_order < MaxOrder
        /\ l0.credit = lru.credit \ {Listing(j) : j \in Gone}
        /\ l0.debt = lru.debt \ {Listing(j) : j \in Gone}
        /\ lru' = link(l0, s0, k)
    BY <1>1, <1>6, <1>7, <2>1, <2>2
  <2>4. /\ Linked(l0, s0) \in Bucket /\ Linked(l0, s0).updated = s0.updated
        /\ Linked(l0, s0).balance = s0.balance /\ Relinked(k, Linked(l0, s0), Gone)
    BY <2>3, LinkAccessed
  <2>. QED BY <2>1, <2>2, <2>4
<1>. HIDE DEF c
<1>9. /\ Retained' = (Retained \ {k}) \cup {k}
      /\ entries' \in [Retained' -> Bucket] /\ entries'[k] = c
      /\ \A j \in Retained \ {k} : entries'[j] = entries[j]
  BY <1>1, <1>2, <1>8 DEF Retained
<1>10. Cardinality((Retained \ {k}) \cup {k}) =< MaxBuckets
  <2>1. (Retained \ {k}) \cup {k} = Retained
    BY <1>1
  <2>. QED BY <2>1 DEF BucketsBounded
<1>11. forgiven' \in Nat
  BY <1>1 DEF TypeOK
<1>12. Accessed(t, k, access, {k}, c)
  BY <1>1, <1>2, <1>5, <1>8, <1>9, <1>10, <1>11 DEF Accessed
<1>. QED BY <1>7, <1>8, <1>12

LEMMA NewAccessed ==
    ASSUME TypeOK, IndexesMatchEntries, BucketsBounded,
           NEW t \in Threads, NEW k \in Keys, NEW access \in {Probe} \cup Counts,
           AccessNew(t, k, access)
    PROVE  \E Gone \in SUBSET Retained, b \in Bucket : Accessed(t, k, access, Gone, b)
<1>. DEFINE evicted == IF Full THEN {e.key : e \in Victims(lru)} ELSE {}
            l == IF Full THEN Popped(lru) ELSE lru
            n == [balance |-> Capacity, updated |-> call[t], last_access |-> call[t],
                  order |-> 0, indebted |-> FALSE]
            s == settle(n, access)
            c == Linked(l, s)
<1>1. /\ k \notin Retained /\ call[t] # NoCall /\ lru.next_order < MaxOrder
      /\ forgiven' = IF Full /\ ForgivesDebt(lru) THEN forgiven + 1 ELSE forgiven
      /\ entries' = [j \in (Retained \ evicted) \cup {k} |-> IF j = k THEN c ELSE entries[j]]
      /\ lru' = link(l, s, k)
      /\ call' = [call EXCEPT ![t] = NoCall] /\ UNCHANGED <<now, sweep>>
  BY DEF AccessNew
<1>2. /\ call[t] \in 0 .. now /\ call[t] \in Instant /\ lru \in Lru
      /\ entries \in [Retained -> Bucket]
  BY <1>1, RateLimiterConfig DEF TypeOK, Instant, Lru
<1>3. n \in Bucket /\ n.balance = Decisive(t, k) /\ n.updated = call[t]
  BY <1>1, <1>2, Sizes DEF Decisive, Bucket, Order, TypeOK
<1>. HIDE DEF n
<1>4. s \in Bucket /\ s.updated = call[t] /\ s.balance = Settled(Decisive(t, k), access)
  BY <1>3, SettleFacts
<1>. HIDE DEF s
<1>5. PICK Gone \in SUBSET Retained :
        /\ Gone = evicted
        /\ l \in Lru /\ l.next_order = lru.next_order
        /\ l.credit = lru.credit \ {Listing(j) : j \in Gone}
        /\ l.debt = lru.debt \ {Listing(j) : j \in Gone}
        /\ Cardinality((Retained \ Gone) \cup {k}) =< MaxBuckets
        /\ \A v \in Gone \ {k} :
              /\ Cardinality(Retained) >= MaxBuckets
              /\ entries[v].indebted => /\ \A j \in Retained : entries[j].indebted
                                        /\ forgiven' = forgiven + 1
  <2>0. /\ IsFiniteSet(Retained) /\ Cardinality(Retained) \in Nat /\ MaxBuckets \in Nat \ {0}
        /\ Cardinality(Retained) =< MaxBuckets
    BY Sizes DEF BucketsBounded
  <2>1. CASE Full
    <3>1. Retained # {}
      BY <2>0, <2>1, FS_EmptySet DEF Full
    <3>2. PICK v \in Retained :
            /\ Victims(lru) = {Listing(v)}
            /\ Popped(lru) \in Lru /\ Popped(lru).next_order = lru.next_order
            /\ Popped(lru).credit = lru.credit \ {Listing(v)}
            /\ Popped(lru).debt = lru.debt \ {Listing(v)}
            /\ entries[v].indebted => /\ \A j \in Retained : entries[j].indebted
                                      /\ ForgivesDebt(lru)
      BY <3>1, VictimFacts
    <3>3. evicted = {v} /\ {Listing(j) : j \in {v}} = {Listing(v)}
      BY <2>1, <3>2, ListingFields
    <3>4. l = Popped(lru)
      BY <2>1
    <3>. DEFINE Rest == Retained \ {v}
    <3>5. IsFiniteSet(Rest) /\ Cardinality(Rest) = Cardinality(Retained) - 1
      BY <2>0, <3>2, FS_RemoveElement
    <3>6. k \notin Rest
      BY <1>1
    <3>. HIDE DEF Rest
    <3>7. Cardinality(Rest \cup {k}) = Cardinality(Rest) + 1
      BY <3>5, <3>6, FS_AddElement
    <3>8. Cardinality(Rest \cup {k}) =< MaxBuckets
      BY <2>0, <3>5, <3>7
    <3>9. Cardinality((Retained \ {v}) \cup {k}) =< MaxBuckets
      BY <3>8 DEF Rest
    <3>10. Cardinality(Retained) >= MaxBuckets
      BY <2>1 DEF Full
    <3>11. entries[v].indebted => forgiven' = forgiven + 1
      BY <1>1, <2>1, <3>2
    <3>12. {v} \in SUBSET Retained
      BY <3>2
    <3>. HIDE DEF evicted, l
    <3>. QED BY <3>2, <3>3, <3>4, <3>9, <3>10, <3>11, <3>12
  <2>2. CASE ~Full
    <3>1. evicted = {} /\ l = lru
      BY <2>2
    <3>2. Cardinality(Retained \cup {k}) = Cardinality(Retained) + 1
      BY <1>1, <2>0, FS_AddElement
    <3>3. Cardinality(Retained \cup {k}) =< MaxBuckets
      BY <2>0, <2>2, <3>2 DEF Full
    <3>4. (Retained \ {}) \cup {k} = Retained \cup {k}
      OBVIOUS
    <3>5. Cardinality((Retained \ {}) \cup {k}) =< MaxBuckets
      BY <3>3, <3>4
    <3>6. /\ lru.credit = lru.credit \ {Listing(j) : j \in {}}
          /\ lru.debt = lru.debt \ {Listing(j) : j \in {}}
      OBVIOUS
    <3>. HIDE DEF evicted, l
    <3>. QED BY <1>2, <3>1, <3>5, <3>6
  <2>. QED BY <2>1, <2>2
<1>. HIDE DEF l
<1>6. c \in Bucket /\ c.updated = s.updated /\ c.balance = s.balance /\ Relinked(k, c, Gone)
  <2>1. PICK s0 \in Bucket, l0 \in Lru : s0 = s /\ l0 = l
    BY <1>4, <1>5
  <2>2. /\ l0.next_order = lru.next_order /\ lru.next_order < MaxOrder
        /\ l0.credit = lru.credit \ {Listing(j) : j \in Gone}
        /\ l0.debt = lru.debt \ {Listing(j) : j \in Gone}
        /\ lru' = link(l0, s0, k)
    BY <1>1, <1>5, <2>1
  <2>3. /\ Linked(l0, s0) \in Bucket /\ Linked(l0, s0).updated = s0.updated
        /\ Linked(l0, s0).balance = s0.balance /\ Relinked(k, Linked(l0, s0), Gone)
    BY <2>2, LinkAccessed
  <2>. QED BY <2>1, <2>3
<1>. HIDE DEF c
<1>7. entries' = [j \in (Retained \ Gone) \cup {k} |-> IF j = k THEN c ELSE entries[j]]
  BY <1>1, <1>5
<1>. HIDE DEF evicted
<1>8. /\ Retained' = (Retained \ Gone) \cup {k}
      /\ entries' \in [Retained' -> Bucket] /\ entries'[k] = c
      /\ \A j \in Retained \ Gone : entries'[j] = entries[j]
  BY <1>1, <1>2, <1>6, <1>7 DEF Retained
<1>9. forgiven' \in Nat
  BY <1>1 DEF TypeOK
<1>10. Accessed(t, k, access, Gone, c)
  BY <1>1, <1>2, <1>4, <1>5, <1>6, <1>8, <1>9 DEF Accessed
<1>. QED BY <1>6, <1>10

-----------------------------------------------------------------------------
(***************************************************************************)
(* BucketsAccounted, the limiter's part of it.                             *)
(***************************************************************************)
Limiter == TypeOK /\ IndexesMatchEntries /\ ListingsInStep /\ BucketsBounded

LEMMA DecisiveFacts ==
    ASSUME TypeOK, NEW t \in Threads, NEW k \in Keys, call[t] \in 0 .. now
    PROVE  /\ Decisive(t, k) \in Int /\ Decisive(t, k) =< Capacity
           /\ \A access \in {Probe} \cup Counts :
                /\ Settled(Decisive(t, k), access) \in Int
                /\ Settled(Decisive(t, k), access) =< Decisive(t, k)
<1>1. call[t] \in Instant /\ Capacity \in Int
  BY Sizes DEF TypeOK, Instant
<1>2. Decisive(t, k) \in Int /\ Decisive(t, k) =< Capacity
  <2>1. CASE k \in Retained
    BY <1>1, <2>1, RefillFacts, BucketFacts DEF Decisive, TypeOK
  <2>2. CASE k \notin Retained
    BY <1>1, <2>2 DEF Decisive
  <2>. QED BY <2>1, <2>2
<1>. QED BY <1>2, Sizes DEF Settled

LEMMA AccessLimiter ==
    ASSUME Limiter, NEW t \in Threads, NEW k \in Keys, NEW access \in {Probe} \cup Counts,
           NEW Gone \in SUBSET Retained, NEW b \in Bucket, Accessed(t, k, access, Gone, b)
    PROVE  Limiter'
<1>0. /\ TypeOK /\ IndexesMatchEntries /\ ListingsInStep
      /\ Retained \cap {k} \subseteq Gone
      /\ b.order = lru.next_order /\ (b.indebted <=> b.balance < 0)
      /\ b.updated = call[t] /\ b.balance = Settled(Decisive(t, k), access)
      /\ Retained' = (Retained \ Gone) \cup {k}
      /\ entries' \in [Retained' -> Bucket] /\ entries'[k] = b
      /\ \A j \in Retained \ Gone : entries'[j] = entries[j]
      /\ lru' \in Lru /\ lru'.next_order = lru.next_order + 1
      /\ call[t] \in 0 .. now /\ call' = [call EXCEPT ![t] = NoCall]
      /\ forgiven' \in Nat /\ now' = now /\ sweep' = sweep
  BY DEF Accessed, Relinked, Limiter
<1>1. IndexesMatchEntries'
  <2>1. /\ lru'.credit = (lru.credit \ {Listing(j) : j \in Gone})
                            \cup (IF b.indebted THEN {} ELSE {[order |-> b.order, key |-> k]})
        /\ lru'.debt = (lru.debt \ {Listing(j) : j \in Gone})
                            \cup (IF b.indebted THEN {[order |-> b.order, key |-> k]} ELSE {})
    BY DEF Accessed, Relinked
  <2>. QED BY <1>0, <2>1, IndexKept
<1>2. BucketsBounded'
  BY DEF Accessed, BucketsBounded
<1>3. b.balance =< Capacity
  BY <1>0, DecisiveFacts, Sizes
<1>4. TypeOK'
  <2>1. call' \in [Threads -> {NoCall} \cup (0 .. now')]
    BY <1>0 DEF TypeOK
  <2>2. \A j \in Retained' : entries'[j].balance =< Capacity
    BY <1>0, <1>3 DEF TypeOK
  <2>3. Retained' \subseteq Keys
    BY <1>0 DEF TypeOK
  <2>4. now' \in Instant /\ sweep' \in {NotSweeping} \cup (0 .. now')
    BY <1>0 DEF TypeOK
  <2>. QED BY <1>0, <2>1, <2>2, <2>3, <2>4 DEF TypeOK, Lru
<1>5. ListingsInStep'
  <2>1. lru.next_order \in Nat /\ now \in Nat
    BY <1>0, Sizes
  <2>2. \A j \in Retained : entries[j].order \in Nat
    BY <1>0, BucketFacts DEF TypeOK
  <2>3. ASSUME NEW j \in Retained'
        PROVE  /\ entries'[j].order < lru'.next_order
               /\ entries'[j].indebted <=> entries'[j].balance < 0
               /\ entries'[j].updated =< now'
    <3>1. CASE j = k
      BY <1>0, <2>1, <3>1
    <3>2. CASE j # k
      BY <1>0, <2>1, <2>2, <3>2 DEF ListingsInStep
    <3>. QED BY <3>1, <3>2
  <2>. QED BY <2>3 DEF ListingsInStep
<1>. QED BY <1>1, <1>2, <1>4, <1>5 DEF Limiter

\* sweep_idle: what stays, and what is listed where.
LEMMA SweepFacts ==
    ASSUME Limiter, Sweep
    PROVE  /\ sweep \in 0 .. now /\ sweep' = NotSweeping
           /\ Retained' \subseteq Retained /\ entries' \in [Retained' -> Bucket]
           /\ \A k \in Retained' :
                /\ entries'[k].balance = refill(entries[k], sweep).balance
                /\ entries'[k].updated = sweep /\ entries'[k].order = entries[k].order
                /\ entries'[k].indebted <=> entries'[k].balance < 0
           /\ \A k \in Retained \ Retained' : refill(entries[k], sweep).balance >= 0
           /\ UNCHANGED <<now, forgiven, call>>
<1>. DEFINE r(k) == refill(entries[k], sweep)
            repaid == {k \in Retained : entries[k].indebted /\ r(k).balance >= 0}
            idle == {k \in Retained :
                        /\ r(k).balance >= 0
                        /\ Since(entries[k].last_access, sweep) >= IdleEviction}
            v(k) == r(k).indebted /\ k \notin repaid
            s(k) == [r(k) EXCEPT !.indebted = v(k)]
<1>1. /\ sweep # NotSweeping /\ sweep' = NotSweeping /\ UNCHANGED <<now, forgiven, call>>
      /\ entries' = [k \in Retained \ idle |-> s(k)]
  BY DEF Sweep
<1>2. sweep \in 0 .. now /\ sweep \in Instant /\ TypeOK
  BY <1>1, RateLimiterConfig DEF Limiter, TypeOK, Instant
<1>3. ASSUME NEW k \in Retained
      PROVE  /\ r(k) \in Bucket /\ r(k).updated = sweep /\ r(k).order = entries[k].order
             /\ r(k).indebted <=> entries[k].balance < 0
             /\ entries[k].balance >= 0 => r(k).balance >= 0
             /\ r(k).balance \in Int
  <2>1. entries[k] \in Bucket /\ (entries[k].indebted <=> entries[k].balance < 0)
    BY <1>2 DEF TypeOK, Limiter, ListingsInStep
  <2>2. /\ r(k) \in Bucket /\ r(k).updated = sweep /\ r(k).order = entries[k].order
        /\ r(k).indebted = entries[k].indebted
        /\ r(k).balance = Least(entries[k].balance + Since(entries[k].updated, sweep), Capacity)
    BY <1>2, <2>1, RefillFacts
  <2>3. r(k).indebted <=> entries[k].balance < 0
    BY <2>1, <2>2
  <2>4. /\ entries[k].balance \in Int /\ entries[k].updated \in Nat /\ Capacity \in Nat
        /\ sweep \in Nat /\ r(k).balance \in Int
    BY <1>2, <2>1, <2>2, BucketFacts, Sizes DEF Instant
  <2>. HIDE DEF r
  <2>5. entries[k].balance >= 0 => r(k).balance >= 0
    BY <2>2, <2>4 DEF Least, Since
  <2>. QED BY <2>2, <2>3, <2>4, <2>5
<1>. HIDE DEF r
<1>4. ASSUME NEW k \in Retained
      PROVE  /\ s(k) \in Bucket /\ s(k).updated = sweep /\ s(k).order = entries[k].order
             /\ s(k).balance = r(k).balance
             /\ s(k).indebted <=> s(k).balance < 0
  <2>0. k \in repaid <=> entries[k].balance < 0 /\ r(k).balance >= 0
    BY DEF Limiter, ListingsInStep
  <2>1. v(k) <=> r(k).balance < 0
    <3>1. entries[k].balance \in Int
      BY <1>2, BucketFacts DEF TypeOK
    <3>. HIDE DEF repaid
    <3>. QED BY <1>3, <2>0, <3>1
  <2>2. v(k) \in BOOLEAN
    OBVIOUS
  <2>. HIDE DEF v
  <2>3. /\ s(k) \in Bucket /\ s(k).updated = sweep /\ s(k).order = entries[k].order
        /\ s(k).balance = r(k).balance /\ s(k).indebted = v(k)
    BY <1>3, <2>2 DEF Bucket
  <2>. HIDE DEF s
  <2>4. s(k).indebted <=> v(k)
    BY <2>3, Zenon
  <2>. QED BY <2>1, <2>3, <2>4
<1>. HIDE DEF s, v
<1>5. Retained' = Retained \ idle
  BY <1>1 DEF Retained
<1>6. \A k \in idle : r(k).balance >= 0
  OBVIOUS
<1>. HIDE DEF idle
<1>7. \A k \in Retained' : k \in Retained /\ entries'[k] = s(k)
  BY <1>1, <1>5
<1>8. entries' \in [Retained' -> Bucket]
  BY <1>1, <1>4, <1>5
<1>9. \A k \in Retained' :
        /\ entries'[k].balance = refill(entries[k], sweep).balance
        /\ entries'[k].updated = sweep /\ entries'[k].order = entries[k].order
        /\ entries'[k].indebted <=> entries'[k].balance < 0
  BY <1>4, <1>7 DEF r
<1>10. \A k \in Retained \ Retained' : refill(entries[k], sweep).balance >= 0
  BY <1>5, <1>6 DEF r
<1>. QED BY <1>1, <1>2, <1>5, <1>8, <1>9, <1>10

LEMMA SweepIndexes == ASSUME Limiter, Sweep PROVE IndexesMatchEntries' /\ lru' \in Lru
                                                  /\ lru'.next_order = lru.next_order
<1>. DEFINE r(k) == refill(entries[k], sweep)
            repaid == {k \in Retained : entries[k].indebted /\ r(k).balance >= 0}
            idle == {k \in Retained :
                        /\ r(k).balance >= 0
                        /\ Since(entries[k].last_access, sweep) >= IdleEviction}
            moved == {e \in lru.debt : \E k \in repaid : e.order = entries[k].order}
            dropped == {entries[k].order : k \in idle}
            C0 == lru.credit \cup {Listing(k) : k \in repaid}
            D0 == lru.debt \ moved
            C == {e \in C0 : e.order \notin dropped}
            D == {e \in D0 : e.order \notin dropped}
<1>1. lru' = [lru EXCEPT !.debt = D, !.credit = C] /\ Retained' = Retained \ idle
  BY DEF Sweep, Listing, Retained
<1>2. /\ lru \in Lru /\ TypeOK
      /\ lru.credit = {Listing(k) : k \in {j \in Retained : ~entries[j].indebted}}
      /\ lru.debt = {Listing(k) : k \in {j \in Retained : entries[j].indebted}}
      /\ \A j, k \in Retained : entries[j].order = entries[k].order => j = k
  BY DEF Limiter, TypeOK, Lru, IndexesMatchEntries
<1>3. repaid \subseteq Retained /\ idle \subseteq Retained
      /\ \A k \in repaid : entries[k].indebted
  OBVIOUS
<1>. HIDE DEF repaid, idle
<1>4. D0 = {Listing(k) : k \in {j \in Retained : entries[j].indebted /\ j \notin repaid}}
  BY <1>2, <1>3, ListingFields
<1>5. C0 = {Listing(k) : k \in {j \in Retained : ~entries[j].indebted \/ j \in repaid}}
  BY <1>2, <1>3
<1>. HIDE DEF C0, D0
<1>6. \A k \in Retained : entries[k].order \in dropped <=> k \in idle
  BY <1>2, <1>3
<1>. HIDE DEF dropped
<1>7. D = {Listing(k) : k \in {j \in Retained \ idle : entries[j].indebted /\ j \notin repaid}}
  BY <1>4, <1>6, ListingFields
<1>8. C = {Listing(k) : k \in {j \in Retained \ idle : ~entries[j].indebted \/ j \in repaid}}
  BY <1>5, <1>6, ListingFields
<1>9. \A k \in Retained : Listing(k) \in [order : Order, key : Keys]
  BY <1>2 DEF Listing, TypeOK, Bucket
<1>10. C \in Index /\ D \in Index
  BY <1>7, <1>8, <1>9 DEF Index
<1>. HIDE DEF C, D
<1>11. /\ lru' \in Lru /\ lru'.next_order = lru.next_order /\ lru'.credit = C /\ lru'.debt = D
  BY <1>1, <1>2, <1>10 DEF Lru
<1>12. ASSUME NEW k \in Retained'
       PROVE  /\ k \in Retained \ idle /\ Listing(k)' = Listing(k)
              /\ entries'[k].order = entries[k].order
              /\ entries'[k].indebted <=> entries[k].indebted /\ k \notin repaid
  <2>1. /\ k \in Retained \ idle /\ entries'[k].order = entries[k].order
        /\ entries'[k].balance = r(k).balance
        /\ entries'[k].indebted <=> entries'[k].balance < 0
    BY <1>1, SweepFacts
  <2>2. k \in repaid <=> entries[k].indebted /\ r(k).balance >= 0
    BY <2>1 DEF repaid
  <2>3. entries[k] \in Bucket /\ sweep \in Instant
    BY <1>2, <2>1, SweepFacts, Sizes DEF TypeOK, Instant
  <2>4. /\ r(k).balance \in Int /\ entries[k].balance \in Int /\ entries[k].updated \in Nat
        /\ sweep \in Nat /\ Capacity \in Nat
        /\ r(k).balance = Least(entries[k].balance + Since(entries[k].updated, sweep), Capacity)
    BY <1>2, <2>3, RefillFacts, BucketFacts, Sizes DEF Instant
  <2>. HIDE DEF r
  <2>5. entries[k].balance >= 0 => r(k).balance >= 0
    BY <2>4 DEF Least, Since
  <2>6. entries[k].indebted <=> entries[k].balance < 0
    BY <2>1 DEF Limiter, ListingsInStep
  <2>. QED BY <2>1, <2>2, <2>4, <2>5, <2>6 DEF Listing
<1>13. {j \in Retained \ idle : entries[j].indebted /\ j \notin repaid}
            = {j \in Retained' : entries'[j].indebted}
  BY <1>1, <1>12
<1>14. {j \in Retained \ idle : ~entries[j].indebted \/ j \in repaid}
            = {j \in Retained' : ~entries'[j].indebted}
  BY <1>1, <1>12
<1>. DEFINE L(k) == [order |-> entries'[k].order, key |-> k]
<1>15. D = {L(k) : k \in {j \in Retained' : entries'[j].indebted}}
  BY <1>7, <1>12, <1>13 DEF Listing
<1>16. C = {L(k) : k \in {j \in Retained' : ~entries'[j].indebted}}
  BY <1>8, <1>12, <1>14 DEF Listing
<1>17. \A j, k \in Retained' : entries'[j].order = entries'[k].order => j = k
  BY <1>2, <1>12
<1>. QED BY <1>11, <1>15, <1>16, <1>17 DEF IndexesMatchEntries, Listing

LEMMA SweepLimiter == ASSUME Limiter, Sweep PROVE Limiter'
<1>1. /\ sweep \in 0 .. now /\ sweep' = NotSweeping
      /\ Retained' \subseteq Retained /\ entries' \in [Retained' -> Bucket]
      /\ \A k \in Retained' :
           /\ entries'[k].balance = refill(entries[k], sweep).balance
           /\ entries'[k].updated = sweep /\ entries'[k].order = entries[k].order
           /\ entries'[k].indebted <=> entries'[k].balance < 0
      /\ UNCHANGED <<now, forgiven, call>>
  BY SweepFacts
<1>2. IndexesMatchEntries' /\ lru' \in Lru /\ lru'.next_order = lru.next_order
  BY SweepIndexes
<1>3. TypeOK /\ sweep \in Instant /\ now \in Nat
  BY <1>1, Sizes DEF Limiter, TypeOK, Instant
<1>4. TypeOK'
  <2>1. \A k \in Retained' : entries'[k].balance =< Capacity
    BY <1>1, <1>3, RefillFacts, SMTT(30) DEF TypeOK
  <2>. QED BY <1>1, <1>2, <1>3, <2>1 DEF TypeOK, Lru
<1>5. ListingsInStep'
  BY <1>1, <1>2, <1>3 DEF Limiter, ListingsInStep
<1>6. BucketsBounded'
  <2>1. Cardinality(Retained') =< Cardinality(Retained) /\ Cardinality(Retained') \in Nat
    BY <1>1, <1>3, Sizes, FS_Subset, FS_CardinalityType
  <2>. QED BY <1>3, <2>1, Sizes DEF Limiter, BucketsBounded
<1>. QED BY <1>2, <1>4, <1>5, <1>6 DEF Limiter

LEMMA InitLimiter == Init => Limiter
<1>. SUFFICES ASSUME Init PROVE Limiter
  OBVIOUS
<1>1. Retained = {} /\ entries \in [Retained -> Bucket]
  BY DEF Init, Retained
<1>2. lru.credit = {} /\ lru.debt = {} /\ lru.next_order = 0
      /\ lru \in [credit : Index, debt : Index, next_order : 0 .. MaxOrder]
  BY RateLimiterConfig DEF Init, Index
<1>3. TypeOK
  BY <1>1, <1>2, RateLimiterConfig DEF Init, TypeOK, Instant
<1>4. Cardinality(Retained) = 0
  BY <1>1, FS_EmptySet
<1>5. BucketsBounded
  BY <1>4, RateLimiterConfig DEF BucketsBounded
<1>. QED BY <1>1, <1>2, <1>3, <1>5 DEF Limiter, IndexesMatchEntries, ListingsInStep

\* The clock, the clock reads before the lock and the forgiveness metric.
LEMMA OutsideLimiter ==
    ASSUME Limiter, UNCHANGED <<entries, lru>>, now' \in Instant, now' >= now,
           forgiven' \in Nat, call' \in [Threads -> {NoCall} \cup (0 .. now')],
           sweep' \in {NotSweeping} \cup (0 .. now')
    PROVE  Limiter'
<1>1. TypeOK /\ Retained' = Retained
  BY DEF Limiter, Retained
<1>2. TypeOK'
  BY <1>1 DEF TypeOK
<1>3. IndexesMatchEntries' /\ BucketsBounded'
  BY <1>1 DEF Limiter, IndexesMatchEntries, BucketsBounded, Listing
<1>4. ListingsInStep'
  <2>1. now \in Nat /\ now' \in Nat /\ \A k \in Retained : entries[k].updated \in Nat
    BY <1>1, Sizes, BucketFacts DEF TypeOK, Instant
  <2>. QED BY <1>1, <2>1 DEF Limiter, ListingsInStep
<1>. QED BY <1>2, <1>3, <1>4 DEF Limiter

LEMMA AccessIs ==
    ASSUME Limiter, NEW t \in Threads, NEW k \in Keys, NEW access \in {Probe} \cup Counts,
           BookedAccess(t, k, access)
    PROVE  \E Gone \in SUBSET Retained, b \in Bucket : Accessed(t, k, access, Gone, b)
BY KnownAccessed, NewAccessed DEF Limiter, BookedAccess

LEMMA NextLimiter ==
    ASSUME Limiter, [LedgerNext]_<<vars, ledger>>
    PROVE  Limiter'
<1>0. TypeOK /\ now \in Nat /\ MaxNow \in Nat
  BY Sizes DEF Limiter
<1>1. ASSUME NEW t \in Threads, NEW k \in Keys, NEW access \in {Probe} \cup Counts,
             BookedAccess(t, k, access)
      PROVE  Limiter'
  BY <1>1, AccessIs, AccessLimiter
<1>2. ASSUME BookedSweep PROVE Limiter'
  BY <1>2, SweepLimiter DEF BookedSweep
<1>3. ASSUME BookedTick PROVE Limiter'
  <2>1. now < MaxNow /\ now' = now + 1 /\ UNCHANGED <<entries, lru, forgiven, call, sweep>>
    BY <1>3 DEF BookedTick, Tick
  <2>2. now' \in Instant /\ now' >= now /\ 0 .. now \subseteq 0 .. now'
    BY <1>0, <2>1 DEF Instant
  <2>3. call' \in [Threads -> {NoCall} \cup (0 .. now')] /\ sweep' \in {NotSweeping} \cup (0 .. now')
    BY <1>0, <2>1, <2>2 DEF TypeOK
  <2>. QED BY <1>0, <2>1, <2>2, <2>3, OutsideLimiter DEF TypeOK
<1>4. ASSUME TakeForgiven PROVE Limiter'
  <2>1. UNCHANGED <<now, entries, lru, call, sweep>> /\ forgiven' = 0
    BY <1>4 DEF TakeForgiven
  <2>. QED BY <1>0, <2>1, OutsideLimiter DEF TypeOK
<1>5. ASSUME SweepBegin PROVE Limiter'
  <2>1. UNCHANGED <<now, entries, lru, call, forgiven>> /\ sweep' = now
    BY <1>5 DEF SweepBegin
  <2>. QED BY <1>0, <2>1, OutsideLimiter DEF TypeOK
<1>6. ASSUME NEW t \in Threads, Begin(t) PROVE Limiter'
  <2>1. UNCHANGED <<now, entries, lru, sweep, forgiven>> /\ call' = [call EXCEPT ![t] = now]
    BY <1>6 DEF Begin
  <2>2. call' \in [Threads -> {NoCall} \cup (0 .. now')]
    BY <1>0, <2>1 DEF TypeOK
  <2>. QED BY <1>0, <2>1, <2>2, OutsideLimiter DEF TypeOK
<1>7. ASSUME UNCHANGED <<vars, ledger>> PROVE Limiter'
  <2>1. UNCHANGED <<now, entries, lru, sweep, forgiven, call>>
    BY <1>7 DEF vars
  <2>. QED BY <1>0, <2>1, OutsideLimiter DEF TypeOK
<1>. QED BY <1>1, <1>2, <1>3, <1>4, <1>5, <1>6, <1>7 DEF LedgerNext

-----------------------------------------------------------------------------
(***************************************************************************)
(* Balances: what a step does to what an identity can draw on.             *)
(***************************************************************************)
LEMMA AvailableFacts ==
    ASSUME Limiter, NEW k \in Keys
    PROVE  /\ Available(k) \in Int /\ Available(k) =< Capacity
           /\ k \in Retained => /\ Available(k) = Least(entries[k].balance
                                                     + Since(entries[k].updated, now), Capacity)
                                /\ entries[k].balance \in Int /\ entries[k].balance =< Capacity
                                /\ entries[k].updated \in Nat /\ entries[k].updated =< now
           /\ k \notin Retained => Available(k) = Capacity
<1>1. TypeOK /\ now \in Instant /\ Capacity \in Int
  BY Sizes DEF Limiter, TypeOK
<1>2. CASE k \in Retained
  <2>1. entries[k] \in Bucket /\ entries[k].balance =< Capacity /\ entries[k].updated =< now
    BY <1>1, <1>2 DEF TypeOK, Limiter, ListingsInStep
  <2>. QED BY <1>1, <1>2, <2>1, RefillFacts, BucketFacts DEF Available
<1>3. CASE k \notin Retained
  BY <1>1, <1>3 DEF Available
<1>. QED BY <1>2, <1>3

LEMMA AvailableAfter ==
    ASSUME Limiter', NEW k \in Keys
    PROVE  /\ Available(k)' \in Int /\ Available(k)' =< Capacity
           /\ k \in Retained' => Available(k)' = Least(entries'[k].balance
                                           + Since(entries'[k].updated, now'), Capacity)
           /\ k \notin Retained' => Available(k)' = Capacity
<1>1. TypeOK' /\ now' \in Instant /\ Capacity \in Int
  BY RateLimiterConfig DEF Limiter, TypeOK, Capacity
<1>2. CASE k \in Retained'
  <2>1. entries'[k] \in Bucket
    BY <1>1, <1>2 DEF TypeOK
  <2>. QED BY <1>1, <1>2, <2>1, RefillFacts, BucketFacts DEF Available
<1>3. CASE k \notin Retained'
  BY <1>1, <1>3 DEF Available
<1>. QED BY <1>2, <1>3

Paid(t, k, access) == IF Decisive(t, k) =< 0 THEN 0 ELSE Cost(access)

LEMMA AccessBalance ==
    ASSUME Limiter, NEW t \in Threads, NEW k \in Keys, NEW access \in {Probe} \cup Counts,
           BookedAccess(t, k, access)
    PROVE  /\ call[t] \in 0 .. now
           /\ Paid(t, k, access) \in Nat
           /\ Available(k)' >= Available(k) - Paid(t, k, access)
           /\ Available(k)' =< Available(k) - Paid(t, k, access) + (now - call[t])
           /\ Available(k)' >= Decisive(t, k) - Paid(t, k, access)
           /\ k \notin Evicted
           /\ \A j \in Keys : j # k /\ j \notin Evicted => Available(j)' = Available(j)
           /\ \A j \in Evicted : Available(j)' = Capacity
<1>1. PICK Gone \in SUBSET Retained, b \in Bucket : Accessed(t, k, access, Gone, b)
  BY AccessIs
<1>2. Limiter'
  BY <1>1, AccessLimiter
<1>3. /\ b.updated = call[t] /\ b.balance = Settled(Decisive(t, k), access)
      /\ Retained' = (Retained \ Gone) \cup {k} /\ entries'[k] = b
      /\ \A j \in Retained \ Gone : entries'[j] = entries[j]
      /\ call[t] \in 0 .. now /\ now' = now
  BY <1>1 DEF Accessed
<1>4. /\ TypeOK /\ Capacity \in Nat \ {0} /\ now \in Nat /\ call[t] \in Nat /\ call[t] =< now
      /\ Cost(access) \in Nat /\ call[t] \in Instant /\ now \in Instant
  BY <1>3, Sizes DEF Limiter, TypeOK, Instant
<1>5. /\ Decisive(t, k) \in Int /\ Paid(t, k, access) \in Nat
      /\ b.balance = Decisive(t, k) - Paid(t, k, access)
  BY <1>3, <1>4, DecisiveFacts DEF Paid, Settled
<1>6. Evicted = Retained \ Retained'
  BY DEF Evicted, Retained
<1>7. Available(k)' = Least(b.balance + Since(call[t], now), Capacity)
  BY <1>2, <1>3, AvailableAfter
<1>8. /\ Available(k)' >= Available(k) - Paid(t, k, access)
      /\ Available(k)' =< Available(k) - Paid(t, k, access) + (now - call[t])
      /\ Available(k)' >= Decisive(t, k) - Paid(t, k, access)
  <2>1. CASE k \in Retained
    <3>1. entries[k] \in Bucket
      BY <1>4, <2>1 DEF TypeOK
    <3>2. Decisive(t, k) = Least(entries[k].balance + Since(entries[k].updated, call[t]), Capacity)
      BY <1>4, <2>1, <3>1, RefillFacts DEF Decisive
    <3>3. /\ Available(k) = Least(entries[k].balance + Since(entries[k].updated, now), Capacity)
          /\ entries[k].balance \in Int /\ entries[k].balance =< Capacity
          /\ entries[k].updated \in Nat /\ entries[k].updated =< now
      BY <2>1, AvailableFacts
    <3>4. Available(k)' = Least(Decisive(t, k) - Paid(t, k, access) + Since(call[t], now), Capacity)
      BY <1>5, <1>7
    <3>. QED BY <1>4, <1>5, <3>2, <3>3, <3>4 DEF Least, Since
  <2>2. CASE k \notin Retained
    <3>1. Decisive(t, k) = Capacity /\ Available(k) = Capacity
      BY <2>2 DEF Decisive, Available
    <3>. QED BY <1>4, <1>5, <1>7, <3>1 DEF Least, Since
  <2>. QED BY <2>1, <2>2
<1>9. ASSUME NEW j \in Keys, j # k, j \notin Evicted PROVE Available(j)' = Available(j)
  <2>1. CASE j \in Retained
    <3>1. j \in Retained' /\ entries'[j] = entries[j]
      BY <1>3, <1>6, <1>9, <2>1
    <3>. QED BY <1>2, <1>3, <2>1, <3>1, AvailableFacts, AvailableAfter
  <2>2. CASE j \notin Retained
    <3>1. j \notin Retained'
      BY <1>3, <1>9, <2>2
    <3>. QED BY <1>2, <2>2, <3>1, AvailableFacts, AvailableAfter
  <2>. QED BY <2>1, <2>2
<1>10. \A j \in Evicted : Available(j)' = Capacity
  BY <1>2, <1>4, <1>6, AvailableAfter DEF TypeOK
<1>11. k \notin Evicted
  BY <1>3, <1>6
<1>. QED BY <1>3, <1>5, <1>8, <1>9, <1>10, <1>11

LEMMA SweepBalance ==
    ASSUME Limiter, BookedSweep
    PROVE  /\ sweep \in 0 .. now /\ now' = now
           /\ \A k \in Keys : k \in Retained \ Evicted =>
                /\ Available(k)' >= Available(k)
                /\ Available(k)' =< Available(k) + (now - sweep)
           /\ \A k \in Keys : k \notin Retained => Available(k)' = Available(k)
           /\ \A k \in Evicted : Available(k)' = Capacity
<1>1. /\ sweep \in 0 .. now
      /\ Retained' \subseteq Retained
      /\ \A k \in Retained' :
           /\ entries'[k].balance = refill(entries[k], sweep).balance
           /\ entries'[k].updated = sweep
      /\ now' = now
  BY SweepFacts DEF BookedSweep
<1>2. Limiter'
  BY SweepLimiter DEF BookedSweep
<1>3. /\ TypeOK /\ Capacity \in Nat /\ now \in Nat /\ sweep \in Nat /\ sweep =< now
      /\ sweep \in Instant
  BY <1>1, Sizes DEF Limiter, TypeOK, Instant
<1>4. Evicted = Retained \ Retained'
  BY DEF Evicted, Retained
<1>5. ASSUME NEW k \in Keys, k \in Retained \ Evicted
      PROVE  Available(k)' >= Available(k) /\ Available(k)' =< Available(k) + (now - sweep)
  <2>1. k \in Retained' /\ k \in Retained
    BY <1>4, <1>5
  <2>2. entries[k] \in Bucket
    BY <1>3, <2>1 DEF TypeOK
  <2>. DEFINE at == Least(entries[k].balance + Since(entries[k].updated, sweep), Capacity)
  <2>3. entries'[k].balance = at /\ entries'[k].updated = sweep
    BY <1>1, <1>3, <2>1, <2>2, RefillFacts
  <2>4. /\ Available(k) = Least(entries[k].balance + Since(entries[k].updated, now), Capacity)
        /\ entries[k].balance \in Int /\ entries[k].balance =< Capacity
        /\ entries[k].updated \in Nat /\ entries[k].updated =< now
    BY <2>1, AvailableFacts
  <2>5. Available(k)' = Least(entries'[k].balance + Since(entries'[k].updated, now'), Capacity)
    BY <1>2, <2>1, AvailableAfter
  <2>6. Available(k)' = Least(at + Since(sweep, now), Capacity)
    BY <1>1, <2>3, <2>5
  <2>. QED BY <1>3, <2>4, <2>6 DEF Least, Since
<1>6. \A k \in Keys : k \notin Retained => Available(k)' = Available(k)
  BY <1>1, <1>2, AvailableFacts, AvailableAfter
<1>7. \A k \in Evicted : Available(k)' = Capacity
  BY <1>2, <1>3, <1>4, AvailableAfter DEF TypeOK
<1>. QED BY <1>1, <1>5, <1>6, <1>7

LEMMA TickBalance ==
    ASSUME Limiter, BookedTick, NEW k \in Keys
    PROVE  Available(k)' = Least(Available(k) + 1, Capacity)
<1>1. Limiter' /\ UNCHANGED entries /\ Retained' = Retained /\ now' = now + 1
  BY NextLimiter DEF LedgerNext, BookedTick, Tick, Retained
<1>2. Capacity \in Nat \ {0} /\ now \in Nat
  BY Sizes DEF Limiter
<1>3. CASE k \in Retained
  <2>1. /\ Available(k) = Least(entries[k].balance + Since(entries[k].updated, now), Capacity)
        /\ entries[k].balance \in Int /\ entries[k].balance =< Capacity
        /\ entries[k].updated \in Nat /\ entries[k].updated =< now
    BY <1>3, AvailableFacts
  <2>2. Available(k)' = Least(entries[k].balance + Since(entries[k].updated, now + 1), Capacity)
    BY <1>1, <1>3, AvailableAfter
  <2>. QED BY <1>2, <2>1, <2>2 DEF Least, Since
<1>4. CASE k \notin Retained
  BY <1>1, <1>2, <1>4, AvailableFacts, AvailableAfter DEF Least
<1>. QED BY <1>3, <1>4

-----------------------------------------------------------------------------
(***************************************************************************)
(* The ledger.                                                             *)
(***************************************************************************)
\* Retry-After covers the debt, rounded up to seconds.
LEMMA RetryAfterCovers ==
    ASSUME NEW d \in Int, d =< 0
    PROVE  RetryAfterSecs(d) * Rate + 1 \in Nat /\ d + (RetryAfterSecs(d) * Rate + 1) > 0
<1>1. Rate \in Nat \ {0}
  BY RateLimiterConfig
<1>2. CASE d = 0
  BY <1>1, <1>2 DEF RetryAfterSecs
<1>3. CASE d # 0
  <2>. DEFINE q == ((-d) + Rate - 1) \div Rate
              m == ((-d) + Rate - 1) % Rate
  <2>1. q \in Int /\ m \in 0 .. Rate - 1 /\ (-d) + Rate - 1 = Rate * q + m
    BY <1>1
  <2>2. RetryAfterSecs(d) = q
    BY <1>3 DEF RetryAfterSecs
  <2>. HIDE DEF q, m
  <2>3. Rate * q = q * Rate /\ q * Rate \in Int
    BY <1>1, <2>1
  <2>4. q * Rate >= -d
    BY <1>1, <2>1, <2>3
  <2>. QED BY <1>3, <2>2, <2>3, <2>4
<1>. QED BY <1>2, <1>3

Books == /\ ideal \in [Keys -> Int] /\ lag \in [Keys -> Nat]
         /\ hint \in [Keys -> {NoHint} \cup Nat]

LEMMA AccountedIs == BucketsAccounted <=> Limiter /\ Books
BY DEF BucketsAccounted, LedgerTypeOK, Limiter, Books

\* What the ledger records of an access.
LEMMA AccessBooked ==
    ASSUME Limiter, Books, NEW t \in Threads, NEW k \in Keys, NEW access \in {Probe} \cup Counts,
           BookedAccess(t, k, access)
    PROVE  /\ ideal'[k] = ideal[k] - Paid(t, k, access)
           /\ lag'[k] = lag[k] + (now - call[t])
           /\ hint'[k] = IF Decisive(t, k) =< 0 THEN RetryAfterSecs(Decisive(t, k)) * Rate + 1
                         ELSE NoHint
           /\ \A j \in Keys : j # k /\ j \notin Evicted =>
                ideal'[j] = ideal[j] /\ lag'[j] = lag[j] /\ hint'[j] = hint[j]
           /\ \A j \in Keys : j \in Evicted =>
                ideal'[j] = Capacity /\ lag'[j] = 0 /\ hint'[j] = NoHint
           /\ Books'
<1>. DEFINE h == IF Decisive(t, k) =< 0 THEN RetryAfterSecs(Decisive(t, k)) * Rate + 1 ELSE NoHint
            i == IF Decisive(t, k) =< 0 THEN ideal[k] ELSE ideal[k] - Cost(access)
            g == lag[k] + (now - call[t])
<1>1. /\ ideal' = [j \in Keys |-> IF j \in Evicted THEN Capacity ELSE [ideal EXCEPT ![k] = i][j]]
      /\ lag' = [j \in Keys |-> IF j \in Evicted THEN 0 ELSE [lag EXCEPT ![k] = g][j]]
      /\ hint' = [j \in Keys |-> IF j \in Evicted THEN NoHint ELSE [hint EXCEPT ![k] = h][j]]
  BY DEF BookedAccess, Book, Afresh
<1>2. call[t] \in 0 .. now /\ Paid(t, k, access) \in Nat /\ k \notin Evicted
  BY AccessBalance
<1>3. TypeOK /\ now \in Nat /\ Capacity \in Int /\ ideal[k] \in Int /\ lag[k] \in Nat
  BY Sizes DEF Limiter, Books
<1>4. i = ideal[k] - Paid(t, k, access) /\ i \in Int
  BY <1>2, <1>3 DEF Paid
<1>5. g \in Nat
  BY <1>2, <1>3
<1>6. Decisive(t, k) \in Int
  BY <1>2, <1>3, DecisiveFacts
<1>7. h \in {NoHint} \cup Nat
  BY <1>6, RetryAfterCovers
<1>. HIDE DEF h, i, g
<1>8. Books'
  BY <1>1, <1>3, <1>4, <1>5, <1>7 DEF Books
<1>9. \A j \in Keys : j # k /\ j \notin Evicted =>
        ideal'[j] = ideal[j] /\ lag'[j] = lag[j] /\ hint'[j] = hint[j]
  BY <1>1 DEF Books
<1>10. ideal'[k] = i /\ lag'[k] = g /\ hint'[k] = h
  BY <1>1, <1>2 DEF Books
<1>11. \A j \in Keys : j \in Evicted => ideal'[j] = Capacity /\ lag'[j] = 0 /\ hint'[j] = NoHint
  BY <1>1
<1>. QED BY <1>4, <1>8, <1>9, <1>10, <1>11 DEF h, g

LEMMA SweepBooked ==
    ASSUME Limiter, Books, BookedSweep
    PROVE  /\ \A j \in Keys : j \notin Evicted =>
                /\ ideal'[j] = ideal[j] /\ hint'[j] = hint[j]
                /\ lag'[j] = IF j \in Retained THEN lag[j] + (now - sweep) ELSE lag[j]
           /\ \A j \in Keys : j \in Evicted =>
                ideal'[j] = Capacity /\ lag'[j] = 0 /\ hint'[j] = NoHint
           /\ Books'
<1>1. /\ ideal' = [j \in Keys |-> IF j \in Evicted THEN Capacity ELSE ideal[j]]
      /\ lag' = [j \in Keys |-> IF j \in Evicted THEN 0
                   ELSE [i \in Keys |-> IF i \in Retained THEN lag[i] + (now - sweep) ELSE lag[i]][j]]
      /\ hint' = [j \in Keys |-> IF j \in Evicted THEN NoHint ELSE hint[j]]
  BY DEF BookedSweep, Afresh
<1>2. sweep \in 0 .. now /\ now \in Nat /\ Capacity \in Int
  BY SweepBalance, Sizes DEF Limiter
<1>3. \A j \in Keys : lag[j] \in Nat /\ lag[j] + (now - sweep) \in Nat
  BY <1>2 DEF Books
<1>4. Books'
  BY <1>1, <1>2, <1>3 DEF Books
<1>. QED BY <1>1, <1>4

LEMMA TickBooked ==
    ASSUME Limiter, Books, BookedTick
    PROVE  /\ \A j \in Keys : /\ ideal'[j] = Least(ideal[j] + 1, Capacity) /\ lag'[j] = lag[j]
                              /\ hint'[j] = IF hint[j] > 0 THEN hint[j] - 1 ELSE hint[j]
           /\ Books'
<1>1. /\ ideal' = [k \in Keys |-> Least(ideal[k] + 1, Capacity)]
      /\ hint' = [k \in Keys |-> IF hint[k] > 0 THEN hint[k] - 1 ELSE hint[k]]
      /\ lag' = lag
  BY DEF BookedTick
<1>2. Capacity \in Int
  BY Sizes DEF Limiter
<1>3. \A k \in Keys : Least(ideal[k] + 1, Capacity) \in Int
  BY <1>2 DEF Books, Least
<1>4. \A k \in Keys : (IF hint[k] > 0 THEN hint[k] - 1 ELSE hint[k]) \in {NoHint} \cup Nat
  BY DEF Books, NoHint
<1>5. Books'
  BY <1>1, <1>3, <1>4 DEF Books
<1>. QED BY <1>1, <1>5

\* The other steps change neither the ledger nor what anybody can draw on.
LEMMA StillBooked ==
    ASSUME Limiter, UNCHANGED <<vars, ledger>>
              \/ ((TakeForgiven \/ SweepBegin \/ \E t \in Threads : Begin(t)) /\ UNCHANGED ledger)
    PROVE  /\ UNCHANGED <<ideal, lag, hint>>
           /\ \A k \in Keys : Available(k)' = Available(k)
<1>1. UNCHANGED <<ideal, lag, hint>> /\ UNCHANGED <<now, entries>>
  BY DEF vars, ledger, TakeForgiven, SweepBegin, Begin
<1>. QED BY <1>1 DEF Available, Retained, refill, Capacity, Least, Since

-----------------------------------------------------------------------------
(***************************************************************************)
(* The four invariants, step by step.                                      *)
(***************************************************************************)
Accounts ==
    BucketsAccounted /\ NobodyOvercharged /\ LimitHolds /\ RetryAfterSuffices

LEMMA InitAccounts == LedgerInit => Accounts
<1>. SUFFICES ASSUME LedgerInit PROVE Accounts
  OBVIOUS
<1>1. Limiter /\ Retained = {}
  BY InitLimiter DEF LedgerInit, Init, Retained
<1>2. Capacity \in Int
  BY RateLimiterConfig DEF Capacity
<1>3. Books
  BY <1>2 DEF LedgerInit, Books
<1>4. \A k \in Keys : /\ Available(k) = Capacity /\ ideal[k] = Capacity /\ lag[k] = 0
                      /\ hint[k] = NoHint
  BY <1>1 DEF LedgerInit, Available
<1>. QED BY <1>1, <1>2, <1>3, <1>4, AccountedIs
           DEF Accounts, NobodyOvercharged, LimitHolds, RetryAfterSuffices

LEMMA AccountFacts ==
    ASSUME Accounts, NEW k \in Keys
    PROVE  /\ Limiter /\ Books
           /\ Available(k) \in Int /\ Available(k) =< Capacity
           /\ ideal[k] \in Int /\ lag[k] \in Nat /\ hint[k] \in {NoHint} \cup Nat
           /\ Capacity \in Nat \ {0}
           /\ Available(k) >= ideal[k] /\ Available(k) =< ideal[k] + lag[k]
           /\ hint[k] # NoHint => Available(k) + hint[k] > 0
<1>1. Limiter /\ Books
  BY AccountedIs DEF Accounts
<1>2. Available(k) \in Int /\ Available(k) =< Capacity
  BY <1>1, AvailableFacts
<1>3. Capacity \in Nat \ {0}
  BY <1>1, Sizes DEF Limiter
<1>. QED BY <1>1, <1>2, <1>3
           DEF Books, Accounts, NobodyOvercharged, LimitHolds, RetryAfterSuffices

LEMMA AccountsAfter ==
    ASSUME Limiter', Books',
           \A k \in Keys : /\ Available(k)' >= ideal'[k]
                           /\ Available(k)' =< ideal'[k] + lag'[k]
                           /\ hint'[k] # NoHint => Available(k)' + hint'[k] > 0
    PROVE  Accounts'
<1>1. BucketsAccounted'
  BY DEF BucketsAccounted, LedgerTypeOK, Limiter, Books
<1>. QED BY <1>1 DEF Accounts, NobodyOvercharged, LimitHolds, RetryAfterSuffices, NoHint

LEMMA AccessAccounts ==
    ASSUME Accounts, NEW t \in Threads, NEW k \in Keys, NEW access \in {Probe} \cup Counts,
           BookedAccess(t, k, access)
    PROVE  Accounts'
<1>0. Limiter /\ Books /\ Limiter'
  BY AccountedIs, AccessIs, AccessLimiter DEF Accounts
<1>1. Books'
  BY <1>0, AccessBooked
<1>. DEFINE p == Paid(t, k, access)
            d == Decisive(t, k)
<1>2. /\ call[t] \in 0 .. now /\ p \in Nat /\ k \notin Evicted
      /\ Available(k)' >= Available(k) - p
      /\ Available(k)' =< Available(k) - p + (now - call[t])
      /\ Available(k)' >= d - p
  BY <1>0, AccessBalance
<1>3. /\ \A j \in Keys : j # k /\ j \notin Evicted => Available(j)' = Available(j)
      /\ \A j \in Evicted : Available(j)' = Capacity
  BY <1>0, AccessBalance
<1>4. /\ ideal'[k] = ideal[k] - p /\ lag'[k] = lag[k] + (now - call[t])
      /\ hint'[k] = IF d =< 0 THEN RetryAfterSecs(d) * Rate + 1 ELSE NoHint
  BY <1>0, AccessBooked
<1>5. /\ \A j \in Keys : j # k /\ j \notin Evicted =>
                ideal'[j] = ideal[j] /\ lag'[j] = lag[j] /\ hint'[j] = hint[j]
      /\ \A j \in Keys : j \in Evicted =>
                ideal'[j] = Capacity /\ lag'[j] = 0 /\ hint'[j] = NoHint
  BY <1>0, AccessBooked
<1>6. d \in Int /\ now \in Nat /\ (d =< 0 => p = 0) /\ Available(k)' \in Int
  BY <1>0, <1>2, DecisiveFacts, Sizes, AvailableAfter DEF Limiter, Paid
<1>. HIDE DEF p, d
<1>7. ASSUME NEW j \in Keys
      PROVE  /\ Available(j)' >= ideal'[j] /\ Available(j)' =< ideal'[j] + lag'[j]
             /\ hint'[j] # NoHint => Available(j)' + hint'[j] > 0
  <2>1. CASE j = k
    <3>1. Available(k)' >= ideal'[k] /\ Available(k)' =< ideal'[k] + lag'[k]
      BY <1>2, <1>4, <1>6, AccountFacts
    <3>2. hint'[k] # NoHint => Available(k)' + hint'[k] > 0
      <4>1. SUFFICES ASSUME d =< 0
                     PROVE  Available(k)' + (RetryAfterSecs(d) * Rate + 1) > 0
        BY <1>4
      <4>2. RetryAfterSecs(d) * Rate + 1 \in Nat /\ d + (RetryAfterSecs(d) * Rate + 1) > 0
        BY <1>6, <4>1, RetryAfterCovers
      <4>3. Available(k)' >= d
        BY <1>2, <1>6, <4>1
      <4>. QED BY <1>6, <4>2, <4>3
    <3>. QED BY <2>1, <3>1, <3>2
  <2>2. CASE j # k /\ j \notin Evicted
    BY <1>3, <1>5, <2>2, AccountFacts
  <2>3. CASE j \in Evicted
    <3>1. Available(j)' = Capacity /\ ideal'[j] = Capacity /\ lag'[j] = 0 /\ hint'[j] = NoHint
          /\ Capacity \in Nat
      BY <1>3, <1>5, <2>3, AccountFacts
    <3>. QED BY <3>1
  <2>. QED BY <1>2, <2>1, <2>2, <2>3
<1>. QED BY <1>0, <1>1, <1>7, AccountsAfter

LEMMA SweepAccounts == ASSUME Accounts, BookedSweep PROVE Accounts'
<1>0. Limiter /\ Books /\ Limiter' /\ Books' /\ now \in Nat
  BY AccountedIs, SweepLimiter, SweepBooked, Sizes DEF Accounts, BookedSweep, Limiter
<1>1. ASSUME NEW j \in Keys
      PROVE  /\ Available(j)' >= ideal'[j] /\ Available(j)' =< ideal'[j] + lag'[j]
             /\ hint'[j] # NoHint => Available(j)' + hint'[j] > 0
  <2>0. Available(j)' \in Int /\ sweep \in 0 .. now
    BY <1>0, AvailableAfter, SweepBalance
  <2>1. CASE j \in Retained \ Evicted
    <3>1. /\ Available(j)' >= Available(j) /\ Available(j)' =< Available(j) + (now - sweep)
      BY <1>0, <2>1, SweepBalance
    <3>2. ideal'[j] = ideal[j] /\ hint'[j] = hint[j] /\ lag'[j] = lag[j] + (now - sweep)
      BY <1>0, <2>1, SweepBooked
    <3>. QED BY <1>0, <2>0, <3>1, <3>2, AccountFacts
  <2>2. CASE j \in Evicted
    <3>1. Available(j)' = Capacity /\ Capacity \in Nat
      BY <1>0, <2>2, SweepBalance, AccountFacts
    <3>2. ideal'[j] = Capacity /\ lag'[j] = 0 /\ hint'[j] = NoHint
      BY <1>0, <2>2, SweepBooked
    <3>. QED BY <3>1, <3>2
  <2>3. CASE j \notin Retained /\ j \notin Evicted
    <3>1. Available(j)' = Available(j)
      BY <1>0, <2>3, SweepBalance
    <3>2. ideal'[j] = ideal[j] /\ hint'[j] = hint[j] /\ lag'[j] = lag[j]
      BY <1>0, <2>3, SweepBooked
    <3>. QED BY <3>1, <3>2, AccountFacts
  <2>. QED BY <2>1, <2>2, <2>3
<1>. QED BY <1>0, <1>1, AccountsAfter

LEMMA TickAccounts == ASSUME Accounts, BookedTick PROVE Accounts'
<1>0. Limiter /\ Books /\ Limiter' /\ Books'
  BY AccountedIs, NextLimiter, TickBooked DEF Accounts, LedgerNext
<1>1. ASSUME NEW j \in Keys
      PROVE  /\ Available(j)' >= ideal'[j] /\ Available(j)' =< ideal'[j] + lag'[j]
             /\ hint'[j] # NoHint => Available(j)' + hint'[j] > 0
  <2>1. Available(j)' = Least(Available(j) + 1, Capacity)
    BY <1>0, TickBalance
  <2>2. /\ ideal'[j] = Least(ideal[j] + 1, Capacity) /\ lag'[j] = lag[j]
        /\ hint'[j] = IF hint[j] > 0 THEN hint[j] - 1 ELSE hint[j]
    BY <1>0, TickBooked
  <2>. QED BY <2>1, <2>2, AccountFacts DEF Least, NoHint
<1>. QED BY <1>0, <1>1, AccountsAfter

LEMMA NextAccounts == Accounts /\ [LedgerNext]_<<vars, ledger>> => Accounts'
<1>. SUFFICES ASSUME Accounts, [LedgerNext]_<<vars, ledger>> PROVE Accounts'
  OBVIOUS
<1>1. ASSUME UNCHANGED <<vars, ledger>>
               \/ ((TakeForgiven \/ SweepBegin \/ \E t \in Threads : Begin(t)) /\ UNCHANGED ledger)
      PROVE  Accounts'
  <2>1. Limiter /\ Books /\ Limiter'
    BY AccountedIs, NextLimiter DEF Accounts
  <2>2. UNCHANGED <<ideal, lag, hint>> /\ \A k \in Keys : Available(k)' = Available(k)
    BY <1>1, <2>1, StillBooked
  <2>3. Books'
    BY <2>1, <2>2 DEF Books
  <2>4. \A k \in Keys : /\ Available(k)' >= ideal'[k]
                        /\ Available(k)' =< ideal'[k] + lag'[k]
                        /\ hint'[k] # NoHint => Available(k)' + hint'[k] > 0
    BY <2>2, AccountFacts
  <2>. QED BY <2>1, <2>3, <2>4, AccountsAfter
<1>. QED BY <1>1, AccessAccounts, SweepAccounts, TickAccounts DEF LedgerNext

LEMMA AccountsHold == LedgerSpec => []Accounts
BY InitAccounts, NextAccounts, PTL DEF LedgerSpec

(***************************************************************************)
(* Buckets, bound and recency indexes agree after every access, eviction   *)
(* and sweep of any number of threads.                                     *)
(***************************************************************************)
THEOREM BucketsStayAccounted == LedgerSpec => []BucketsAccounted
<1>1. Accounts => BucketsAccounted
  BY DEF Accounts
<1>. QED BY <1>1, AccountsHold, PTL

(***************************************************************************)
(* No order in which threads read the clock and pass the lock charges an   *)
(* identity more than the requests it was granted.                         *)
(***************************************************************************)
THEOREM NobodyIsOvercharged == LedgerSpec => []NobodyOvercharged
<1>1. Accounts => NobodyOvercharged
  BY DEF Accounts
<1>. QED BY <1>1, AccountsHold, PTL

(***************************************************************************)
(* Nor does it grant an identity more than the time its accesses spent     *)
(* between clock and lock.                                                 *)
(***************************************************************************)
THEOREM TheLimitHolds == LedgerSpec => []LimitHolds
<1>1. Accounts => LimitHolds
  BY DEF Accounts
<1>. QED BY <1>1, AccountsHold, PTL

(***************************************************************************)
(* A Retry-After, rounded up as exceeded() does, is never too short.       *)
(***************************************************************************)
THEOREM RetryAfterIsEnough == LedgerSpec => []RetryAfterSuffices
<1>1. Accounts => RetryAfterSuffices
  BY DEF Accounts
<1>. QED BY <1>1, AccountsHold, PTL

-----------------------------------------------------------------------------
(***************************************************************************)
(* Debt.                                                                   *)
(***************************************************************************)
LEMMA DebtKept ==
    ASSUME Limiter, LedgerNext, NEW k \in Retained \ DOMAIN entries', Available(k) < 0
    PROVE  /\ Cardinality(Retained) = MaxBuckets
           /\ \A j \in Retained : entries[j].indebted
           /\ forgiven' = forgiven + 1
<1>0. TypeOK /\ now \in Nat /\ k \in Keys /\ k \notin Retained' /\ Capacity \in Nat
  BY Sizes DEF Limiter, TypeOK, Retained
<1>1. /\ Available(k) = Least(entries[k].balance + Since(entries[k].updated, now), Capacity)
      /\ entries[k].balance \in Int /\ entries[k].updated \in Nat /\ entries[k].updated =< now
  BY <1>0, AvailableFacts
<1>2. entries[k].balance < 0
  BY <1>0, <1>1 DEF Least, Since
<1>3. entries[k].indebted
  BY <1>2 DEF Limiter, ListingsInStep
<1>4. ASSUME NEW t \in Threads, NEW i \in Keys, NEW access \in {Probe} \cup Counts,
             BookedAccess(t, i, access)
      PROVE  /\ Cardinality(Retained) = MaxBuckets
             /\ \A j \in Retained : entries[j].indebted
             /\ forgiven' = forgiven + 1
  <2>1. PICK Gone \in SUBSET Retained, b \in Bucket : Accessed(t, i, access, Gone, b)
    BY <1>4, AccessIs
  <2>2. Retained' = (Retained \ Gone) \cup {i}
    BY <2>1 DEF Accessed
  <2>3. k \in Gone \ {i}
    BY <1>0, <2>2
  <2>4. /\ Cardinality(Retained) >= MaxBuckets
        /\ entries[k].indebted => /\ \A j \in Retained : entries[j].indebted
                                  /\ forgiven' = forgiven + 1
    BY <2>1, <2>3 DEF Accessed
  <2>5. Cardinality(Retained) = MaxBuckets
    BY <1>0, <2>4, Sizes DEF Limiter, BucketsBounded
  <2>. QED BY <1>3, <2>4, <2>5
<1>5. ASSUME BookedSweep PROVE FALSE
  <2>1. sweep \in 0 .. now /\ refill(entries[k], sweep).balance >= 0
    BY <1>0, <1>5, SweepFacts DEF BookedSweep
  <2>2. entries[k] \in Bucket /\ sweep \in Instant
    BY <1>0, <2>1, Sizes DEF TypeOK, Instant
  <2>3. refill(entries[k], sweep).balance
          = Least(entries[k].balance + Since(entries[k].updated, sweep), Capacity)
    BY <2>2, RefillFacts
  <2>4. Least(entries[k].balance + Since(entries[k].updated, sweep), Capacity) >= 0
    BY <2>1, <2>3
  <2>5. Least(entries[k].balance + Since(entries[k].updated, sweep), Capacity) =< Available(k)
    BY <1>0, <1>1, <2>1 DEF Least, Since
  <2>6. Available(k) \in Int
    BY <1>0, AvailableFacts
  <2>7. Least(entries[k].balance + Since(entries[k].updated, sweep), Capacity) \in Int
    BY <1>0, <1>1, <2>1 DEF Least, Since
  <2>. QED BY <2>4, <2>5, <2>6, <2>7
<1>6. entries' # entries
  BY <1>0 DEF Retained
<1>. QED BY <1>4, <1>5, <1>6 DEF LedgerNext, BookedTick, Tick, TakeForgiven, SweepBegin, Begin

(***************************************************************************)
(* The idle sweep never drops a bucket that owes, and an eviction drops    *)
(* one only when every retained bucket owes, and counts it.                *)
(***************************************************************************)
THEOREM DebtIsKept == LedgerSpec => DebtIsNotForgotten
<1>. DEFINE A == \A k \in Retained \ DOMAIN entries' :
                    Available(k) < 0 =>
                      /\ Cardinality(Retained) = MaxBuckets
                      /\ \A j \in Retained : entries[j].indebted
                      /\ forgiven' = forgiven + 1
<1>1. Accounts /\ [LedgerNext]_<<vars, ledger>> => [A]_vars
  <2>. SUFFICES ASSUME Accounts, [LedgerNext]_<<vars, ledger>>, ~UNCHANGED vars PROVE A
    OBVIOUS
  <2>1. Limiter /\ LedgerNext
    BY AccountedIs DEF Accounts
  <2>. QED BY <2>1, DebtKept
<1>. HIDE DEF A
<1>2. [][A]_vars => DebtIsNotForgotten
  BY PTL DEF A, DebtIsNotForgotten
<1>. QED BY <1>1, <1>2, AccountsHold, PTL DEF LedgerSpec
=============================================================================
