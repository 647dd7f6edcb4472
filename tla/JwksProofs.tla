----------------------------- MODULE JwksProofs -----------------------------
(***************************************************************************)
(* The key cache for any number of lookups and any periods.  KeysAccounted *)
(* is inductive; the argument about age runs from the issuer's decision    *)
(* through the refresh that carries it (AnswersAged), the cache            *)
(* (CacheAged, ForcedAccounted) and the queue (WaitersAged) to the reader  *)
(* (ReadersAged).                                                          *)
(***************************************************************************)
EXTENDS Jwks, FiniteSetTheorems, TLAPS

Stages == Fetching \cup {"idle", "lock", "read"}
Query == [kid : {"k1", "k2"}, forced : BOOLEAN, now : 0 .. 2 * FetchMax,
          waited : 0 .. FetchMax, keys : BOOLEAN]
C == Cardinality(Lookups)

-----------------------------------------------------------------------------
(***************************************************************************)
(* Numbers.                                                                *)
(***************************************************************************)
LEMMA Periods ==
    /\ RefreshAfter \in Nat \ {0} /\ ForcedInterval \in Nat \ {0} /\ FetchMax \in Nat \ {0}
    /\ Horizon \in Nat /\ Horizon >= RefreshAfter /\ Horizon >= ForcedInterval
    /\ Horizon > FetchMax
    /\ IsFiniteSet(Lookups) /\ C \in Nat /\ C >= 2 /\ None \notin Lookups
<1>1. RefreshAfter \in Nat \ {0} /\ ForcedInterval \in Nat \ {0} /\ FetchMax \in Nat \ {0}
  BY JwksConstants
<1>2. IsFiniteSet(Lookups) /\ C \in Nat /\ C >= 2
  BY JwksConstants, FS_CardinalityType DEF C
<1>. QED BY <1>1, <1>2, JwksConstants DEF Horizon, Longer

LEMMA Products ==
    ASSUME NEW f \in Nat, NEW a \in Nat, NEW b \in Nat, a =< b
    PROVE  /\ 2 * f * a \in Nat /\ 2 * f * a =< 2 * f * b
           /\ 2 * f * (a + 1) = 2 * f * a + 2 * f
OBVIOUS

LEMMA Delay == QueueDelay \in Nat /\ QueueDelay' = QueueDelay /\ QueueDelay = 2 * FetchMax * (C - 2)
<1>1. QueueDelay' = QueueDelay
  BY DEF QueueDelay
<1>2. QueueDelay = 2 * FetchMax * (C - 2)
  BY DEF QueueDelay, C
<1>3. C - 2 \in Nat /\ FetchMax \in Nat
  BY Periods
<1>4. 2 * FetchMax * (C - 2) \in Nat
  BY <1>3, Products
<1>. QED BY <1>1, <1>2, <1>4

LEMMA TypeFacts ==
    ASSUME TypeOK
    PROVE  /\ since \in Nat /\ since =< Horizon /\ fetched \in Nat /\ forced \in Nat
           /\ requested \in Nat /\ cut \in Nat /\ cut =< Horizon
           /\ published \in BOOLEAN /\ cached \in BOOLEAN
           /\ lookup \in [Lookups -> Query] /\ at \in [Lookups -> Stages]
           /\ \A l \in Lookups :
                /\ lookup[l] \in Query
                /\ lookup[l].now \in Nat /\ lookup[l].now =< 2 * FetchMax
                /\ lookup[l].waited \in Nat /\ lookup[l].waited =< FetchMax
                /\ lookup[l].keys \in BOOLEAN /\ lookup[l].forced \in BOOLEAN
                /\ at[l] \in Fetching <=> lock = l
<1>1. lookup \in [Lookups -> Query] /\ at \in [Lookups -> Stages]
  BY DEF TypeOK, Query, Stages
<1>2. \A l \in Lookups : lookup[l] \in Query
  BY <1>1
<1>3. \A q \in Query : /\ q.now \in Nat /\ q.now =< 2 * FetchMax
                       /\ q.waited \in Nat /\ q.waited =< FetchMax
                       /\ q.keys \in BOOLEAN /\ q.forced \in BOOLEAN
  BY Periods DEF Query
<1>. QED BY <1>1, <1>2, <1>3, Periods DEF TypeOK

-----------------------------------------------------------------------------
(***************************************************************************)
(* The invariant, lookup by lookup.                                        *)
(***************************************************************************)
Answer(l) ==
    at[l] \in Fetching =>
        /\ lookup[l].waited =< lookup[l].now
        /\ IF at[l] = "discovery" THEN lookup[l].now =< lookup[l].waited
                                  ELSE lookup[l].now =< lookup[l].waited + FetchMax
        /\ forced >= Shorter(lookup[l].now, ForcedInterval)
        /\ lookup[l].forced => forced =< lookup[l].now
        /\ at[l] = "answered" /\ ~(lookup[l].keys <=> published) => since =< lookup[l].waited

Waiter(l) ==
    at[l] = "lock" /\ lookup[l].forced /\ lookup[l].kid = "k1" /\ cached =>
        /\ Cardinality(waiting[l]) + Held + 2 =< C
        /\ ~published => since =< FetchMax + 2 * FetchMax * Past(l) + Elapsed

Reader(l) ==
    at[l] = "read" /\ lookup[l].kid = "k1" =>
        /\ cached /\ ~published => since < RefreshAfter \/ since =< FetchMax + QueueDelay
        /\ ~cached /\ published /\ lookup[l].forced =>
              since < ForcedInterval \/ since =< FetchMax \/ cut < ForcedInterval

LEMMA ByLookup ==
    KeysAccounted <=>
        /\ TypeOK /\ QueueInOrder /\ CacheAged /\ ForcedAccounted
        /\ \A l \in Lookups : Answer(l) /\ Waiter(l) /\ Reader(l)
<1>1. AnswersAged <=> \A l \in Lookups : Answer(l)
  BY DEF AnswersAged, Answer
<1>2. WaitersAged <=> \A l \in Lookups : Waiter(l)
  BY DEF WaitersAged, Waiter, Queued, C
<1>3. ReadersAged <=> \A l \in Lookups : Reader(l)
  BY DEF ReadersAged, Reader
<1>. QED BY <1>1, <1>2, <1>3 DEF KeysAccounted

LEMMA ByLookupAfter ==
    ASSUME TypeOK', QueueInOrder', CacheAged', ForcedAccounted',
           \A l \in Lookups : Answer(l)' /\ Waiter(l)' /\ Reader(l)'
    PROVE  KeysAccounted'
<1>1. AnswersAged'
  BY DEF AnswersAged, Answer
<1>2. WaitersAged'
  BY DEF WaitersAged, Waiter, Queued, C
<1>3. ReadersAged'
  BY DEF ReadersAged, Reader
<1>. QED BY <1>1, <1>2, <1>3 DEF KeysAccounted

-----------------------------------------------------------------------------
(***************************************************************************)
(* The queue.                                                              *)
(***************************************************************************)
LEMMA GoFacts ==
    ASSUME TypeOK, QueueInOrder, NEW l \in Lookups, NEW stage \in Stages, Go(l, stage),
           at[l] # "lock" \/ stage # "lock"
    PROVE  /\ at' \in [Lookups -> Stages] /\ waiting' \in [Lookups -> SUBSET Lookups]
           /\ at'[l] = stage /\ \A m \in Lookups : m # l => at'[m] = at[m]
           /\ \A m \in Lookups : m # l => waiting'[m] = waiting[m] \ {l}
           /\ QueueInOrder'
<1>1. at' = [at EXCEPT ![l] = stage] /\ at \in [Lookups -> Stages]
  BY TypeFacts DEF Go
<1>2. waiting' = [m \in Lookups |->
            IF m # l THEN waiting[m] \ {l} ELSE IF stage = "lock" THEN Queued ELSE {}]
      /\ waiting \in [Lookups -> SUBSET Lookups] /\ Queued \subseteq Lookups
  BY DEF Go, TypeOK, Queued
<1>3. at' \in [Lookups -> Stages] /\ at'[l] = stage /\ \A m \in Lookups : m # l => at'[m] = at[m]
  BY <1>1
<1>4. /\ waiting' \in [Lookups -> SUBSET Lookups]
      /\ waiting'[l] = IF stage = "lock" THEN Queued ELSE {}
      /\ \A m \in Lookups : m # l => waiting'[m] = waiting[m] \ {l}
  BY <1>2
<1>5. Queued' = IF stage = "lock" THEN Queued \cup {l} ELSE Queued \ {l}
  BY <1>3 DEF Queued
<1>6. stage = "lock" => l \notin Queued
  BY DEF Queued
<1>7. \A m \in Lookups : waiting'[m] \subseteq Queued' \ {m}
  BY <1>4, <1>5, <1>6 DEF QueueInOrder
<1>8. ASSUME NEW m \in Queued', NEW n \in Queued', m # n
      PROVE  m \in waiting'[n] \/ n \in waiting'[m]
  <2>1. m \in Lookups /\ n \in Lookups
    BY DEF Queued
  <2>2. CASE m # l /\ n # l
    BY <1>4, <1>5, <1>8, <2>1, <2>2 DEF QueueInOrder
  <2>3. CASE m = l \/ n = l
    BY <1>4, <1>5, <1>8, <2>1, <2>3
  <2>. QED BY <2>2, <2>3
<1>9. QueueInOrder'
  BY <1>7, <1>8 DEF QueueInOrder
<1>. QED BY <1>3, <1>4, <1>9

LEMMA QueueSizes ==
    ASSUME TypeOK, NEW m \in Lookups
    PROVE  /\ IsFiniteSet(waiting[m]) /\ Cardinality(waiting[m]) \in Nat
           /\ \A l \in Lookups :
                /\ Cardinality(waiting[m] \ {l}) \in Nat
                /\ Cardinality(waiting[m] \ {l}) =< Cardinality(waiting[m])
                /\ l \in waiting[m] => Cardinality(waiting[m] \ {l}) = Cardinality(waiting[m]) - 1
<1>1. waiting[m] \subseteq Lookups
  BY DEF TypeOK
<1>2. IsFiniteSet(waiting[m])
  BY <1>1, Periods, FS_Subset
<1>3. Cardinality(waiting[m]) \in Nat
  BY <1>2, FS_CardinalityType
<1>4. ASSUME NEW l \in Lookups
      PROVE  /\ Cardinality(waiting[m] \ {l}) \in Nat
             /\ Cardinality(waiting[m] \ {l}) =< Cardinality(waiting[m])
             /\ l \in waiting[m] => Cardinality(waiting[m] \ {l}) = Cardinality(waiting[m]) - 1
  <2>1. CASE l \in waiting[m]
    <3>1. Cardinality(waiting[m] \ {l}) = Cardinality(waiting[m]) - 1
      BY <1>2, <2>1, FS_RemoveElement
    <3>2. IsFiniteSet(waiting[m] \ {l})
      BY <1>2, FS_RemoveElement
    <3>3. Cardinality(waiting[m] \ {l}) \in Nat
      BY <3>2, FS_CardinalityType
    <3>. QED BY <1>3, <3>1, <3>3
  <2>2. CASE l \notin waiting[m]
    <3>1. waiting[m] \ {l} = waiting[m]
      BY <2>2
    <3>2. Cardinality(waiting[m] \ {l}) = Cardinality(waiting[m])
      BY <3>1
    <3>. QED BY <1>3, <2>2, <3>2
  <2>. QED BY <2>1, <2>2
<1>. QED BY <1>2, <1>3, <1>4

\* A waiter that has all lookups but another one and itself before it, at most.
LEMMA RoomForTwo ==
    ASSUME NEW l \in Lookups, NEW m \in Lookups, l # m, NEW W, W \subseteq Lookups \ {l, m}
    PROVE  Cardinality(W) \in Nat /\ Cardinality(W) + 2 =< C
<1>1. IsFiniteSet(Lookups)
  BY Periods
<1>2. IsFiniteSet(Lookups \ {l}) /\ Cardinality(Lookups \ {l}) = C - 1
  BY <1>1, FS_RemoveElement DEF C
<1>. DEFINE R == Lookups \ {l}
<1>3. m \in R
  OBVIOUS
<1>. HIDE DEF R
<1>4. IsFiniteSet(R \ {m}) /\ Cardinality(R \ {m}) = Cardinality(R) - 1
  BY <1>2, <1>3, FS_RemoveElement DEF R
<1>5. W \subseteq R \ {m}
  BY DEF R
<1>6. IsFiniteSet(W) /\ Cardinality(W) =< Cardinality(R \ {m})
  BY <1>4, <1>5, FS_Subset
<1>7. Cardinality(R) = C - 1
  BY <1>2 DEF R
<1>8. Cardinality(W) \in Nat
  BY <1>6, FS_CardinalityType
<1>. QED BY <1>4, <1>6, <1>7, <1>8, Periods

-----------------------------------------------------------------------------
(***************************************************************************)
(* A waiter's allowance: it grows with every refresh that ends and with    *)
(* the time of the one under way.                                          *)
(***************************************************************************)
LEMMA AllowanceKept ==
    ASSUME NEW f \in Nat, NEW n \in Nat, NEW n1 \in Nat, NEW e \in Nat, NEW e1 \in Nat,
           NEW s \in Nat, NEW s1 \in Nat,
           s =< f + 2 * f * n + e, n =< n1, s1 + e =< s + e1
    PROVE  s1 =< f + 2 * f * n1 + e1
<1>1. 2 * f * n \in Nat /\ 2 * f * n1 \in Nat /\ 2 * f * n =< 2 * f * n1
  BY Products
<1>. DEFINE x == 2 * f * n
            y == 2 * f * n1
<1>. HIDE DEF x, y
<1>2. x \in Nat /\ y \in Nat /\ x =< y /\ s =< f + x + e
  BY <1>1 DEF x, y
<1>3. s1 =< f + y + e1
  BY <1>2
<1>. QED BY <1>3 DEF y

LEMMA AllowanceGained ==
    ASSUME NEW f \in Nat, NEW n \in Nat, NEW n1 \in Nat, NEW e \in Nat, NEW s \in Nat,
           s =< f + 2 * f * n + e, n + 1 =< n1, e =< 2 * f
    PROVE  s =< f + 2 * f * n1
<1>1. /\ 2 * f * n \in Nat /\ 2 * f * n1 \in Nat /\ 2 * f * (n + 1) =< 2 * f * n1
      /\ 2 * f * (n + 1) = 2 * f * n + 2 * f
  BY Products
<1>. DEFINE x == 2 * f * n
            y == 2 * f * n1
            d == 2 * f
<1>2. d \in Nat
  OBVIOUS
<1>. HIDE DEF x, y, d
<1>3. x \in Nat /\ y \in Nat /\ x + d =< y /\ s =< f + x + e /\ e =< d
  BY <1>1 DEF x, y, d
<1>4. s =< f + y
  BY <1>2, <1>3
<1>. QED BY <1>4 DEF y

LEMMA LockFacts ==
    ASSUME TypeOK
    PROVE  /\ lock \in Lookups \cup {None}
           /\ Held \in Nat /\ Elapsed \in Nat /\ Elapsed =< 2 * FetchMax
BY TypeFacts, Periods DEF TypeOK, Held, Elapsed

\* A waiter keeps its allowance while the refresh under way stays what it is
\* and nobody enters the queue before it.
LEMMA WaiterKept ==
    ASSUME TypeOK, TypeOK', NEW m \in Lookups, NEW l \in Lookups, l # m, Waiter(m),
           at'[m] = at[m], lookup'[m] = lookup[m], waiting'[m] = waiting[m] \ {l},
           UNCHANGED <<cached, published, since>>, Held' = Held, Elapsed' = Elapsed
    PROVE  Waiter(m)'
<1>. SUFFICES ASSUME at[m] = "lock", lookup[m].forced, lookup[m].kid = "k1", cached
              PROVE  /\ Cardinality(waiting'[m]) + Held' + 2 =< C
                     /\ ~published' =>
                          since' =< FetchMax + 2 * FetchMax * (C - 2 - Cardinality(waiting'[m]) - Held')
                                    + Elapsed'
  BY DEF Waiter, Past, C
<1>. DEFINE w == Cardinality(waiting[m])
            w1 == Cardinality(waiting[m] \ {l})
<1>1. w \in Nat /\ w1 \in Nat /\ w1 =< w
  BY QueueSizes
<1>2. w + Held + 2 =< C /\ (~published => since =< FetchMax + 2 * FetchMax * (C - 2 - w - Held) + Elapsed)
  BY DEF Waiter, Past, C
<1>3. Cardinality(waiting'[m]) = w1
  OBVIOUS
<1>. HIDE DEF w, w1
<1>4. C \in Nat /\ Held \in Nat /\ Elapsed \in Nat /\ FetchMax \in Nat /\ since \in Nat
  BY Periods, LockFacts, TypeFacts
<1>5. C - 2 - w - Held \in Nat /\ C - 2 - w1 - Held \in Nat /\ C - 2 - w - Held =< C - 2 - w1 - Held
      /\ w1 + Held + 2 =< C
  BY <1>1, <1>2, <1>4
<1>6. ~published => since =< FetchMax + 2 * FetchMax * (C - 2 - w1 - Held) + Elapsed
  BY <1>2, <1>4, <1>5, AllowanceKept
<1>. QED BY <1>3, <1>5, <1>6

\* The steps of a lookup that touch neither cache nor lock.
LEMMA LocalStep ==
    ASSUME KeysAccounted, NEW l \in Lookups, NEW stage \in Stages, NEW q \in Query,
           Go(l, stage), at[l] # "lock" \/ stage # "lock",
           lookup' = [lookup EXCEPT ![l] = q],
           UNCHANGED <<published, since, cache, lock, requested, cut>>,
           stage \in Fetching <=> at[l] \in Fetching,
           at[l] \in Fetching => q.now = lookup[l].now /\ (q.forced <=> lookup[l].forced),
           Answer(l)', Waiter(l)', Reader(l)'
    PROVE  KeysAccounted'
<1>1. /\ TypeOK /\ QueueInOrder /\ CacheAged /\ ForcedAccounted
      /\ \A m \in Lookups : Answer(m) /\ Waiter(m) /\ Reader(m)
  BY ByLookup
<1>2. UNCHANGED <<published, since, cached, fetched, known, forced, lock, requested, cut>>
  BY DEF cache
<1>3. /\ at' \in [Lookups -> Stages] /\ waiting' \in [Lookups -> SUBSET Lookups]
      /\ at'[l] = stage /\ \A m \in Lookups : m # l => at'[m] = at[m]
      /\ \A m \in Lookups : m # l => waiting'[m] = waiting[m] \ {l}
      /\ QueueInOrder'
  BY <1>1, GoFacts
<1>4. /\ lookup' \in [Lookups -> Query] /\ lookup'[l] = q
      /\ \A m \in Lookups : m # l => lookup'[m] = lookup[m]
  BY <1>1, TypeFacts
<1>5. \A m \in Lookups : at'[m] \in Fetching <=> lock' = m
  BY <1>1, <1>2, <1>3, TypeFacts
<1>6. TypeOK'
  BY <1>1, <1>2, <1>3, <1>4, <1>5 DEF TypeOK, Stages, Query
<1>7. CacheAged'
  BY <1>1, <1>2 DEF CacheAged
<1>8. lock = l => q.now = lookup[l].now /\ (q.forced <=> lookup[l].forced)
  BY <1>1, TypeFacts
<1>9. ForcedAccounted' /\ Held' = Held /\ Elapsed' = Elapsed
  <2>1. lock # None => lock \in Lookups /\ lookup'[lock].now = lookup[lock].now
                       /\ (lookup'[lock].forced <=> lookup[lock].forced)
    BY <1>1, <1>4, <1>8 DEF TypeOK
  <2>2. ForcedAccounted'
    BY <1>1, <1>2, <2>1 DEF ForcedAccounted
  <2>. QED BY <1>2, <2>1, <2>2 DEF Held, Elapsed
<1>10. ASSUME NEW m \in Lookups, m # l PROVE Answer(m)' /\ Waiter(m)' /\ Reader(m)'
  <2>1. at'[m] = at[m] /\ lookup'[m] = lookup[m]
    BY <1>3, <1>4, <1>10
  <2>2. Answer(m)'
    BY <1>1, <1>2, <2>1 DEF Answer, Shorter
  <2>3. Reader(m)'
    <3>1. Reader(m)
      BY <1>1
    <3>. QED BY <1>2, <2>1, <3>1, Delay DEF Reader
  <2>4. Waiter(m)'
    BY <1>1, <1>2, <1>3, <1>6, <1>9, <1>10, <2>1, WaiterKept
  <2>. QED BY <2>2, <2>3, <2>4
<1>. QED BY <1>3, <1>6, <1>7, <1>9, <1>10, ByLookupAfter

LEMMA BlankQuery == Blank \in Query /\ Blank.forced = FALSE
BY Periods DEF Blank, Query

\* A lookup's record with one field replaced.
LEMMA KidReplaced ==
    ASSUME NEW q \in Query, NEW kid \in {"k1", "k2"}
    PROVE  [q EXCEPT !.kid = kid] \in Query /\ [q EXCEPT !.kid = kid].forced = q.forced
BY DEF Query

LEMMA ForcedReplaced ==
    ASSUME NEW q \in Query
    PROVE  [q EXCEPT !.forced = TRUE] \in Query /\ [q EXCEPT !.forced = TRUE].kid = q.kid
BY DEF Query

LEMMA WaitedReplaced ==
    ASSUME NEW q \in Query, NEW w \in 0 .. FetchMax, NEW r, r = [q EXCEPT !.waited = w]
    PROVE  r \in Query /\ r.waited = w /\ r.now = q.now /\ r.forced = q.forced
BY DEF Query

LEMMA KeysReplaced ==
    ASSUME NEW q \in Query, NEW b \in BOOLEAN, NEW r, r = [q EXCEPT !.keys = b]
    PROVE  /\ r \in Query /\ r.keys = b /\ r.waited = q.waited /\ r.now = q.now
           /\ r.forced = q.forced
BY DEF Query

LEMMA KeyForAccounted ==
    ASSUME KeysAccounted, NEW l \in Lookups, NEW kid \in {"k1", "k2"}, KeyFor(l, kid)
    PROVE  KeysAccounted'
<1>1. PICK q \in Query : q = [Blank EXCEPT !.kid = kid] /\ q.forced = FALSE
  BY BlankQuery, KidReplaced
<1>2. PICK stage \in {"lock", "read"} :
        /\ stage = IF fetched >= RefreshAfter THEN "lock" ELSE "read"
        /\ Go(l, stage) /\ lookup' = [lookup EXCEPT ![l] = q]
  BY <1>1 DEF KeyFor
<1>3. /\ at[l] = "idle" /\ stage \in Stages /\ stage \notin Fetching
      /\ UNCHANGED <<published, since, cache, lock, requested, cut>>
      /\ UNCHANGED <<published, since, cached>>
  BY DEF KeyFor, Stages, Fetching, cache
<1>4. TypeOK /\ QueueInOrder /\ CacheAged
  BY ByLookup
<1>5. at'[l] = stage /\ lookup'[l] = q
  BY <1>2, <1>3, <1>4, GoFacts, TypeFacts
<1>6. Answer(l)' /\ Waiter(l)'
  BY <1>1, <1>3, <1>5 DEF Answer, Waiter
<1>7. Reader(l)'
  <2>1. stage = "read" => fetched < RefreshAfter
    BY <1>2, <1>4, TypeFacts, Periods
  <2>2. stage = "read" /\ cached /\ ~published => since < RefreshAfter
    BY <1>4, <2>1, TypeFacts, Periods DEF CacheAged
  <2>. QED BY <1>1, <1>3, <1>5, <2>2 DEF Reader
<1>8. stage \in Fetching <=> at[l] \in Fetching
  BY <1>3 DEF Fetching
<1>. QED BY <1>2, <1>3, <1>6, <1>7, <1>8, LocalStep DEF Fetching

\* The recheck under the lock finds that another lookup has refreshed.
LEMMA NotDueAccounted ==
    ASSUME KeysAccounted, NEW l \in Lookups, RefreshLocked(l), ~Due(lookup[l].forced)
    PROVE  KeysAccounted'
<1>1. /\ at[l] = "lock" /\ lock = None /\ waiting[l] = {}
      /\ Go(l, "read") /\ UNCHANGED <<lock, forced, requested, lookup>>
      /\ UNCHANGED <<published, since, cached, fetched, known, cut>>
  BY DEF RefreshLocked
<1>2. /\ TypeOK /\ QueueInOrder /\ CacheAged /\ ForcedAccounted /\ Waiter(l)
  BY ByLookup
<1>3. PICK q \in Query : q = lookup[l]
  BY <1>2, TypeFacts
<1>4. lookup' = [lookup EXCEPT ![l] = q]
  BY <1>1, <1>2, <1>3, TypeFacts
<1>5. "read" \in Stages /\ "read" \notin Fetching /\ "lock" \notin Fetching /\ "read" # "lock"
  BY DEF Stages, Fetching
<1>6. at'[l] = "read" /\ lookup'[l] = q
  BY <1>1, <1>2, <1>3, <1>5, GoFacts
<1>7. Answer(l)' /\ Waiter(l)'
  BY <1>5, <1>6 DEF Answer, Waiter
<1>8. Reader(l)'
  <2>1. CASE ~lookup[l].forced
    <3>1. fetched < RefreshAfter
      BY <1>2, <2>1, TypeFacts, Periods DEF Due
    <3>2. cached /\ ~published => since < RefreshAfter
      BY <1>2, <3>1, TypeFacts, Periods DEF CacheAged
    <3>. QED BY <1>1, <1>3, <1>6, <2>1, <3>2 DEF Reader
  <2>2. CASE lookup[l].forced
    <3>1. forced < ForcedInterval
      BY <1>2, <2>2, TypeFacts, Periods DEF Due
    <3>2. ~cached /\ published => since < ForcedInterval \/ cut < ForcedInterval
      BY <1>1, <1>2, <3>1, TypeFacts, Periods DEF ForcedAccounted
    <3>3. lookup[l].kid = "k1" /\ cached /\ ~published => since =< FetchMax + QueueDelay
      <4>1. Cardinality(waiting[l]) = 0
        BY <1>1, FS_EmptySet
      <4>2. Held = 0 /\ Elapsed = 0
        BY <1>1 DEF Held, Elapsed
      <4>3. Past(l) = C - 2
        BY <4>1, <4>2, Periods DEF Past, C
      <4>4. SUFFICES ASSUME lookup[l].kid = "k1", cached, ~published
                     PROVE  since =< FetchMax + QueueDelay
        OBVIOUS
      <4>5. since =< FetchMax + 2 * FetchMax * Past(l) + Elapsed
        BY <1>1, <1>2, <2>2, <4>4 DEF Waiter
      <4>6. since =< FetchMax + QueueDelay + 0
        BY <4>2, <4>3, <4>5, Delay
      <4>. QED BY <4>6, Delay, Periods
    <3>. QED BY <1>1, <1>3, <1>6, <3>2, <3>3, Delay DEF Reader
  <2>. QED BY <2>1, <2>2
<1>9. UNCHANGED <<published, since, cache, lock, requested, cut>>
  BY <1>1 DEF cache
<1>10. at[l] # "lock" \/ "read" # "lock"
  OBVIOUS
<1>. QED BY <1>1, <1>4, <1>5, <1>7, <1>8, <1>9, <1>10, LocalStep

LEMMA LeaveAccounted ==
    ASSUME KeysAccounted, NEW l \in Lookups, Leave(l), at[l] \notin Fetching,
           UNCHANGED <<published, since, cache, lock, requested, cut>>
    PROVE  KeysAccounted'
<1>1. Go(l, "idle") /\ lookup' = [lookup EXCEPT ![l] = Blank]
  BY DEF Leave
<1>2. "idle" \in Stages /\ "idle" \notin Fetching /\ "idle" # "lock" /\ Blank \in Query
  BY BlankQuery DEF Stages, Fetching
<1>3. TypeOK /\ QueueInOrder
  BY ByLookup
<1>4. at'[l] = "idle"
  BY <1>1, <1>2, <1>3, GoFacts
<1>5. Answer(l)' /\ Waiter(l)' /\ Reader(l)'
  BY <1>2, <1>4 DEF Answer, Waiter, Reader
<1>6. PICK q \in Query : q = Blank
  BY <1>2
<1>. QED BY <1>1, <1>2, <1>5, <1>6, LocalStep

LEMMA ReadAccounted ==
    ASSUME KeysAccounted, NEW l \in Lookups, ReadCache(l)
    PROVE  KeysAccounted'
<1>1. /\ at[l] = "read" /\ at[l] \notin Fetching
      /\ UNCHANGED <<published, since, cache, lock, requested, cut>>
  BY DEF ReadCache, Fetching
<1>2. CASE Found(l) \/ lookup[l].forced
  BY <1>1, <1>2, LeaveAccounted DEF ReadCache
<1>3. CASE ~(Found(l) \/ lookup[l].forced)
  <2>1. TypeOK /\ QueueInOrder /\ lookup[l] \in Query
    BY ByLookup, TypeFacts
  <2>2. PICK q \in Query : q = [lookup[l] EXCEPT !.forced = TRUE] /\ q.kid = lookup[l].kid
    BY <2>1, ForcedReplaced
  <2>3. Go(l, "lock") /\ lookup' = [lookup EXCEPT ![l] = q]
    BY <1>3, <2>2 DEF ReadCache
  <2>4. "lock" \in Stages /\ "lock" \notin Fetching
    BY DEF Stages, Fetching
  <2>5. at'[l] = "lock" /\ lookup'[l] = q
    BY <1>1, <2>1, <2>3, <2>4, GoFacts, TypeFacts
  <2>6. Answer(l)' /\ Reader(l)'
    BY <2>4, <2>5 DEF Answer, Reader
  <2>7. Waiter(l)'
    <3>1. q.kid = "k1" => ~cached'
      BY <1>1, <1>3, <2>2 DEF Found, cache
    <3>. QED BY <2>5, <3>1 DEF Waiter
  <2>8. at[l] # "lock" \/ "lock" # "lock"
    BY <1>1
  <2>. QED BY <1>1, <2>3, <2>4, <2>6, <2>7, <2>8, LocalStep
<1>. QED BY <1>2, <1>3

LEMMA FetchingAccounted ==
    ASSUME KeysAccounted, NEW l \in Lookups, FetchDiscovery(l) \/ FetchKeys(l)
    PROVE  KeysAccounted'
<1>1. /\ TypeOK /\ QueueInOrder /\ lookup[l] \in Query /\ Answer(l) /\ published \in BOOLEAN
      /\ lookup[l].now \in Nat /\ lookup[l].waited \in Nat /\ lookup[l].waited =< FetchMax
      /\ FetchMax \in Nat
  BY ByLookup, TypeFacts, Periods
<1>2. UNCHANGED <<published, since, cache, lock, requested, cut>> /\ UNCHANGED <<published, since, forced>>
  BY DEF FetchDiscovery, FetchKeys, cache
<1>3. at[l] \in Fetching /\ {"keys", "answered"} \subseteq Stages \cap Fetching
  BY DEF FetchDiscovery, FetchKeys, Stages, Fetching
<1>4. PICK stage \in {"keys", "answered"}, q \in Query :
        /\ Go(l, stage) /\ lookup' = [lookup EXCEPT ![l] = q]
        /\ q.now = lookup[l].now /\ q.forced = lookup[l].forced
        /\ \/ stage = "keys" /\ at[l] = "discovery" /\ q.waited = 0
           \/ /\ stage = "answered" /\ at[l] = "keys" /\ q.waited = lookup[l].waited
              /\ q.keys = published
  <2>1. CASE FetchDiscovery(l)
    <3>1. PICK o \in Query : o = lookup[l]
      BY <1>1
    <3>2. PICK q : q = [o EXCEPT !.waited = 0]
      OBVIOUS
    <3>3. 0 \in 0 .. FetchMax
      BY <1>1
    <3>4. q \in Query /\ q.waited = 0 /\ q.now = o.now /\ q.forced = o.forced
      BY <3>2, <3>3, WaitedReplaced
    <3>. QED BY <2>1, <3>1, <3>2, <3>4 DEF FetchDiscovery
  <2>2. CASE FetchKeys(l)
    <3>1. PICK o \in Query, b \in BOOLEAN : o = lookup[l] /\ b = published
      BY <1>1
    <3>2. PICK q : q = [o EXCEPT !.keys = b]
      OBVIOUS
    <3>3. q \in Query /\ q.keys = b /\ q.waited = o.waited /\ q.now = o.now /\ q.forced = o.forced
      BY <3>2, KeysReplaced
    <3>. QED BY <2>2, <3>1, <3>2, <3>3 DEF FetchKeys
  <2>. QED BY <2>1, <2>2
<1>5. stage \in Stages /\ stage \in Fetching /\ stage # "lock"
  BY <1>3, <1>4
<1>6. at'[l] = stage /\ lookup'[l] = q
  BY <1>1, <1>4, <1>5, GoFacts, TypeFacts
<1>7. Waiter(l)' /\ Reader(l)'
  BY <1>4, <1>6 DEF Waiter, Reader
<1>8. Answer(l)'
  <2>1. /\ lookup[l].waited =< lookup[l].now
        /\ IF at[l] = "discovery" THEN lookup[l].now =< lookup[l].waited
                                  ELSE lookup[l].now =< lookup[l].waited + FetchMax
        /\ forced >= Shorter(lookup[l].now, ForcedInterval)
        /\ lookup[l].forced => forced =< lookup[l].now
    BY <1>1, <1>3 DEF Answer
  <2>2. q.waited =< q.now /\ q.now =< q.waited + FetchMax
    BY <1>1, <1>4, <2>1
  <2>3. stage = "answered" => (q.keys <=> published)
    BY <1>4
  <2>4. forced >= Shorter(q.now, ForcedInterval) /\ (q.forced => forced =< q.now)
    BY <1>4, <2>1
  <2>5. stage # "discovery"
    BY <1>4
  <2>. QED BY <1>2, <1>6, <2>2, <2>3, <2>4, <2>5 DEF Answer, Shorter
<1>. QED BY <1>2, <1>3, <1>4, <1>5, <1>7, <1>8, LocalStep

\* A refresh starts: its lookup leaves the queue's head, and those behind it
\* count it as the one under way.
LEMMA DueAccounted ==
    ASSUME KeysAccounted, NEW l \in Lookups, RefreshLocked(l), Due(lookup[l].forced)
    PROVE  KeysAccounted'
<1>1. /\ TypeOK /\ QueueInOrder /\ CacheAged /\ ForcedAccounted
      /\ \A m \in Lookups : Answer(m) /\ Waiter(m) /\ Reader(m)
  BY ByLookup
<1>2. /\ at[l] = "lock" /\ lock = None /\ waiting[l] = {} /\ lock' = l
      /\ forced' = (IF lookup[l].forced THEN 0 ELSE forced)
      /\ requested' = (IF lookup[l].forced THEN 0 ELSE requested)
      /\ lookup' = [lookup EXCEPT ![l] = [@ EXCEPT !.now = 0, !.waited = 0]]
      /\ UNCHANGED <<published, since, cached, fetched, known, cut>>
  BY DEF RefreshLocked, Recorded
<1>3. PICK stage \in {"keys", "discovery"} : Go(l, stage)
  BY DEF RefreshLocked
<1>4. stage \in Stages /\ stage \in Fetching /\ stage # "lock" /\ stage # "read" /\ stage # "answered"
  BY DEF Stages, Fetching
<1>5. /\ at' \in [Lookups -> Stages] /\ waiting' \in [Lookups -> SUBSET Lookups]
      /\ at'[l] = stage /\ \A m \in Lookups : m # l => at'[m] = at[m]
      /\ \A m \in Lookups : m # l => waiting'[m] = waiting[m] \ {l}
      /\ QueueInOrder'
  BY <1>1, <1>3, <1>4, GoFacts
<1>6. PICK q \in Query : /\ lookup' = [lookup EXCEPT ![l] = q]
                         /\ q.now = 0 /\ q.waited = 0 /\ (q.forced <=> lookup[l].forced)
  <2>1. PICK o \in Query : o = lookup[l]
    BY <1>1, TypeFacts
  <2>2. PICK q : q = [o EXCEPT !.now = 0, !.waited = 0]
    OBVIOUS
  <2>3. 0 \in 0 .. FetchMax /\ 0 \in 0 .. 2 * FetchMax
    BY Periods
  <2>4. q \in Query /\ q.now = 0 /\ q.waited = 0 /\ q.forced = o.forced
    BY <2>2, <2>3 DEF Query
  <2>5. lookup' = [lookup EXCEPT ![l] = q]
    BY <1>1, <1>2, <2>1, <2>2, TypeFacts
  <2>. QED BY <2>1, <2>4, <2>5
<1>7. /\ lookup' \in [Lookups -> Query] /\ lookup'[l] = q
      /\ \A m \in Lookups : m # l => lookup'[m] = lookup[m]
  BY <1>1, <1>6, TypeFacts
<1>8. l # None /\ \A m \in Lookups : at[m] \notin Fetching
  BY <1>1, <1>2, TypeFacts, Periods
<1>9. \A m \in Lookups : at'[m] \in Fetching <=> lock' = m
  BY <1>2, <1>4, <1>5, <1>8
<1>10. TypeOK'
  <2>1. forced' \in 0 .. ForcedInterval /\ requested' \in 0 .. ForcedInterval
    BY <1>1, <1>2, Periods DEF TypeOK
  <2>. QED BY <1>1, <1>2, <1>5, <1>7, <1>9, <2>1 DEF TypeOK, Stages, Query
<1>11. CacheAged'
  BY <1>1, <1>2 DEF CacheAged
<1>12. ForcedAccounted'
  BY <1>1, <1>2, <1>6, <1>7, <1>8 DEF ForcedAccounted
<1>13. Held = 0 /\ Held' = 1 /\ Elapsed = 0 /\ Elapsed' = 0
  BY <1>2, <1>6, <1>7, <1>8 DEF Held, Elapsed
<1>14. Answer(l)' /\ Waiter(l)' /\ Reader(l)'
  <2>1. Shorter(0, ForcedInterval) = 0 /\ forced' \in Nat /\ (q.forced => forced' = 0)
    BY <1>1, <1>2, <1>6, Periods, TypeFacts DEF Shorter
  <2>2. Answer(l)'
    BY <1>4, <1>5, <1>6, <1>7, <2>1, Periods DEF Answer
  <2>. QED BY <1>4, <1>5, <2>2 DEF Waiter, Reader
<1>15. ASSUME NEW m \in Lookups, m # l PROVE Answer(m)' /\ Waiter(m)' /\ Reader(m)'
  <2>1. at'[m] = at[m] /\ lookup'[m] = lookup[m] /\ waiting'[m] = waiting[m] \ {l}
    BY <1>5, <1>7, <1>15
  <2>2. Answer(m)'
    BY <1>8, <2>1 DEF Answer
  <2>3. Reader(m)'
    <3>1. Reader(m)
      BY <1>1
    <3>. QED BY <1>2, <2>1, <3>1, Delay DEF Reader
  <2>4. Waiter(m)'
    <3>. SUFFICES ASSUME at[m] = "lock", lookup[m].forced, lookup[m].kid = "k1", cached
                  PROVE  /\ Cardinality(waiting'[m]) + Held' + 2 =< C
                         /\ ~published' =>
                              since' =< FetchMax
                                 + 2 * FetchMax * (C - 2 - Cardinality(waiting'[m]) - Held') + Elapsed'
      BY <1>2, <2>1 DEF Waiter, Past, C
    <3>1. l \in waiting[m]
      BY <1>1, <1>2, <1>15 DEF QueueInOrder, Queued
    <3>2. /\ Cardinality(waiting[m]) \in Nat
          /\ Cardinality(waiting'[m]) = Cardinality(waiting[m]) - 1
      BY <1>1, <2>1, <3>1, QueueSizes
    <3>3. /\ Cardinality(waiting[m]) + Held + 2 =< C
          /\ ~published => since =< FetchMax + 2 * FetchMax * (C - 2 - Cardinality(waiting[m]) - Held) + Elapsed
      BY <1>1 DEF Waiter, Past, C
    <3>4. /\ C - 2 - Cardinality(waiting'[m]) - Held' = C - 2 - Cardinality(waiting[m]) - Held
          /\ Cardinality(waiting'[m]) + Held' + 2 =< C
      BY <1>13, <3>2, <3>3, Periods
    <3>. QED BY <1>2, <1>13, <3>3, <3>4
  <2>. QED BY <2>2, <2>3, <2>4
<1>. QED BY <1>5, <1>10, <1>11, <1>12, <1>14, <1>15, ByLookupAfter

\* A refresh ends and the cache is replaced: what the issuer has decided since
\* it answered is as young as the answer.
LEMMA StoreAccounted ==
    ASSUME KeysAccounted, NEW l \in Lookups, StoreKeys(l)
    PROVE  KeysAccounted'
<1>1. /\ TypeOK /\ QueueInOrder /\ ForcedAccounted /\ Answer(l)
  BY ByLookup
<1>2. /\ at[l] = "answered" /\ cached' = lookup[l].keys /\ Go(l, "read") /\ lock' = None
      /\ fetched' = Shorter(lookup[l].now, RefreshAfter) /\ known' = TRUE
      /\ UNCHANGED <<published, since, forced, lookup, requested, cut>>
  BY DEF StoreKeys, FetchedKeys
<1>3. "read" \in Stages /\ "read" \notin Fetching /\ "answered" \in Fetching /\ "lock" \notin Fetching
  BY DEF Stages, Fetching
<1>4. /\ at' \in [Lookups -> Stages] /\ waiting' \in [Lookups -> SUBSET Lookups]
      /\ at'[l] = "read" /\ \A m \in Lookups : m # l => at'[m] = at[m]
      /\ \A m \in Lookups : m # l => waiting'[m] = waiting[m] \ {l}
      /\ QueueInOrder'
  BY <1>1, <1>2, <1>3, GoFacts
<1>5. \A m \in Lookups : at'[m] \notin Fetching
  BY <1>1, <1>2, <1>3, <1>4, TypeFacts
<1>6. /\ lookup[l].now \in Nat /\ lookup[l].waited \in Nat /\ lookup[l].waited =< FetchMax
      /\ lookup[l].keys \in BOOLEAN /\ published \in BOOLEAN /\ since \in Nat /\ forced \in Nat
  BY <1>1, TypeFacts
<1>7. /\ lookup[l].waited =< lookup[l].now /\ forced >= Shorter(lookup[l].now, ForcedInterval)
      /\ ~(lookup[l].keys <=> published) => since =< lookup[l].waited
  BY <1>1, <1>2, <1>3 DEF Answer
<1>8. ~(cached' <=> published') => since' =< lookup[l].waited
  BY <1>2, <1>7
<1>9. TypeOK'
  <2>1. fetched' \in 0 .. RefreshAfter
    BY <1>2, <1>6, Periods DEF Shorter
  <2>2. \A m \in Lookups : at'[m] \in Fetching <=> lock' = m
    BY <1>2, <1>5, Periods
  <2>. QED BY <1>1, <1>2, <1>4, <1>6, <2>1, <2>2 DEF TypeOK, Stages
<1>10. CacheAged'
  BY <1>2, <1>6, <1>7, <1>8, Periods DEF CacheAged, Shorter
<1>11. ForcedAccounted'
  <2>1. forced < ForcedInterval => forced >= lookup[l].now
    BY <1>6, <1>7, Periods DEF Shorter
  <2>2. forced < ForcedInterval /\ published' /\ ~cached' => since' =< forced
    BY <1>2, <1>6, <1>7, <1>8, <2>1
  <2>. QED BY <1>1, <1>2, <2>2 DEF ForcedAccounted
<1>12. ASSUME NEW m \in Lookups PROVE Answer(m)' /\ Waiter(m)' /\ Reader(m)'
  <2>1. Answer(m)'
    BY <1>5 DEF Answer
  <2>2. since' \in Nat /\ (~(cached' <=> published') => since' =< FetchMax)
    BY <1>2, <1>6, <1>8, Periods
  <2>3. Reader(m)'
    BY <2>2, Delay, Periods DEF Reader
  <2>4. Waiter(m)'
    <3>. SUFFICES ASSUME at'[m] = "lock", cached'
                  PROVE  /\ Cardinality(waiting'[m]) + Held' + 2 =< C
                         /\ ~published' =>
                              since' =< FetchMax
                                 + 2 * FetchMax * (C - 2 - Cardinality(waiting'[m]) - Held') + Elapsed'
      BY DEF Waiter, Past, C
    <3>1. m # l /\ waiting'[m] = waiting[m] \ {l}
      BY <1>4
    <3>2. waiting[m] \subseteq Lookups \ {m}
      BY <1>1 DEF QueueInOrder, Queued
    <3>3. Cardinality(waiting'[m]) \in Nat /\ Cardinality(waiting'[m]) + 2 =< C
      BY <3>1, <3>2, RoomForTwo
    <3>4. Held' = 0 /\ Elapsed' = 0
      BY <1>2 DEF Held, Elapsed
    <3>5. PICK n \in Nat : n = C - 2 - Cardinality(waiting'[m]) - Held'
      BY <3>3, <3>4, Periods
    <3>6. 2 * FetchMax * n \in Nat
      BY Products, Periods
    <3>7. ~published' => since' =< FetchMax + 2 * FetchMax * n + Elapsed'
      BY <2>2, <3>4, <3>6, Periods
    <3>. QED BY <3>3, <3>4, <3>5, <3>7, Periods
  <2>. QED BY <2>1, <2>3, <2>4
<1>. QED BY <1>4, <1>9, <1>10, <1>11, <1>12, ByLookupAfter

\* A refresh ends with nothing: those in the queue have waited for one more.
LEMMA FailureAccounted ==
    ASSUME KeysAccounted, NEW l \in Lookups, FetchFails(l)
    PROVE  KeysAccounted'
<1>1. /\ TypeOK /\ QueueInOrder /\ CacheAged /\ ForcedAccounted
      /\ \A m \in Lookups : Waiter(m) /\ Reader(m)
  BY ByLookup
<1>2. /\ at[l] \in Fetching /\ Go(l, "idle") /\ lookup' = [lookup EXCEPT ![l] = Blank]
      /\ lock' = None /\ cut' = 0 /\ UNCHANGED <<published, since, cached, fetched, known, forced, requested>>
  BY DEF FetchFails, Leave, cache
<1>3. "idle" \in Stages /\ "idle" \notin Fetching /\ "idle" # "lock" /\ Blank \in Query
  BY BlankQuery DEF Stages, Fetching
<1>4. /\ at' \in [Lookups -> Stages] /\ waiting' \in [Lookups -> SUBSET Lookups]
      /\ at'[l] = "idle" /\ \A m \in Lookups : m # l => at'[m] = at[m]
      /\ \A m \in Lookups : m # l => waiting'[m] = waiting[m] \ {l}
      /\ QueueInOrder'
  BY <1>1, <1>2, <1>3, GoFacts
<1>5. lock = l /\ l # None /\ \A m \in Lookups : at'[m] \notin Fetching
  BY <1>1, <1>2, <1>3, <1>4, TypeFacts, Periods
<1>6. /\ lookup' \in [Lookups -> Query] /\ \A m \in Lookups : m # l => lookup'[m] = lookup[m]
  BY <1>1, <1>2, <1>3, TypeFacts
<1>7. TypeOK'
  <2>1. \A m \in Lookups : at'[m] \in Fetching <=> lock' = m
    BY <1>2, <1>5, Periods
  <2>2. cut' \in 0 .. Horizon
    BY <1>2, Periods
  <2>. QED BY <1>1, <1>2, <1>4, <1>6, <2>1, <2>2 DEF TypeOK, Stages, Query
<1>8. CacheAged'
  BY <1>1, <1>2 DEF CacheAged
<1>9. ForcedAccounted'
  BY <1>1, <1>2, TypeFacts DEF ForcedAccounted
<1>10. Held = 1 /\ Held' = 0 /\ Elapsed' = 0 /\ Elapsed \in Nat /\ Elapsed =< 2 * FetchMax
  BY <1>1, <1>2, <1>5, LockFacts DEF Held, Elapsed
<1>11. ASSUME NEW m \in Lookups PROVE Answer(m)' /\ Waiter(m)' /\ Reader(m)'
  <2>1. Answer(m)'
    BY <1>5 DEF Answer
  <2>2. CASE m = l
    BY <1>4, <2>1, <2>2 DEF Waiter, Reader
  <2>3. CASE m # l
    <3>1. at'[m] = at[m] /\ lookup'[m] = lookup[m] /\ waiting'[m] = waiting[m] \ {l}
      BY <1>4, <1>6, <2>3
    <3>2. Reader(m)'
      <4>1. Reader(m)
        BY <1>1
      <4>. QED BY <1>2, <3>1, <4>1, Delay, Periods DEF Reader
    <3>3. Waiter(m)'
      <4>. SUFFICES ASSUME at[m] = "lock", lookup[m].forced, lookup[m].kid = "k1", cached
                    PROVE  /\ Cardinality(waiting'[m]) + Held' + 2 =< C
                           /\ ~published' =>
                                since' =< FetchMax
                                   + 2 * FetchMax * (C - 2 - Cardinality(waiting'[m]) - Held') + Elapsed'
        BY <1>2, <3>1 DEF Waiter, Past, C
      <4>1. PICK w \in Nat, w1 \in Nat :
                w = Cardinality(waiting[m]) /\ w1 = Cardinality(waiting'[m]) /\ w1 =< w
        BY <1>1, <3>1, QueueSizes
      <4>2. w + 3 =< C /\ (~published => since =< FetchMax + 2 * FetchMax * (C - 2 - w - Held) + Elapsed)
        BY <1>1, <1>10, <4>1, Periods DEF Waiter, Past, C
      <4>3. PICK n \in Nat, n1 \in Nat :
                n = C - 2 - w - Held /\ n1 = C - 2 - w1 - Held' /\ n + 1 =< n1
        BY <1>10, <4>1, <4>2, Periods
      <4>4. since \in Nat /\ FetchMax \in Nat
        BY <1>1, TypeFacts, Periods
      <4>5. PICK e \in Nat, s \in Nat : e = Elapsed /\ s = since /\ e =< 2 * FetchMax
        BY <1>10, <4>4
      <4>6. ~published => s =< FetchMax + 2 * FetchMax * n + e
        BY <4>2, <4>3, <4>5
      <4>7. ~published => s =< FetchMax + 2 * FetchMax * n1
        BY <4>3, <4>4, <4>5, <4>6, AllowanceGained
      <4>8. 2 * FetchMax * n1 \in Nat
        BY <4>4, Products
      <4>9. ~published' => since' =< FetchMax + 2 * FetchMax * n1 + Elapsed'
        BY <1>2, <1>10, <4>4, <4>5, <4>7, <4>8
      <4>. QED BY <1>10, <4>1, <4>2, <4>3, <4>9, Periods
    <3>. QED BY <2>1, <3>2, <3>3
  <2>. QED BY <2>2, <2>3
<1>. QED BY <1>4, <1>7, <1>8, <1>9, <1>11, ByLookupAfter

LEMMA RotateAccounted ==
    ASSUME KeysAccounted, Rotate
    PROVE  KeysAccounted'
<1>1. /\ TypeOK /\ QueueInOrder /\ CacheAged /\ ForcedAccounted
      /\ \A m \in Lookups : Answer(m) /\ Waiter(m) /\ Reader(m)
  BY ByLookup
<1>2. /\ published' = ~published /\ since' = 0
      /\ UNCHANGED <<cached, fetched, known, forced, lock, waiting, at, lookup, requested, cut>>
  BY DEF Rotate, cache
<1>3. TypeOK' /\ QueueInOrder' /\ CacheAged'
  <2>1. TypeOK'
    BY <1>1, <1>2, Periods DEF TypeOK
  <2>2. QueueInOrder'
    BY <1>1, <1>2 DEF QueueInOrder, Queued
  <2>. QED BY <1>1, <1>2, <2>1, <2>2, TypeFacts DEF CacheAged
<1>4. ForcedAccounted'
  BY <1>1, <1>2, TypeFacts DEF ForcedAccounted
<1>5. Held' = Held /\ Elapsed' = Elapsed /\ Held \in Nat /\ Elapsed \in Nat
  BY <1>1, <1>2, LockFacts DEF Held, Elapsed
<1>6. ASSUME NEW m \in Lookups PROVE Answer(m)' /\ Waiter(m)' /\ Reader(m)'
  <2>1. Answer(m)'
    <3>1. Answer(m) /\ lookup[m].waited \in Nat
      BY <1>1, TypeFacts
    <3>. QED BY <1>2, <3>1 DEF Answer, Shorter
  <2>2. Reader(m)'
    BY <1>2, Periods, Delay DEF Reader
  <2>3. Waiter(m)'
    <3>. SUFFICES ASSUME at[m] = "lock", lookup[m].forced, lookup[m].kid = "k1", cached
                  PROVE  /\ Cardinality(waiting'[m]) + Held' + 2 =< C
                         /\ ~published' =>
                              since' =< FetchMax
                                 + 2 * FetchMax * (C - 2 - Cardinality(waiting'[m]) - Held') + Elapsed'
      BY <1>2 DEF Waiter, Past, C
    <3>1. Cardinality(waiting'[m]) = Cardinality(waiting[m]) /\ Cardinality(waiting[m]) \in Nat
      BY <1>1, <1>2, QueueSizes
    <3>2. Cardinality(waiting[m]) + Held + 2 =< C
      BY <1>1 DEF Waiter
    <3>3. PICK n \in Nat : n = C - 2 - Cardinality(waiting'[m]) - Held'
      BY <1>5, <3>1, <3>2, Periods
    <3>4. 2 * FetchMax * n \in Nat
      BY Products, Periods
    <3>5. since' =< FetchMax + 2 * FetchMax * n + Elapsed'
      BY <1>2, <1>5, <3>4, Periods
    <3>. QED BY <1>5, <3>1, <3>2, <3>3, <3>5
  <2>. QED BY <2>1, <2>2, <2>3
<1>. QED BY <1>3, <1>4, <1>6, ByLookupAfter

\* Time passes: who waits has a refresh under way to charge it to, and nobody
\* is about to read.
LEMMA TickAccounted ==
    ASSUME KeysAccounted, Tick
    PROVE  KeysAccounted'
<1>1. /\ TypeOK /\ QueueInOrder /\ CacheAged /\ ForcedAccounted
      /\ \A m \in Lookups : Answer(m) /\ Waiter(m)
  BY ByLookup
<1>2. UNCHANGED <<published, cached, known, lock, waiting, at>>
  BY DEF Tick
<1>3. /\ since \in Nat /\ fetched \in Nat /\ forced \in Nat /\ requested \in Nat /\ cut \in Nat
      /\ since =< Horizon /\ cut =< Horizon /\ fetched =< RefreshAfter /\ forced =< ForcedInterval
      /\ requested =< ForcedInterval
  BY <1>1, TypeFacts, Periods DEF TypeOK
<1>4. /\ since' \in 0 .. Horizon /\ since' =< since + 1 /\ cut' \in 0 .. Horizon /\ cut' =< cut + 1
      /\ fetched' \in 0 .. RefreshAfter /\ (fetched' < RefreshAfter => fetched' = fetched + 1)
      /\ forced' \in 0 .. ForcedInterval /\ forced' =< forced + 1
      /\ (forced' < ForcedInterval => forced' = forced + 1)
      /\ requested' \in 0 .. ForcedInterval /\ (forced = requested => forced' = requested')
  <2>1. /\ since' = Older(since, Horizon) /\ fetched' = Older(fetched, RefreshAfter)
        /\ forced' = Older(forced, ForcedInterval) /\ requested' = Older(requested, ForcedInterval)
        /\ cut' = Older(cut, Horizon)
    BY DEF Tick
  <2>2. \A cap \in Nat, age \in Nat : age =< cap =>
            /\ Older(age, cap) \in 0 .. cap /\ Older(age, cap) =< age + 1
            /\ Older(age, cap) < cap => Older(age, cap) = age + 1
    BY DEF Older
  <2>. QED BY <1>3, <2>1, <2>2, Periods
<1>5. ASSUME NEW m \in Lookups
      PROVE  /\ lookup'[m] \in Query /\ lookup'[m].kid = lookup[m].kid
             /\ (lookup'[m].forced <=> lookup[m].forced)
             /\ at[m] \in Fetching =>
                  /\ lookup'[m].now = lookup[m].now + 1 /\ lookup'[m].waited = lookup[m].waited + 1
                  /\ lookup'[m].keys = lookup[m].keys
  <2>1. PICK o \in Query : o = lookup[m]
    BY <1>1, TypeFacts
  <2>2. CASE at[m] \notin Fetching
    BY <2>1, <2>2 DEF Tick
  <2>3. CASE at[m] \in Fetching
    <3>1. o.now \in Nat /\ o.waited \in Nat /\ o.waited =< FetchMax /\ FetchMax \in Nat
      BY <1>1, <2>1, TypeFacts, Periods
    <3>2. o.waited # FetchMax
      BY <2>1, <2>3 DEF Tick, Urgent
    <3>3. o.now =< o.waited + FetchMax
      BY <1>1, <2>1, <2>3, <3>1 DEF Answer
    <3>4. o.waited + 1 \in 0 .. FetchMax /\ o.now + 1 \in 0 .. 2 * FetchMax /\ o.now < 2 * FetchMax
      BY <3>1, <3>2, <3>3
    <3>5. PICK n \in 0 .. 2 * FetchMax, w \in 0 .. FetchMax : n = o.now + 1 /\ w = o.waited + 1
      BY <3>4
    <3>6. PICK r : r = [o EXCEPT !.now = n, !.waited = w]
      OBVIOUS
    <3>7. /\ r \in Query /\ r.now = n /\ r.waited = w /\ r.kid = o.kid
          /\ r.forced = o.forced /\ r.keys = o.keys
      BY <3>6 DEF Query
    <3>8. lookup'[m] = [o EXCEPT !.now = Older(o.now, 2 * FetchMax), !.waited = o.waited + 1]
      BY <2>1, <2>3 DEF Tick
    <3>9. Older(o.now, 2 * FetchMax) = n
      BY <3>4, <3>5 DEF Older
    <3>10. lookup'[m] = r
      BY <3>5, <3>6, <3>8, <3>9
    <3>. QED BY <2>1, <3>5, <3>7, <3>10
  <2>. QED BY <2>2, <2>3
<1>6. lookup' \in [Lookups -> Query]
  BY <1>5 DEF Tick
<1>7. TypeOK'
  BY <1>1, <1>2, <1>4, <1>6 DEF TypeOK, Query
<1>8. QueueInOrder'
  BY <1>1, <1>2 DEF QueueInOrder, Queued
<1>9. CacheAged'
  BY <1>1, <1>2, <1>3, <1>4, Periods DEF CacheAged
<1>10. ForcedAccounted'
  <2>1. lock # None => lock \in Lookups /\ (lookup'[lock].forced <=> lookup[lock].forced)
    BY <1>1, <1>5 DEF TypeOK
  <2>2. forced' = requested'
    BY <1>1, <1>4 DEF ForcedAccounted
  <2>3. SUFFICES ASSUME lock' # None => ~lookup'[lock'].forced, forced' < ForcedInterval, published', ~cached'
                 PROVE  since' =< forced' \/ cut' =< forced'
    BY <2>2 DEF ForcedAccounted
  <2>4. forced' = forced + 1 /\ forced < ForcedInterval
    BY <1>3, <1>4, <2>3, Periods
  <2>5. since =< forced \/ cut =< forced
    BY <1>1, <1>2, <2>1, <2>3, <2>4 DEF ForcedAccounted
  <2>. QED BY <1>3, <1>4, <2>4, <2>5, Periods
<1>11. ASSUME NEW m \in Lookups PROVE Answer(m)' /\ Waiter(m)' /\ Reader(m)'
  <2>1. Reader(m)'
    BY <1>2 DEF Tick, Urgent, Reader
  <2>2. Answer(m)'
    <3>. SUFFICES ASSUME at[m] \in Fetching PROVE Answer(m)'
      BY <1>2 DEF Answer
    <3>1. /\ lookup'[m].now = lookup[m].now + 1 /\ lookup'[m].waited = lookup[m].waited + 1
          /\ lookup'[m].keys = lookup[m].keys /\ (lookup'[m].forced <=> lookup[m].forced)
          /\ lookup[m].now \in Nat /\ lookup[m].waited \in Nat
      BY <1>1, <1>5, TypeFacts
    <3>2. /\ lookup[m].waited =< lookup[m].now
          /\ IF at[m] = "discovery" THEN lookup[m].now =< lookup[m].waited
                                    ELSE lookup[m].now =< lookup[m].waited + FetchMax
          /\ forced >= Shorter(lookup[m].now, ForcedInterval)
          /\ lookup[m].forced => forced =< lookup[m].now
          /\ at[m] = "answered" /\ ~(lookup[m].keys <=> published) => since =< lookup[m].waited
      BY <1>1 DEF Answer
    <3>3. /\ lookup'[m].waited =< lookup'[m].now
          /\ IF at'[m] = "discovery" THEN lookup'[m].now =< lookup'[m].waited
                                     ELSE lookup'[m].now =< lookup'[m].waited + FetchMax
      BY <1>2, <3>1, <3>2, Periods
    <3>4. forced' >= Shorter(lookup'[m].now, ForcedInterval)
      BY <1>3, <1>4, <3>1, <3>2, Periods DEF Shorter
    <3>5. lookup'[m].forced => forced' =< lookup'[m].now
      BY <1>3, <1>4, <3>1, <3>2, Periods
    <3>6. at'[m] = "answered" /\ ~(lookup'[m].keys <=> published') => since' =< lookup'[m].waited
      BY <1>2, <1>3, <1>4, <3>1, <3>2, Periods
    <3>. QED BY <3>3, <3>4, <3>5, <3>6 DEF Answer, Shorter
  <2>3. Waiter(m)'
    <3>. SUFFICES ASSUME at[m] = "lock", lookup[m].forced, lookup[m].kid = "k1", cached
                  PROVE  /\ Cardinality(waiting'[m]) + Held' + 2 =< C
                         /\ ~published' =>
                              since' =< FetchMax
                                 + 2 * FetchMax * (C - 2 - Cardinality(waiting'[m]) - Held') + Elapsed'
      BY <1>2, <1>5 DEF Waiter, Past, C
    <3>1. lock # None /\ lock \in Lookups
      BY <1>1 DEF Tick, Urgent, TypeOK
    <3>2. at[lock] \in Fetching
      BY <1>1, <3>1, TypeFacts
    <3>3. Held' = Held /\ Elapsed' = Elapsed + 1 /\ Held \in Nat /\ Elapsed \in Nat
      BY <1>1, <1>2, <1>5, <3>1, <3>2, LockFacts DEF Held, Elapsed
    <3>4. Cardinality(waiting'[m]) = Cardinality(waiting[m]) /\ Cardinality(waiting[m]) \in Nat
      BY <1>1, <1>2, QueueSizes
    <3>5. /\ Cardinality(waiting[m]) + Held + 2 =< C
          /\ ~published => since =< FetchMax + 2 * FetchMax * (C - 2 - Cardinality(waiting[m]) - Held) + Elapsed
      BY <1>1 DEF Waiter, Past, C
    <3>6. PICK n \in Nat : /\ n = C - 2 - Cardinality(waiting[m]) - Held
                           /\ n = C - 2 - Cardinality(waiting'[m]) - Held'
      BY <3>3, <3>4, <3>5, Periods
    <3>7. PICK e \in Nat, s \in Nat, s1 \in Nat : e = Elapsed /\ s = since /\ s1 = since' /\ s1 =< s + 1
      BY <1>3, <1>4, <3>3, Periods
    <3>8. 2 * FetchMax * n \in Nat /\ FetchMax \in Nat
      BY Products, Periods
    <3>9. ~published => s =< FetchMax + 2 * FetchMax * n + e
      BY <3>5, <3>6, <3>7
    <3>10. ~published => s1 =< FetchMax + 2 * FetchMax * n + (e + 1)
      BY <3>7, <3>8, <3>9
    <3>11. ~published' => since' =< FetchMax + 2 * FetchMax * n + Elapsed'
      BY <1>2, <3>3, <3>7, <3>10
    <3>. QED BY <3>3, <3>4, <3>5, <3>6, <3>11
  <2>. QED BY <2>1, <2>2, <2>3
<1>. QED BY <1>7, <1>8, <1>9, <1>10, <1>11, ByLookupAfter

-----------------------------------------------------------------------------
LEMMA InitAccounted == Init => KeysAccounted
<1>. SUFFICES ASSUME Init PROVE KeysAccounted
  OBVIOUS
<1>1. at = [l \in Lookups |-> "idle"] /\ lookup = [l \in Lookups |-> Blank] /\ lock = None
      /\ waiting = [l \in Lookups |-> {}] /\ cached = FALSE
  BY DEF Init
<1>2. \A l \in Lookups : at[l] = "idle" /\ at[l] \notin Fetching /\ waiting[l] = {}
  BY <1>1 DEF Fetching
<1>3. TypeOK
  <2>1. lookup \in [Lookups -> Query]
    BY <1>1, BlankQuery
  <2>2. \A l \in Lookups : at[l] \in Fetching <=> lock = l
    BY <1>1, <1>2, Periods
  <2>3. at \in [Lookups -> Fetching \cup {"idle", "lock", "read"}] /\ waiting \in [Lookups -> SUBSET Lookups]
    BY <1>1
  <2>4. /\ published \in BOOLEAN /\ cached \in BOOLEAN /\ known \in BOOLEAN
        /\ lock \in Lookups \cup {None}
    BY DEF Init
  <2>5. /\ since \in 0 .. Horizon /\ fetched \in 0 .. RefreshAfter /\ forced \in 0 .. ForcedInterval
        /\ requested \in 0 .. ForcedInterval /\ cut \in 0 .. Horizon
    BY Periods DEF Init
  <2>. QED BY <2>1, <2>2, <2>3, <2>4, <2>5 DEF TypeOK, Query
<1>4. QueueInOrder
  BY <1>2 DEF QueueInOrder, Queued
<1>5. CacheAged /\ ForcedAccounted
  BY <1>3, TypeFacts, Periods DEF Init, CacheAged, ForcedAccounted
<1>6. \A l \in Lookups : Answer(l) /\ Waiter(l) /\ Reader(l)
  BY <1>2 DEF Answer, Waiter, Reader
<1>. QED BY <1>3, <1>4, <1>5, <1>6, ByLookup

LEMMA NextAccounted == KeysAccounted /\ [Next]_vars => KeysAccounted'
<1>. SUFFICES ASSUME KeysAccounted, [Next]_vars PROVE KeysAccounted'
  OBVIOUS
<1>1. CASE UNCHANGED vars
  <2>1. /\ TypeOK' /\ QueueInOrder' /\ CacheAged' /\ ForcedAccounted' /\ AnswersAged'
        /\ WaitersAged' /\ ReadersAged'
    <3>1. TypeOK' /\ QueueInOrder' /\ CacheAged' /\ ForcedAccounted'
      BY <1>1 DEF KeysAccounted, vars, TypeOK, QueueInOrder, Queued, CacheAged, ForcedAccounted
    <3>2. AnswersAged'
      BY <1>1 DEF KeysAccounted, vars, AnswersAged
    <3>3. WaitersAged'
      BY <1>1 DEF KeysAccounted, vars, WaitersAged, Queued, Past, Held, Elapsed
    <3>4. ReadersAged'
      BY <1>1, Delay DEF KeysAccounted, vars, ReadersAged
    <3>. QED BY <3>1, <3>2, <3>3, <3>4
  <2>. QED BY <2>1 DEF KeysAccounted
<1>2. ASSUME NEW l \in Lookups, NEW kid \in {"k1", "k2"}, KeyFor(l, kid) PROVE KeysAccounted'
  BY <1>2, KeyForAccounted
<1>3. ASSUME NEW l \in Lookups, RefreshLocked(l) PROVE KeysAccounted'
  BY <1>3, DueAccounted, NotDueAccounted
<1>4. ASSUME NEW l \in Lookups, Fetch(l) PROVE KeysAccounted'
  BY <1>4, FetchingAccounted, StoreAccounted, FailureAccounted DEF Fetch
<1>5. ASSUME NEW l \in Lookups, DropWaiting(l) PROVE KeysAccounted'
  BY <1>5, LeaveAccounted DEF DropWaiting, Fetching
<1>6. ASSUME NEW l \in Lookups, ReadCache(l) PROVE KeysAccounted'
  BY <1>6, ReadAccounted
<1>7. CASE Rotate
  BY <1>7, RotateAccounted
<1>8. CASE Tick
  BY <1>8, TickAccounted
<1>. QED BY <1>1, <1>2, <1>3, <1>4, <1>5, <1>6, <1>7, <1>8 DEF Next

(***************************************************************************)
(* Refreshes run one at a time and in the order of the queue, and at every *)
(* point of its way, from the issuer's answer through the cache and the    *)
(* queue to the lookup that reads it, what is known of a key is as old as  *)
(* KeysAccounted says: for any number of lookups and any periods.          *)
(***************************************************************************)
THEOREM KeysStayAccounted == Spec => []KeysAccounted
BY InitAccounted, NextAccounted, PTL DEF Spec

(***************************************************************************)
(* refresh_locked sends a forced request only when FORCED_REFRESH_INTERVAL *)
(* has passed since the last one was sent, however that one ended: the     *)
(* code's last_forced_refresh and the history of requests agree.           *)
(***************************************************************************)
THEOREM ForcedRefreshesAreSpaced == Spec => ForcedRefreshesSpaced
<1>. DEFINE Spaced == \A l \in Lookups :
        at[l] = "lock" /\ at'[l] \in Fetching /\ lookup[l].forced => requested >= ForcedInterval
<1>1. KeysAccounted /\ [Next]_vars => [Spaced]_vars
  <2>. SUFFICES ASSUME KeysAccounted, Next, NEW l \in Lookups,
                       at[l] = "lock", at'[l] \in Fetching, lookup[l].forced
                PROVE  requested >= ForcedInterval
    OBVIOUS
  <2>1. TypeOK /\ QueueInOrder /\ ForcedAccounted /\ at \in [Lookups -> Stages]
    BY ByLookup, TypeFacts
  <2>2. at' # at
    BY DEF Fetching
  <2>3. ASSUME NEW m \in Lookups, NEW s \in Stages, at' = [at EXCEPT ![m] = s], m # l \/ s \notin Fetching
        PROVE  FALSE
    BY <2>1, <2>3 DEF Fetching
  <2>4. {"lock", "read", "idle"} \cap Fetching = {} /\ {"lock", "read", "idle"} \subseteq Stages
        /\ {"keys", "discovery", "answered"} \subseteq Stages
    BY DEF Fetching, Stages
  <2>5. PICK m \in Lookups : RefreshLocked(m) /\ m = l
    <3>1. ASSUME NEW m \in Lookups, NEW kid \in {"k1", "k2"}, KeyFor(m, kid) PROVE FALSE
      BY <2>3, <2>4, <3>1 DEF KeyFor, Go
    <3>2. ASSUME NEW m \in Lookups, Fetch(m) PROVE FALSE
      <4>1. m # l
        BY <2>4, <3>2 DEF Fetch, FetchDiscovery, FetchKeys, StoreKeys, FetchFails
      <4>2. PICK s \in Stages : at' = [at EXCEPT ![m] = s]
        BY <2>4, <3>2 DEF Fetch, FetchDiscovery, FetchKeys, StoreKeys, FetchFails, Leave, Go
      <4>. QED BY <2>3, <4>1, <4>2
    <3>3. ASSUME NEW m \in Lookups, DropWaiting(m) \/ ReadCache(m) PROVE FALSE
      BY <2>3, <2>4, <3>3 DEF DropWaiting, ReadCache, Leave, Go
    <3>4. ~Rotate /\ ~Tick
      BY <2>2 DEF Rotate, Tick
    <3>5. ASSUME NEW m \in Lookups, RefreshLocked(m), m # l PROVE FALSE
      <4>1. PICK s \in Stages : at' = [at EXCEPT ![m] = s]
        BY <2>4, <3>5 DEF RefreshLocked, Go
      <4>. QED BY <2>3, <3>5, <4>1
    <3>. QED BY <3>1, <3>2, <3>3, <3>4, <3>5 DEF Next
  <2>6. Due(lookup[l].forced)
    BY <2>3, <2>4, <2>5 DEF RefreshLocked, Go
  <2>. QED BY <2>1, <2>6 DEF Due, ForcedAccounted
<1>. QED BY <1>1, KeysStayAccounted, PTL DEF Spec, ForcedRefreshesSpaced

\* Only ReadCache answers a lookup, and it leaves what it reads alone.
LEMMA AnsweringReads ==
    ASSUME KeysAccounted, Next, NEW l \in Lookups, Answering(l)
    PROVE  Reader(l) /\ (Found(l) \/ lookup[l].forced)
<1>1. TypeOK /\ Reader(l) /\ at \in [Lookups -> Stages]
  BY ByLookup, TypeFacts
<1>2. at[l] = "read" /\ at'[l] = "idle"
  BY DEF Answering
<1>3. ASSUME NEW m \in Lookups, NEW s, at' = [at EXCEPT ![m] = s], m # l \/ s # "idle"
      PROVE  FALSE
  BY <1>1, <1>2, <1>3
<1>4. ASSUME NEW m \in Lookups, NEW kid \in {"k1", "k2"}, KeyFor(m, kid) PROVE FALSE
  BY <1>2, <1>3, <1>4 DEF KeyFor, Go
<1>5. ASSUME NEW m \in Lookups, RefreshLocked(m) \/ Fetch(m) \/ DropWaiting(m) PROVE FALSE
  <2>1. m # l
    BY <1>2, <1>5 DEF RefreshLocked, Fetch, FetchDiscovery, FetchKeys, StoreKeys, FetchFails,
                      DropWaiting, Fetching
  <2>2. PICK s : at' = [at EXCEPT ![m] = s]
    BY <1>5 DEF RefreshLocked, Fetch, FetchDiscovery, FetchKeys, StoreKeys, FetchFails,
                DropWaiting, Leave, Go
  <2>. QED BY <1>3, <2>1, <2>2
<1>6. ~Rotate /\ ~Tick
  BY <1>2 DEF Rotate, Tick
<1>7. ASSUME NEW m \in Lookups, ReadCache(m), m # l PROVE FALSE
  <2>1. PICK s : at' = [at EXCEPT ![m] = s]
    BY <1>7 DEF ReadCache, Leave, Go
  <2>. QED BY <1>3, <1>7, <2>1
<1>8. ReadCache(l)
  BY <1>4, <1>5, <1>6, <1>7 DEF Next
<1>9. Found(l) \/ lookup[l].forced
  BY <1>3, <1>8 DEF ReadCache, Go
<1>. QED BY <1>1, <1>9

(***************************************************************************)
(* key_for serves a withdrawn key only within refresh_secs of its          *)
(* withdrawal, or within the time of one request and of the refreshes that *)
(* may be queued before the lookup: no run of failed refreshes keeps it.   *)
(***************************************************************************)
THEOREM ServedKeysAreRecent == Spec => ServedKeyIsRecent
<1>. DEFINE Recent == \A l \in Lookups : Answering(l) /\ Found(l) =>
        \/ published
        \/ since < RefreshAfter \/ since <= FetchMax + QueueDelay
<1>1. KeysAccounted /\ [Next]_vars => [Recent]_vars
  BY AnsweringReads DEF Reader, Found, Answering
<1>. QED BY <1>1, KeysStayAccounted, PTL DEF Spec, ServedKeyIsRecent

(***************************************************************************)
(* key_for reports a published key as unknown only while the publication   *)
(* is younger than the forced interval or than an answer under way, or     *)
(* when a refresh within the interval failed or was dropped.               *)
(***************************************************************************)
THEOREM UnknownKeysAreExplained == Spec => UnknownKeyIsExplained
<1>. DEFINE Explained == \A l \in Lookups : Answering(l) /\ ~Found(l) /\ lookup[l].kid = "k1" =>
        \/ ~published
        \/ since < ForcedInterval \/ since <= FetchMax
        \/ cut < ForcedInterval
<1>1. KeysAccounted /\ [Next]_vars => [Explained]_vars
  BY AnsweringReads DEF Reader, Found, Answering
<1>. QED BY <1>1, KeysStayAccounted, PTL DEF Spec, UnknownKeyIsExplained
=============================================================================
