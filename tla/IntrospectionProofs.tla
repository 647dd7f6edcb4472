------------------------ MODULE IntrospectionProofs ------------------------
(***************************************************************************)
(* The introspection cache for any number of requests and tokens and any   *)
(* lifetimes.  CacheConsistent is inductive as it stands; the step that    *)
(* needs work is an eviction: the index has a least entry, and it is the   *)
(* entry of a cached token.                                                *)
(***************************************************************************)
EXTENDS Introspection, FiniteSetTheorems, WellFoundedInduction, TLAPS

-----------------------------------------------------------------------------
(***************************************************************************)
(* Least elements.                                                         *)
(***************************************************************************)
Below == OpToRel(<, Nat)

LEMMA BelowFacts == IsWellFoundedOn(Below, Nat) /\ \A x, y \in Nat : x < y => <<x, y>> \in Below
<1>1. IsWellFoundedOn(Below, Nat)
  BY NatLessThanWellFounded, Zenon DEF Below
<1>2. \A x, y \in Nat : x < y => <<x, y>> \in Below
  BY DEF Below, OpToRel
<1>. QED BY <1>1, <1>2

LEMMA LeastNat ==
    ASSUME NEW T, T \subseteq Nat, T # {}
    PROVE  \E x \in T : \A y \in T : x =< y
<1>1. IsWellFoundedOn(Below, Nat)
  BY BelowFacts
<1>2. \E x \in T : \A y \in T : ~ (<<y, x>> \in Below)
  BY <1>1, WFMin, Zenon
<1>3. PICK x \in T : \A y \in T : ~ (<<y, x>> \in Below)
  BY <1>2
<1>4. ASSUME NEW y \in T PROVE x =< y
  <2>1. x \in Nat /\ y \in Nat
    OBVIOUS
  <2>2. ~(y < x)
    BY <1>3, <2>1, BelowFacts
  <2>. QED BY <2>1, <2>2
<1>. QED BY <1>4

LEMMA EntryFacts ==
    ASSUME TypeOK
    PROVE  /\ \A t \in Tokens : t \in Cached <=> entries[t] # None
           /\ \A t \in Cached : t \in Tokens /\ entries[t] \in Entry
           /\ \A e \in Entry : e # None /\ e.last_access \in Nat /\ e.order \in Nat
                               /\ e.expires_at \in Nat /\ e.active \in BOOLEAN
BY IntrospectionConstants DEF TypeOK, Cached, Entry, Time

LEMMA KeyFields ==
    ASSUME NEW t, NEW e
    PROVE  Key(t, e)[1] = e.last_access /\ Key(t, e)[2] = e.order /\ Key(t, e)[3] = t
BY DEF Key

\* insert, LRU eviction: what it evicts from the map is the token of the first
\* entry of the index.
LEMMA FirstIsCached ==
    ASSUME TypeOK, IndexMatchesEntries, OrdersDistinct, Cached # {}
    PROVE  \E u \in Cached : First = Key(u, entries[u])
<1>. DEFINE A == {entries[t].last_access : t \in Cached}
<1>1. PICK a \in A : \A b \in A : a =< b
  <2>1. A # {} /\ A \subseteq Nat
    BY EntryFacts
  <2>. QED BY <2>1, LeastNat
<1>. DEFINE C == {t \in Cached : entries[t].last_access = a}
            O == {entries[t].order : t \in C}
<1>2. PICK o \in O : \A p \in O : o =< p
  <2>1. O # {} /\ O \subseteq Nat
    BY <1>1, EntryFacts
  <2>. QED BY <2>1, LeastNat
<1>3. PICK u \in Cached : entries[u].last_access = a /\ entries[u].order = o
  BY <1>2
<1>. DEFINE k == Key(u, entries[u])
<1>4. k \in lru
  BY <1>3 DEF IndexMatchesEntries
<1>5. ASSUME NEW other \in lru, other # k PROVE Before(k, other)
  <2>1. PICK v \in Cached : other = Key(v, entries[v])
    BY DEF IndexMatchesEntries
  <2>2. v # u
    BY <1>5, <2>1
  <2>3. /\ entries[v].order \in Nat /\ entries[v].last_access \in Nat
        /\ entries[u].order \in Nat /\ entries[u].last_access \in Nat
    BY <1>3, <2>1, EntryFacts
  <2>4. entries[u].last_access =< entries[v].last_access
    BY <1>1, <1>3, <2>1
  <2>5. entries[v].last_access = entries[u].last_access => entries[u].order =< entries[v].order
    BY <1>2, <1>3, <2>1
  <2>6. entries[u].order # entries[v].order
    BY <1>3, <2>1, <2>2 DEF OrdersDistinct
  <2>7. \/ entries[u].last_access < entries[v].last_access
        \/ entries[u].last_access = entries[v].last_access /\ entries[u].order < entries[v].order
    BY <2>3, <2>4, <2>5, <2>6
  <2>. QED BY <2>1, <2>7, KeyFields DEF Before
<1>. HIDE DEF k
<1>6. \E q \in lru : \A other \in lru \ {q} : Before(q, other)
  BY <1>4, <1>5
<1>7. First \in lru
  BY <1>6 DEF First
<1>. QED BY <1>7 DEF IndexMatchesEntries

-----------------------------------------------------------------------------
(***************************************************************************)
(* Map and index under the three kinds of change: the entries of Gone are  *)
(* taken out, then those of New put in.                                    *)
(***************************************************************************)
LEMMA IndexKept ==
    ASSUME TypeOK, IndexMatchesEntries,
           NEW Gone \in SUBSET Cached, NEW New \in SUBSET Tokens, New \cap Cached \subseteq Gone,
           \A u \in Tokens \ New : entries'[u] = IF u \in Gone THEN None ELSE entries[u],
           \A u \in New : entries'[u] \in Entry,
           lru' = (lru \ {Key(u, entries[u]) : u \in Gone}) \cup {Key(u, entries'[u]) : u \in New}
    PROVE  Cached' = (Cached \ Gone) \cup New /\ IndexMatchesEntries'
<1>1. Cached' = (Cached \ Gone) \cup New
  BY EntryFacts DEF Cached
<1>2. lru \ {Key(u, entries[u]) : u \in Gone} = {Key(u, entries[u]) : u \in Cached \ Gone}
  BY KeyFields DEF IndexMatchesEntries
<1>3. \A u \in Cached \ Gone : entries'[u] = entries[u]
  BY EntryFacts
<1>4. lru' = {Key(u, entries'[u]) : u \in Cached \ Gone} \cup {Key(u, entries'[u]) : u \in New}
  BY <1>2, <1>3
<1>5. lru' = {Key(u, entries'[u]) : u \in (Cached \ Gone) \cup New}
  BY <1>4
<1>. QED BY <1>1, <1>5 DEF IndexMatchesEntries, Key

LEMMA Sizes ==
    ASSUME TypeOK
    PROVE  /\ IsFiniteSet(Cached) /\ Cardinality(Cached) \in Nat
           /\ MaxEntries \in Nat \ {0} /\ MaxOrder \in Nat /\ MaxNow \in Nat /\ Ttl \in Nat \ {0}
           /\ AskMax \in Nat /\ Lag \in Nat
<1>1. Cached \subseteq Tokens /\ IsFiniteSet(Tokens)
  BY IntrospectionConstants DEF Cached
<1>2. IsFiniteSet(Cached)
  BY <1>1, FS_Subset
<1>3. IsFiniteSet(Requests)
  BY IntrospectionConstants
<1>4. Cardinality(Cached) \in Nat /\ MaxOrder \in Nat
  BY <1>2, <1>3, FS_CardinalityType DEF MaxOrder
<1>. QED BY <1>2, <1>4, IntrospectionConstants

Done == {r \in Requests : at[r] \in {"accepted", "rejected"}}

\* The orders given out are counted by the requests they answered.
LEMMA DoneSteps ==
    ASSUME TypeOK, NEW r \in Requests, NEW s, at' = [at EXCEPT ![r] = s], r \notin Done
    PROVE  /\ Cardinality(Done) \in Nat
           /\ Cardinality(Done') \in Nat /\ Cardinality(Done') =< MaxOrder
           /\ s \in {"accepted", "rejected"} => Cardinality(Done') = Cardinality(Done) + 1
           /\ s \notin {"accepted", "rejected"} => Cardinality(Done') = Cardinality(Done)
<1>1. IsFiniteSet(Requests) /\ Done \subseteq Requests /\ Done' \subseteq Requests
  BY IntrospectionConstants DEF Done
<1>2. /\ IsFiniteSet(Done) /\ IsFiniteSet(Done') /\ Cardinality(Done') =< MaxOrder
  BY <1>1, FS_Subset DEF MaxOrder
<1>3. Cardinality(Done) \in Nat /\ Cardinality(Done') \in Nat
  BY <1>2, FS_CardinalityType
<1>4. ASSUME s \in {"accepted", "rejected"} PROVE Cardinality(Done') = Cardinality(Done) + 1
  <2>1. Done' = Done \cup {r}
    BY <1>4 DEF Done, TypeOK
  <2>2. Cardinality(Done \cup {r}) = Cardinality(Done) + 1
    BY <1>2, FS_AddElement
  <2>. QED BY <2>1, <2>2
<1>5. ASSUME s \notin {"accepted", "rejected"} PROVE Cardinality(Done') = Cardinality(Done)
  <2>1. Done' = Done
    BY <1>5 DEF Done, TypeOK
  <2>. QED BY <2>1
<1>. QED BY <1>2, <1>3, <1>4, <1>5

LEMMA OrdersByDone ==
    OrdersDistinct <=>
        /\ next_order =< Cardinality(Done)
        /\ \A t \in Cached : entries[t].order < next_order
        /\ \A t, u \in Cached : entries[t].order = entries[u].order => t = u
BY DEF OrdersDistinct, Done

LEMMA InitConsistent == Init => CacheConsistent
<1>. SUFFICES ASSUME Init PROVE CacheConsistent
  OBVIOUS
<1>1. Cached = {} /\ lru = {} /\ next_order = 0
  BY DEF Init, Cached
<1>2. 0 \in Time /\ MaxNow \in Nat
  BY IntrospectionConstants DEF Time
<1>3. MaxOrder \in Nat /\ MaxEntries \in Nat
  BY IntrospectionConstants, FS_CardinalityType DEF MaxOrder
<1>4. TypeOK
  <2>1. request \in [Requests -> [token : Tokens \cup {None}, clock : Time, verdict : BOOLEAN]]
    BY <1>2 DEF Init, Blank
  <2>. QED BY <1>2, <1>3, <2>1 DEF Init, TypeOK
<1>5. IndexMatchesEntries
  BY <1>1 DEF IndexMatchesEntries
<1>6. CacheBounded
  BY <1>1, <1>3, FS_EmptySet DEF CacheBounded
<1>7. OrdersDistinct
  <2>1. Done = {}
    BY DEF Init, Done
  <2>2. Cardinality(Done) = 0
    BY <2>1, FS_EmptySet
  <2>3. next_order =< Cardinality(Done)
    BY <1>1, <2>2
  <2>. QED BY <1>1, <2>3, OrdersByDone
<1>8. VerdictsAged
  BY <1>1 DEF Init, VerdictsAged
<1>. QED BY <1>4, <1>5, <1>6, <1>7, <1>8 DEF CacheConsistent

-----------------------------------------------------------------------------
(***************************************************************************)
(* VerdictsAged, request by request and token by token.                    *)
(***************************************************************************)
Query == [token : Tokens \cup {None}, clock : Time, verdict : BOOLEAN]

AgedRequest(r) ==
    /\ at[r] \in {"asking", "answered", "inserting"} =>
          request[r].token \in Tokens /\ request[r].clock =< now
    /\ at[r] \in {"asking", "answered"} => now =< request[r].clock + AskMax
    /\ at[r] = "answered" /\ ~(request[r].verdict <=> request[r].token \in active) =>
          request[r].clock =< since[request[r].token]
    /\ at[r] = "inserting" => now =< request[r].clock + Lag
    /\ at[r] = "inserting" /\ ~(request[r].verdict <=> request[r].token \in active) =>
          request[r].clock =< since[request[r].token] + AskMax

AgedEntry(t) ==
    /\ entries[t].expires_at =< now + Ttl
    /\ ~(entries[t].active <=> t \in active) =>
          entries[t].expires_at =< since[t] + AskMax + Ttl

LEMMA AgedByPart ==
    VerdictsAged <=> /\ \A r \in Requests : AgedRequest(r)
                     /\ \A t \in Cached : AgedEntry(t)
BY DEF VerdictsAged, AgedRequest, AgedEntry

LEMMA AgedByPartAfter ==
    ASSUME \A r \in Requests : AgedRequest(r)', \A t \in Cached' : AgedEntry(t)'
    PROVE  VerdictsAged'
BY DEF VerdictsAged, AgedRequest, AgedEntry

LEMMA QueryFacts ==
    ASSUME TypeOK
    PROVE  /\ \A r \in Requests : /\ request[r] \in Query /\ request[r].clock \in Nat
                                   /\ request[r].verdict \in BOOLEAN
           /\ \A t \in Tokens : since[t] \in Nat
           /\ now \in Nat
BY IntrospectionConstants DEF TypeOK, Query, Time

\* The steps of a request that neither read nor change the cache.
LEMMA AskingConsistent ==
    ASSUME CacheConsistent, NEW r \in Requests, Decide(r) \/ StartInsert(r) \/ AskFails(r)
    PROVE  CacheConsistent'
<1>0. /\ UNCHANGED <<now, active, since, entries, lru, next_order>> /\ Cached' = Cached
      /\ TypeOK /\ at[r] \in {"asking", "answered"} /\ r \notin Done
  BY DEF Decide, StartInsert, AskFails, Cached, CacheConsistent, Done
<1>1. \E s \in {"answered", "inserting", "unavailable"}, q \in Query :
        /\ at' = [at EXCEPT ![r] = s] /\ request' = [request EXCEPT ![r] = q]
        /\ \/ /\ s = "answered" /\ at[r] = "asking"
              /\ q.token = request[r].token /\ q.clock = request[r].clock
              /\ q.verdict <=> request[r].token \in active
           \/ /\ s = "inserting" /\ at[r] = "answered"
              /\ q.token = request[r].token /\ q.clock = now /\ q.verdict = request[r].verdict
           \/ s = "unavailable"
  <2>0. request[r] \in Query /\ request \in [Requests -> Query] /\ now \in Time
    BY <1>0 DEF TypeOK, Query
  <2>1. CASE Decide(r)
    <3>. DEFINE v == request[r].token \in active
                q == [request[r] EXCEPT !.verdict = v]
    <3>0. v \in BOOLEAN
      OBVIOUS
    <3>. HIDE DEF v
    <3>1. q \in Query /\ q.token = request[r].token /\ q.clock = request[r].clock /\ q.verdict = v
      BY <2>0, <3>0 DEF Query
    <3>. USE DEF v
    <3>2. request' = [request EXCEPT ![r] = q] /\ at' = [at EXCEPT ![r] = "answered"]
          /\ at[r] = "asking"
      BY <2>1 DEF Decide
    <3>. HIDE DEF q
    <3>3. q.verdict <=> request[r].token \in active
      BY <3>1, Zenon
    <3>. QED BY <3>1, <3>2, <3>3
  <2>2. CASE StartInsert(r)
    <3>. DEFINE q == [request[r] EXCEPT !.clock = now]
    <3>1. q \in Query /\ q.token = request[r].token /\ q.clock = now /\ q.verdict = request[r].verdict
      BY <2>0 DEF Query
    <3>2. request' = [request EXCEPT ![r] = q] /\ at' = [at EXCEPT ![r] = "inserting"]
          /\ at[r] = "answered"
      BY <2>2 DEF StartInsert
    <3>. HIDE DEF q
    <3>. QED BY <3>1, <3>2
  <2>3. CASE AskFails(r)
    <3>1. Blank \in Query
      BY IntrospectionConstants DEF Blank, Query, Time
    <3>2. request' = [request EXCEPT ![r] = Blank] /\ at' = [at EXCEPT ![r] = "unavailable"]
      BY <2>3 DEF AskFails, Finish
    <3>. QED BY <3>1, <3>2
  <2>. QED BY <2>1, <2>2, <2>3
<1>2. PICK s \in {"answered", "inserting", "unavailable"}, q \in Query :
        /\ at' = [at EXCEPT ![r] = s] /\ request' = [request EXCEPT ![r] = q]
        /\ \/ /\ s = "answered" /\ at[r] = "asking"
              /\ q.token = request[r].token /\ q.clock = request[r].clock
              /\ q.verdict <=> request[r].token \in active
           \/ /\ s = "inserting" /\ at[r] = "answered"
              /\ q.token = request[r].token /\ q.clock = now /\ q.verdict = request[r].verdict
           \/ s = "unavailable"
  BY <1>1
<1>3. TypeOK'
  BY <1>0, <1>2 DEF TypeOK, Query
<1>4. IndexMatchesEntries' /\ CacheBounded'
  BY <1>0 DEF CacheConsistent, IndexMatchesEntries, CacheBounded, Key
<1>5. OrdersDistinct'
  <2>1. Done' = Done
    BY <1>0, <1>2 DEF Done, TypeOK
  <2>2. next_order =< Cardinality(Done)
    BY OrdersByDone DEF CacheConsistent
  <2>3. next_order' =< Cardinality(Done')
    BY <1>0, <2>1, <2>2
  <2>. QED BY <1>0, <2>3 DEF CacheConsistent, OrdersDistinct, Done
<1>6. VerdictsAged'
  <2>1. \A t \in Cached' : AgedEntry(t)'
    BY <1>0, AgedByPart DEF CacheConsistent, AgedEntry
  <2>2. AgedRequest(r)'
    <3>1. AgedRequest(r) /\ request[r].clock \in Nat /\ now \in Nat /\ AskMax \in Nat /\ Lag \in Nat
          /\ \A t \in Tokens : since[t] \in Nat
      BY <1>0, AgedByPart, QueryFacts, Sizes DEF CacheConsistent
    <3>2. at'[r] = s /\ request'[r] = q
      BY <1>0, <1>2 DEF TypeOK
    <3>. QED BY <1>0, <1>2, <3>1, <3>2 DEF AgedRequest
  <2>3. \A p \in Requests : p # r => AgedRequest(p)'
    <3>1. \A p \in Requests : p # r => at'[p] = at[p] /\ request'[p] = request[p]
      BY <1>0, <1>2 DEF TypeOK
    <3>. QED BY <1>0, <3>1, AgedByPart DEF CacheConsistent, AgedRequest
  <2>. QED BY <2>1, <2>2, <2>3, AgedByPartAfter
<1>. QED BY <1>3, <1>4, <1>5, <1>6 DEF CacheConsistent

LEMMA VerdictFacts ==
    ASSUME NEW v \in BOOLEAN
    PROVE  Verdict(v) \in {"accepted", "rejected"} /\ (Verdict(v) = "accepted" <=> v)
BY DEF Verdict

\* An access with a new order, by hit or by insertion, keeps the orders apart.
LEMMA OrdersKept ==
    ASSUME CacheConsistent, NEW r \in Requests, r \notin Done,
           NEW s \in {"accepted", "rejected"}, at' = [at EXCEPT ![r] = s],
           NEW t \in Tokens, NEW Left \in SUBSET Cached, Cached' = Left \cup {t},
           \A u \in Left : u # t => entries'[u] = entries[u],
           entries'[t].order = next_order, next_order' = next_order + 1
    PROVE  OrdersDistinct' /\ next_order' \in 0 .. MaxOrder
<1>1. TypeOK /\ next_order \in Nat /\ MaxOrder \in Nat
  BY Sizes DEF CacheConsistent, TypeOK
<1>2. /\ next_order =< Cardinality(Done)
      /\ \A u \in Cached : entries[u].order < next_order
      /\ \A u, w \in Cached : entries[u].order = entries[w].order => u = w
  BY OrdersByDone DEF CacheConsistent
<1>3. /\ Cardinality(Done) \in Nat /\ Cardinality(Done') \in Nat
      /\ Cardinality(Done') =< MaxOrder
  BY <1>1, DoneSteps
<1>4. Cardinality(Done') = Cardinality(Done) + 1
  BY <1>1, DoneSteps
<1>5. next_order' =< Cardinality(Done') /\ next_order' \in 0 .. MaxOrder
  BY <1>1, <1>2, <1>3, <1>4
<1>6. \A u \in Cached : entries[u].order \in Nat
  BY <1>1, EntryFacts
<1>7. \A u \in Cached' : entries'[u].order < next_order'
  BY <1>1, <1>2, <1>6
<1>8. ASSUME NEW u \in Cached', NEW w \in Cached', entries'[u].order = entries'[w].order
      PROVE  u = w
  BY <1>1, <1>2, <1>6, <1>8
<1>. QED BY <1>5, <1>7, <1>8 DEF OrdersDistinct, Done

\* Requests other than the one that steps do not age, nor do entries it leaves.
LEMMA AgedKept ==
    ASSUME CacheConsistent, NEW r \in Requests, UNCHANGED <<now, active, since>>,
           \A p \in Requests : p # r => at'[p] = at[p] /\ request'[p] = request[p],
           AgedRequest(r)',
           \A u \in Cached' : AgedEntry(u)' \/ (u \in Cached /\ entries'[u] = entries[u])
    PROVE  VerdictsAged'
<1>1. \A p \in Requests : p # r => AgedRequest(p)'
  BY AgedByPart DEF CacheConsistent, AgedRequest
<1>2. \A u \in Cached' : AgedEntry(u)'
  BY AgedByPart DEF CacheConsistent, AgedEntry
<1>. QED BY <1>1, <1>2, AgedByPartAfter

LEMMA HitConsistent ==
    ASSUME CacheConsistent, NEW r \in Requests, NEW t \in Tokens, NEW clock \in Time,
           Get(r, t, clock), t \in Cached, ~Expired(t, clock)
    PROVE  CacheConsistent'
<1>. DEFINE e == Hit(entries[t], clock)
<1>0. /\ TypeOK /\ at[r] = "idle" /\ r \notin Done
      /\ entries' = [entries EXCEPT ![t] = e]
      /\ lru' = (lru \ {Key(t, entries[t])}) \cup {Key(t, e)}
      /\ next_order' = next_order + 1
      /\ at' = [at EXCEPT ![r] = Verdict(e.active)]
      /\ UNCHANGED <<now, active, since, request>>
  BY DEF Get, CacheConsistent, Done
<1>1. entries[t] \in Entry /\ next_order \in 0 .. MaxOrder
  BY <1>0, EntryFacts DEF TypeOK
<1>2. /\ e \in Entry /\ e.order = next_order /\ e.last_access = clock
      /\ e.active = entries[t].active /\ e.expires_at = entries[t].expires_at
  BY <1>1 DEF Hit, Entry
<1>. HIDE DEF e
<1>3. Verdict(e.active) \in {"accepted", "rejected"}
  BY <1>2, VerdictFacts DEF Entry
<1>4. entries'[t] = e /\ \A u \in Tokens : u # t => entries'[u] = entries[u]
  BY <1>0 DEF TypeOK
<1>5. Cached' = (Cached \ {t}) \cup {t} /\ IndexMatchesEntries'
  <2>1. /\ {t} \in SUBSET Cached /\ {t} \in SUBSET Tokens
        /\ \A u \in Tokens \ {t} : entries'[u] = IF u \in {t} THEN None ELSE entries[u]
        /\ \A u \in {t} : entries'[u] \in Entry
    BY <1>2, <1>4
  <2>2. lru' = (lru \ {Key(u, entries[u]) : u \in {t}}) \cup {Key(u, entries'[u]) : u \in {t}}
    BY <1>0, <1>4
  <2>. QED BY <1>0, <2>1, <2>2, IndexKept DEF CacheConsistent
<1>6. Cached' = Cached
  BY <1>5
<1>7. CacheBounded'
  BY <1>6 DEF CacheConsistent, CacheBounded
<1>8. OrdersDistinct' /\ next_order' \in 0 .. MaxOrder
  <2>1. /\ Cached \in SUBSET Cached /\ Cached' = Cached \cup {t}
        /\ \A u \in Cached : u # t => entries'[u] = entries[u]
        /\ entries'[t].order = next_order
    BY <1>0, <1>2, <1>4, <1>6, EntryFacts
  <2>. QED BY <1>0, <1>3, <2>1, OrdersKept
<1>9. TypeOK'
  BY <1>0, <1>2, <1>3, <1>8 DEF TypeOK
<1>10. VerdictsAged'
  <2>1. at'[r] \in {"accepted", "rejected"} /\ \A p \in Requests : p # r => at'[p] = at[p]
    BY <1>0, <1>3 DEF TypeOK
  <2>2. AgedRequest(r)'
    BY <2>1 DEF AgedRequest
  <2>3. AgedEntry(t)'
    BY <1>0, <1>2, <1>4, AgedByPart DEF CacheConsistent, AgedEntry
  <2>4. \A u \in Cached' : AgedEntry(u)' \/ (u \in Cached /\ entries'[u] = entries[u])
    BY <1>4, <1>6, <2>3, <1>0, EntryFacts
  <2>. QED BY <1>0, <2>1, <2>2, <2>4, AgedKept
<1>. QED BY <1>5, <1>7, <1>8, <1>9, <1>10 DEF CacheConsistent

LEMMA MissConsistent ==
    ASSUME CacheConsistent, NEW r \in Requests, NEW t \in Tokens, NEW clock \in Time,
           Get(r, t, clock), ~(t \in Cached /\ ~Expired(t, clock))
    PROVE  CacheConsistent'
<1>. DEFINE q == [Blank EXCEPT !.token = t, !.clock = now]
            Gone == Cached \cap {t}
<1>0. /\ TypeOK /\ at[r] = "idle" /\ r \notin Done
      /\ entries' = [entries EXCEPT ![t] = None]
      /\ lru' = IF t \in Cached THEN lru \ {Key(t, entries[t])} ELSE lru
      /\ at' = [at EXCEPT ![r] = "asking"]
      /\ request' = [request EXCEPT ![r] = q]
      /\ UNCHANGED <<now, active, since, next_order>>
  BY DEF Get, CacheConsistent, Done
<1>1. q \in Query /\ q.token = t /\ q.clock = now
  BY <1>0 DEF Blank, Query, TypeOK
<1>. HIDE DEF q
<1>2. entries'[t] = None /\ \A u \in Tokens : u # t => entries'[u] = entries[u]
  BY <1>0 DEF TypeOK
<1>3. TypeOK'
  BY <1>0, <1>1 DEF TypeOK, Query
<1>4. Cached' = (Cached \ Gone) \cup {} /\ IndexMatchesEntries'
  <2>1. /\ Gone \in SUBSET Cached /\ {} \in SUBSET Tokens
        /\ \A u \in Tokens \ {} : entries'[u] = IF u \in Gone THEN None ELSE entries[u]
    BY <1>0, <1>2, EntryFacts
  <2>2. lru' = (lru \ {Key(u, entries[u]) : u \in Gone}) \cup {Key(u, entries'[u]) : u \in {}}
    BY <1>0
  <2>. HIDE DEF Gone
  <2>. QED BY <1>0, <2>1, <2>2, IndexKept DEF CacheConsistent
<1>5. Cached' \subseteq Cached
  BY <1>4
<1>6. CacheBounded'
  <2>1. Cardinality(Cached') =< Cardinality(Cached) /\ Cardinality(Cached') \in Nat
    BY <1>0, <1>5, Sizes, FS_Subset, FS_CardinalityType
  <2>. QED BY <1>0, <2>1, Sizes DEF CacheConsistent, CacheBounded
<1>7. \A u \in Cached' : u \in Cached /\ entries'[u] = entries[u]
  BY <1>0, <1>2, <1>4, EntryFacts
<1>8. OrdersDistinct'
  <2>1. Done' = Done
    BY <1>0 DEF Done, TypeOK
  <2>2. next_order =< Cardinality(Done)
    BY OrdersByDone DEF CacheConsistent
  <2>3. next_order' =< Cardinality(Done')
    BY <1>0, <2>1, <2>2
  <2>. QED BY <1>0, <1>7, <2>3 DEF CacheConsistent, OrdersDistinct, Done
<1>9. VerdictsAged'
  <2>1. /\ at'[r] = "asking" /\ request'[r] = q
        /\ \A p \in Requests : p # r => at'[p] = at[p] /\ request'[p] = request[p]
    BY <1>0 DEF TypeOK
  <2>2. AgedRequest(r)'
    BY <1>0, <1>1, <2>1, QueryFacts, Sizes DEF AgedRequest
  <2>. QED BY <1>0, <1>7, <2>1, <2>2, AgedKept
<1>. QED BY <1>3, <1>4, <1>6, <1>8, <1>9 DEF CacheConsistent

\* insert: the entry that makes room for the new one, and the new one's age.
LEMMA InsertConsistent ==
    ASSUME CacheConsistent, NEW r \in Requests, Insert(r)
    PROVE  CacheConsistent'
<1>a. TypeOK /\ at[r] = "inserting"
  BY DEF Insert, CacheConsistent
<1>b. AgedRequest(r) /\ request[r].token \in Tokens /\ request[r] \in Query
  BY <1>a, AgedByPart, QueryFacts DEF CacheConsistent, AgedRequest
<1>c. PICK t \in Tokens : t = request[r].token
  BY <1>b
<1>d. PICK q \in Query : q = request[r]
  BY <1>b
<1>. DEFINE e == [active |-> q.verdict, expires_at |-> ExpiresAfter(q.clock),
                  last_access |-> q.clock, order |-> next_order]
<1>0. /\ TypeOK /\ at[r] = "inserting" /\ r \notin Done /\ q \in Query
      /\ entries' = [u \in Tokens |->
            IF u = t THEN e ELSE IF \E k \in Unlinked(t) : k[3] = u THEN None ELSE entries[u]]
      /\ lru' = (lru \ Unlinked(t)) \cup {Key(t, e)}
      /\ next_order' = next_order + 1
      /\ at' = [at EXCEPT ![r] = Verdict(q.verdict)]
      /\ request' = [request EXCEPT ![r] = Blank]
      /\ UNCHANGED <<now, active, since>>
  BY <1>a, <1>c, <1>d DEF Insert, Finish, Done
<1>1. AgedRequest(r) /\ t \in Tokens
  BY <1>b
<1>2. /\ e \in Entry /\ e.order = next_order /\ e.active = q.verdict
      /\ e.expires_at = q.clock + Ttl
  <2>1. q.clock \in Time /\ q.verdict \in BOOLEAN /\ next_order \in 0 .. MaxOrder
    BY <1>0 DEF Query, TypeOK
  <2>2. q.clock + Ttl \in 0 .. MaxNow + Ttl
    BY <1>0, <2>1, Sizes DEF Time
  <2>. QED BY <2>1, <2>2 DEF Entry, ExpiresAfter
<1>. HIDE DEF e
<1>3. PICK Gone \in SUBSET Cached :
        /\ Unlinked(t) = {Key(u, entries[u]) : u \in Gone}
        /\ Cached \cap {t} \subseteq Gone
        /\ Cardinality((Cached \ Gone) \cup {t}) =< MaxEntries
  <2>0. /\ IsFiniteSet(Cached) /\ Cardinality(Cached) \in Nat /\ MaxEntries \in Nat \ {0}
        /\ Cardinality(Cached) =< MaxEntries
    BY <1>0, Sizes DEF CacheConsistent, CacheBounded
  <2>1. CASE t \in Cached
    <3>1. Unlinked(t) = {Key(u, entries[u]) : u \in {t}}
      BY <2>1 DEF Unlinked
    <3>2. (Cached \ {t}) \cup {t} = Cached
      BY <2>1
    <3>3. Cardinality((Cached \ {t}) \cup {t}) =< MaxEntries
      BY <2>0, <3>2
    <3>. QED BY <2>1, <3>1, <3>3
  <2>2. CASE t \notin Cached /\ Full
    <3>1. Cardinality(Cached) # 0
      BY <2>0, <2>2 DEF Full
    <3>2. Cached # {}
      BY <3>1, FS_EmptySet
    <3>3. PICK u \in Cached : First = Key(u, entries[u])
      BY <1>0, <3>2, FirstIsCached DEF CacheConsistent
    <3>4. Unlinked(t) = {Key(w, entries[w]) : w \in {u}}
      BY <2>2, <3>3 DEF Unlinked
    <3>. DEFINE Rest == Cached \ {u}
    <3>5. IsFiniteSet(Rest) /\ Cardinality(Rest) = Cardinality(Cached) - 1
      BY <2>0, <3>3, FS_RemoveElement
    <3>6. t \notin Rest
      BY <2>2
    <3>. HIDE DEF Rest
    <3>7. Cardinality(Rest \cup {t}) = Cardinality(Rest) + 1
      BY <3>5, <3>6, FS_AddElement
    <3>8. Cardinality(Rest \cup {t}) =< MaxEntries
      BY <2>0, <3>5, <3>7
    <3>9. Cardinality((Cached \ {u}) \cup {t}) =< MaxEntries
      BY <3>8 DEF Rest
    <3>. QED BY <2>2, <3>3, <3>4, <3>9
  <2>3. CASE t \notin Cached /\ ~Full
    <3>1. Unlinked(t) = {Key(w, entries[w]) : w \in {}}
      BY <2>3 DEF Unlinked
    <3>2. Cardinality(Cached \cup {t}) = Cardinality(Cached) + 1
      BY <2>0, <2>3, FS_AddElement
    <3>3. Cardinality(Cached \cup {t}) =< MaxEntries
      BY <2>0, <2>3, <3>2 DEF Full
    <3>4. (Cached \ {}) \cup {t} = Cached \cup {t}
      OBVIOUS
    <3>5. Cardinality((Cached \ {}) \cup {t}) =< MaxEntries
      BY <3>3, <3>4
    <3>. QED BY <2>3, <3>1, <3>5
  <2>. QED BY <2>1, <2>2, <2>3
<1>4. /\ entries'[t] = e
      /\ \A u \in Tokens \ {t} : entries'[u] = IF u \in Gone THEN None ELSE entries[u]
  <2>1. \A u : (\E k \in Unlinked(t) : k[3] = u) <=> u \in Gone
    BY <1>3, KeyFields
  <2>. QED BY <1>0, <1>1, <2>1
<1>5. Cached' = (Cached \ Gone) \cup {t} /\ IndexMatchesEntries'
  <2>1. /\ {t} \in SUBSET Tokens /\ {t} \cap Cached \subseteq Gone
        /\ \A u \in {t} : entries'[u] \in Entry
    BY <1>1, <1>2, <1>3, <1>4
  <2>2. lru' = (lru \ {Key(u, entries[u]) : u \in Gone}) \cup {Key(u, entries'[u]) : u \in {t}}
    BY <1>0, <1>3, <1>4
  <2>3. TypeOK /\ IndexMatchesEntries
    BY DEF CacheConsistent
  <2>. QED BY <1>4, <2>1, <2>2, <2>3, IndexKept
<1>6. CacheBounded'
  BY <1>3, <1>5 DEF CacheBounded
<1>7. Verdict(q.verdict) \in {"accepted", "rejected"}
  BY <1>0, VerdictFacts DEF Query
<1>8. /\ Cached \ Gone \in SUBSET Cached
      /\ \A u \in Cached \ Gone : u # t => entries'[u] = entries[u]
  BY <1>0, <1>4, EntryFacts
<1>9. OrdersDistinct' /\ next_order' \in 0 .. MaxOrder
  <2>1. entries'[t].order = next_order
    BY <1>2, <1>4
  <2>2. PICK s \in {"accepted", "rejected"} : s = Verdict(q.verdict)
    BY <1>7
  <2>3. PICK Left \in SUBSET Cached : Left = Cached \ Gone
    OBVIOUS
  <2>4. /\ at' = [at EXCEPT ![r] = s] /\ Cached' = Left \cup {t}
        /\ \A u \in Left : u # t => entries'[u] = entries[u]
    BY <1>0, <1>5, <1>8, <2>2, <2>3
  <2>5. r \notin Done /\ next_order' = next_order + 1
    BY <1>0
  <2>. QED BY <2>1, <2>4, <2>5, OrdersKept
<1>10. TypeOK'
  <2>1. Blank \in Query
    BY IntrospectionConstants DEF Blank, Query, Time
  <2>2. entries' \in [Tokens -> Entry \cup {None}]
    BY <1>0, <1>2 DEF TypeOK
  <2>3. request' \in [Requests -> Query]
    BY <1>0, <2>1 DEF TypeOK, Query
  <2>4. at' \in [Requests -> {"idle", "asking", "answered", "inserting",
                              "accepted", "rejected", "unavailable"}]
    BY <1>0, <1>7 DEF TypeOK
  <2>. QED BY <1>0, <1>9, <2>2, <2>3, <2>4 DEF TypeOK, Query
<1>11. VerdictsAged'
  <2>1. /\ at'[r] \in {"accepted", "rejected"}
        /\ \A p \in Requests : p # r => at'[p] = at[p] /\ request'[p] = request[p]
    BY <1>0, <1>7 DEF TypeOK
  <2>2. AgedRequest(r)'
    BY <2>1 DEF AgedRequest
  <2>3. ASSUME NEW u \in Tokens, u = t PROVE AgedEntry(u)'
    <3>1. /\ q.clock \in Nat /\ now \in Nat /\ since[t] \in Nat /\ q.verdict \in BOOLEAN
          /\ Ttl \in Nat /\ AskMax \in Nat
      BY <1>0, <1>d, QueryFacts, Sizes
    <3>2. q.clock =< now /\ (~(q.verdict <=> t \in active) => q.clock =< since[t] + AskMax)
      BY <1>0, <1>1, <1>c, <1>d DEF AgedRequest
    <3>3. entries'[t].expires_at = q.clock + Ttl /\ (entries'[t].active <=> q.verdict)
      BY <1>2, <1>4
    <3>4. q.clock + Ttl =< now + Ttl
      BY <3>1, <3>2
    <3>5. ~(q.verdict <=> t \in active) => q.clock + Ttl =< since[t] + AskMax + Ttl
      BY <3>1, <3>2
    <3>6. entries'[t].expires_at =< now' + Ttl
      BY <1>0, <3>3, <3>4
    <3>7. ~(entries'[t].active <=> t \in active') =>
            entries'[t].expires_at =< since'[t] + AskMax + Ttl
      BY <1>0, <3>3, <3>5
    <3>. QED BY <2>3, <3>6, <3>7 DEF AgedEntry
  <2>4. \A u \in Cached' : AgedEntry(u)' \/ (u \in Cached /\ entries'[u] = entries[u])
    BY <1>0, <1>5, <1>8, <2>3, EntryFacts
  <2>. QED BY <1>0, <2>1, <2>2, <2>4, AgedKept
<1>. QED BY <1>5, <1>6, <1>9, <1>10, <1>11 DEF CacheConsistent

LEMMA SweepConsistent ==
    ASSUME CacheConsistent, NEW clock \in Time, Sweep(clock)
    PROVE  CacheConsistent'
<1>1. PICK Gone \in SUBSET Cached : Gone = {t \in Cached : Expired(t, clock)}
  OBVIOUS
<1>2. /\ TypeOK /\ UNCHANGED <<now, active, since, next_order, at, request>>
      /\ entries' = [t \in Tokens |-> IF t \in Gone THEN None ELSE entries[t]]
      /\ lru' = lru \ {Key(t, entries[t]) : t \in Gone}
  BY <1>1 DEF Sweep, CacheConsistent
<1>3. TypeOK'
  <2>1. entries' \in [Tokens -> Entry \cup {None}]
    BY <1>2 DEF TypeOK
  <2>. QED BY <1>2, <2>1 DEF TypeOK
<1>4. Cached' = (Cached \ Gone) \cup {} /\ IndexMatchesEntries'
  <2>1. /\ {} \in SUBSET Tokens
        /\ \A u \in Tokens \ {} : entries'[u] = IF u \in Gone THEN None ELSE entries[u]
    BY <1>2
  <2>2. lru' = (lru \ {Key(u, entries[u]) : u \in Gone}) \cup {Key(u, entries'[u]) : u \in {}}
    BY <1>2
  <2>. QED BY <1>2, <2>1, <2>2, IndexKept DEF CacheConsistent
<1>5. Cached' \subseteq Cached
  BY <1>4
<1>6. CacheBounded'
  <2>1. Cardinality(Cached') =< Cardinality(Cached) /\ Cardinality(Cached') \in Nat
    BY <1>2, <1>5, Sizes, FS_Subset, FS_CardinalityType
  <2>. QED BY <1>2, <2>1, Sizes DEF CacheConsistent, CacheBounded
<1>7. \A u \in Cached' : u \in Cached /\ entries'[u] = entries[u]
  BY <1>2, <1>4, EntryFacts
<1>8. OrdersDistinct'
  BY <1>2, <1>7 DEF CacheConsistent, OrdersDistinct
<1>9. VerdictsAged'
  <2>1. \A p \in Requests : AgedRequest(p)'
    BY <1>2, AgedByPart DEF CacheConsistent, AgedRequest
  <2>2. \A u \in Cached' : AgedEntry(u)'
    BY <1>2, <1>7, AgedByPart DEF CacheConsistent, AgedEntry
  <2>. QED BY <2>1, <2>2, AgedByPartAfter
<1>. QED BY <1>3, <1>4, <1>6, <1>8, <1>9 DEF CacheConsistent

\* Nothing but VerdictsAged speaks of the provider's mind and of the clock.
LEMMA CacheUntouched ==
    ASSUME CacheConsistent, UNCHANGED <<entries, lru, next_order, at, request>>,
           TypeOK', VerdictsAged'
    PROVE  CacheConsistent'
<1>1. Cached' = Cached
  BY DEF Cached
<1>2. IndexMatchesEntries' /\ CacheBounded'
  BY <1>1 DEF CacheConsistent, IndexMatchesEntries, CacheBounded, Key
<1>3. OrdersDistinct'
  BY <1>1 DEF CacheConsistent, OrdersDistinct
<1>. QED BY <1>2, <1>3 DEF CacheConsistent

LEMMA ChangeMindConsistent ==
    ASSUME CacheConsistent, NEW t \in Tokens, ChangeMind(t)
    PROVE  CacheConsistent'
<1>1. /\ TypeOK /\ UNCHANGED <<now, entries, lru, next_order, at, request>>
      /\ since' = [since EXCEPT ![t] = now]
      /\ active' = IF t \in active THEN active \ {t} ELSE active \cup {t}
      /\ \A u \in Tokens : u # t => (u \in active' <=> u \in active)
      /\ Cached' = Cached
  BY DEF ChangeMind, CacheConsistent, Cached
<1>2. since'[t] = now /\ \A u \in Tokens : u # t => since'[u] = since[u]
  BY <1>1 DEF TypeOK
<1>3. TypeOK'
  <2>1. active' \subseteq Tokens
    BY <1>1 DEF TypeOK
  <2>2. since' \in [Tokens -> Time]
    BY <1>1 DEF TypeOK
  <2>. QED BY <1>1, <2>1, <2>2 DEF TypeOK
<1>4. now \in Nat /\ AskMax \in Nat /\ Lag \in Nat /\ Ttl \in Nat
  BY <1>1, QueryFacts, Sizes
<1>5. ASSUME NEW r \in Requests PROVE AgedRequest(r)'
  <2>1. AgedRequest(r) /\ request[r].clock \in Nat
    BY <1>1, AgedByPart, QueryFacts DEF CacheConsistent
  <2>2. request[r].clock =< now => request[r].clock =< now + AskMax
    BY <1>4, <2>1
  <2>3. CASE request[r].token = t
    BY <1>1, <1>2, <2>1, <2>2, <2>3 DEF AgedRequest
  <2>4. CASE request[r].token # t
    BY <1>1, <1>2, <2>1, <2>4 DEF AgedRequest
  <2>. QED BY <2>3, <2>4
<1>6. ASSUME NEW u \in Cached PROVE AgedEntry(u)'
  <2>1. AgedEntry(u) /\ u \in Tokens /\ entries[u].expires_at \in Nat
    BY <1>1, AgedByPart, EntryFacts DEF CacheConsistent
  <2>2. entries[u].expires_at =< now + AskMax + Ttl
    BY <1>4, <2>1 DEF AgedEntry
  <2>. QED BY <1>1, <1>2, <2>1, <2>2 DEF AgedEntry
<1>7. VerdictsAged'
  BY <1>1, <1>5, <1>6, AgedByPartAfter
<1>. QED BY <1>1, <1>3, <1>7, CacheUntouched

LEMMA TickConsistent == ASSUME CacheConsistent, Tick PROVE CacheConsistent'
<1>1. /\ TypeOK /\ now < MaxNow /\ now' = now + 1 /\ Cached' = Cached
      /\ UNCHANGED <<active, since, entries, lru, next_order, at, request>>
  BY DEF Tick, CacheConsistent, Cached
<1>2. now \in Nat /\ AskMax \in Nat /\ Lag \in Nat /\ Ttl \in Nat /\ MaxNow \in Nat
  BY <1>1, QueryFacts, Sizes
<1>3. TypeOK'
  <2>1. now' \in Time
    BY <1>1, <1>2 DEF Time
  <2>. QED BY <1>1, <2>1 DEF TypeOK
<1>4. ASSUME NEW r \in Requests PROVE AgedRequest(r)'
  <2>1. AgedRequest(r) /\ request[r].clock \in Nat
    BY <1>1, AgedByPart, QueryFacts DEF CacheConsistent
  <2>2. /\ at[r] = "inserting" => now < request[r].clock + Lag
        /\ at[r] \in {"asking", "answered"} => now < request[r].clock + AskMax
    BY DEF Tick
  <2>3. /\ request[r].clock =< now => request[r].clock =< now'
        /\ now < request[r].clock + Lag => now' =< request[r].clock + Lag
        /\ now < request[r].clock + AskMax => now' =< request[r].clock + AskMax
    BY <1>1, <1>2, <2>1
  <2>. QED BY <1>1, <2>1, <2>2, <2>3 DEF AgedRequest
<1>5. ASSUME NEW u \in Cached PROVE AgedEntry(u)'
  <2>1. AgedEntry(u) /\ entries[u].expires_at \in Nat
    BY <1>1, AgedByPart, EntryFacts DEF CacheConsistent
  <2>2. entries[u].expires_at =< now + Ttl => entries[u].expires_at =< now' + Ttl
    BY <1>1, <1>2, <2>1
  <2>. QED BY <1>1, <2>1, <2>2 DEF AgedEntry
<1>6. VerdictsAged'
  BY <1>1, <1>4, <1>5, AgedByPartAfter
<1>. QED BY <1>1, <1>3, <1>6, CacheUntouched

LEMMA NextConsistent == CacheConsistent /\ [Next]_vars => CacheConsistent'
<1>. SUFFICES ASSUME CacheConsistent, [Next]_vars PROVE CacheConsistent'
  OBVIOUS
<1>1. ASSUME NEW r \in Requests, NEW t \in Tokens, NEW clock \in Time, Get(r, t, clock)
      PROVE  CacheConsistent'
  BY <1>1, HitConsistent, MissConsistent
<1>2. ASSUME NEW r \in Requests, Decide(r) \/ StartInsert(r) \/ AskFails(r)
      PROVE  CacheConsistent'
  BY <1>2, AskingConsistent
<1>3. ASSUME NEW r \in Requests, Insert(r) PROVE CacheConsistent'
  BY <1>3, InsertConsistent
<1>4. ASSUME NEW clock \in Time, Sweep(clock) PROVE CacheConsistent'
  BY <1>4, SweepConsistent
<1>5. ASSUME NEW t \in Tokens, ChangeMind(t) PROVE CacheConsistent'
  BY <1>5, ChangeMindConsistent
<1>6. ASSUME Tick PROVE CacheConsistent'
  BY <1>6, TickConsistent
<1>7. ASSUME UNCHANGED vars PROVE CacheConsistent'
  <2>1. UNCHANGED <<now, active, since, entries, lru, next_order, at, request>>
    BY <1>7 DEF vars
  <2>2. TypeOK' /\ Cached' = Cached
    BY <2>1 DEF CacheConsistent, TypeOK, Cached
  <2>3. VerdictsAged'
    BY <2>1, <2>2 DEF CacheConsistent, VerdictsAged
  <2>. QED BY <2>1, <2>2, <2>3, CacheUntouched
<1>. QED BY <1>1, <1>2, <1>3, <1>4, <1>5, <1>6, <1>7 DEF Next, Over

-----------------------------------------------------------------------------
(***************************************************************************)
(* Map and index agree within the limit of entries, accesses keep their    *)
(* order apart and no verdict outlives the provider's by more than it may, *)
(* whatever requests overlap with whatever clocks.                         *)
(***************************************************************************)
THEOREM CacheStaysConsistent == Spec => []CacheConsistent
BY InitConsistent, NextConsistent, PTL DEF Spec

\* The step of the next theorem: what is answered from the cache is as recent
\* as the entry, what is answered after asking as the provider's answer.
LEMMA ServedRecent ==
    ASSUME CacheConsistent, Next, NEW r \in Requests, NEW t \in Tokens, Served(r, t),
           ~(at'[r] = "accepted" <=> t \in active)
    PROVE  now - since[t] < Ttl + AskMax + Lag
<1>0. /\ TypeOK /\ now \in Nat /\ since[t] \in Nat
      /\ AskMax \in Nat /\ Lag \in Nat /\ Ttl \in Nat \ {0}
  BY QueryFacts, Sizes DEF CacheConsistent
<1>1. at'[r] # at[r] /\ at'[r] \in {"accepted", "rejected"}
  BY DEF Served
<1>2. \/ \E u \in Tokens, clock \in Time : Get(r, u, clock)
      \/ Insert(r)
  <2>1. ASSUME NEW p \in Requests, NEW s, at' = [at EXCEPT ![p] = s]
        PROVE  p = r /\ s \in {"accepted", "rejected"}
    BY <1>0, <1>1, <2>1 DEF TypeOK
  <2>2. ASSUME NEW p \in Requests, NEW u \in Tokens, NEW clock \in Time, Get(p, u, clock)
        PROVE  p = r
    BY <2>1, <2>2 DEF Get
  <2>3. ASSUME NEW p \in Requests, Insert(p) PROVE p = r
    BY <2>1, <2>3 DEF Insert, Finish
  <2>4. ~ \E p \in Requests : Decide(p) \/ StartInsert(p) \/ AskFails(p)
    BY <2>1 DEF Decide, StartInsert, AskFails, Finish
  <2>5. at' # at
    BY <1>1
  <2>. QED BY <2>2, <2>3, <2>4, <2>5 DEF Next, Sweep, ChangeMind, Tick, Over, vars
<1>3. ASSUME NEW u \in Tokens, NEW clock \in Time, Get(r, u, clock)
      PROVE  now - since[t] < Ttl + AskMax + Lag
  <2>1. at[r] = "idle" /\ clock \in Nat /\ now =< clock + Lag
    BY <1>3 DEF Get, Recent, Time
  <2>2. u \in Cached /\ ~Expired(u, clock)
    <3>1. ASSUME ~(u \in Cached /\ ~Expired(u, clock)) PROVE FALSE
      <4>1. at' = [at EXCEPT ![r] = "asking"]
        BY <1>3, <3>1 DEF Get
      <4>. QED BY <1>0, <1>1, <4>1 DEF TypeOK
    <3>. QED BY <3>1
  <2>3. /\ entries' = [entries EXCEPT ![u] = Hit(entries[u], clock)]
        /\ at' = [at EXCEPT ![r] = Verdict(Hit(entries[u], clock).active)]
    BY <1>3, <2>2 DEF Get
  <2>4. t = u
    BY <1>0, <2>1, <2>3 DEF Served, TypeOK
  <2>5. entries[t] \in Entry /\ entries[t].expires_at \in Nat /\ entries[t].active \in BOOLEAN
    BY <1>0, <2>2, <2>4, EntryFacts
  <2>6. Hit(entries[t], clock).active = entries[t].active
    BY <2>5 DEF Hit, Entry
  <2>7. at'[r] = Verdict(entries[t].active)
    BY <1>0, <2>3, <2>4, <2>6 DEF TypeOK
  <2>8. at'[r] = "accepted" <=> entries[t].active
    BY <2>5, <2>7, VerdictFacts
  <2>9. AgedEntry(t)
    BY <2>2, <2>4, AgedByPart DEF CacheConsistent
  <2>10. entries[t].expires_at =< since[t] + AskMax + Ttl
    BY <2>8, <2>9 DEF AgedEntry
  <2>11. clock < entries[t].expires_at
    BY <2>1, <2>2, <2>4, <2>5 DEF Expired
  <2>. QED BY <1>0, <2>1, <2>5, <2>10, <2>11
<1>4. ASSUME Insert(r) PROVE now - since[t] < Ttl + AskMax + Lag
  <2>1. at[r] = "inserting" /\ at' = [at EXCEPT ![r] = Verdict(request[r].verdict)]
    BY <1>4 DEF Insert, Finish
  <2>2. request[r].token = t
    BY <2>1 DEF Served
  <2>3. request[r].verdict \in BOOLEAN /\ request[r].clock \in Nat
    BY <1>0, QueryFacts
  <2>4. at'[r] = Verdict(request[r].verdict)
    BY <1>0, <2>1 DEF TypeOK
  <2>5. at'[r] = "accepted" <=> request[r].verdict
    BY <2>3, <2>4, VerdictFacts
  <2>6. AgedRequest(r)
    BY AgedByPart DEF CacheConsistent
  <2>7. request[r].clock =< since[t] + AskMax /\ now =< request[r].clock + Lag
    BY <2>1, <2>2, <2>5, <2>6 DEF AgedRequest
  <2>. QED BY <1>0, <2>3, <2>7
<1>. QED BY <1>2, <1>3, <1>4

(***************************************************************************)
(* A verdict is never served, from the cache or fresh, against what the    *)
(* provider has said for the lifetime of an entry, an introspection and a  *)
(* late thread.                                                            *)
(***************************************************************************)
THEOREM VerdictsAreRecent == Spec => VerdictIsRecent
<1>. DEFINE A == \A r \in Requests, t \in Tokens :
        Served(r, t) /\ ~(at'[r] = "accepted" <=> t \in active) =>
            now - since[t] < Ttl + AskMax + Lag
<1>1. CacheConsistent /\ [Next]_vars => [A]_vars
  BY ServedRecent
<1>. HIDE DEF A
<1>2. [][A]_vars => VerdictIsRecent
  BY PTL DEF A, VerdictIsRecent
<1>. QED BY <1>1, <1>2, CacheStaysConsistent, PTL DEF Spec
=============================================================================
