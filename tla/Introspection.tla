--------------------------- MODULE Introspection ---------------------------
(***************************************************************************)
(* Token introspection in JwtAuth::validate: a verdict of the identity     *)
(* provider is cached for Ttl under the digest of the bearer token, in a   *)
(* map of at most MaxEntries with an LRU index, swept by the maintenance   *)
(* task.  Everything before the introspection (signature, claims) and      *)
(* after it (roles, pool) is module Identity.                              *)
(*                                                                         *)
(* get, insert and sweep read the clock before they take the mutex, so     *)
(* what they work with may be up to Lag old (for get and sweep, of which   *)
(* nothing else happens before, any recent value); an introspection takes  *)
(* at most AskMax.  The provider may change its mind about a token at any  *)
(* time.  Each request is made once.                                       *)
(***************************************************************************)
EXTENDS Naturals, FiniteSets

CONSTANTS
    Requests, Tokens, None,
    MaxEntries,  \* MAX_INTROSPECTION_ENTRIES
    Ttl,         \* introspection.cache_secs, in ticks
    AskMax,      \* the timeout of the outbound request, in ticks
    Lag,         \* bound: how long a thread sits between clock and mutex
    MaxNow       \* bound on the clock

Time == 0 .. MaxNow
MaxOrder == Cardinality(Requests)
Entry == [active : BOOLEAN, expires_at : 0 .. MaxNow + Ttl, last_access : Time,
          order : 0 .. MaxOrder]

ASSUME IntrospectionConstants ==
    /\ {AskMax, Lag, MaxNow} \subseteq Nat /\ {Ttl, MaxEntries} \subseteq Nat \ {0}
    /\ IsFiniteSet(Requests) /\ IsFiniteSet(Tokens)
    /\ None \notin Tokens /\ None \notin Entry

VARIABLES
    now,
    active,      \* the tokens the provider calls active ...
    since,       \* ... and when it last changed its mind about each
    entries,     \* the cached verdict of each token, or None
    lru,         \* the index: <<last_access, order, token>>
    next_order,
    at,          \* where each request is
    request      \* its token, the time it read or sent, the verdict it got

vars == <<now, active, since, entries, lru, next_order, at, request>>

Blank == [token |-> None, clock |-> 0, verdict |-> FALSE]
Cached == {t \in Tokens : entries[t] # None}

TypeOK ==
    /\ now \in Time
    /\ active \subseteq Tokens /\ since \in [Tokens -> Time]
    /\ entries \in [Tokens -> Entry \cup {None}]
    /\ next_order \in 0 .. MaxOrder
    /\ at \in [Requests -> {"idle", "asking", "answered", "inserting",
                            "accepted", "rejected", "unavailable"}]
    /\ request \in [Requests -> [token : Tokens \cup {None}, clock : Time,
                                 verdict : BOOLEAN]]

Init ==
    /\ now = 0
    /\ active \in SUBSET Tokens /\ since = [t \in Tokens |-> 0]
    /\ entries = [t \in Tokens |-> None] /\ lru = {} /\ next_order = 0
    /\ at = [r \in Requests |-> "idle"]
    /\ request = [r \in Requests |-> Blank]

-----------------------------------------------------------------------------
Key(t, e) == <<e.last_access, e.order, t>>
Before(a, b) == a[1] < b[1] \/ (a[1] = b[1] /\ a[2] < b[2])
First == CHOOSE k \in lru : \A other \in lru \ {k} : Before(k, other)

ExpiresAfter(clock) == clock + Ttl

Expired(t, clock) == clock >= entries[t].expires_at
Verdict(v) == IF v THEN "accepted" ELSE "rejected"

Finish(r, outcome) ==
    /\ at' = [at EXCEPT ![r] = outcome]
    /\ request' = [request EXCEPT ![r] = Blank]

\* What a thread may have read from the clock before it got the mutex.
Recent == {clock \in Time : clock <= now /\ now <= clock + Lag}

\* Mutant: a hit prolongs the life of the entry.
HitProlongs(e, clock) ==
    [e EXCEPT !.last_access = clock, !.order = next_order, !.expires_at = clock + Ttl]

Hit(e, clock) == [e EXCEPT !.last_access = clock, !.order = next_order]

\* validate reaches the introspection.  get: a hit moves to the end of the
\* index, an expired entry is dropped; on a miss the provider is asked.
Get(r, t, clock) ==
    /\ at[r] = "idle"
    /\ clock \in Recent
    /\ IF t \in Cached /\ ~Expired(t, clock)
       THEN LET e == Hit(entries[t], clock) IN
            /\ entries' = [entries EXCEPT ![t] = e]
            /\ lru' = (lru \ {Key(t, entries[t])}) \cup {Key(t, e)}
            /\ next_order' = next_order + 1
            /\ at' = [at EXCEPT ![r] = Verdict(e.active)]
            /\ UNCHANGED request
       ELSE /\ entries' = [entries EXCEPT ![t] = None]
            /\ lru' = IF t \in Cached THEN lru \ {Key(t, entries[t])} ELSE lru
            /\ at' = [at EXCEPT ![r] = "asking"]
            /\ request' = [request EXCEPT ![r] = [Blank EXCEPT !.token = t, !.clock = now]]
            /\ UNCHANGED next_order
    /\ UNCHANGED <<now, active, since>>

\* The provider decides; its answer arrives later.
Decide(r) ==
    /\ at[r] = "asking"
    /\ request' = [request EXCEPT ![r].verdict = request[r].token \in active]
    /\ at' = [at EXCEPT ![r] = "answered"]
    /\ UNCHANGED <<now, active, since, entries, lru, next_order>>

\* is_active returned; insert reads the clock.
StartInsert(r) ==
    /\ at[r] = "answered"
    /\ request' = [request EXCEPT ![r].clock = now]
    /\ at' = [at EXCEPT ![r] = "inserting"]
    /\ UNCHANGED <<now, active, since, entries, lru, next_order>>

Full == Cardinality(Cached) >= MaxEntries

\* Mutant: a verdict that replaces another leaves its index entry behind.
UnlinkedNever(t) == IF t \notin Cached /\ Full THEN {First} ELSE {}

\* The index entry an insert removes: of the verdict it replaces, or of the
\* least recently used one when the map is full.
Unlinked(t) ==
    IF t \in Cached THEN {Key(t, entries[t])} ELSE IF Full THEN {First} ELSE {}

Insert(r) ==
    LET t    == request[r].token
        gone == Unlinked(t)
        e    == [active |-> request[r].verdict, expires_at |-> ExpiresAfter(request[r].clock),
                 last_access |-> request[r].clock, order |-> next_order]
    IN
    /\ at[r] = "inserting"
    /\ entries' = [u \in Tokens |->
            IF u = t THEN e ELSE IF \E k \in gone : k[3] = u THEN None ELSE entries[u]]
    /\ lru' = (lru \ gone) \cup {Key(t, e)}
    /\ next_order' = next_order + 1
    /\ Finish(r, Verdict(e.active))
    /\ UNCHANGED <<now, active, since>>

\* The request fails or times out: 503, and nothing is cached.  Or the handler
\* is dropped while it waits.
AskFails(r) ==
    /\ at[r] \in {"asking", "answered"}
    /\ Finish(r, "unavailable")
    /\ UNCHANGED <<now, active, since, entries, lru, next_order>>

\* The maintenance task's sweep.
Sweep(clock) ==
    LET expired == {t \in Cached : Expired(t, clock)} IN
    /\ clock \in Recent
    /\ expired # {}
    /\ entries' = [t \in Tokens |-> IF t \in expired THEN None ELSE entries[t]]
    /\ lru' = lru \ {Key(t, entries[t]) : t \in expired}
    /\ UNCHANGED <<now, active, since, next_order, at, request>>

ChangeMind(t) ==
    /\ active' = IF t \in active THEN active \ {t} ELSE active \cup {t}
    /\ since' = [since EXCEPT ![t] = now]
    /\ UNCHANGED <<now, entries, lru, next_order, at, request>>

Tick ==
    /\ now < MaxNow
    /\ \A r \in Requests :
        /\ at[r] \in {"inserting"} => now < request[r].clock + Lag
        /\ at[r] \in {"asking", "answered"} => now < request[r].clock + AskMax
    /\ now' = now + 1
    /\ UNCHANGED <<active, since, entries, lru, next_order, at, request>>

Over == now = MaxNow /\ UNCHANGED vars

Next ==
    \/ \E r \in Requests :
        \/ \E t \in Tokens, clock \in Time : Get(r, t, clock)
        \/ Decide(r) \/ StartInsert(r) \/ Insert(r) \/ AskFails(r)
    \/ \E clock \in Time : Sweep(clock)
    \/ \E t \in Tokens : ChangeMind(t)
    \/ Tick
    \/ Over

Spec == Init /\ [][Next]_vars

-----------------------------------------------------------------------------
\* A step that answers a request about t, from the cache or after asking.
Served(r, t) ==
    /\ at[r] # at'[r] /\ at'[r] \in {"accepted", "rejected"}
    /\ IF at[r] = "idle" THEN entries[t] # entries'[t] ELSE request[r].token = t

(***************************************************************************)
(* A token is accepted only if the provider called it active, and rejected *)
(* only if it did not, within the cache's lifetime and the time an answer  *)
(* and a late thread take: overlapping introspections that store an older  *)
(* verdict last, hits and evictions never stretch that.                    *)
(***************************************************************************)
VerdictIsRecent ==
    [][\A r \in Requests, t \in Tokens :
        Served(r, t) /\ ~(at'[r] = "accepted" <=> t \in active) =>
            now - since[t] < Ttl + AskMax + Lag]_vars

\* The LRU index has exactly one entry for each cached verdict, so that what is
\* evicted is in the map and everything in the map can be evicted.
IndexMatchesEntries == lru = {Key(t, entries[t]) : t \in Cached}

\* The cache stays within its limit (MAX_INTROSPECTION_ENTRIES).
CacheBounded == Cardinality(Cached) <= MaxEntries

\* Every access has an order of its own: with the clocks of the threads out of
\* order it is what makes the least recently used entry unique.
OrdersDistinct ==
    /\ next_order =< Cardinality({r \in Requests : at[r] \in {"accepted", "rejected"}})
    /\ \A t \in Cached : entries[t].order < next_order
    /\ \A t, u \in Cached : entries[t].order = entries[u].order => t = u

\* How old a verdict may be that the provider no longer stands by, from its
\* decision to the entry.
VerdictsAged ==
    /\ \A r \in Requests :
        LET q == request[r]
            wrong == ~(q.verdict <=> q.token \in active) IN
        /\ at[r] \in {"asking", "answered", "inserting"} => q.token \in Tokens /\ q.clock =< now
        /\ at[r] \in {"asking", "answered"} => now =< q.clock + AskMax
        /\ at[r] = "answered" /\ wrong => q.clock =< since[q.token]
        /\ at[r] = "inserting" => now =< q.clock + Lag
        /\ at[r] = "inserting" /\ wrong => q.clock =< since[q.token] + AskMax
    /\ \A t \in Cached :
        /\ entries[t].expires_at =< now + Ttl
        /\ ~(entries[t].active <=> t \in active) =>
              entries[t].expires_at =< since[t] + AskMax + Ttl

\* Map and index agree, within the limit, after every hit, insertion, eviction
\* and sweep, in whatever order the clocks of the threads were read.
CacheConsistent ==
    TypeOK /\ IndexMatchesEntries /\ CacheBounded /\ OrdersDistinct /\ VerdictsAged
=============================================================================
