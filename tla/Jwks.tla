-------------------------------- MODULE Jwks --------------------------------
(***************************************************************************)
(* HttpJwks: the cache of an issuer's signing keys.  key_for refreshes a   *)
(* stale cache, reads it, and forces one refresh for a kid it does not     *)
(* find; refreshes run one at a time under refresh_lock and forced ones at *)
(* most once per FORCED_REFRESH_INTERVAL.                                  *)
(*                                                                         *)
(* The issuer publishes and withdraws the key k1 at will and never has k2. *)
(* An Instant is modelled by its age, capped where nothing depends on it   *)
(* any more: an Option<Instant> that is None behaves like one that is old  *)
(* enough.                                                                 *)
(*                                                                         *)
(* Timing assumption: no tick passes between two awaits on the network or  *)
(* on the refresh lock, nor while that lock is free and wanted.            *)
(***************************************************************************)
EXTENDS Integers, FiniteSets

CONSTANTS
    Lookups, None,
    RefreshAfter,    \* refresh_secs, in ticks
    ForcedInterval,  \* FORCED_REFRESH_INTERVAL, in ticks
    FetchMax         \* the timeout of one outbound request, in ticks

ASSUME JwksConstants ==
    /\ {RefreshAfter, ForcedInterval, FetchMax} \subseteq Nat \ {0}
    /\ IsFiniteSet(Lookups) /\ Cardinality(Lookups) >= 2 /\ None \notin Lookups

VARIABLES
    published,  \* does the issuer publish k1 ...
    since,      \* ... and for how long has it, or has it not
    cached,     \* is k1 in cache.keys?
    fetched,    \* age of cache.fetched_at
    known,      \* is cache.jwks_uri known?
    forced,     \* age of cache.last_forced_refresh
    lock,       \* the holder of refresh_lock ...
    waiting,    \* ... and who waits for it before each lookup, in tokio's order
    at,         \* where each lookup is
    lookup,     \* its kid, whether its refresh is forced, the age of `now`,
                \* of the request it waits for, and the answer to it
    requested,  \* history: age of the last request a forced refresh has sent
    cut         \* history: age of the last refresh that failed or was dropped

cache == <<cached, fetched, known, forced>>
vars == <<published, since, cached, fetched, known, forced, lock, waiting, at,
          lookup, requested, cut>>

Longer(a, b) == IF a > b THEN a ELSE b
Shorter(a, b) == IF a < b THEN a ELSE b
Horizon == Longer(RefreshAfter, Longer(ForcedInterval, FetchMax + 1))
Blank == [kid |-> "k1", forced |-> FALSE, now |-> 0, waited |-> 0, keys |-> FALSE]
Fetching == {"discovery", "keys", "answered"}

TypeOK ==
    /\ published \in BOOLEAN /\ since \in 0 .. Horizon
    /\ cached \in BOOLEAN /\ known \in BOOLEAN
    /\ fetched \in 0 .. RefreshAfter
    /\ forced \in 0 .. ForcedInterval
    /\ lock \in Lookups \cup {None}
    /\ waiting \in [Lookups -> SUBSET Lookups]
    /\ at \in [Lookups -> Fetching \cup {"idle", "lock", "read"}]
    /\ \A l \in Lookups : at[l] \in Fetching <=> lock = l
    /\ lookup \in [Lookups -> [kid : {"k1", "k2"}, forced : BOOLEAN,
                               now : 0 .. 2 * FetchMax, waited : 0 .. FetchMax,
                               keys : BOOLEAN]]
    /\ requested \in 0 .. ForcedInterval /\ cut \in 0 .. Horizon

Init ==
    /\ published \in BOOLEAN /\ since = Horizon
    /\ cached = FALSE /\ known = FALSE
    /\ fetched = RefreshAfter /\ forced = ForcedInterval
    /\ lock = None /\ waiting = [l \in Lookups |-> {}]
    /\ at = [l \in Lookups |-> "idle"]
    /\ lookup = [l \in Lookups |-> Blank]
    /\ requested = ForcedInterval /\ cut = Horizon

-----------------------------------------------------------------------------
Queued == {l \in Lookups : at[l] = "lock"}

\* A lookup takes the last place in the queue when it starts to wait for the
\* lock, and leaves the queue when it no longer does.
Go(l, stage) ==
    /\ at' = [at EXCEPT ![l] = stage]
    /\ waiting' = [m \in Lookups |->
            IF m # l THEN waiting[m] \ {l} ELSE IF stage = "lock" THEN Queued ELSE {}]

\* key_for and the staleness check of refresh_if_needed.
KeyFor(l, kid) ==
    /\ at[l] = "idle"
    /\ lookup' = [lookup EXCEPT ![l] = [Blank EXCEPT !.kid = kid]]
    /\ Go(l, IF fetched >= RefreshAfter THEN "lock" ELSE "read")
    /\ UNCHANGED <<published, since, cache, lock, requested, cut>>

\* The check under the refresh lock: another lookup may have refreshed.
Due(isForced) ==
    IF isForced THEN forced >= ForcedInterval ELSE fetched >= RefreshAfter

\* Mutant: a forced refresh is recorded only once it has succeeded.
RecordedLater(isForced) == forced

\* A forced refresh uses up the interval before it does any I/O.
Recorded(isForced) == IF isForced THEN 0 ELSE forced

RefreshLocked(l) ==
    /\ at[l] = "lock"
    /\ lock = None /\ waiting[l] = {}
    /\ LET isForced == lookup[l].forced IN
       IF Due(isForced)
       THEN /\ lock' = l
            /\ forced' = Recorded(isForced)
            /\ requested' = IF isForced THEN 0 ELSE requested
            /\ lookup' = [lookup EXCEPT ![l] = [@ EXCEPT !.now = 0, !.waited = 0]]
            /\ Go(l, IF known THEN "keys" ELSE "discovery")
       ELSE /\ Go(l, "read")
            /\ UNCHANGED <<lock, forced, requested, lookup>>
    /\ UNCHANGED <<published, since, cached, fetched, known, cut>>

FetchDiscovery(l) ==
    /\ at[l] = "discovery"
    /\ lookup' = [lookup EXCEPT ![l].waited = 0]
    /\ Go(l, "keys")
    /\ UNCHANGED <<published, since, cache, lock, requested, cut>>

\* The issuer answers with the keys it publishes now; they arrive later.
FetchKeys(l) ==
    /\ at[l] = "keys"
    /\ lookup' = [lookup EXCEPT ![l].keys = published]
    /\ Go(l, "answered")
    /\ UNCHANGED <<published, since, cache, lock, requested, cut>>

\* Mutant: what was fetched is added to the keys the cache has.
MergedKeys(l) == cached \/ lookup[l].keys

FetchedKeys(l) == lookup[l].keys

\* The cache is replaced; its age counts from before the requests.
StoreKeys(l) ==
    /\ at[l] = "answered"
    /\ cached' = FetchedKeys(l)
    /\ fetched' = Shorter(lookup[l].now, RefreshAfter)
    /\ known' = TRUE
    /\ lock' = None
    /\ Go(l, "read")
    /\ UNCHANGED <<published, since, forced, lookup, requested, cut>>

Leave(l) ==
    /\ Go(l, "idle")
    /\ lookup' = [lookup EXCEPT ![l] = Blank]

\* Mutant: an early return that keeps the refresh lock.
FetchFailsLocked(l) ==
    /\ at[l] \in Fetching
    /\ Leave(l)
    /\ cut' = 0
    /\ UNCHANGED <<published, since, cache, lock, requested>>

\* A request fails, answers badly or times out: the lookup is Unavailable.
\* Or the lookup is dropped there, with the request that asked for it.
FetchFails(l) ==
    /\ at[l] \in Fetching
    /\ Leave(l)
    /\ lock' = None
    /\ cut' = 0
    /\ UNCHANGED <<published, since, cache, requested>>

DropWaiting(l) ==
    /\ at[l] = "lock"
    /\ Leave(l)
    /\ UNCHANGED <<published, since, cache, lock, requested, cut>>

Found(l) == cached /\ lookup[l].kid = "k1"

\* Mutant: an unknown kid is reported without a forced refresh.
ReadOnly(l) ==
    /\ at[l] = "read"
    /\ Leave(l)
    /\ UNCHANGED <<published, since, cache, lock, requested, cut>>

\* Found, or an unknown kid before and after the forced refresh.
ReadCache(l) ==
    /\ at[l] = "read"
    /\ IF Found(l) \/ lookup[l].forced
       THEN Leave(l)
       ELSE /\ lookup' = [lookup EXCEPT ![l].forced = TRUE]
            /\ Go(l, "lock")
    /\ UNCHANGED <<published, since, cache, lock, requested, cut>>

-----------------------------------------------------------------------------
\* The issuer rotates its key (external).
Rotate ==
    /\ published' = ~published
    /\ since' = 0
    /\ UNCHANGED <<cache, lock, waiting, at, lookup, requested, cut>>

Older(age, cap) == IF age < cap THEN age + 1 ELSE cap

Urgent(l) ==
    \/ at[l] = "read"
    \/ at[l] = "lock" /\ lock = None
    \/ at[l] \in Fetching /\ lookup[l].waited = FetchMax

Tick ==
    /\ \A l \in Lookups : ~Urgent(l)
    /\ since' = Older(since, Horizon)
    /\ fetched' = Older(fetched, RefreshAfter)
    /\ forced' = Older(forced, ForcedInterval)
    /\ requested' = Older(requested, ForcedInterval)
    /\ cut' = Older(cut, Horizon)
    /\ lookup' = [l \in Lookups |->
            IF at[l] \in Fetching
            THEN [lookup[l] EXCEPT !.now = Older(@, 2 * FetchMax), !.waited = @ + 1]
            ELSE lookup[l]]
    /\ UNCHANGED <<published, cached, known, lock, waiting, at>>

Fetch(l) == FetchDiscovery(l) \/ FetchKeys(l) \/ StoreKeys(l) \/ FetchFails(l)

Next ==
    \/ \E l \in Lookups :
        \/ \E kid \in {"k1", "k2"} : KeyFor(l, kid)
        \/ RefreshLocked(l) \/ Fetch(l) \/ DropWaiting(l) \/ ReadCache(l)
    \/ Rotate
    \/ Tick

(***************************************************************************)
(* Requests end within their timeout; tokio's mutex passes to its first    *)
(* waiter.                                                                 *)
(***************************************************************************)
Fairness == \A l \in Lookups :
    WF_vars(Fetch(l)) /\ WF_vars(ReadCache(l)) /\ WF_vars(RefreshLocked(l))

Spec == Init /\ [][Next]_vars /\ Fairness

-----------------------------------------------------------------------------
\* The queue is one: of two who wait, one is before the other.
QueueInOrder ==
    /\ \A l \in Lookups : waiting[l] \subseteq Queued \ {l}
    /\ \A l, m \in Queued : l # m => l \in waiting[m] \/ m \in waiting[l]

\* What is on its way differs from what the issuer publishes only if that has
\* changed since it answered, and the forced interval began no later than a
\* refresh that is under way.
AnswersAged ==
    \A l \in Lookups : at[l] \in Fetching =>
        LET q == lookup[l] IN
        /\ q.waited =< q.now
        /\ IF at[l] = "discovery" THEN q.now =< q.waited ELSE q.now =< q.waited + FetchMax
        /\ forced >= Shorter(q.now, ForcedInterval)
        /\ q.forced => forced =< q.now
        /\ at[l] = "answered" /\ ~(q.keys <=> published) => since =< q.waited

\* A key that is cached and withdrawn was withdrawn after the cache's fetch.
CacheAged == cached /\ ~published /\ fetched < RefreshAfter => since =< fetched

\* A forced refresh within the interval has brought a key published before it,
\* or ended early, or is still under way.
ForcedAccounted ==
    /\ forced = requested
    /\ (lock # None => ~lookup[lock].forced) /\ forced < ForcedInterval
        /\ published /\ ~cached => since =< forced \/ cut =< forced

Held == IF lock = None THEN 0 ELSE 1
Elapsed == IF lock = None THEN 0 ELSE lookup[lock].now

\* Of the refreshes a lookup may have to wait for, those that are over: all but
\* the ones in the queue before it and the one under way.
Past(l) == Cardinality(Lookups) - 2 - Cardinality(waiting[l]) - Held

\* A lookup in the queue, its refresh forced because its key was not cached,
\* that now is: one refresh brought the key, and who made it queues behind.
WaitersAged ==
    \A l \in Queued : lookup[l].forced /\ lookup[l].kid = "k1" /\ cached =>
        /\ Cardinality(waiting[l]) + Held + 2 =< Cardinality(Lookups)
        /\ ~published => since =< FetchMax + 2 * FetchMax * Past(l) + Elapsed

\* The refreshes that a lookup may wait for after the one that brought its key.
QueueDelay == 2 * FetchMax * (Cardinality(Lookups) - 2)

\* What a lookup finds when it reads the cache.
ReadersAged ==
    \A l \in Lookups : at[l] = "read" /\ lookup[l].kid = "k1" =>
        /\ cached /\ ~published => since < RefreshAfter \/ since =< FetchMax + QueueDelay
        /\ ~cached /\ published /\ lookup[l].forced =>
              since < ForcedInterval \/ since =< FetchMax \/ cut < ForcedInterval

\* One refresh at a time, in the order of the queue; and how old an answer may
\* be, from the issuer's decision through queue and cache to who reads it.
KeysAccounted ==
    /\ TypeOK /\ QueueInOrder /\ AnswersAged /\ CacheAged
    /\ ForcedAccounted /\ WaitersAged /\ ReadersAged

Answering(l) == at[l] = "read" /\ at'[l] = "idle"

\* Forced refreshes send their first requests at least FORCED_REFRESH_INTERVAL
\* apart, whatever kids are asked for and however the earlier ones ended.
ForcedRefreshesSpaced ==
    [][\A l \in Lookups :
        at[l] = "lock" /\ at'[l] \in Fetching /\ lookup[l].forced =>
            requested >= ForcedInterval]_vars

\* A key is served only if the issuer still published it within the refresh
\* period, or within a request's time (and the refreshes of the lookups queued
\* in between): failed refreshes never prolong the life of a withdrawn key.
ServedKeyIsRecent ==
    [][\A l \in Lookups : Answering(l) /\ Found(l) =>
        \/ published
        \/ since < RefreshAfter \/ since <= FetchMax + QueueDelay]_vars

\* A key the issuer has published for the forced interval, and for longer than
\* one of its answers takes, is reported unknown only if a refresh failed or was
\* dropped within the interval (it is recorded before its I/O).
UnknownKeyIsExplained ==
    [][\A l \in Lookups : Answering(l) /\ ~Found(l) /\ lookup[l].kid = "k1" =>
        \/ ~published
        \/ since < ForcedInterval \/ since <= FetchMax
        \/ cut < ForcedInterval]_vars

\* Every lookup that waits for the refresh lock gets an answer.
LookupsEnd == \A l \in Lookups : at[l] = "lock" ~> at[l] = "idle"
=============================================================================
