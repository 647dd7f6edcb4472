---------------------------- MODULE PoolManager ----------------------------
(***************************************************************************)
(* The life of the Redis pools: built on demand (get_or_build), evicted    *)
(* when idle by the maintenance task (evict_idle, run_pool_maintenance),   *)
(* and closed when the process stops (main, PoolManager::shutdown).  The   *)
(* map is followed for one pool name: names share nothing but the loops    *)
(* that visit them.                                                        *)
(*                                                                         *)
(* A request is "entered" while it runs from get_or_build to the waiter    *)
(* count without an await, and "using" while the waiter count or a permit  *)
(* accounts for it: Queued and PermitHolders of module Acquire, which      *)
(* leave no gap since the permit is taken before the waiter is dropped.    *)
(*                                                                         *)
(* Timing assumption: the clock does not advance by a second-scale tick    *)
(* while a request is "entered".                                           *)
(***************************************************************************)
EXTENDS Naturals, FiniteSets

CONSTANTS
    Requests,
    IdleSecs,    \* IDLE_EVICTION_SECS, in ticks
    MaxNow,      \* bound on the clock
    MaxBuilds    \* bound: no request arrives once this many pools were built

ASSUME PoolManagerBounds ==
    /\ IdleSecs \in Nat /\ MaxNow \in Nat /\ MaxBuilds \in Nat \ {0}
    /\ IsFiniteSet(Requests)

VARIABLES
    now,        \* unix seconds
    pools,      \* the entry in the map, 0 when the name is vacant
    built,      \* how many entries were built so far
    fate,       \* what became of each entry
    last_used,  \* of each entry
    pc,         \* where each request is
    entry,      \* the Arc<PoolEntry> each request holds
    sweeper,    \* the maintenance task
    phase,      \* main's progress through its shutdown
    forced      \* did the drain deadline pass with requests in flight?

vars == <<now, pools, built, fate, last_used, pc, entry, sweeper, phase, forced>>

\* Each request that has arrived may still build one entry.
EntryId == 1 .. (MaxBuilds + Cardinality(Requests))

TypeOK ==
    /\ now \in 0 .. MaxNow
    /\ pools \in {0} \cup EntryId
    /\ built \in 0 .. (MaxBuilds + Cardinality(Requests))
    /\ fate \in [EntryId -> {"unbuilt", "live", "quitting", "gone"}]
    /\ last_used \in [EntryId -> 0 .. MaxNow]
    /\ pc \in [Requests -> {"idle", "arrived", "entered", "using"}]
    /\ entry \in [Requests -> {0} \cup EntryId]
    /\ sweeper \in [at : {"sleeping", "sweeping", "quitting", "stopped"},
                    now : 0 .. MaxNow, entry : {0} \cup EntryId]
    /\ phase \in {"serving", "draining", "stopping", "closing", "quitting", "exited"}
    /\ forced \in BOOLEAN

Asleep == [at |-> "sleeping", now |-> 0, entry |-> 0]

Init ==
    /\ now = 0
    /\ pools = 0
    /\ built = 0
    /\ fate = [e \in EntryId |-> "unbuilt"]
    /\ last_used = [e \in EntryId |-> 0]
    /\ pc = [r \in Requests |-> "idle"]
    /\ entry = [r \in Requests |-> 0]
    /\ sweeper = Asleep
    /\ phase = "serving"
    /\ forced = FALSE

-----------------------------------------------------------------------------
(***************************************************************************)
(* Requests.                                                               *)
(***************************************************************************)

Arrive(r) ==
    /\ phase = "serving"
    /\ pc[r] = "idle"
    /\ built < MaxBuilds
    /\ pc' = [pc EXCEPT ![r] = "arrived"]
    /\ UNCHANGED <<now, pools, built, fate, last_used, entry, sweeper, phase, forced>>

\* get_or_build, occupied: touch and clone under the map's entry lock.
Lookup(r) ==
    /\ pc[r] = "arrived"
    /\ pools # 0
    /\ last_used' = [last_used EXCEPT ![pools] = now]
    /\ entry' = [entry EXCEPT ![r] = pools]
    /\ pc' = [pc EXCEPT ![r] = "entered"]
    /\ UNCHANGED <<now, pools, built, fate, sweeper, phase, forced>>

\* Mutant: the name is not looked up again under the lock before building.
BuildUnlocked(r) ==
    /\ pc[r] = "arrived"
    /\ built' = built + 1
    /\ pools' = built + 1
    /\ fate' = [fate EXCEPT ![built + 1] = "live"]
    /\ last_used' = [last_used EXCEPT ![built + 1] = now]
    /\ entry' = [entry EXCEPT ![r] = built + 1]
    /\ pc' = [pc EXCEPT ![r] = "entered"]
    /\ UNCHANGED <<now, sweeper, phase, forced>>

\* get_or_build, vacant: build and insert under the same lock.
Build(r) ==
    /\ pc[r] = "arrived"
    /\ pools = 0
    /\ built' = built + 1
    /\ pools' = built + 1
    /\ fate' = [fate EXCEPT ![built + 1] = "live"]
    /\ last_used' = [last_used EXCEPT ![built + 1] = now]
    /\ entry' = [entry EXCEPT ![r] = built + 1]
    /\ pc' = [pc EXCEPT ![r] = "entered"]
    /\ UNCHANGED <<now, sweeper, phase, forced>>

\* The breaker or the full queue turns the request away.
Shed(r) ==
    /\ pc[r] = "entered"
    /\ pc' = [pc EXCEPT ![r] = "idle"]
    /\ entry' = [entry EXCEPT ![r] = 0]
    /\ UNCHANGED <<now, pools, built, fate, last_used, sweeper, phase, forced>>

Enqueue(r) ==
    /\ pc[r] = "entered"
    /\ pc' = [pc EXCEPT ![r] = "using"]
    /\ UNCHANGED <<now, pools, built, fate, last_used, entry, sweeper, phase, forced>>

Finish(r) ==
    /\ pc[r] = "using"
    /\ pc' = [pc EXCEPT ![r] = "idle"]
    /\ entry' = [entry EXCEPT ![r] = 0]
    /\ UNCHANGED <<now, pools, built, fate, last_used, sweeper, phase, forced>>

-----------------------------------------------------------------------------
(***************************************************************************)
(* The maintenance task.                                                   *)
(***************************************************************************)

\* Every permit available and no waiter.
Unused(e) == \A r \in Requests : ~(pc[r] = "using" /\ entry[r] = e)

\* now.saturating_sub(last_used) > IDLE_EVICTION_SECS
Idle(e, t) == t > last_used[e] + IdleSecs

\* Mutant: permits and waiters are not looked at.
EvictableInUse(e, t) == Idle(e, t)

Evictable(e, t) == Idle(e, t) /\ Unused(e)

\* A tick of the interval: the pass reads the clock once.
SweepStart ==
    /\ sweeper.at = "sleeping"
    /\ sweeper' = [at |-> "sweeping", now |-> now, entry |-> 0]
    /\ UNCHANGED <<now, pools, built, fate, last_used, pc, entry, phase, forced>>

\* remove_if: test and removal under the map's entry lock.
SweepEvict ==
    /\ sweeper.at = "sweeping"
    /\ pools # 0
    /\ Evictable(pools, sweeper.now)
    /\ fate' = [fate EXCEPT ![pools] = "quitting"]
    /\ sweeper' = [at |-> "quitting", now |-> 0, entry |-> pools]
    /\ pools' = 0
    /\ UNCHANGED <<now, built, last_used, pc, entry, phase, forced>>

SweepSkip ==
    /\ sweeper.at = "sweeping"
    /\ pools # 0 => ~Evictable(pools, sweeper.now)
    /\ sweeper' = Asleep
    /\ UNCHANGED <<now, pools, built, fate, last_used, pc, entry, phase, forced>>

\* PoolEntry::shutdown returns: the pool has quit, its connection tasks joined.
SweepQuit ==
    /\ sweeper.at = "quitting"
    /\ fate' = [fate EXCEPT ![sweeper.entry] = "gone"]
    /\ sweeper' = Asleep
    /\ UNCHANGED <<now, pools, built, last_used, pc, entry, phase, forced>>

-----------------------------------------------------------------------------
(***************************************************************************)
(* Shutdown.                                                               *)
(***************************************************************************)

Signal ==
    /\ phase = "serving"
    /\ phase' = "draining"
    /\ UNCHANGED <<now, pools, built, fate, last_used, pc, entry, sweeper, forced>>

InFlight == {r \in Requests : pc[r] # "idle"}

Drained ==
    /\ phase = "draining"
    /\ InFlight = {}
    /\ phase' = "stopping"
    /\ UNCHANGED <<now, pools, built, fate, last_used, pc, entry, sweeper, forced>>

\* Mutant: the drain has no deadline.
DrainForEver ==
    /\ phase = "draining"
    /\ InFlight # {}
    /\ UNCHANGED vars

\* Fifteen seconds passed: requests still in flight are left to themselves.
DrainDeadline ==
    /\ phase = "draining"
    /\ InFlight # {}
    /\ phase' = "stopping"
    /\ forced' = TRUE
    /\ UNCHANGED <<now, pools, built, fate, last_used, pc, entry, sweeper>>

\* The task sees the stop flag between two passes, and main joins it.
MaintenanceStops ==
    /\ phase = "stopping"
    /\ sweeper.at = "sleeping"
    /\ sweeper' = [Asleep EXCEPT !.at = "stopped"]
    /\ phase' = "closing"
    /\ UNCHANGED <<now, pools, built, fate, last_used, pc, entry, forced>>

ClosePool ==
    /\ phase = "closing"
    /\ pools # 0
    /\ fate' = [fate EXCEPT ![pools] = "quitting"]
    /\ pools' = 0
    /\ phase' = "quitting"
    /\ UNCHANGED <<now, built, last_used, pc, entry, sweeper, forced>>

Exit ==
    /\ \/ phase = "closing" /\ pools = 0
       \/ phase = "quitting"
    /\ fate' = [e \in EntryId |-> IF fate[e] = "quitting" THEN "gone" ELSE fate[e]]
    /\ phase' = "exited"
    /\ UNCHANGED <<now, pools, built, last_used, pc, entry, sweeper, forced>>

\* See the timing assumption above.
Tick ==
    /\ now < MaxNow
    /\ \A r \in Requests : pc[r] # "entered"
    /\ now' = now + 1
    /\ UNCHANGED <<pools, built, fate, last_used, pc, entry, sweeper, phase, forced>>

-----------------------------------------------------------------------------
RequestStep(r) == Lookup(r) \/ Build(r) \/ Shed(r) \/ Enqueue(r) \/ Finish(r)

SweepStep == SweepEvict \/ SweepSkip \/ SweepQuit

ShutdownStep == Drained \/ DrainDeadline \/ MaintenanceStops \/ ClosePool \/ Exit

Next ==
    /\ phase # "exited"
    /\ \/ \E r \in Requests : Arrive(r) \/ RequestStep(r)
       \/ SweepStart \/ SweepStep
       \/ Signal \/ ShutdownStep
       \/ Tick

Spec == Init /\ [][Next]_vars

\* The maintenance task finishes its passes, and main waits for nothing without
\* a deadline except that task and Redis's QUIT.  When both the stop flag and
\* the interval are ready, select! picks either with positive probability.
Fairness ==
    /\ WF_vars(phase # "exited" /\ SweepStep)
    /\ SF_vars(ShutdownStep)

FairSpec == Spec /\ Fairness

-----------------------------------------------------------------------------
\* A request holds an entry from get_or_build on.  Until it is counted, the
\* entry was used this very second, and no pass has read a later clock: the
\* last_used of get_or_build protects what the waiter count does not yet.
TouchedWhileEntered ==
    /\ \A r \in Requests : entry[r] # 0 <=> pc[r] \in {"entered", "using"}
    /\ \A r \in Requests : pc[r] = "entered" => last_used[entry[r]] = now
    /\ sweeper.now =< now

\* No request works on a pool that was told to quit, unless the process gave up
\* waiting for that request during shutdown: eviction and lookup race on the
\* map, on last_used and on the waiter count.
PoolInUseIsLive ==
    /\ \A r \in Requests :
        entry[r] # 0 /\ ~forced => fate[entry[r]] = "live"
    /\ TouchedWhileEntered

\* A live pool is the one in the map, where the next request, the next eviction
\* and shutdown will find it: connections are never leaked by losing an entry.
\* While an evicted pool quits, at most one successor is built.
NoOrphanPool ==
    /\ \A e \in EntryId : fate[e] = "live" => pools = e
    /\ Cardinality({e \in EntryId : fate[e] \in {"live", "quitting"}}) =< 2

\* The map never leads to a pool that was told to quit, and a quitting pool is
\* awaited by the one task, maintenance or main, that removed it.
EntriesAccounted ==
    /\ built + Cardinality({r \in Requests : pc[r] = "arrived"})
          =< MaxBuilds + Cardinality(Requests)
    /\ \A e \in EntryId : fate[e] = "unbuilt" <=> e > built
    /\ pools # 0 => fate[pools] = "live"
    /\ \A e \in EntryId : fate[e] = "quitting" =>
          (sweeper.at = "quitting" /\ sweeper.entry = e) \/ phase = "quitting"
    /\ \A e, f \in EntryId : fate[e] = "quitting" /\ fate[f] = "quitting" => e = f
    /\ sweeper.at = "quitting" => sweeper.entry # 0 /\ fate[sweeper.entry] = "quitting"

\* main closes the pools after it has joined the maintenance task, and, unless
\* the drain was cut short, when no request can build another.
PhasesInOrder ==
    /\ sweeper.at = "stopped" <=> phase \in {"closing", "quitting", "exited"}
    /\ forced => phase \notin {"serving", "draining"}
    /\ phase \notin {"serving", "draining"} /\ ~forced => InFlight = {}
    /\ phase \in {"quitting", "exited"} /\ ~forced => pools = 0

\* When the requests drained in time, every pool ever built has quit by the time
\* main returns.
CleanExit ==
    phase = "exited" /\ ~forced => \A e \in EntryId : fate[e] \in {"unbuilt", "gone"}

\* No pool is lost, neither to a second build of it nor to the exit.
NoPoolLeftBehind ==
    TypeOK /\ NoOrphanPool /\ EntriesAccounted /\ PhasesInOrder /\ CleanExit

\* A stop signal is always followed by the exit, whatever requests and the
\* maintenance task are doing.
ShutdownCompletes == phase = "draining" ~> phase = "exited"
=============================================================================
