------------------------- MODULE PoolManagerProofs -------------------------
(***************************************************************************)
(* The life of the pools, for any finite number of requests, any idle time *)
(* and any number of builds.                                               *)
(***************************************************************************)
EXTENDS PoolManager, FiniteSetTheorems, TLAPS

Arrived == {r \in Requests : pc[r] = "arrived"}
Last == MaxBuilds + Cardinality(Requests)

BuildsBounded == built + Cardinality(Arrived) =< Last

\* EntriesAccounted without the count, and the first half of NoOrphanPool.
EntriesKept ==
    /\ \A e \in EntryId : fate[e] = "unbuilt" <=> e > built
    /\ pools # 0 => fate[pools] = "live"
    /\ \A e \in EntryId : fate[e] = "live" => pools = e
    /\ \A e \in EntryId : fate[e] = "quitting" =>
          (sweeper.at = "quitting" /\ sweeper.entry = e) \/ phase = "quitting"
    /\ \A e, f \in EntryId : fate[e] = "quitting" /\ fate[f] = "quitting" => e = f
    /\ sweeper.at = "quitting" => sweeper.entry # 0 /\ fate[sweeper.entry] = "quitting"

Inv == /\ TypeOK /\ BuildsBounded /\ EntriesKept
       /\ PhasesInOrder /\ CleanExit /\ PoolInUseIsLive

LEMMA Counts ==
    /\ Cardinality(Requests) \in Nat /\ Last \in Nat /\ EntryId = 1 .. Last
    /\ IsFiniteSet(Arrived) /\ Cardinality(Arrived) \in Nat
    /\ Cardinality(Arrived) =< Cardinality(Requests)
<1>1. IsFiniteSet(Requests) /\ Arrived \subseteq Requests
  BY PoolManagerBounds DEF Arrived
<1>2. Cardinality(Requests) \in Nat
  BY <1>1, FS_CardinalityType
<1>3. IsFiniteSet(Arrived) /\ Cardinality(Arrived) =< Cardinality(Requests)
  BY <1>1, FS_Subset
<1>4. Cardinality(Arrived) \in Nat
  BY <1>3, FS_CardinalityType
<1>. QED BY <1>2, <1>3, <1>4, PoolManagerBounds DEF Last, EntryId

\* A live or quitting pool is the one in the map or the one being awaited.
LEMMA AtMostTwo == EntriesKept => Cardinality({e \in EntryId : fate[e] \in {"live", "quitting"}}) =< 2
<1>. SUFFICES ASSUME EntriesKept
              PROVE Cardinality({e \in EntryId : fate[e] \in {"live", "quitting"}}) =< 2
  OBVIOUS
<1>. DEFINE S == {e \in EntryId : fate[e] \in {"live", "quitting"}}
<1>1. ASSUME NEW q, S \subseteq {pools, q} PROVE Cardinality(S) =< 2
  <2>1. IsFiniteSet({q}) /\ Cardinality({q}) = 1
    BY FS_Singleton
  <2>2. IsFiniteSet({q} \cup {pools}) /\ Cardinality({q} \cup {pools}) \in {1, 2}
    BY <2>1, FS_AddElement
  <2>3. S \subseteq {q} \cup {pools}
    BY <1>1
  <2>4. IsFiniteSet(S) /\ Cardinality(S) =< Cardinality({q} \cup {pools})
    BY <2>2, <2>3, FS_Subset
  <2>5. Cardinality(S) \in Nat
    BY <2>4, FS_CardinalityType
  <2>. HIDE DEF S
  <2>. QED BY <2>2, <2>4, <2>5
<1>2. CASE \E q \in EntryId : fate[q] = "quitting"
  <2>1. PICK q \in EntryId : fate[q] = "quitting"
    BY <1>2
  <2>2. S \subseteq {pools, q}
    BY <2>1 DEF EntriesKept
  <2>. QED BY <1>1, <2>2
<1>3. CASE ~\E q \in EntryId : fate[q] = "quitting"
  <2>1. S \subseteq {pools, pools}
    BY <1>3 DEF EntriesKept
  <2>. QED BY <1>1, <2>1
<1>. QED BY <1>2, <1>3

LEMMA InvImplies == Inv => PoolInUseIsLive /\ NoPoolLeftBehind
<1>1. Inv => NoOrphanPool
  BY AtMostTwo DEF Inv, EntriesKept, NoOrphanPool
<1>2. Inv => EntriesAccounted
  BY DEF Inv, EntriesKept, BuildsBounded, Arrived, Last, EntriesAccounted
<1>. QED BY <1>1, <1>2 DEF Inv, NoPoolLeftBehind

LEMMA InitInv == Init => Inv
<1>. SUFFICES ASSUME Init PROVE Inv
  OBVIOUS
<1>1. Arrived = {}
  BY DEF Init, Arrived
<1>2. Cardinality(Arrived) = 0
  BY <1>1, FS_EmptySet
<1>3. 0 \in 0 .. MaxNow /\ built = 0
  BY PoolManagerBounds DEF Init
<1>4. BuildsBounded
  BY <1>2, <1>3, Counts DEF BuildsBounded
<1>5. TypeOK
  <2>1. sweeper \in [at : {"sleeping", "sweeping", "quitting", "stopped"},
                     now : 0 .. MaxNow, entry : {0} \cup EntryId]
    BY <1>3 DEF Init, Asleep
  <2>2. built \in 0 .. (MaxBuilds + Cardinality(Requests))
    BY <1>3, Counts DEF Last
  <2>. QED BY <1>3, <2>1, <2>2 DEF Init, TypeOK
<1>6. EntriesKept
  BY Counts DEF Init, EntriesKept, Asleep
<1>7. PhasesInOrder /\ CleanExit
  BY DEF Init, PhasesInOrder, CleanExit, InFlight, Asleep
<1>8. PoolInUseIsLive
  BY <1>3, PoolManagerBounds DEF Init, PoolInUseIsLive, TouchedWhileEntered, Asleep
<1>. QED BY <1>4, <1>5, <1>6, <1>7, <1>8 DEF Inv

\* What a request that changes its stage does to the number of arrived ones.
LEMMA ArrivedSteps ==
    ASSUME TypeOK, NEW r \in Requests, NEW s, pc' = [pc EXCEPT ![r] = s]
    PROVE  /\ Cardinality(Arrived') \in Nat
           /\ Cardinality(Arrived') =< Cardinality(Requests)
           /\ pc[r] = "arrived" /\ s # "arrived" =>
                 Cardinality(Arrived') = Cardinality(Arrived) - 1
           /\ pc[r] # "arrived" /\ s # "arrived" => Cardinality(Arrived') = Cardinality(Arrived)
<1>0. IsFiniteSet(Requests) /\ Arrived' \subseteq Requests
  BY PoolManagerBounds DEF Arrived
<1>1. IsFiniteSet(Arrived') /\ Cardinality(Arrived') =< Cardinality(Requests)
  BY <1>0, FS_Subset
<1>2. Cardinality(Arrived') \in Nat
  BY <1>1, FS_CardinalityType
<1>3. ASSUME pc[r] = "arrived", s # "arrived"
      PROVE  Cardinality(Arrived') = Cardinality(Arrived) - 1
  <2>1. Arrived' = Arrived \ {r} /\ r \in Arrived
    BY <1>3 DEF TypeOK, Arrived
  <2>2. Cardinality(Arrived \ {r}) = Cardinality(Arrived) - 1
    BY <2>1, Counts, FS_RemoveElement
  <2>. QED BY <2>1, <2>2
<1>4. ASSUME pc[r] # "arrived", s # "arrived"
      PROVE  Cardinality(Arrived') = Cardinality(Arrived)
  <2>1. Arrived' = Arrived
    BY <1>4 DEF TypeOK, Arrived
  <2>. QED BY <2>1
<1>. QED BY <1>1, <1>2, <1>3, <1>4

LEMMA ArriveInv ==
    ASSUME Inv, NEW r \in Requests, Arrive(r)
    PROVE  Inv'
<1>1. TypeOK'
  BY DEF Inv, TypeOK, Arrive
<1>2. BuildsBounded'
  <2>1. pc' = [pc EXCEPT ![r] = "arrived"] /\ TypeOK
    BY DEF Arrive, Inv
  <2>2. Cardinality(Arrived') \in Nat /\ Cardinality(Arrived') =< Cardinality(Requests)
    BY <2>1, ArrivedSteps
  <2>3. built' = built /\ built < MaxBuilds /\ built \in Nat /\ Last' = Last
    BY Counts DEF Arrive, Inv, TypeOK, Last
  <2>4. built + Cardinality(Arrived') =< MaxBuilds + Cardinality(Requests)
    BY <2>2, <2>3, Counts, PoolManagerBounds
  <2>. QED BY <2>3, <2>4 DEF BuildsBounded, Last
<1>3. EntriesKept' /\ CleanExit'
  BY DEF Inv, EntriesKept, CleanExit, Arrive
<1>4. PhasesInOrder'
  BY DEF Inv, PhasesInOrder, Arrive
<1>5. PoolInUseIsLive'
  BY DEF Inv, PoolInUseIsLive, TouchedWhileEntered, Arrive, TypeOK
<1>. QED BY <1>1, <1>2, <1>3, <1>4, <1>5 DEF Inv

LEMMA LookupInv ==
    ASSUME Inv, NEW r \in Requests, Lookup(r)
    PROVE  Inv'
<1>0. /\ pc[r] = "arrived" /\ pools \in EntryId /\ fate[pools] = "live" /\ pc \in [Requests -> {"idle", "arrived", "entered", "using"}]
      /\ pc' = [pc EXCEPT ![r] = "entered"] /\ entry' = [entry EXCEPT ![r] = pools]
      /\ last_used' = [last_used EXCEPT ![pools] = now]
      /\ UNCHANGED <<now, pools, built, fate, sweeper, phase, forced>>
  BY DEF Inv, TypeOK, EntriesKept, Lookup
<1>1. TypeOK'
  BY <1>0 DEF Inv, TypeOK
<1>2. BuildsBounded'
  <2>0. pc' = [pc EXCEPT ![r] = "entered"] /\ pc[r] = "arrived" /\ "entered" # "arrived"
        /\ TypeOK
    BY <1>0 DEF Inv
  <2>1. Cardinality(Arrived') = Cardinality(Arrived) - 1
    BY <2>0, ArrivedSteps
  <2>2. built \in Nat /\ Last' = Last
    BY Counts DEF Inv, TypeOK, Last
  <2>. QED BY <1>0, <2>1, <2>2, Counts DEF BuildsBounded, Inv
<1>3. EntriesKept' /\ CleanExit'
  BY <1>0 DEF Inv, EntriesKept, CleanExit
<1>4. PhasesInOrder'
  BY <1>0 DEF Inv, PhasesInOrder, InFlight
<1>5. PoolInUseIsLive'
  <2>0. 0 \notin EntryId
    BY Counts
  <2>1. \A q \in Requests : entry'[q] # 0 /\ ~forced' => fate'[entry'[q]] = "live"
    BY <1>0 DEF Inv, TypeOK, PoolInUseIsLive
  <2>2. \A q \in Requests : entry'[q] # 0 <=> pc'[q] \in {"entered", "using"}
    BY <1>0, <2>0 DEF Inv, TypeOK, PoolInUseIsLive, TouchedWhileEntered
  <2>3. \A q \in Requests : pc'[q] = "entered" => last_used'[entry'[q]] = now'
    <3>1. \A q \in Requests : pc[q] = "entered" => entry[q] \in EntryId /\ last_used[entry[q]] = now
      BY DEF Inv, TypeOK, PoolInUseIsLive, TouchedWhileEntered
    <3>2. \A e \in EntryId : last_used'[e] = IF e = pools THEN now ELSE last_used[e]
      BY <1>0 DEF Inv, TypeOK
    <3>. QED BY <1>0, <3>1, <3>2 DEF Inv, TypeOK
  <2>. QED BY <1>0, <2>1, <2>2, <2>3 DEF Inv, PoolInUseIsLive, TouchedWhileEntered
<1>. QED BY <1>1, <1>2, <1>3, <1>4, <1>5 DEF Inv

LEMMA BuildInv ==
    ASSUME Inv, NEW r \in Requests, Build(r)
    PROVE  Inv'
<1>. DEFINE n == built + 1
<1>0. /\ pc[r] = "arrived" /\ pools = 0
      /\ pc' = [pc EXCEPT ![r] = "entered"] /\ entry' = [entry EXCEPT ![r] = n]
      /\ built' = n /\ pools' = n /\ fate' = [fate EXCEPT ![n] = "live"]
      /\ last_used' = [last_used EXCEPT ![n] = now]
      /\ UNCHANGED <<now, sweeper, phase, forced>>
  BY DEF Build
<1>1. /\ Cardinality(Arrived') = Cardinality(Arrived) - 1
      /\ Cardinality(Arrived') \in Nat /\ Cardinality(Arrived) \in Nat
  <2>0. pc' = [pc EXCEPT ![r] = "entered"] /\ pc[r] = "arrived" /\ "entered" # "arrived"
        /\ TypeOK
    BY <1>0 DEF Inv
  <2>1. Cardinality(Arrived') = Cardinality(Arrived) - 1
    BY <2>0, ArrivedSteps
  <2>2. Cardinality(Arrived') \in Nat
    BY <2>0, ArrivedSteps
  <2>. QED BY <2>1, <2>2, Counts
<1>1a. built \in Nat /\ Last \in Nat /\ Last' = Last
  BY Counts DEF Inv, TypeOK, Last
<1>2. n =< Last /\ n \in 1 .. Last /\ BuildsBounded'
  BY <1>0, <1>1, <1>1a DEF Inv, BuildsBounded
<1>3. n \in EntryId /\ n # 0 /\ n \in 0 .. (MaxBuilds + Cardinality(Requests))
  BY <1>1a, <1>2, Counts DEF Last
<1>4. \A e \in EntryId : e \in Nat /\ (e > n <=> e > built /\ e # n)
  BY <1>1a, Counts
<1>5. fate[n] = "unbuilt"
  BY <1>1a, <1>3 DEF Inv, EntriesKept
<1>. HIDE DEF n
<1>6. TypeOK'
  BY <1>0, <1>3 DEF Inv, TypeOK
<1>7. /\ fate'[n] = "live" /\ \A e \in EntryId : e # n => fate'[e] = fate[e]
      /\ entry'[r] = n /\ \A q \in Requests : q # r => entry'[q] = entry[q] /\ pc'[q] = pc[q]
      /\ pc'[r] = "entered"
      /\ last_used'[n] = now /\ \A e \in EntryId : e # n => last_used'[e] = last_used[e]
  BY <1>0, <1>3 DEF Inv, TypeOK
<1>8. EntriesKept'
  <2>1. \A e \in EntryId : fate'[e] = "unbuilt" <=> e > built'
    BY <1>0, <1>3, <1>4, <1>7, Counts DEF Inv, EntriesKept
  <2>2. \A e \in EntryId : fate'[e] = "live" => pools' = e
    BY <1>0, <1>7, Counts DEF Inv, EntriesKept
  <2>3. \A e \in EntryId : fate'[e] = "quitting" => e # n /\ fate[e] = "quitting"
    BY <1>7
  <2>4. sweeper.at = "quitting" => sweeper.entry \in EntryId /\ sweeper.entry # n
    BY <1>5 DEF Inv, TypeOK, EntriesKept
  <2>. QED BY <1>0, <1>7, <2>1, <2>2, <2>3, <2>4 DEF Inv, EntriesKept
<1>9. PhasesInOrder' /\ CleanExit'
  <2>1. phase \notin {"serving", "draining"} => forced
    BY <1>0 DEF Inv, PhasesInOrder, InFlight
  <2>. QED BY <1>0, <2>1 DEF Inv, PhasesInOrder, CleanExit
<1>10. PoolInUseIsLive'
  <2>1. \A q \in Requests : entry'[q] # 0 /\ ~forced' => fate'[entry'[q]] = "live"
    <3>1. \A q \in Requests : entry[q] # 0 => entry[q] \in EntryId
      BY DEF Inv, TypeOK
    <3>2. \A q \in Requests : entry[q] # 0 /\ ~forced => entry[q] # n
      BY <1>5 DEF Inv, PoolInUseIsLive
    <3>. QED BY <1>0, <1>7, <3>1, <3>2 DEF Inv, PoolInUseIsLive
  <2>2. \A q \in Requests : entry'[q] # 0 <=> pc'[q] \in {"entered", "using"}
    BY <1>3, <1>7 DEF Inv, PoolInUseIsLive, TouchedWhileEntered
  <2>3. \A q \in Requests : pc'[q] = "entered" => last_used'[entry'[q]] = now'
    <3>1. \A q \in Requests : pc[q] = "entered" => entry[q] \in EntryId /\ last_used[entry[q]] = now
      BY DEF Inv, TypeOK, PoolInUseIsLive, TouchedWhileEntered
    <3>. QED BY <1>0, <1>7, <3>1
  <2>. QED BY <1>0, <2>1, <2>2, <2>3 DEF Inv, PoolInUseIsLive, TouchedWhileEntered
<1>. QED BY <1>2, <1>6, <1>8, <1>9, <1>10 DEF Inv

\* The steps of a request that leave the pools alone.
LEMMA LaterStepsInv ==
    ASSUME Inv, NEW r \in Requests, Shed(r) \/ Enqueue(r) \/ Finish(r)
    PROVE  Inv'
<1>0. /\ pc[r] \in {"entered", "using"}
      /\ \/ pc' = [pc EXCEPT ![r] = "idle"] /\ entry' = [entry EXCEPT ![r] = 0]
         \/ pc' = [pc EXCEPT ![r] = "using"] /\ entry' = entry
      /\ UNCHANGED <<now, pools, built, fate, last_used, sweeper, phase, forced>>
  BY DEF Shed, Enqueue, Finish
<1>1. TypeOK'
  BY <1>0 DEF Inv, TypeOK
<1>2. BuildsBounded'
  <2>1. Cardinality(Arrived') = Cardinality(Arrived)
    BY <1>0, ArrivedSteps DEF Inv
  <2>. QED BY <1>0, <2>1 DEF BuildsBounded, Inv, Last
<1>3. EntriesKept' /\ CleanExit'
  BY <1>0 DEF Inv, EntriesKept, CleanExit
<1>4. PhasesInOrder'
  <2>1. r \in InFlight
    BY <1>0 DEF InFlight
  <2>. QED BY <1>0, <2>1 DEF Inv, PhasesInOrder
<1>5. PoolInUseIsLive'
  BY <1>0 DEF Inv, PoolInUseIsLive, TouchedWhileEntered, TypeOK
<1>. QED BY <1>1, <1>2, <1>3, <1>4, <1>5 DEF Inv

\* The steps of the maintenance task and of main leave the requests alone.
LEMMA RequestsLeftAlone ==
    ASSUME Inv, UNCHANGED <<built, pc>> PROVE BuildsBounded'
BY DEF Inv, BuildsBounded, Arrived, Last

LEMMA SweepInv ==
    ASSUME Inv, SweepStart \/ SweepSkip \/ SweepQuit
    PROVE  Inv'
<1>0. UNCHANGED <<now, pools, built, last_used, pc, entry, phase, forced>>
  BY DEF SweepStart, SweepSkip, SweepQuit
<1>1. BuildsBounded'
  BY <1>0, RequestsLeftAlone
<1>2. now \in Nat /\ 0 \in 0 .. MaxNow
  BY PoolManagerBounds DEF Inv, TypeOK
<1>3. CASE SweepStart \/ SweepSkip
  <2>1. /\ fate' = fate /\ sweeper.at \in {"sleeping", "sweeping"}
        /\ sweeper'.at \in {"sleeping", "sweeping"}
        /\ sweeper'.now =< now /\ sweeper'.now \in 0 .. MaxNow
        /\ sweeper' \in [at : {"sleeping", "sweeping", "quitting", "stopped"},
                         now : 0 .. MaxNow, entry : {0} \cup EntryId]
    BY <1>2, <1>3 DEF SweepStart, SweepSkip, Asleep, Inv, TypeOK
  <2>2. TypeOK'
    BY <1>0, <2>1 DEF Inv, TypeOK
  <2>3. EntriesKept' /\ CleanExit'
    BY <1>0, <2>1 DEF Inv, EntriesKept, CleanExit
  <2>4. PhasesInOrder'
    BY <1>0, <2>1 DEF Inv, PhasesInOrder, InFlight
  <2>5. PoolInUseIsLive'
    BY <1>0, <2>1 DEF Inv, PoolInUseIsLive, TouchedWhileEntered
  <2>. QED BY <1>1, <2>2, <2>3, <2>4, <2>5 DEF Inv
<1>4. CASE SweepQuit
  <2>. DEFINE e == sweeper.entry
  <2>1. /\ e \in EntryId /\ fate[e] = "quitting" /\ sweeper.at = "quitting"
        /\ phase \notin {"closing", "quitting", "exited"}
        /\ fate' = [fate EXCEPT ![e] = "gone"]
        /\ sweeper'.at = "sleeping" /\ sweeper'.now = 0
        /\ sweeper' \in [at : {"sleeping", "sweeping", "quitting", "stopped"},
                         now : 0 .. MaxNow, entry : {0} \cup EntryId]
    BY <1>2, <1>4 DEF SweepQuit, Asleep, Inv, TypeOK, EntriesKept, PhasesInOrder
  <2>2. fate'[e] = "gone" /\ \A f \in EntryId : f # e => fate'[f] = fate[f]
    BY <2>1 DEF Inv, TypeOK
  <2>3. TypeOK'
    BY <1>0, <2>1 DEF Inv, TypeOK
  <2>4. \A f \in EntryId : fate'[f] # "quitting"
    BY <2>1, <2>2 DEF Inv, EntriesKept
  <2>5. EntriesKept'
    BY <1>0, <2>1, <2>2, <2>4 DEF Inv, TypeOK, EntriesKept
  <2>6. CleanExit' /\ PhasesInOrder'
    BY <1>0, <2>1 DEF Inv, PhasesInOrder, InFlight, CleanExit
  <2>7. PoolInUseIsLive'
    <3>1. \A r \in Requests : entry[r] # 0 /\ ~forced => entry[r] \in EntryId /\ entry[r] # e
      BY <2>1 DEF Inv, TypeOK, PoolInUseIsLive
    <3>. QED BY <1>0, <1>2, <2>1, <2>2, <3>1 DEF Inv, PoolInUseIsLive, TouchedWhileEntered
  <2>. QED BY <1>1, <2>3, <2>5, <2>6, <2>7 DEF Inv
<1>. QED BY <1>3, <1>4

\* The race of evict_idle with get_or_build: whoever has entered touched the
\* entry after the pass read its clock, whoever uses it is counted.
LEMMA SweepEvictInv ==
    ASSUME Inv, SweepEvict
    PROVE  Inv'
<1>. DEFINE e == pools
<1>0. /\ UNCHANGED <<now, built, last_used, pc, entry, phase, forced>>
      /\ sweeper.at = "sweeping" /\ e \in EntryId /\ fate[e] = "live"
      /\ fate' = [fate EXCEPT ![e] = "quitting"] /\ pools' = 0
      /\ sweeper' = [at |-> "quitting", now |-> 0, entry |-> e]
      /\ phase \notin {"closing", "quitting", "exited"}
  BY DEF SweepEvict, Inv, TypeOK, EntriesKept, PhasesInOrder
<1>1. now \in Nat /\ 0 \in 0 .. MaxNow /\ e # 0
  BY PoolManagerBounds DEF Inv, TypeOK, SweepEvict
<1>2. fate'[e] = "quitting" /\ \A f \in EntryId : f # e => fate'[f] = fate[f]
  BY <1>0 DEF Inv, TypeOK
<1>3. TypeOK'
  BY <1>0, <1>1 DEF Inv, TypeOK
<1>4. BuildsBounded'
  BY <1>0, RequestsLeftAlone
<1>5. EntriesKept'
  <2>1. \A f \in EntryId : fate[f] # "quitting"
    BY <1>0 DEF Inv, EntriesKept
  <2>. QED BY <1>0, <1>1, <1>2, <2>1 DEF Inv, EntriesKept
<1>6. CleanExit' /\ PhasesInOrder'
  BY <1>0 DEF Inv, PhasesInOrder, InFlight, CleanExit
<1>7. \A r \in Requests : entry[r] # e
  <2>. SUFFICES ASSUME NEW r \in Requests, entry[r] = e PROVE FALSE
    OBVIOUS
  <2>1. pc[r] \in {"entered", "using"}
    BY <1>1 DEF Inv, PoolInUseIsLive, TouchedWhileEntered
  <2>2. pc[r] # "using"
    BY DEF SweepEvict, Evictable, Unused
  <2>3. last_used[e] = now /\ sweeper.now =< now
    BY <2>1, <2>2 DEF Inv, PoolInUseIsLive, TouchedWhileEntered
  <2>4. sweeper.now > last_used[e] + IdleSecs
    BY DEF SweepEvict, Evictable, Idle
  <2>5. sweeper.now \in Nat /\ IdleSecs \in Nat
    BY PoolManagerBounds DEF Inv, TypeOK
  <2>. QED BY <1>1, <2>3, <2>4, <2>5
<1>8. PoolInUseIsLive'
  <2>1. \A r \in Requests : entry[r] # 0 => entry[r] \in EntryId
    BY DEF Inv, TypeOK
  <2>. QED BY <1>0, <1>1, <1>2, <1>7, <2>1 DEF Inv, PoolInUseIsLive, TouchedWhileEntered
<1>. QED BY <1>3, <1>4, <1>5, <1>6, <1>8 DEF Inv

LEMMA DrainInv ==
    ASSUME Inv, Signal \/ Drained \/ DrainDeadline
    PROVE  Inv'
<1>0. /\ UNCHANGED <<now, pools, built, fate, last_used, pc, entry, sweeper>>
      /\ phase \in {"serving", "draining"} /\ forced = FALSE
      /\ \/ phase' = "draining" /\ forced' = forced
         \/ phase' = "stopping" /\ forced' = forced /\ InFlight = {}
         \/ phase' = "stopping" /\ forced' = TRUE
  BY DEF Signal, Drained, DrainDeadline, Inv, TypeOK, PhasesInOrder
<1>1. TypeOK' /\ BuildsBounded'
  BY <1>0, RequestsLeftAlone DEF Inv, TypeOK
<1>2. EntriesKept' /\ CleanExit'
  BY <1>0 DEF Inv, EntriesKept, CleanExit
<1>3. PhasesInOrder'
  BY <1>0 DEF Inv, PhasesInOrder, InFlight
<1>4. PoolInUseIsLive'
  BY <1>0 DEF Inv, PoolInUseIsLive, TouchedWhileEntered
<1>. QED BY <1>1, <1>2, <1>3, <1>4 DEF Inv

LEMMA MaintenanceStopsInv ==
    ASSUME Inv, MaintenanceStops
    PROVE  Inv'
<1>0. /\ UNCHANGED <<now, pools, built, fate, last_used, pc, entry, forced>>
      /\ phase = "stopping" /\ phase' = "closing" /\ sweeper.at = "sleeping"
      /\ sweeper' = [at |-> "stopped", now |-> 0, entry |-> 0]
      /\ now \in Nat /\ 0 \in 0 .. MaxNow
  BY PoolManagerBounds DEF MaintenanceStops, Asleep, Inv, TypeOK
<1>1. TypeOK' /\ BuildsBounded'
  BY <1>0, RequestsLeftAlone DEF Inv, TypeOK
<1>2. EntriesKept' /\ CleanExit'
  BY <1>0 DEF Inv, EntriesKept, CleanExit
<1>3. PhasesInOrder'
  BY <1>0 DEF Inv, PhasesInOrder, InFlight
<1>4. PoolInUseIsLive'
  BY <1>0 DEF Inv, PoolInUseIsLive, TouchedWhileEntered
<1>. QED BY <1>1, <1>2, <1>3, <1>4 DEF Inv

LEMMA ClosePoolInv ==
    ASSUME Inv, ClosePool
    PROVE  Inv'
<1>. DEFINE e == pools
<1>0. /\ UNCHANGED <<now, built, last_used, pc, entry, sweeper, forced>>
      /\ phase = "closing" /\ phase' = "quitting" /\ e \in EntryId /\ fate[e] = "live"
      /\ fate' = [fate EXCEPT ![e] = "quitting"] /\ pools' = 0 /\ e # 0
      /\ sweeper.at = "stopped"
  BY DEF ClosePool, Inv, TypeOK, EntriesKept, PhasesInOrder
<1>1. fate'[e] = "quitting" /\ \A f \in EntryId : f # e => fate'[f] = fate[f]
  BY <1>0 DEF Inv, TypeOK
<1>2. TypeOK' /\ BuildsBounded'
  BY <1>0, RequestsLeftAlone DEF Inv, TypeOK
<1>3. EntriesKept'
  <2>1. \A f \in EntryId : fate[f] # "quitting"
    BY <1>0 DEF Inv, EntriesKept
  <2>. QED BY <1>0, <1>1, <2>1 DEF Inv, EntriesKept
<1>4. PhasesInOrder' /\ CleanExit'
  BY <1>0 DEF Inv, PhasesInOrder, InFlight, CleanExit
<1>5. PoolInUseIsLive'
  <2>1. ~forced => \A r \in Requests : entry[r] = 0
    BY <1>0 DEF Inv, TypeOK, PhasesInOrder, InFlight, PoolInUseIsLive, TouchedWhileEntered
  <2>. QED BY <1>0, <2>1 DEF Inv, PoolInUseIsLive, TouchedWhileEntered
<1>. QED BY <1>2, <1>3, <1>4, <1>5 DEF Inv

LEMMA ExitInv ==
    ASSUME Inv, Exit
    PROVE  Inv'
<1>0. /\ UNCHANGED <<now, pools, built, last_used, pc, entry, sweeper, forced>>
      /\ phase \in {"closing", "quitting"} /\ phase' = "exited"
      /\ phase = "closing" => pools = 0
      /\ \A e \in EntryId : fate'[e] = IF fate[e] = "quitting" THEN "gone" ELSE fate[e]
      /\ sweeper.at = "stopped" /\ (~forced => pools = 0)
  BY DEF Exit, Inv, PhasesInOrder
<1>1. TypeOK' /\ BuildsBounded'
  <2>1. fate' \in [EntryId -> {"unbuilt", "live", "quitting", "gone"}]
    BY DEF Exit, Inv, TypeOK
  <2>. QED BY <1>0, <2>1, RequestsLeftAlone DEF Inv, TypeOK
<1>2. EntriesKept'
  BY <1>0 DEF Inv, TypeOK, EntriesKept
<1>3. CleanExit'
  <2>1. \A e \in EntryId : e # 0
    BY Counts
  <2>. QED BY <1>0, <2>1 DEF Inv, TypeOK, EntriesKept, CleanExit
<1>4. PhasesInOrder'
  BY <1>0 DEF Inv, PhasesInOrder, InFlight
<1>5. PoolInUseIsLive'
  BY <1>0 DEF Inv, TypeOK, PoolInUseIsLive, TouchedWhileEntered
<1>. QED BY <1>1, <1>2, <1>3, <1>4, <1>5 DEF Inv

LEMMA TickInv ==
    ASSUME Inv, Tick
    PROVE  Inv'
<1>0. /\ UNCHANGED <<pools, built, fate, last_used, pc, entry, sweeper, phase, forced>>
      /\ now' = now + 1 /\ now < MaxNow /\ now \in 0 .. MaxNow /\ MaxNow \in Nat
      /\ \A r \in Requests : pc[r] # "entered"
      /\ sweeper.now \in Nat /\ sweeper.now =< now
  BY PoolManagerBounds DEF Tick, Inv, TypeOK, PoolInUseIsLive, TouchedWhileEntered
<1>1. now' \in 0 .. MaxNow /\ sweeper.now =< now'
  BY <1>0
<1>2. TypeOK' /\ BuildsBounded'
  BY <1>0, <1>1, RequestsLeftAlone DEF Inv, TypeOK
<1>3. EntriesKept' /\ CleanExit' /\ PhasesInOrder'
  BY <1>0 DEF Inv, EntriesKept, CleanExit, PhasesInOrder, InFlight
<1>4. PoolInUseIsLive'
  BY <1>0, <1>1 DEF Inv, PoolInUseIsLive, TouchedWhileEntered
<1>. QED BY <1>2, <1>3, <1>4 DEF Inv

LEMMA NextInv == Inv /\ [Next]_vars => Inv'
<1>. SUFFICES ASSUME Inv, [Next]_vars PROVE Inv'
  OBVIOUS
<1>1. ASSUME UNCHANGED vars PROVE Inv'
  BY <1>1 DEF vars, Inv, TypeOK, BuildsBounded, Arrived, Last, EntriesKept, PhasesInOrder,
              InFlight, CleanExit, PoolInUseIsLive, TouchedWhileEntered
<1>. QED BY <1>1, ArriveInv, LookupInv, BuildInv, LaterStepsInv, SweepInv, SweepEvictInv,
            DrainInv, MaintenanceStopsInv, ClosePoolInv, ExitInv, TickInv
         DEF Next, RequestStep, SweepStep, ShutdownStep

\* evict_idle against get_or_build: no request holds a pool that was told to
\* quit, unless shutdown gave up waiting for that request.  Eviction is safe
\* because last_used covers a request until the waiter count does.
THEOREM PoolsInUseStayLive == Spec => []PoolInUseIsLive
BY InitInv, NextInv, InvImplies, PTL DEF Spec

\* get_or_build, evict_idle, PoolManager::shutdown: a live pool is always the
\* one in the map, at most one predecessor is still quitting, and after a clean
\* drain nothing is left when main returns.
THEOREM NoPoolIsLeftBehind == Spec => []NoPoolLeftBehind
BY InitInv, NextInv, InvImplies, PTL DEF Spec
=============================================================================
