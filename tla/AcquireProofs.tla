--------------------------- MODULE AcquireProofs ---------------------------
(***************************************************************************)
(* Pool acquisition for any finite number of requests, any pool and queue  *)
(* size and any breaker configuration.  The proof has two halves: what the *)
(* pool keeps (queue slots, permits, clients), and what requests owe the   *)
(* breaker; the second then gives the refinement of CircuitBreaker.        *)
(***************************************************************************)
EXTENDS Acquire, FiniteSetTheorems, TLAPS

USE BreakerConfig, PoolConfig

(***************************************************************************)
(* What the breaker's methods make of a well-typed value, as far as        *)
(* requests can tell: the era either stays or a new one begins.            *)
(***************************************************************************)
SameEra(b, c) ==
    c.state = b.state /\ c.opened_ago = b.opened_ago /\ c.generation = b.generation

ProbeOf(b, p) == p.probe /\ Live(b, p) /\ b.state = "HalfOpen"
CallOf(b, p) == ~p.probe /\ Live(b, p) /\ b.state = "Closed"

AnyPermit == BreakerPermit \cup {NoPermit}

\* Breaker::record: a live probe decides, a live call may trip the breaker, and
\* anything else is of no consequence to others.
LEMMA RecordedEras ==
    ASSUME NEW b \in Inner, NEW p \in AnyPermit, NEW failed \in BOOLEAN
    PROVE  LET c == Recorded(b, p, failed) IN
           /\ c \in Inner
           /\ \/ SameEra(b, c) /\ ~ProbeOf(b, p)
              \/ /\ CallOf(b, p) \/ ProbeOf(b, p)
                 /\ c.state = "Open" /\ c.opened_ago = 0
                 /\ c.generation = b.generation + 1
              \/ /\ ProbeOf(b, p)
                 /\ c.state = "Closed" /\ c.opened_ago = NotOpened
                 /\ c.generation = b.generation + 1
<1> DEFINE c == Recorded(b, p, failed)
<1>1. /\ b.state \in BreakerState /\ b.consecutive_failures \in Nat /\ b.generation \in Nat
      /\ b.opened_ago \in {NotOpened} \cup (0 .. Cooldown)
  BY DEF Inner
<1>2. \A d \in Inner : Opened(d) \in Inner
  BY DEF Opened, Transition, Inner, BreakerState, BreakerConfig
<1>3. CASE ProbeOf(b, p)
  <2>1. c = ProbeRecorded(b, failed)
    BY <1>3 DEF ProbeOf, Recorded
  <2>2. Transition(b, "Closed", 0, NotOpened) \in Inner
    BY <1>1 DEF Transition, Inner, BreakerState
  <2>. QED BY <1>2, <1>3, <2>1, <2>2 DEF ProbeRecorded, Opened, Transition
<1>4. CASE CallOf(b, p)
  <2>1. c = CallRecorded(b, failed)
    BY <1>4 DEF CallOf, Recorded
  <2>2. /\ Counted(b) \in Inner
        /\ SameEra(b, Counted(b))
        /\ SameEra(b, [b EXCEPT !.consecutive_failures = 0])
        /\ [b EXCEPT !.consecutive_failures = 0] \in Inner
    BY <1>1 DEF Counted, SameEra, Inner
  <2>3. /\ Opened(Counted(b)) \in Inner
        /\ Opened(Counted(b)).state = "Open" /\ Opened(Counted(b)).opened_ago = 0
        /\ Opened(Counted(b)).generation = b.generation + 1
    BY <1>2, <2>2 DEF Opened, Transition, SameEra
  <2>4. ~ProbeOf(b, p)
    BY <1>4 DEF CallOf, ProbeOf
  <2>. QED BY <1>4, <2>1, <2>2, <2>3, <2>4 DEF CallRecorded
<1>5. CASE ~ProbeOf(b, p) /\ ~CallOf(b, p)
  BY <1>5 DEF Recorded, SameEra, ProbeOf, CallOf
<1>. QED BY <1>3, <1>4, <1>5

\* Breaker::cancel: only a live probe matters, and it reopens the breaker with
\* the instant it was opened at.
LEMMA CancelledEras ==
    ASSUME NEW b \in Inner, NEW p \in AnyPermit
    PROVE  LET c == Cancelled(b, p) IN
           /\ c \in Inner
           /\ \/ SameEra(b, c) /\ ~ProbeOf(b, p)
              \/ /\ ProbeOf(b, p)
                 /\ c.state = "Open" /\ c.opened_ago = b.opened_ago
                 /\ c.generation = b.generation + 1
BY DEF Cancelled, SameEra, ProbeOf, Transition, Inner, BreakerState

\* One tick ages a tripped breaker until its cooldown is over.
LEMMA AgedEras ==
    ASSUME NEW b \in Inner
    PROVE  /\ Aged(b) \in Inner
           /\ Aged(b).state = b.state /\ Aged(b).generation = b.generation
           /\ Aged(b).opened_ago = IF b.opened_ago \in 0 .. (Cooldown - 1)
                                   THEN b.opened_ago + 1 ELSE b.opened_ago
BY DEF Aged, Inner, BreakerConfig

\* Breaker::admit: a closed breaker stays as it is, an open one begins the era
\* of its probe.
LEMMA AdmittedEras ==
    ASSUME NEW b \in Inner, Admits(b)
    PROVE  /\ Admitted(b) \in Inner
           /\ AdmittedPermit(b) \in BreakerPermit
           /\ AdmittedPermit(b).generation = Admitted(b).generation
           /\ Admitted(b).opened_ago = b.opened_ago
           /\ \/ /\ b.state = "Closed" /\ Admitted(b) = b /\ ~AdmittedPermit(b).probe
              \/ /\ b.state = "Open" /\ b.opened_ago = Cooldown
                 /\ Admitted(b).state = "HalfOpen"
                 /\ Admitted(b).generation = b.generation + 1
                 /\ AdmittedPermit(b).probe
<1>1. /\ b.opened_ago \in {-1} \cup (0 .. Cooldown) /\ b.generation \in Nat
      /\ Cooldown \in Nat \ {0} /\ b.state \in BreakerState
  BY DEF Inner, NotOpened, BreakerConfig
<1>2. CASE b.state = "Closed"
  BY <1>1, <1>2 DEF Admitted, AdmittedPermit, BreakerPermit
<1>3. CASE b.state # "Closed"
  <2>1. b.state = "Open" /\ b.opened_ago = Cooldown
    BY <1>1, <1>3 DEF Admits, Elapsed, NotOpened
  <2>. QED BY <1>1, <2>1
           DEF Admitted, AdmittedPermit, Transition, BreakerPermit, Inner, BreakerState
<1>. QED BY <1>2, <1>3

-----------------------------------------------------------------------------
(***************************************************************************)
(* The first half: counting requests by their stage.                       *)
(***************************************************************************)

\* The requests in a set of stages are finitely many, and a request that goes
\* from one stage to another changes their number by what it leaves and enters.
LEMMA AtMoves ==
    ASSUME NEW S, pc \in [Requests -> Stage], NEW r \in Requests, NEW x,
           pc' = [pc EXCEPT ![r] = x]
    PROVE  /\ Cardinality(At(S)) \in Nat /\ Cardinality(At(S))' \in Nat
           /\ pc[r] \in S /\ x \notin S => Cardinality(At(S))' = Cardinality(At(S)) - 1
           /\ pc[r] \notin S /\ x \in S => Cardinality(At(S))' = Cardinality(At(S)) + 1
           /\ (pc[r] \in S <=> x \in S) => Cardinality(At(S))' = Cardinality(At(S))
<1>1. At(S) \in SUBSET Requests /\ IsFiniteSet(Requests)
  BY DEF At, PoolConfig
<1>2. IsFiniteSet(At(S))
  BY <1>1, FS_Subset
<1>3. Cardinality(At(S)) \in Nat
  BY <1>2, FS_CardinalityType
<1>4. /\ At(S)' = IF x \in S THEN At(S) \cup {r} ELSE At(S) \ {r}
      /\ r \in At(S) <=> pc[r] \in S
  BY DEF At
<1>5. /\ IsFiniteSet(At(S) \cup {r})
      /\ Cardinality(At(S) \cup {r}) =
            IF r \in At(S) THEN Cardinality(At(S)) ELSE Cardinality(At(S)) + 1
      /\ IsFiniteSet(At(S) \ {r})
      /\ Cardinality(At(S) \ {r}) =
            IF r \in At(S) THEN Cardinality(At(S)) - 1 ELSE Cardinality(At(S))
  BY <1>2, FS_AddElement, FS_RemoveElement
<1>6. IsFiniteSet(At(S)')
  BY <1>4, <1>5
<1>7. Cardinality(At(S)') \in Nat
  BY <1>6, FS_CardinalityType
<1>. QED BY <1>3, <1>4, <1>5, <1>7

\* The part of NothingLeaks that is inductive by itself.
PoolInv == TypeOK /\ WaitersCounted /\ PermitsConserved /\ OneClientEach

\* A fresh pool: an empty queue, all permits, all clients free.
LEMMA InitPoolInv == Init => PoolInv
<1> SUFFICES ASSUME Init PROVE PoolInv
  OBVIOUS
<1>1. Queued = {} /\ PermitHolders = {} /\ Leasing = {}
  BY DEF Init, Queued, PermitHolders, Leasing, At
<1>2. Cardinality(Queued) = 0 /\ Cardinality(PermitHolders) = 0
  BY <1>1, FS_EmptySet
<1>3. TypeOK
  BY DEF Init, TypeOK, NewBreaker, Inner, BreakerState, NotOpened, NoScan, Client, Stage,
         PoolConfig
<1>4. WaitersCounted /\ PermitsConserved
  BY <1>2 DEF Init, WaitersCounted, PermitsConserved, PoolConfig
<1>5. OneClientEach
  BY <1>1 DEF Init, OneClientEach
<1>. QED BY <1>3, <1>4, <1>5 DEF PoolInv

\* The parts of the state that neither count nor lend anything.
RestOK ==
    /\ breaker \in Inner
    /\ admission \in [Requests -> AnyPermit]
    /\ next_client \in Client
    /\ scan \in [Requests -> [start : Client, offset : 0 .. MaxConnections]]

\* A step that keeps the accounts: the waiter count follows the queue, the
\* permits go to and come from their holders.
LEMMA AccountsKept ==
    ASSUME PoolInv, NEW r \in Requests, NEW x \in Stage, pc' = [pc EXCEPT ![r] = x],
           RestOK', OneClientEach',
           lease' \in [Client -> Requests \cup {Free}],
           waiters' =< MaxWaiters, permits' >= 0,
           waiters' = waiters + Cardinality(Queued)' - Cardinality(Queued),
           permits' = permits + Cardinality(PermitHolders) - Cardinality(PermitHolders)'
    PROVE  PoolInv'
<1>1. /\ pc \in [Requests -> Stage] /\ waiters \in 0 .. MaxWaiters
      /\ permits \in 0 .. MaxConnections
      /\ waiters = Cardinality(Queued)
      /\ permits + Cardinality(PermitHolders) = MaxConnections
      /\ MaxConnections \in Nat /\ MaxWaiters \in Nat
  BY DEF PoolInv, TypeOK, WaitersCounted, PermitsConserved, PoolConfig
<1>2. /\ Cardinality(Queued) \in Nat /\ Cardinality(Queued)' \in Nat
      /\ Cardinality(PermitHolders) \in Nat /\ Cardinality(PermitHolders)' \in Nat
  BY <1>1, AtMoves DEF Queued, PermitHolders
<1>3. WaitersCounted' /\ PermitsConserved'
  BY <1>1, <1>2 DEF WaitersCounted, PermitsConserved, PoolConfig
<1>4. waiters' \in 0 .. MaxWaiters /\ permits' \in 0 .. MaxConnections
  BY <1>1, <1>2, <1>3 DEF WaitersCounted, PermitsConserved, PoolConfig
<1>5. pc' \in [Requests -> Stage]
  BY <1>1
<1>. QED BY <1>3, <1>4, <1>5 DEF PoolInv, TypeOK, RestOK, AnyPermit

\* The stages in the queue, and those with a permit.
Q == {"waiting", "granted"}
P == {"granted", "scanning", "lease_wait", "executing", "releasing"}

\* AtMoves for the queue and for the permits.
LEMMA CountMoves ==
    ASSUME pc \in [Requests -> Stage], NEW r \in Requests, NEW x \in Stage,
           pc' = [pc EXCEPT ![r] = x]
    PROVE  /\ Cardinality(Queued) \in Nat /\ Cardinality(PermitHolders) \in Nat
           /\ pc[r] \in Q /\ x \notin Q => Cardinality(Queued)' = Cardinality(Queued) - 1
           /\ pc[r] \notin Q /\ x \in Q => Cardinality(Queued)' = Cardinality(Queued) + 1
           /\ (pc[r] \in Q <=> x \in Q) => Cardinality(Queued)' = Cardinality(Queued)
           /\ pc[r] \in P /\ x \notin P =>
                 Cardinality(PermitHolders)' = Cardinality(PermitHolders) - 1
           /\ pc[r] \notin P /\ x \in P =>
                 Cardinality(PermitHolders)' = Cardinality(PermitHolders) + 1
           /\ (pc[r] \in P <=> x \in P) =>
                 Cardinality(PermitHolders)' = Cardinality(PermitHolders)
<1>1. Queued = At(Q) /\ PermitHolders = At(P)
  BY DEF Queued, PermitHolders, Q, P
<1>2. Queued' = At(Q)' /\ PermitHolders' = At(P)'
  BY DEF Queued, PermitHolders, Q, P, At
<1>. QED BY <1>1, <1>2, AtMoves

\* Leases that nobody touches stay in order while r keeps or lacks its own.
LEMMA LeasesKept ==
    ASSUME PoolInv, NEW r \in Requests, NEW x \in Stage, pc' = [pc EXCEPT ![r] = x],
           pc[r] \in {"executing", "releasing", "unleasing"}
              <=> x \in {"executing", "releasing", "unleasing"},
           lease' = lease
    PROVE  OneClientEach' /\ lease' \in [Client -> Requests \cup {Free}]
<1>1. Leasing' = Leasing
  BY DEF Leasing, At, PoolInv, TypeOK
<1>. QED BY <1>1 DEF PoolInv, OneClientEach, TypeOK

\* acquire_client: r takes a client that is free.
LEMMA LeaseTaken ==
    ASSUME PoolInv, NEW r \in Requests, NEW c \in Client,
           pc[r] \notin {"executing", "releasing", "unleasing"}, lease[c] = Free,
           pc' = [pc EXCEPT ![r] = "executing"], lease' = [lease EXCEPT ![c] = r]
    PROVE  OneClientEach' /\ lease' \in [Client -> Requests \cup {Free}]
<1>1. /\ lease \in [Client -> Requests \cup {Free}]
      /\ Free # r
      /\ \A d \in Client : lease[d] # Free => lease[d] \in Leasing
      /\ \A s \in Leasing : \E d \in Client : lease[d] = s
      /\ \A d, e \in Client : lease[d] = lease[e] /\ lease[d] # Free => d = e
      /\ Leasing' = Leasing \cup {r} /\ r \notin Leasing
  BY DEF PoolInv, OneClientEach, TypeOK, Leasing, At, PoolConfig
<1>2. lease'[c] = r /\ \A d \in Client \ {c} : lease'[d] = lease[d]
  BY <1>1
<1>3. \A d \in Client : lease[d] # r
  BY <1>1
<1>4. \A d \in Client : lease'[d] # Free => lease'[d] \in Leasing'
  BY <1>1, <1>2
<1>5. \A s \in Leasing' : \E d \in Client : lease'[d] = s
  <2>1. Free \notin Leasing
    BY DEF Leasing, At, PoolConfig
  <2>. QED BY <1>1, <1>2, <2>1
<1>6. \A d, e \in Client : lease'[d] = lease'[e] /\ lease'[d] # Free => d = e
  BY <1>1, <1>2, <1>3
<1>. QED BY <1>1, <1>4, <1>5, <1>6 DEF OneClientEach

\* PoolLease::drop: r gives its client back.
LEMMA LeaseReturned ==
    ASSUME PoolInv, NEW r \in Requests, NEW x \in Stage,
           x \notin {"executing", "releasing", "unleasing"},
           pc' = [pc EXCEPT ![r] = x],
           lease' = [c \in Client |-> IF lease[c] = r THEN Free ELSE lease[c]]
    PROVE  OneClientEach' /\ lease' \in [Client -> Requests \cup {Free}]
<1>1. Leasing' = Leasing \ {r}
  BY DEF PoolInv, TypeOK, Leasing, At
<1>2. lease \in [Client -> Requests \cup {Free}] /\ OneClientEach
  BY DEF PoolInv, TypeOK
<1>3. \A c \in Client : lease'[c] = IF lease[c] = r THEN Free ELSE lease[c]
  BY <1>2
<1>. QED BY <1>1, <1>2, <1>3 DEF OneClientEach

\* The scan only ever tries clients of the pool.
LEMMA ScanInPool ==
    ASSUME TypeOK, NEW r \in Requests
    PROVE  /\ ScanIndex(r) \in Client /\ scan[r].start \in Client
           /\ (next_client + 1) % MaxConnections \in Client
<1>1. /\ scan[r].start \in Client /\ scan[r].offset \in 0 .. MaxConnections
      /\ next_client \in Client /\ MaxConnections \in Nat \ {0}
  BY DEF TypeOK, PoolConfig
<1>2. \A n \in Nat : n % MaxConnections \in 0 .. (MaxConnections - 1)
  BY <1>1
<1>. QED BY <1>1, <1>2 DEF ScanIndex, Client

\* Every step keeps queue slots, permits and clients: one case per action.
LEMMA NextPoolInv == PoolInv /\ [Next]_vars => PoolInv'
<1> SUFFICES ASSUME PoolInv, [Next]_vars PROVE PoolInv'
  OBVIOUS
<1>0. /\ TypeOK /\ RestOK
      /\ pc \in [Requests -> Stage]
      /\ waiters \in 0 .. MaxWaiters /\ permits \in 0 .. MaxConnections
      /\ MaxWaiters \in Nat /\ MaxConnections \in Nat
      /\ NoScan \in [start : Client, offset : 0 .. MaxConnections]
  BY DEF PoolInv, TypeOK, RestOK, AnyPermit, PoolConfig, NoScan, Client
<1>A. ASSUME NEW r \in Requests, NEW x \in Stage, Goto(r, pc[r], x),
             pc[r] \in Q <=> x \in Q, pc[r] \in P <=> x \in P,
             waiters' = waiters, permits' = permits, RestOK',
             OneClientEach', lease' \in [Client -> Requests \cup {Free}]
      PROVE  PoolInv'
  <2>1. pc' = [pc EXCEPT ![r] = x]
    BY <1>A DEF Goto
  <2>2. /\ Cardinality(Queued)' = Cardinality(Queued)
        /\ Cardinality(PermitHolders)' = Cardinality(PermitHolders)
    BY <1>0, <1>A, <2>1, CountMoves
  <2>3. Cardinality(Queued) \in Nat /\ Cardinality(PermitHolders) \in Nat
    BY <1>0, <2>1, CountMoves
  <2>9. /\ waiters' =< MaxWaiters /\ permits' >= 0
        /\ waiters' = waiters + Cardinality(Queued)' - Cardinality(Queued)
        /\ permits' = permits + Cardinality(PermitHolders) - Cardinality(PermitHolders)'
    BY <1>0, <1>A, <2>2, <2>3
  <2>. QED BY <1>A, <2>1, <2>9, AccountsKept
<1>1. ASSUME NEW r \in Requests, Admit(r) PROVE PoolInv'
  <2>1. RestOK'
    BY <1>0, <1>1, AdmittedEras DEF Admit, RestOK, AnyPermit
  <2>2. OneClientEach' /\ lease' \in [Client -> Requests \cup {Free}]
    BY <1>1, LeasesKept DEF Admit, Goto, Stage
  <2>. QED BY <1>1, <2>1, <2>2, <1>A DEF Admit, Goto, Stage, Q, P
<1>2. ASSUME NEW r \in Requests, Enqueue(r) PROVE PoolInv'
  <2>1. RestOK' /\ waiters' = waiters + 1 /\ permits' = permits /\ waiters < MaxWaiters
        /\ pc' = [pc EXCEPT ![r] = "waiting"] /\ pc[r] = "admitted" /\ "waiting" \in Stage
    BY <1>0, <1>2 DEF Enqueue, RestOK, Goto, Stage
  <2>2. OneClientEach' /\ lease' \in [Client -> Requests \cup {Free}]
    BY <1>2, <2>1, LeasesKept DEF Enqueue
  <2>3. /\ Cardinality(Queued)' = Cardinality(Queued) + 1
        /\ Cardinality(PermitHolders)' = Cardinality(PermitHolders)
        /\ Cardinality(Queued) \in Nat /\ Cardinality(PermitHolders) \in Nat
    BY <1>0, <2>1, CountMoves DEF Q, P
  <2>9. /\ waiters' =< MaxWaiters /\ permits' >= 0
        /\ waiters' = waiters + Cardinality(Queued)' - Cardinality(Queued)
        /\ permits' = permits + Cardinality(PermitHolders) - Cardinality(PermitHolders)'
    BY <1>0, <2>1, <2>3
  <2>. QED BY <2>1, <2>2, <2>9, AccountsKept
<1>3. ASSUME NEW r \in Requests, QueueFull(r) PROVE PoolInv'
  <2>1. RestOK'
    BY <1>0, <1>3, CancelledEras DEF QueueFull, CancelAdmission, RestOK, AnyPermit
  <2>2. OneClientEach' /\ lease' \in [Client -> Requests \cup {Free}]
    BY <1>3, LeasesKept DEF QueueFull, Goto, Stage
  <2>. QED BY <1>3, <2>1, <2>2, <1>A DEF QueueFull, Goto, Stage, Q, P
<1>4. ASSUME NEW r \in Requests, TakePermit(r) PROVE PoolInv'
  <2>1. RestOK' /\ waiters' = waiters /\ permits' = permits - 1 /\ permits > 0
        /\ pc' = [pc EXCEPT ![r] = "granted"] /\ pc[r] = "waiting" /\ "granted" \in Stage
    BY <1>0, <1>4 DEF TakePermit, RestOK, Goto, Stage
  <2>2. OneClientEach' /\ lease' \in [Client -> Requests \cup {Free}]
    BY <1>4, <2>1, LeasesKept DEF TakePermit
  <2>3. /\ Cardinality(Queued)' = Cardinality(Queued)
        /\ Cardinality(PermitHolders)' = Cardinality(PermitHolders) + 1
        /\ Cardinality(Queued) \in Nat /\ Cardinality(PermitHolders) \in Nat
    BY <1>0, <2>1, CountMoves DEF Q, P
  <2>9. /\ waiters' =< MaxWaiters /\ permits' >= 0
        /\ waiters' = waiters + Cardinality(Queued)' - Cardinality(Queued)
        /\ permits' = permits + Cardinality(PermitHolders) - Cardinality(PermitHolders)'
    BY <1>0, <2>1, <2>3
  <2>. QED BY <2>1, <2>2, <2>9, AccountsKept
<1>5. ASSUME NEW r \in Requests, LeaveQueue(r) PROVE PoolInv'
  <2>1. RestOK' /\ waiters' = waiters - 1 /\ permits' = permits
        /\ pc' = [pc EXCEPT ![r] = "unwinding"] /\ pc[r] = "waiting" /\ "unwinding" \in Stage
    BY <1>0, <1>5 DEF LeaveQueue, RestOK, Goto, Stage
  <2>2. OneClientEach' /\ lease' \in [Client -> Requests \cup {Free}]
    BY <1>5, <2>1, LeasesKept DEF LeaveQueue
  <2>3. /\ Cardinality(Queued)' = Cardinality(Queued) - 1
        /\ Cardinality(PermitHolders)' = Cardinality(PermitHolders)
        /\ Cardinality(Queued) \in Nat /\ Cardinality(PermitHolders) \in Nat
    BY <1>0, <2>1, CountMoves DEF Q, P
  <2>9. /\ waiters' =< MaxWaiters /\ permits' >= 0
        /\ waiters' = waiters + Cardinality(Queued)' - Cardinality(Queued)
        /\ permits' = permits + Cardinality(PermitHolders) - Cardinality(PermitHolders)'
    BY <1>0, <2>1, <2>3
  <2>. QED BY <2>1, <2>2, <2>9, AccountsKept
<1>6. ASSUME NEW r \in Requests, Unwind(r) PROVE PoolInv'
  <2>1. RestOK'
    BY <1>0, <1>6, CancelledEras DEF Unwind, CancelAdmission, RestOK, AnyPermit
  <2>2. OneClientEach' /\ lease' \in [Client -> Requests \cup {Free}]
    BY <1>6, LeasesKept DEF Unwind, Goto, Stage
  <2>. QED BY <1>6, <2>1, <2>2, <1>A DEF Unwind, Goto, Stage, Q, P
<1>7. ASSUME NEW r \in Requests, DropWaiter(r) PROVE PoolInv'
  <2>1. /\ waiters' = waiters - 1 /\ permits' = permits
        /\ pc' = [pc EXCEPT ![r] = "scanning"] /\ pc[r] = "granted" /\ "scanning" \in Stage
    BY <1>7 DEF DropWaiter, Goto, Stage
  <2>2. OneClientEach' /\ lease' \in [Client -> Requests \cup {Free}]
    BY <1>7, <2>1, LeasesKept DEF DropWaiter
  <2>3. /\ Cardinality(Queued)' = Cardinality(Queued) - 1
        /\ Cardinality(PermitHolders)' = Cardinality(PermitHolders)
        /\ Cardinality(Queued) \in Nat /\ Cardinality(PermitHolders) \in Nat
    BY <1>0, <2>1, CountMoves DEF Q, P
  <2>4. RestOK'
    BY <1>0, <1>7, ScanInPool DEF DropWaiter, RestOK, TypeOK
  <2>9. /\ waiters' =< MaxWaiters /\ permits' >= 0
        /\ waiters' = waiters + Cardinality(Queued)' - Cardinality(Queued)
        /\ permits' = permits + Cardinality(PermitHolders) - Cardinality(PermitHolders)'
    BY <1>0, <2>1, <2>3
  <2>. QED BY <2>1, <2>2, <2>4, <2>9, AccountsKept
<1>8. ASSUME NEW r \in Requests, TryLease(r) PROVE PoolInv'
  <2>1. ScanIndex(r) \in Client
    BY <1>0, ScanInPool
  <2>2. OneClientEach' /\ lease' \in [Client -> Requests \cup {Free}]
    BY <1>8, <2>1, LeaseTaken DEF TryLease, Goto
  <2>3. RestOK'
    BY <1>0, <1>8 DEF TryLease, RestOK
  <2>. QED BY <1>8, <2>2, <2>3, <1>A DEF TryLease, Goto, Stage, Q, P
<1>9. ASSUME NEW r \in Requests, SkipLease(r) PROVE PoolInv'
  <2>1. /\ UNCHANGED <<breaker, admission, waiters, permits, lease, next_client, pc>>
        /\ scan' = [scan EXCEPT ![r].offset = @ + 1]
        /\ scan[r].offset < MaxConnections
    BY <1>9 DEF SkipLease
  <2>2. scan' \in [Requests -> [start : Client, offset : 0 .. MaxConnections]]
    BY <1>0, <2>1 DEF TypeOK
  <2>. QED BY <2>1, <2>2
           DEF PoolInv, TypeOK, WaitersCounted, PermitsConserved, OneClientEach,
               Queued, PermitHolders, Leasing, At
<1>10. ASSUME NEW r \in Requests, AwaitLease(r) PROVE PoolInv'
  <2>1. RestOK'
    BY <1>0, <1>10 DEF AwaitLease, RestOK
  <2>2. OneClientEach' /\ lease' \in [Client -> Requests \cup {Free}]
    BY <1>10, LeasesKept DEF AwaitLease, Goto, Stage
  <2>. QED BY <1>10, <2>1, <2>2, <1>A DEF AwaitLease, Goto, Stage, Q, P
<1>11. ASSUME NEW r \in Requests, TakeLease(r) PROVE PoolInv'
  <2>1. scan[r].start \in Client
    BY <1>0, ScanInPool
  <2>2. pc[r] \in {"lease_wait", "scanning"} /\ pc' = [pc EXCEPT ![r] = "executing"]
    BY <1>11 DEF TakeLease, Goto
  <2>3. OneClientEach' /\ lease' \in [Client -> Requests \cup {Free}]
    BY <1>11, <2>1, <2>2, LeaseTaken DEF TakeLease
  <2>4. RestOK'
    BY <1>0, <1>11 DEF TakeLease, RestOK
  <2>. QED BY <1>11, <2>2, <2>3, <2>4, <1>A DEF TakeLease, Goto, Stage, Q, P
<1>12. ASSUME NEW r \in Requests, AbandonLease(r) PROVE PoolInv'
  <2>1. RestOK' /\ waiters' = waiters /\ permits' = permits + 1
        /\ pc' = [pc EXCEPT ![r] = "unwinding"] /\ pc[r] = "lease_wait"
        /\ "unwinding" \in Stage
    BY <1>0, <1>12 DEF AbandonLease, RestOK, Goto, Stage
  <2>2. OneClientEach' /\ lease' \in [Client -> Requests \cup {Free}]
    BY <1>12, <2>1, LeasesKept DEF AbandonLease
  <2>3. /\ Cardinality(Queued)' = Cardinality(Queued)
        /\ Cardinality(PermitHolders)' = Cardinality(PermitHolders) - 1
        /\ Cardinality(Queued) \in Nat /\ Cardinality(PermitHolders) \in Nat
    BY <1>0, <2>1, CountMoves DEF Q, P
  <2>9. /\ waiters' =< MaxWaiters /\ permits' >= 0
        /\ waiters' = waiters + Cardinality(Queued)' - Cardinality(Queued)
        /\ permits' = permits + Cardinality(PermitHolders) - Cardinality(PermitHolders)'
    BY <1>0, <2>1, <2>3
  <2>. QED BY <2>1, <2>2, <2>9, AccountsKept
<1>13. ASSUME NEW r \in Requests, NEW failed \in BOOLEAN, Complete(r, failed)
       PROVE  PoolInv'
  <2>1. RestOK'
    BY <1>0, <1>13, RecordedEras DEF Complete, RestOK, AnyPermit
  <2>2. OneClientEach' /\ lease' \in [Client -> Requests \cup {Free}]
    BY <1>13, LeasesKept DEF Complete, Goto, Stage
  <2>. QED BY <1>13, <2>1, <2>2, <1>A DEF Complete, Goto, Stage, Q, P
<1>14. ASSUME NEW r \in Requests, Abort(r) PROVE PoolInv'
  <2>1. RestOK'
    BY <1>0, <1>14, CancelledEras DEF Abort, CancelAdmission, RestOK, AnyPermit
  <2>2. OneClientEach' /\ lease' \in [Client -> Requests \cup {Free}]
    BY <1>14, LeasesKept DEF Abort, Goto, Stage
  <2>. QED BY <1>14, <2>1, <2>2, <1>A DEF Abort, Goto, Stage, Q, P
<1>15. ASSUME NEW r \in Requests, ReleasePermit(r) PROVE PoolInv'
  <2>1. RestOK' /\ waiters' = waiters /\ permits' = permits + 1
        /\ pc' = [pc EXCEPT ![r] = "unleasing"] /\ pc[r] = "releasing"
        /\ "unleasing" \in Stage
    BY <1>0, <1>15 DEF ReleasePermit, RestOK, Goto, Stage
  <2>2. OneClientEach' /\ lease' \in [Client -> Requests \cup {Free}]
    BY <1>15, <2>1, LeasesKept DEF ReleasePermit
  <2>3. /\ Cardinality(Queued)' = Cardinality(Queued)
        /\ Cardinality(PermitHolders)' = Cardinality(PermitHolders) - 1
        /\ Cardinality(Queued) \in Nat /\ Cardinality(PermitHolders) \in Nat
    BY <1>0, <2>1, CountMoves DEF Q, P
  <2>9. /\ waiters' =< MaxWaiters /\ permits' >= 0
        /\ waiters' = waiters + Cardinality(Queued)' - Cardinality(Queued)
        /\ permits' = permits + Cardinality(PermitHolders) - Cardinality(PermitHolders)'
    BY <1>0, <2>1, <2>3
  <2>. QED BY <2>1, <2>2, <2>9, AccountsKept
<1>16. ASSUME NEW r \in Requests, ReleaseLease(r) PROVE PoolInv'
  <2>1. OneClientEach' /\ lease' \in [Client -> Requests \cup {Free}]
    BY <1>16, LeaseReturned DEF ReleaseLease, Goto, Stage
  <2>2. RestOK'
    BY <1>0, <1>16 DEF ReleaseLease, RestOK
  <2>. QED BY <1>16, <2>1, <2>2, <1>A DEF ReleaseLease, Goto, Stage, Q, P
<1>17. CASE Tick
  <2>1. breaker' \in Inner
    BY <1>0, <1>17, AgedEras DEF Tick, RestOK
  <2>. QED BY <1>17, <2>1
           DEF Tick, PoolInv, TypeOK, WaitersCounted, PermitsConserved, OneClientEach,
               Queued, PermitHolders, Leasing, At
<1>18. CASE UNCHANGED vars
  BY <1>18 DEF vars, PoolInv, TypeOK, WaitersCounted, PermitsConserved, OneClientEach,
               Queued, PermitHolders, Leasing, At
<1>. QED BY <1>1, <1>2, <1>3, <1>4, <1>5, <1>6, <1>7, <1>8, <1>9, <1>10, <1>11, <1>12,
            <1>13, <1>14, <1>15, <1>16, <1>17, <1>18 DEF Next, Progress

\* Two groups of stages that do not overlap hold as many requests together as
\* they hold one by one.
LEMMA AtSum ==
    ASSUME NEW S, NEW T, S \cap T = {}
    PROVE  /\ Cardinality(At(S)) \in Nat /\ Cardinality(At(T)) \in Nat
           /\ Cardinality(At(S \cup T)) = Cardinality(At(S)) + Cardinality(At(T))
<1>1. /\ At(S) \in SUBSET Requests /\ At(T) \in SUBSET Requests
      /\ At(S \cup T) = At(S) \cup At(T) /\ At(S) \cap At(T) = {}
      /\ IsFiniteSet(Requests)
  BY DEF At, PoolConfig
<1>2. IsFiniteSet(At(S)) /\ IsFiniteSet(At(T))
  BY <1>1, FS_Subset
<1>3. Cardinality(At(S)) \in Nat /\ Cardinality(At(T)) \in Nat
  BY <1>2, FS_CardinalityType
<1>4. Cardinality(At(S) \cup At(T)) =
         Cardinality(At(S)) + Cardinality(At(T)) - Cardinality(At(S) \cap At(T))
  BY <1>2, FS_Union
<1>5. Cardinality(At(S) \cap At(T)) = 0
  BY <1>1, FS_EmptySet
<1>6. Cardinality(At(S \cup T)) = Cardinality(At(S) \cup At(T))
  BY <1>1
<1>. QED BY <1>3, <1>4, <1>5, <1>6

\* A permit is worth a client: each client that is not free is leased by one
\* request of its own, and permits are only returned by requests about to give
\* their client back.
LEMMA PermitsFindClients == PoolInv => ClientForEveryPermit
<1> SUFFICES ASSUME PoolInv PROVE ClientForEveryPermit
  OBVIOUS
<1> DEFINE F == {c \in Client : lease[c] = Free}
           B == Client \ F
           f == [c \in B |-> lease[c]]
           ER == At({"executing", "releasing"})
           U == At({"unleasing"})
<1>1. /\ IsFiniteSet(Client) /\ Cardinality(Client) = MaxConnections
      /\ MaxConnections \in Nat
  <2>1. /\ IsFiniteSet(0 .. (MaxConnections - 1))
        /\ Cardinality(0 .. (MaxConnections - 1)) =
              IF 0 > MaxConnections - 1 THEN 0 ELSE MaxConnections - 1 - 0 + 1
    BY FS_Interval DEF PoolConfig
  <2>. QED BY <2>1 DEF Client, PoolConfig
<1>2. /\ IsFiniteSet(F) /\ IsFiniteSet(B)
      /\ Cardinality(F) \in Nat /\ Cardinality(B) \in Nat
      /\ Cardinality(F) + Cardinality(B) = MaxConnections
  <2>1. F \in SUBSET Client /\ B \in SUBSET Client /\ F \cup B = Client /\ F \cap B = {}
    OBVIOUS
  <2>2. IsFiniteSet(F) /\ IsFiniteSet(B)
    BY <1>1, <2>1, FS_Subset
  <2>3. Cardinality(F) \in Nat /\ Cardinality(B) \in Nat
    BY <2>2, FS_CardinalityType
  <2>4. Cardinality(F \cup B) = Cardinality(F) + Cardinality(B) - Cardinality(F \cap B)
    BY <2>2, FS_Union
  <2>5. Cardinality(F \cap B) = 0
    BY <2>1, FS_EmptySet
  <2>6. Cardinality(F \cup B) = Cardinality(Client)
    BY <2>1
  <2> HIDE DEF F, B
  <2>. QED BY <1>1, <2>2, <2>3, <2>4, <2>5, <2>6
<1>3. Cardinality(B) =< Cardinality(Leasing)
  <2>1. f \in Injection(B, Leasing)
    BY DEF PoolInv, OneClientEach, Injection, IsInjective
  <2>2. Leasing \in SUBSET Requests /\ IsFiniteSet(Requests)
    BY DEF Leasing, At, PoolConfig
  <2>3. IsFiniteSet(Leasing)
    BY <2>2, FS_Subset
  <2> HIDE DEF f, B
  <2>. QED BY <2>1, <2>3, FS_Injection
<1>4. /\ Cardinality(ER) \in Nat /\ Cardinality(U) \in Nat
      /\ Cardinality(Leasing) = Cardinality(ER) + Cardinality(U)
  <2>1. /\ {"executing", "releasing"} \cap {"unleasing"} = {}
        /\ {"executing", "releasing"} \cup {"unleasing"}
             = {"executing", "releasing", "unleasing"}
    OBVIOUS
  <2>. QED BY <2>1, AtSum DEF Leasing
<1>5. /\ Cardinality(Seeking) \in Nat
      /\ Cardinality(PermitHolders) = Cardinality(Seeking) + Cardinality(ER)
  <2>1. /\ {"granted", "scanning", "lease_wait"} \cap {"executing", "releasing"} = {}
        /\ {"granted", "scanning", "lease_wait"} \cup {"executing", "releasing"}
             = {"granted", "scanning", "lease_wait", "executing", "releasing"}
    OBVIOUS
  <2>. QED BY <2>1, AtSum DEF Seeking, PermitHolders
<1>6. permits + Cardinality(PermitHolders) = MaxConnections /\ permits \in Nat
  BY DEF PoolInv, PermitsConserved, TypeOK, PoolConfig
<1> HIDE DEF F, B, ER, U
<1>7. Cardinality(Seeking) =< Cardinality(F) + Cardinality(U)
  BY <1>1, <1>2, <1>3, <1>4, <1>5, <1>6
<1>. QED BY <1>7 DEF ClientForEveryPermit, F, U

\* acquire_entry, acquire_client, WaiterGuard and PoolLease: on no path is a
\* queue slot, a permit or a client lost or given back twice.
THEOREM AcquireLeaksNothing == Spec => []NothingLeaks
<1>1. PoolInv => NothingLeaks
  BY PermitsFindClients DEF PoolInv, NothingLeaks
<1>. QED BY InitPoolInv, NextPoolInv, <1>1, PTL DEF Spec

-----------------------------------------------------------------------------
(***************************************************************************)
(* The second half: what requests owe the breaker.                         *)
(***************************************************************************)

CarryStages == {"admitted", "waiting", "granted", "scanning", "lease_wait",
                "executing", "unwinding"}

\* Nobody has been admitted to a new breaker.
LEMMA InitAdmissions == Init => AdmissionsAccounted
BY DEF Init, AdmissionsAccounted, ProbeHasOneCarrier, CarriedToTheEnd, AdmissionsFenced,
       AgeFitsState, NewBreaker, NoPermit, NotOpened, LiveProbe, Live, Carrying, At

\* Requests that move on, each with its own admission.
LEMMA AdmissionsKept ==
    ASSUME AdmissionsAccounted, TypeOK, NEW r \in Requests, NEW x \in Stage,
           pc' = [pc EXCEPT ![r] = x], pc[r] \in CarryStages <=> x \in CarryStages,
           UNCHANGED <<breaker, admission>>
    PROVE  AdmissionsAccounted'
<1>1. Carrying' = Carrying
  BY DEF Carrying, At, CarryStages, TypeOK
<1>. QED BY <1>1 DEF AdmissionsAccounted, ProbeHasOneCarrier, CarriedToTheEnd,
                     AdmissionsFenced, AgeFitsState, LiveProbe, Live

\* An admission redeemed without consequence to others.
LEMMA SpentInSameEra ==
    ASSUME AdmissionsAccounted, TypeOK, NEW r \in Requests, NEW x \in Stage,
           pc' = [pc EXCEPT ![r] = x], x \notin CarryStages,
           admission' = [admission EXCEPT ![r] = NoPermit],
           SameEra(breaker, breaker'), ~LiveProbe(r)
    PROVE  AdmissionsAccounted'
<1>1. /\ Carrying' = Carrying \ {r}
      /\ admission'[r] = NoPermit
      /\ \A s \in Requests \ {r} : admission'[s] = admission[s]
      /\ breaker.generation \in Nat
      /\ breaker'.generation = breaker.generation /\ breaker'.state = breaker.state
      /\ breaker'.opened_ago = breaker.opened_ago
      /\ NoPermit.generation = -1
  BY DEF Carrying, At, CarryStages, TypeOK, Inner, SameEra, NoPermit
<1>2. ~LiveProbe(r)' /\ \A s \in Requests \ {r} : LiveProbe(s)' <=> LiveProbe(s)
  BY <1>1 DEF LiveProbe, Live
<1>3. ProbeHasOneCarrier'
  <2>1. breaker'.state = "HalfOpen" => \E s \in Carrying \ {r} : LiveProbe(s)
    BY <1>1 DEF AdmissionsAccounted, ProbeHasOneCarrier
  <2>2. Carrying \subseteq Requests
    BY DEF Carrying, At
  <2>3. \A s, t \in Requests : LiveProbe(s)' /\ LiveProbe(t)' => s = t
    BY <1>2 DEF AdmissionsAccounted, ProbeHasOneCarrier
  <2>4. breaker'.state = "HalfOpen" => \E s \in Carrying' : LiveProbe(s)'
    BY <1>1, <1>2, <2>1, <2>2
  <2>. QED BY <2>3, <2>4 DEF ProbeHasOneCarrier
<1>4. CarriedToTheEnd'
  BY <1>1 DEF AdmissionsAccounted, CarriedToTheEnd
<1>5. AdmissionsFenced' /\ AgeFitsState'
  BY <1>1 DEF AdmissionsAccounted, AdmissionsFenced, AgeFitsState, Live
<1>. QED BY <1>3, <1>4, <1>5 DEF AdmissionsAccounted

\* An admission whose redemption begins a new era, in which no other admission
\* counts.
LEMMA SpentInNewEra ==
    ASSUME AdmissionsAccounted, TypeOK, NEW r \in Requests, NEW x \in Stage,
           pc' = [pc EXCEPT ![r] = x], x \notin CarryStages,
           admission' = [admission EXCEPT ![r] = NoPermit],
           breaker'.generation = breaker.generation + 1,
           \/ breaker'.state = "Open" /\ breaker'.opened_ago # NotOpened
           \/ breaker'.state = "Closed" /\ breaker'.opened_ago = NotOpened
    PROVE  AdmissionsAccounted'
<1>1. /\ Carrying' = Carrying \ {r}
      /\ admission'[r] = NoPermit
      /\ \A s \in Requests \ {r} : admission'[s] = admission[s]
      /\ breaker.generation \in Nat
      /\ NoPermit.generation = -1
  BY DEF Carrying, At, CarryStages, TypeOK, Inner, NoPermit
<1>2. \A s \in Requests : /\ admission'[s].generation < breaker'.generation
                          /\ admission'[s].generation \in Int
  BY <1>1 DEF AdmissionsAccounted, AdmissionsFenced, TypeOK, BreakerPermit, NoPermit
<1>3. breaker'.generation \in Nat
  BY <1>1
<1>4. \A s \in Requests : ~Live(breaker, admission[s])'
  BY <1>2, <1>3 DEF Live
<1>5. ProbeHasOneCarrier'
  BY <1>4 DEF ProbeHasOneCarrier, LiveProbe
<1>6. CarriedToTheEnd'
  BY <1>1 DEF AdmissionsAccounted, CarriedToTheEnd
<1>7. AdmissionsFenced' /\ AgeFitsState'
  BY <1>2, <1>3, <1>4 DEF AdmissionsFenced, AgeFitsState
<1>. QED BY <1>5, <1>6, <1>7 DEF AdmissionsAccounted

\* A live probe is exactly what the breaker's methods take for one.
LEMMA ProbeMeaning ==
    ASSUME AdmissionsAccounted, NEW r \in Requests
    PROVE  LiveProbe(r) <=> ProbeOf(breaker, admission[r])
BY DEF AdmissionsAccounted, AdmissionsFenced, LiveProbe, ProbeOf

\* A guard that is dropped redeems its admission with Breaker::cancel.
LEMMA CancelAccounted ==
    ASSUME AdmissionsAccounted, TypeOK, NEW r \in Requests, NEW x \in Stage,
           pc' = [pc EXCEPT ![r] = x], x \notin CarryStages, CancelAdmission(r)
    PROVE  AdmissionsAccounted'
<1>1. /\ breaker \in Inner /\ admission[r] \in AnyPermit
      /\ breaker' = Cancelled(breaker, admission[r])
      /\ admission' = [admission EXCEPT ![r] = NoPermit]
  BY DEF TypeOK, AnyPermit, CancelAdmission
<1>2. CASE SameEra(breaker, breaker') /\ ~ProbeOf(breaker, admission[r])
  BY <1>1, <1>2, ProbeMeaning, SpentInSameEra
<1>3. CASE /\ ProbeOf(breaker, admission[r])
           /\ breaker'.state = "Open" /\ breaker'.opened_ago = breaker.opened_ago
           /\ breaker'.generation = breaker.generation + 1
  <2>1. breaker'.opened_ago # NotOpened
    BY <1>3 DEF ProbeOf, AdmissionsAccounted, AgeFitsState, NotOpened, BreakerConfig
  <2>. QED BY <1>1, <1>3, <2>1, SpentInNewEra
<1>. QED BY <1>1, <1>2, <1>3, CancelledEras

\* An executor that ends redeems its admission with Breaker::record.
LEMMA CompleteAccounted ==
    ASSUME AdmissionsAccounted, TypeOK, NEW r \in Requests, NEW failed \in BOOLEAN,
           Complete(r, failed)
    PROVE  AdmissionsAccounted'
<1>1. /\ breaker \in Inner /\ admission[r] \in AnyPermit
      /\ breaker' = Recorded(breaker, admission[r], failed)
      /\ admission' = [admission EXCEPT ![r] = NoPermit]
      /\ pc' = [pc EXCEPT ![r] = "releasing"]
      /\ "releasing" \in Stage /\ "releasing" \notin CarryStages
  BY DEF TypeOK, AnyPermit, Complete, Goto, Stage, CarryStages
<1>2. CASE SameEra(breaker, breaker') /\ ~ProbeOf(breaker, admission[r])
  BY <1>1, <1>2, ProbeMeaning, SpentInSameEra
<1>3. CASE /\ breaker'.state = "Open" /\ breaker'.opened_ago = 0
           /\ breaker'.generation = breaker.generation + 1
  <2>1. breaker'.opened_ago # NotOpened
    BY <1>3 DEF NotOpened
  <2>. QED BY <1>1, <1>3, <2>1, SpentInNewEra
<1>4. CASE /\ breaker'.state = "Closed" /\ breaker'.opened_ago = NotOpened
           /\ breaker'.generation = breaker.generation + 1
  BY <1>1, <1>4, SpentInNewEra
<1>. QED BY <1>1, <1>2, <1>3, <1>4, RecordedEras

\* An admitted request carries what the breaker's new state hands out.
LEMMA AdmitAccounted ==
    ASSUME AdmissionsAccounted, TypeOK, NEW r \in Requests, Admit(r)
    PROVE  AdmissionsAccounted'
<1> DEFINE p == AdmittedPermit(breaker)
<1>1. /\ breaker \in Inner /\ Admits(breaker)
      /\ breaker' = Admitted(breaker)
      /\ admission' = [admission EXCEPT ![r] = p]
      /\ pc' = [pc EXCEPT ![r] = "admitted"] /\ pc[r] = "idle"
  BY DEF TypeOK, Admit, Goto
<1>2. /\ p \in BreakerPermit /\ p.generation = breaker'.generation
      /\ breaker'.opened_ago = breaker.opened_ago
      /\ \/ breaker.state = "Closed" /\ breaker' = breaker /\ ~p.probe
         \/ /\ breaker.state = "Open" /\ breaker.opened_ago = Cooldown
            /\ breaker'.state = "HalfOpen"
            /\ breaker'.generation = breaker.generation + 1
            /\ p.probe
  BY <1>1, AdmittedEras
<1> HIDE DEF p
<1>3. /\ Carrying' = Carrying \cup {r} /\ r \notin Carrying
      /\ admission'[r] = p
      /\ \A s \in Requests \ {r} : admission'[s] = admission[s]
      /\ breaker.generation \in Nat
      /\ admission[r] = NoPermit
      /\ p # NoPermit
      /\ Carrying \subseteq Requests
  BY <1>1, <1>2
  DEF Carrying, At, TypeOK, Inner, AdmissionsAccounted, CarriedToTheEnd, BreakerPermit, NoPermit
<1>4. \A s \in Requests : /\ admission[s].generation =< breaker.generation
                          /\ admission[s].generation \in Int
                          /\ LiveProbe(s) => breaker.state = "HalfOpen"
                          /\ Live(breaker, admission[s]) => breaker.state # "Open"
  BY DEF AdmissionsAccounted, AdmissionsFenced, TypeOK, BreakerPermit, NoPermit, LiveProbe
<1>5. CarriedToTheEnd'
  BY <1>3 DEF AdmissionsAccounted, CarriedToTheEnd
<1>6. AgeFitsState'
  BY <1>2 DEF AdmissionsAccounted, AgeFitsState
<1>7. AdmissionsFenced' /\ \A s \in Requests \ {r} : ~LiveProbe(s)'
  BY <1>2, <1>3, <1>4 DEF AdmissionsAccounted, AdmissionsFenced, Live, LiveProbe
<1>8. breaker'.state = "HalfOpen" => LiveProbe(r)'
  BY <1>2, <1>3 DEF Live, LiveProbe
<1>9. ProbeHasOneCarrier'
  BY <1>3, <1>7, <1>8 DEF ProbeHasOneCarrier
<1>. QED BY <1>5, <1>6, <1>7, <1>9 DEF AdmissionsAccounted

\* Time passes for the breaker alone.
LEMMA TickAccounted ==
    ASSUME AdmissionsAccounted, TypeOK, Tick
    PROVE  AdmissionsAccounted'
<1>1. /\ breaker \in Inner /\ breaker' = Aged(breaker) /\ UNCHANGED <<admission, pc>>
      /\ breaker.opened_ago \in {-1} \cup (0 .. Cooldown) /\ Cooldown \in Nat \ {0}
  BY DEF TypeOK, Inner, NotOpened, Tick, BreakerConfig
<1>2. /\ breaker'.state = breaker.state /\ breaker'.generation = breaker.generation
      /\ breaker'.opened_ago = IF breaker.opened_ago \in 0 .. (Cooldown - 1)
                               THEN breaker.opened_ago + 1 ELSE breaker.opened_ago
  BY <1>1, AgedEras
<1>3. AgeFitsState'
  BY <1>1, <1>2 DEF AdmissionsAccounted, AgeFitsState, NotOpened
<1>4. ProbeHasOneCarrier' /\ CarriedToTheEnd' /\ AdmissionsFenced'
  BY <1>1, <1>2 DEF AdmissionsAccounted, ProbeHasOneCarrier, CarriedToTheEnd,
                    AdmissionsFenced, LiveProbe, Live, Carrying, At
<1>. QED BY <1>3, <1>4 DEF AdmissionsAccounted

\* Every step keeps the admissions accounted for: one case per action.
LEMMA NextAdmissions == TypeOK /\ AdmissionsAccounted /\ [Next]_vars => AdmissionsAccounted'
<1> SUFFICES ASSUME TypeOK, AdmissionsAccounted, [Next]_vars PROVE AdmissionsAccounted'
  OBVIOUS
<1>1. ASSUME NEW r \in Requests, Admit(r) PROVE AdmissionsAccounted'
  BY <1>1, AdmitAccounted
<1>2. ASSUME NEW r \in Requests,
             \/ Enqueue(r) \/ TakePermit(r) \/ LeaveQueue(r) \/ DropWaiter(r)
             \/ TryLease(r) \/ AwaitLease(r) \/ TakeLease(r) \/ AbandonLease(r)
             \/ ReleasePermit(r) \/ ReleaseLease(r)
      PROVE  AdmissionsAccounted'
  <2>1. /\ UNCHANGED <<breaker, admission>>
        /\ \E x \in Stage : /\ pc' = [pc EXCEPT ![r] = x]
                            /\ pc[r] \in CarryStages <=> x \in CarryStages
    BY <1>2 DEF Enqueue, TakePermit, LeaveQueue, DropWaiter, TryLease, AwaitLease,
                TakeLease, AbandonLease, ReleasePermit, ReleaseLease, Goto, Stage, CarryStages
  <2>. QED BY <2>1, AdmissionsKept
<1>3. ASSUME NEW r \in Requests, SkipLease(r) PROVE AdmissionsAccounted'
  BY <1>3 DEF SkipLease, AdmissionsAccounted, ProbeHasOneCarrier, CarriedToTheEnd,
              AdmissionsFenced, AgeFitsState, LiveProbe, Live, Carrying, At
<1>4. ASSUME NEW r \in Requests, QueueFull(r) \/ Unwind(r) \/ Abort(r)
      PROVE  AdmissionsAccounted'
  <2>1. /\ CancelAdmission(r)
        /\ \E x \in Stage : pc' = [pc EXCEPT ![r] = x] /\ x \notin CarryStages
    BY <1>4 DEF QueueFull, Unwind, Abort, Goto, Stage, CarryStages
  <2>. QED BY <2>1, CancelAccounted
<1>5. ASSUME NEW r \in Requests, NEW failed \in BOOLEAN, Complete(r, failed)
      PROVE  AdmissionsAccounted'
  BY <1>5, CompleteAccounted
<1>6. CASE Tick
  BY <1>6, TickAccounted
<1>7. CASE UNCHANGED vars
  BY <1>7 DEF vars, AdmissionsAccounted, ProbeHasOneCarrier, CarriedToTheEnd,
              AdmissionsFenced, AgeFitsState, LiveProbe, Live, Carrying, At
<1>. QED BY <1>1, <1>2, <1>3, <1>4, <1>5, <1>6, <1>7 DEF Next, Progress

\* AdmissionGuard and BreakerExecutor: whichever way a request leaves, its
\* admission is redeemed once, and a half-open breaker has one carrier.
THEOREM AdmissionsStayAccounted == Spec => []AdmissionsAccounted
<1>1. NothingLeaks => TypeOK
  BY DEF NothingLeaks
<1>. QED BY AcquireLeaksNothing, InitAdmissions, NextAdmissions, <1>1, PTL DEF Spec

-----------------------------------------------------------------------------
(***************************************************************************)
(* Requests use the breaker as CircuitBreaker expects of its callers.      *)
(***************************************************************************)

\* What a request's admission is worth, and in which state it is worth that.
LEMMA TokenCases ==
    ASSUME TypeOK, AdmissionsAccounted, NEW r \in Requests
    PROVE  /\ TokenOf(r) \in {"none", "stale", "probe", "call"}
           /\ TokenOf(r) = "none" <=> admission[r] = NoPermit
           /\ TokenOf(r) = "probe" <=> ProbeOf(breaker, admission[r])
           /\ TokenOf(r) = "call" => breaker.state = "Closed"
           /\ admission[r] # NoPermit /\ CallOf(breaker, admission[r]) => TokenOf(r) = "call"
<1>1. admission[r] = NoPermit => ~Live(breaker, admission[r]) /\ ~admission[r].probe
  BY DEF TypeOK, Inner, Live, NoPermit
<1>2. Live(breaker, admission[r]) =>
         breaker.state = (IF admission[r].probe THEN "HalfOpen" ELSE "Closed")
  BY DEF AdmissionsAccounted, AdmissionsFenced
<1>. QED BY <1>1, <1>2 DEF TokenOf, ProbeOf, CallOf

\* In the same era an admission that is kept keeps its worth.
LEMMA TokenKept ==
    ASSUME NEW r \in Requests, admission'[r] = admission[r],
           breaker'.generation = breaker.generation
    PROVE  TokenOf(r)' = TokenOf(r)
BY DEF TokenOf, Live

\* In a new era every admission still out is stale.
LEMMA TokenOutdated ==
    ASSUME TypeOK, AdmissionsAccounted, NEW r \in Requests, admission'[r] = admission[r],
           breaker'.generation = breaker.generation + 1
    PROVE  TokenOf(r)' = IF TokenOf(r) = "none" THEN "none" ELSE "stale"
<1>1. /\ admission[r].generation =< breaker.generation
      /\ admission[r].generation \in Int /\ breaker.generation \in Nat
  BY DEF TypeOK, AdmissionsAccounted, AdmissionsFenced, Inner, BreakerPermit, NoPermit
<1>2. ~Live(breaker, admission[r])'
  BY <1>1 DEF Live
<1>3. TokenOf(r) = "none" <=> admission[r] = NoPermit
  BY TokenCases
<1>. QED BY <1>2, <1>3 DEF TokenOf

\* While a probe is out, every other admission is stale already.
LEMMA ProbeIsAlone ==
    ASSUME TypeOK, AdmissionsAccounted, NEW r \in Requests, LiveProbe(r),
           NEW s \in Requests, s # r
    PROVE  TokenOf(s) \in {"none", "stale"}
<1>1. ProbeOf(breaker, admission[r]) /\ ~ProbeOf(breaker, admission[s])
  BY ProbeMeaning DEF AdmissionsAccounted, ProbeHasOneCarrier
<1>. QED BY <1>1, TokenCases DEF ProbeOf

\* An admission redeemed in the same era is a Settle.
LEMMA SameEraSettles ==
    ASSUME TypeOK, AdmissionsAccounted, NEW r \in Requests, admission[r] # NoPermit,
           admission' = [admission EXCEPT ![r] = NoPermit],
           SameEra(breaker, breaker'), ~ProbeOf(breaker, admission[r])
    PROVE  Promise!Next
<1> DEFINE tok == [s \in Requests |-> TokenOf(s)]
<1>1. tok[r] \in {"call", "stale"}
  BY TokenCases
<1>2. /\ admission'[r] = NoPermit
      /\ \A s \in Requests \ {r} : admission'[s] = admission[s]
      /\ breaker'.generation = breaker.generation
  BY DEF TypeOK, SameEra
<1>3. TokenOf(r)' = "none"
  BY <1>2 DEF TokenOf
<1>4. tok' = [tok EXCEPT ![r] = "none"]
  BY <1>2, <1>3, TokenKept
<1>5. Promise!Settle(r)
  BY <1>1, <1>4 DEF Promise!Settle, Promise!Spend, SameEra
<1>. QED BY <1>5 DEF Promise!Next

\* What a new era makes of everybody's tokens.
LEMMA NewEraTokens ==
    ASSUME TypeOK, AdmissionsAccounted, NEW r \in Requests,
           admission' = [admission EXCEPT ![r] = NoPermit],
           breaker'.generation = breaker.generation + 1
    PROVE  [s \in Requests |-> TokenOf(s)]' =
              [s \in Requests |-> IF s = r \/ TokenOf(s) = "none" THEN "none" ELSE "stale"]
<1>1. /\ admission'[r] = NoPermit
      /\ \A s \in Requests \ {r} : admission'[s] = admission[s]
  BY DEF TypeOK
<1>2. TokenOf(r)' = "none"
  BY <1>1 DEF TokenOf
<1>3. \A s \in Requests \ {r} :
          TokenOf(s)' = IF TokenOf(s) = "none" THEN "none" ELSE "stale"
  BY <1>1, TokenOutdated
<1>. QED BY <1>2, <1>3

\* The same for a probe: nobody else had anything to lose.
LEMMA ProbeTokens ==
    ASSUME TypeOK, AdmissionsAccounted, NEW r \in Requests,
           ProbeOf(breaker, admission[r]),
           admission' = [admission EXCEPT ![r] = NoPermit],
           breaker'.generation = breaker.generation + 1
    PROVE  LET tok == [s \in Requests |-> TokenOf(s)] IN
           tok[r] = "probe" /\ tok' = [tok EXCEPT ![r] = "none"]
<1>1. LiveProbe(r) /\ TokenOf(r) = "probe"
  BY ProbeMeaning, TokenCases
<1>2. \A s \in Requests \ {r} : TokenOf(s) \in {"none", "stale"}
  BY <1>1, ProbeIsAlone
<1>. QED BY <1>1, <1>2, NewEraTokens

\* acquire_entry's admission is AdmitCall or AdmitProbe of the promise.
LEMMA AdmitImplements ==
    ASSUME TypeOK, AdmissionsAccounted, NEW r \in Requests, Admit(r)
    PROVE  Promise!Next
<1> DEFINE tok == [s \in Requests |-> TokenOf(s)]
           p == AdmittedPermit(breaker)
<1>1. /\ breaker \in Inner /\ Admits(breaker)
      /\ breaker' = Admitted(breaker)
      /\ admission'[r] = p
      /\ \A s \in Requests \ {r} : admission'[s] = admission[s]
      /\ pc[r] = "idle"
  BY DEF TypeOK, Admit, Goto
<1>2. tok[r] = "none"
  <2>1. admission[r] = NoPermit
    BY <1>1 DEF AdmissionsAccounted, CarriedToTheEnd, Carrying, At
  <2>. QED BY <2>1, TokenCases
<1>3. /\ p \in BreakerPermit /\ p.generation = breaker'.generation
      /\ breaker'.opened_ago = breaker.opened_ago
      /\ \/ breaker.state = "Closed" /\ breaker' = breaker /\ ~p.probe
         \/ /\ breaker.state = "Open" /\ breaker.opened_ago = Cooldown
            /\ breaker'.state = "HalfOpen"
            /\ breaker'.generation = breaker.generation + 1
            /\ p.probe
  BY <1>1, AdmittedEras
<1> HIDE DEF p
<1>4. TokenOf(r)' = IF p.probe THEN "probe" ELSE "call"
  BY <1>1, <1>3 DEF TokenOf, Live, BreakerPermit, NoPermit
<1>5. CASE breaker.state = "Closed"
  <2>1. breaker' = breaker /\ TokenOf(r)' = "call"
    BY <1>3, <1>4, <1>5
  <2>2. tok' = [tok EXCEPT ![r] = "call"]
    BY <1>1, <2>1, TokenKept
  <2>3. Promise!AdmitCall(r)
    BY <1>2, <1>5, <2>1, <2>2 DEF Promise!AdmitCall
  <2>. QED BY <2>3 DEF Promise!Next
<1>6. CASE breaker.state = "Open"
  <2>1. /\ breaker.opened_ago = Cooldown /\ breaker'.opened_ago = breaker.opened_ago
        /\ breaker'.state = "HalfOpen"
        /\ breaker'.generation = breaker.generation + 1
        /\ TokenOf(r)' = "probe"
    BY <1>3, <1>4, <1>6
  <2>2. \A s \in Requests \ {r} : TokenOf(s) \in {"none", "stale"}
    BY <1>6, TokenCases DEF ProbeOf
  <2>3. \A s \in Requests \ {r} : TokenOf(s)' = TokenOf(s)
    BY <1>1, <2>1, <2>2, TokenOutdated
  <2>4. tok' = [tok EXCEPT ![r] = "probe"]
    BY <2>1, <2>3
  <2>5. Promise!AdmitProbe(r)
    BY <1>2, <1>6, <2>1, <2>4 DEF Promise!AdmitProbe
  <2>. QED BY <2>5 DEF Promise!Next
<1>. QED BY <1>3, <1>5, <1>6

\* A dropped guard is ProbeAbandoned or Settle of the promise.
LEMMA CancelImplements ==
    ASSUME TypeOK, AdmissionsAccounted, NEW r \in Requests, pc[r] \in CarryStages,
           CancelAdmission(r)
    PROVE  Promise!Next
<1> DEFINE tok == [s \in Requests |-> TokenOf(s)]
<1>1. /\ breaker \in Inner /\ admission[r] \in AnyPermit
      /\ breaker' = Cancelled(breaker, admission[r])
      /\ admission' = [admission EXCEPT ![r] = NoPermit]
      /\ admission[r] # NoPermit
  BY DEF TypeOK, AnyPermit, CancelAdmission, AdmissionsAccounted, CarriedToTheEnd,
         Carrying, At, CarryStages
<1>2. CASE SameEra(breaker, breaker') /\ ~ProbeOf(breaker, admission[r])
  BY <1>1, <1>2, SameEraSettles
<1>3. CASE /\ ProbeOf(breaker, admission[r])
           /\ breaker'.state = "Open" /\ breaker'.opened_ago = breaker.opened_ago
           /\ breaker'.generation = breaker.generation + 1
  <2>1. tok[r] = "probe" /\ tok' = [tok EXCEPT ![r] = "none"]
    BY <1>1, <1>3, ProbeTokens
  <2>2. Promise!ProbeAbandoned(r)
    BY <1>3, <2>1 DEF Promise!ProbeAbandoned, Promise!Spend
  <2>. QED BY <2>2 DEF Promise!Next
<1>. QED BY <1>1, <1>2, <1>3, CancelledEras

\* A recorded outcome is Settle, Trip, ProbeFails or ProbeSucceeds of the promise.
LEMMA CompleteImplements ==
    ASSUME TypeOK, AdmissionsAccounted, NEW r \in Requests, NEW failed \in BOOLEAN,
           Complete(r, failed)
    PROVE  Promise!Next
<1> DEFINE tok == [s \in Requests |-> TokenOf(s)]
           p == admission[r]
<1>1. /\ breaker \in Inner /\ p \in AnyPermit
      /\ breaker' = Recorded(breaker, p, failed)
      /\ admission' = [admission EXCEPT ![r] = NoPermit]
      /\ p # NoPermit
  BY DEF TypeOK, AnyPermit, Complete, Goto, AdmissionsAccounted, CarriedToTheEnd,
         Carrying, At
<1>2. CASE SameEra(breaker, breaker') /\ ~ProbeOf(breaker, p)
  BY <1>1, <1>2, SameEraSettles
<1>3. CASE /\ CallOf(breaker, p)
           /\ breaker'.state = "Open" /\ breaker'.opened_ago = 0
           /\ breaker'.generation = breaker.generation + 1
  <2>1. tok[r] = "call"
    BY <1>1, <1>3, TokenCases
  <2>2. ~(breaker'.opened_ago = Cooldown)
    BY <1>3 DEF BreakerConfig
  <2>3. Promise!SpendAndRetireOthers(r)
    BY <1>1, <1>3, NewEraTokens DEF Promise!SpendAndRetireOthers
  <2>4. Promise!Trip(r)
    BY <1>3, <2>1, <2>2, <2>3 DEF Promise!Trip
  <2>. QED BY <2>4 DEF Promise!Next
<1>4. CASE /\ ProbeOf(breaker, p)
           /\ breaker'.state = "Open" /\ breaker'.opened_ago = 0
           /\ breaker'.generation = breaker.generation + 1
  <2>1. tok[r] = "probe" /\ tok' = [tok EXCEPT ![r] = "none"]
    BY <1>1, <1>4, ProbeTokens
  <2>2. ~(breaker'.opened_ago = Cooldown)
    BY <1>4 DEF BreakerConfig
  <2>3. Promise!ProbeFails(r)
    BY <1>4, <2>1, <2>2 DEF Promise!ProbeFails, Promise!Spend
  <2>. QED BY <2>3 DEF Promise!Next
<1>5. CASE /\ ProbeOf(breaker, p)
           /\ breaker'.state = "Closed" /\ breaker'.opened_ago = NotOpened
           /\ breaker'.generation = breaker.generation + 1
  <2>1. tok[r] = "probe" /\ tok' = [tok EXCEPT ![r] = "none"]
    BY <1>1, <1>5, ProbeTokens
  <2>2. ~(breaker'.opened_ago = Cooldown)
    BY <1>5 DEF NotOpened, BreakerConfig
  <2>3. Promise!ProbeSucceeds(r)
    BY <1>5, <2>1, <2>2 DEF Promise!ProbeSucceeds, Promise!Spend
  <2>. QED BY <2>3 DEF Promise!Next
<1>. QED BY <1>1, <1>2, <1>3, <1>4, <1>5, RecordedEras

\* The tick that completes the cooldown is CoolDown; all others stutter.
LEMMA TickImplements ==
    ASSUME TypeOK, AdmissionsAccounted, Tick
    PROVE  Promise!Next \/ UNCHANGED Promise!vars
<1>0. breaker \in Inner /\ Cooldown \in Nat \ {0}
  BY DEF TypeOK, BreakerConfig
<1>1. /\ breaker'.state = breaker.state
      /\ breaker'.generation = breaker.generation
      /\ breaker'.opened_ago = IF breaker.opened_ago \in 0 .. (Cooldown - 1)
                               THEN breaker.opened_ago + 1 ELSE breaker.opened_ago
      /\ admission' = admission
  BY <1>0, AgedEras DEF Tick
<1>2. [s \in Requests |-> TokenOf(s)]' = [s \in Requests |-> TokenOf(s)]
  BY <1>1, TokenKept
<1>3. CASE (breaker'.opened_ago = Cooldown) <=> (breaker.opened_ago = Cooldown)
  BY <1>1, <1>2, <1>3 DEF Promise!vars
<1>4. CASE ~((breaker'.opened_ago = Cooldown) <=> (breaker.opened_ago = Cooldown))
  <2>1. /\ breaker.opened_ago \in 0 .. (Cooldown - 1)
        /\ breaker'.opened_ago = Cooldown
        /\ ~(breaker.opened_ago = Cooldown)
    BY <1>0, <1>1, <1>4
  <2>2. breaker.state = "Open"
    BY <1>0, <2>1
    DEF AdmissionsAccounted, AgeFitsState, NotOpened, Inner, BreakerState
  <2>3. Promise!CoolDown
    BY <1>1, <1>2, <2>1, <2>2 DEF Promise!CoolDown
  <2>. QED BY <2>3 DEF Promise!Next
<1>. QED BY <1>3, <1>4

\* acquire_entry with its guards, and BreakerExecutor, are callers as the
\* abstract circuit breaker expects them: they redeem each admission once.
THEOREM AcquireRespectsBreaker == Spec => RequestsRespectBreaker
<1>1. Init => Promise!Init
  BY DEF Init, Promise!Init, NewBreaker, TokenOf, NotOpened, BreakerConfig
<1>2. TypeOK /\ AdmissionsAccounted /\ [Next]_vars => [Promise!Next]_(Promise!vars)
  <2> SUFFICES ASSUME TypeOK, AdmissionsAccounted, [Next]_vars
               PROVE  Promise!Next \/ UNCHANGED Promise!vars
    OBVIOUS
  <2>1. ASSUME NEW r \in Requests, Admit(r) PROVE Promise!Next
    BY <2>1, AdmitImplements
  <2>2. ASSUME UNCHANGED <<breaker, admission>> PROVE UNCHANGED Promise!vars
    BY <2>2 DEF Promise!vars, TokenOf, Live
  <2>3. ASSUME NEW r \in Requests, QueueFull(r) \/ Unwind(r) \/ Abort(r)
        PROVE  Promise!Next
    <3>1. pc[r] \in CarryStages /\ CancelAdmission(r)
      BY <2>3 DEF QueueFull, Unwind, Abort, Goto, CarryStages
    <3>. QED BY <3>1, CancelImplements
  <2>4. ASSUME NEW r \in Requests, NEW failed \in BOOLEAN, Complete(r, failed)
        PROVE  Promise!Next
    BY <2>4, CompleteImplements
  <2>5. CASE Tick
    BY <2>5, TickImplements
  <2>6. ASSUME NEW r \in Requests,
               \/ Enqueue(r) \/ TakePermit(r) \/ LeaveQueue(r) \/ DropWaiter(r)
               \/ TryLease(r) \/ SkipLease(r) \/ AwaitLease(r) \/ TakeLease(r)
               \/ AbandonLease(r) \/ ReleasePermit(r) \/ ReleaseLease(r)
        PROVE  UNCHANGED <<breaker, admission>>
    BY <2>6 DEF Enqueue, TakePermit, LeaveQueue, DropWaiter, TryLease, SkipLease,
                AwaitLease, TakeLease, AbandonLease, ReleasePermit, ReleaseLease
  <2>7. CASE UNCHANGED vars
    BY <2>2, <2>7 DEF vars
  <2>. QED BY <2>1, <2>2, <2>3, <2>4, <2>5, <2>6, <2>7 DEF Next, Progress
<1>3. NothingLeaks => TypeOK
  BY DEF NothingLeaks
<1>. QED BY <1>1, <1>2, <1>3, AcquireLeaksNothing, AdmissionsStayAccounted, PTL
         DEF Spec, RequestsRespectBreaker, Promise!Spec
=============================================================================
