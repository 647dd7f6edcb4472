------------------------------ MODULE Acquire ------------------------------
(***************************************************************************)
(* One built pool (PoolEntry, adapters/pool_manager.rs) under concurrent   *)
(* requests: `acquire_entry`, the executor handle it returns, and the      *)
(* release of everything the request took.  A request passes               *)
(*                                                                         *)
(*   idle -> admitted -> waiting -> granted -> scanning -> [lease_wait]    *)
(*        -> executing -> releasing -> unleasing -> idle                   *)
(*                                                                         *)
(* and each arrow is one atomic step of the code: a breaker method under   *)
(* its mutex, an atomic update of the waiter count, a semaphore or mutex   *)
(* operation.  At every await the handler's future can be dropped (HTTP    *)
(* timeout, client gone); what the guards on its stack then do, in the     *)
(* order Rust drops them, is part of the action that abandons the wait.    *)
(*                                                                         *)
(* A request the breaker refuses goes away without having touched anything *)
(* (the early return of `admit`), so refusal is no action here.  The       *)
(* semaphore and the lease mutexes are tokio's and hand over in FIFO       *)
(* order; the model lets any waiter be next, and FIFO only shows in the    *)
(* strong fairness of TakeLease.                                           *)
(***************************************************************************)
EXTENDS BreakerCore, FiniteSets

CONSTANTS
    Requests,        \* concurrent HTTP requests for this pool
    MaxConnections,  \* pool size: permits, and clients
    MaxWaiters,      \* max_waiters
    MaxGeneration,   \* bound: nobody is admitted from this generation on
    Free             \* the holder of an unlocked lease

\* Config::validate rejects zero for both; max_in_flight bounds the requests.
ASSUME PoolConfig ==
    /\ IsFiniteSet(Requests)
    /\ MaxConnections \in Nat \ {0}
    /\ MaxWaiters \in Nat \ {0}
    /\ MaxGeneration \in Nat
    /\ Free \notin Requests

VARIABLES
    breaker,      \* the pool's breaker
    admission,    \* the breaker permit each request still has to redeem
    waiters,      \* the AtomicUsize waiter count
    permits,      \* available permits of the semaphore
    lease,        \* who holds the lease mutex of each client
    next_client,  \* round-robin counter, modulo the pool size
    pc,           \* where each request is
    scan          \* acquire_client's start index and offset

vars == <<breaker, admission, waiters, permits, lease, next_client, pc, scan>>

Client == 0 .. (MaxConnections - 1)

Stage == {"idle", "admitted", "waiting", "granted", "scanning", "lease_wait",
          "executing", "releasing", "unleasing", "unwinding"}

TypeOK ==
    /\ breaker \in Inner
    /\ admission \in [Requests -> BreakerPermit \cup {NoPermit}]
    /\ waiters \in 0 .. MaxWaiters
    /\ permits \in 0 .. MaxConnections
    /\ lease \in [Client -> Requests \cup {Free}]
    /\ next_client \in Client
    /\ pc \in [Requests -> Stage]
    /\ scan \in [Requests -> [start : Client, offset : 0 .. MaxConnections]]

\* The locals of acquire_client while it is not running.
NoScan == [start |-> 0, offset |-> 0]

Init ==
    /\ breaker = NewBreaker
    /\ admission = [r \in Requests |-> NoPermit]
    /\ waiters = 0
    /\ permits = MaxConnections
    /\ lease = [c \in Client |-> Free]
    /\ next_client = 0
    /\ pc = [r \in Requests |-> "idle"]
    /\ scan = [r \in Requests |-> NoScan]

Goto(r, from, to) == pc[r] = from /\ pc' = [pc EXCEPT ![r] = to]

\* The guard that holds the breaker permit is dropped: AdmissionGuard before
\* the executor exists, BreakerExecutor afterwards.
CancelAdmission(r) ==
    /\ breaker' = Cancelled(breaker, admission[r])
    /\ admission' = [admission EXCEPT ![r] = NoPermit]

-----------------------------------------------------------------------------
(***************************************************************************)
(* acquire_entry.                                                          *)
(***************************************************************************)

Admit(r) ==
    /\ Goto(r, "idle", "admitted")
    /\ breaker.generation < MaxGeneration
    /\ Admits(breaker)
    /\ breaker' = Admitted(breaker)
    /\ admission' = [admission EXCEPT ![r] = AdmittedPermit(breaker)]
    /\ UNCHANGED <<waiters, permits, lease, next_client, scan>>

Enqueue(r) ==
    /\ Goto(r, "admitted", "waiting")
    /\ waiters < MaxWaiters
    /\ waiters' = waiters + 1
    /\ UNCHANGED <<breaker, admission, permits, lease, next_client, scan>>

\* Mutant: the early return forgets the admission.
QueueFullForgetting(r) ==
    /\ Goto(r, "admitted", "idle")
    /\ waiters >= MaxWaiters
    /\ admission' = [admission EXCEPT ![r] = NoPermit]
    /\ UNCHANGED <<breaker, waiters, permits, lease, next_client, scan>>

\* The queue is full: the request is shed and its admission guard dropped.
QueueFull(r) ==
    /\ Goto(r, "admitted", "idle")
    /\ waiters >= MaxWaiters
    /\ CancelAdmission(r)
    /\ UNCHANGED <<waiters, permits, lease, next_client, scan>>

TakePermit(r) ==
    /\ Goto(r, "waiting", "granted")
    /\ permits > 0
    /\ permits' = permits - 1
    /\ UNCHANGED <<breaker, admission, waiters, lease, next_client, scan>>

\* acquire_timeout ran out, or the future was dropped: the waiter guard goes
\* first, the admission guard (in Unwind) second.
LeaveQueue(r) ==
    /\ Goto(r, "waiting", "unwinding")
    /\ waiters' = waiters - 1
    /\ UNCHANGED <<breaker, admission, permits, lease, next_client, scan>>

Unwind(r) ==
    /\ Goto(r, "unwinding", "idle")
    /\ CancelAdmission(r)
    /\ UNCHANGED <<waiters, permits, lease, next_client, scan>>

\* drop(waiter), and the fetch_add that picks where the scan starts.
DropWaiter(r) ==
    /\ Goto(r, "granted", "scanning")
    /\ waiters' = waiters - 1
    /\ next_client' = (next_client + 1) % MaxConnections
    /\ scan' = [scan EXCEPT ![r] = [start |-> next_client, offset |-> 0]]
    /\ UNCHANGED <<breaker, admission, permits, lease>>

\* One try_lock of the scan.
ScanIndex(r) == (scan[r].start + scan[r].offset) % MaxConnections

TryLease(r) ==
    /\ Goto(r, "scanning", "executing")
    /\ scan[r].offset < MaxConnections
    /\ lease[ScanIndex(r)] = Free
    /\ lease' = [lease EXCEPT ![ScanIndex(r)] = r]
    /\ scan' = [scan EXCEPT ![r] = NoScan]
    /\ UNCHANGED <<breaker, admission, waiters, permits, next_client>>

SkipLease(r) ==
    /\ pc[r] = "scanning"
    /\ scan[r].offset < MaxConnections
    /\ lease[ScanIndex(r)] # Free
    /\ scan' = [scan EXCEPT ![r].offset = @ + 1]
    /\ UNCHANGED <<breaker, admission, waiters, permits, lease, next_client, pc>>

\* Every try_lock failed: lock the lease the scan started from, and wait for it
\* unless it was released in the meantime.
AwaitLease(r) ==
    /\ Goto(r, "scanning", "lease_wait")
    /\ scan[r].offset = MaxConnections
    /\ lease[scan[r].start] # Free
    /\ UNCHANGED <<breaker, admission, waiters, permits, lease, next_client, scan>>

TakeLease(r) ==
    /\ \/ Goto(r, "lease_wait", "executing")
       \/ Goto(r, "scanning", "executing") /\ scan[r].offset = MaxConnections
    /\ lease[scan[r].start] = Free
    /\ lease' = [lease EXCEPT ![scan[r].start] = r]
    /\ scan' = [scan EXCEPT ![r] = NoScan]
    /\ UNCHANGED <<breaker, admission, waiters, permits, next_client>>

\* Mutant: the permit is forgotten with the future.
AbandonLeaseAndPermit(r) ==
    /\ Goto(r, "lease_wait", "unwinding")
    /\ scan' = [scan EXCEPT ![r] = NoScan]
    /\ UNCHANGED <<breaker, admission, waiters, permits, lease, next_client>>

\* The future is dropped while it awaits the lease: the semaphore permit goes
\* first, the admission guard second.
AbandonLease(r) ==
    /\ Goto(r, "lease_wait", "unwinding")
    /\ permits' = permits + 1
    /\ scan' = [scan EXCEPT ![r] = NoScan]
    /\ UNCHANGED <<breaker, admission, waiters, lease, next_client>>

-----------------------------------------------------------------------------
(***************************************************************************)
(* The executor handle: BreakerExecutor around the Redis client, then the  *)
(* lease.  PoolLease drops the semaphore permit before the client lease.   *)
(***************************************************************************)

\* Mutant: the outcome is recorded, but the permit not used up.
CompleteKeepingPermit(r, failed) ==
    /\ Goto(r, "executing", "releasing")
    /\ breaker' = Recorded(breaker, admission[r], failed)
    /\ UNCHANGED <<admission, waiters, permits, lease, next_client, scan>>

Complete(r, failed) ==
    /\ Goto(r, "executing", "releasing")
    /\ breaker' = Recorded(breaker, admission[r], failed)
    /\ admission' = [admission EXCEPT ![r] = NoPermit]
    /\ UNCHANGED <<waiters, permits, lease, next_client, scan>>

\* The future is dropped mid-command, before any outcome was recorded.
Abort(r) ==
    /\ Goto(r, "executing", "releasing")
    /\ CancelAdmission(r)
    /\ UNCHANGED <<waiters, permits, lease, next_client, scan>>

ReleasePermit(r) ==
    /\ Goto(r, "releasing", "unleasing")
    /\ permits' = permits + 1
    /\ UNCHANGED <<breaker, admission, waiters, lease, next_client, scan>>

\* Mutant: the lease is never given back.
ReleaseLeaseNever(r) ==
    /\ Goto(r, "unleasing", "idle")
    /\ UNCHANGED <<breaker, admission, waiters, permits, lease, next_client, scan>>

ReleaseLease(r) ==
    /\ Goto(r, "unleasing", "idle")
    /\ lease' = [c \in Client |-> IF lease[c] = r THEN Free ELSE lease[c]]
    /\ UNCHANGED <<breaker, admission, waiters, permits, next_client, scan>>

Tick ==
    /\ breaker' = Aged(breaker)
    /\ UNCHANGED <<admission, waiters, permits, lease, next_client, pc, scan>>

-----------------------------------------------------------------------------
\* The steps a request takes by itself; Abort and AbandonLease are its client's.
Progress(r) ==
    \/ Enqueue(r) \/ QueueFull(r) \/ TakePermit(r) \/ LeaveQueue(r) \/ Unwind(r)
    \/ DropWaiter(r) \/ TryLease(r) \/ SkipLease(r) \/ AwaitLease(r) \/ TakeLease(r)
    \/ \E failed \in BOOLEAN : Complete(r, failed)
    \/ ReleasePermit(r) \/ ReleaseLease(r)

Next ==
    \/ \E r \in Requests : Admit(r) \/ Progress(r) \/ Abort(r) \/ AbandonLease(r)
    \/ Tick

Spec == Init /\ [][Next]_vars

\* Timeouts end every wait and every command; tokio polls woken tasks; a FIFO
\* mutex serves whoever keeps waiting for it.
Fairness == \A r \in Requests : WF_vars(Progress(r)) /\ SF_vars(TakeLease(r))

FairSpec == Spec /\ Fairness

-----------------------------------------------------------------------------
At(stages) == {r \in Requests : pc[r] \in stages}

Queued == At({"waiting", "granted"})
PermitHolders == At({"granted", "scanning", "lease_wait", "executing", "releasing"})
Seeking == At({"granted", "scanning", "lease_wait"})
Leasing == At({"executing", "releasing", "unleasing"})
Carrying == At({"admitted", "waiting", "granted", "scanning", "lease_wait",
                "executing", "unwinding"})

LiveProbe(r) == admission[r].probe /\ Live(breaker, admission[r])

\* A half-open breaker always has exactly one request in flight that will still
\* report on the probe, through AdmissionGuard or through BreakerExecutor.  If
\* the permit fell between the two guards on any path out of acquire_entry, the
\* breaker would refuse this pool's traffic until restart.
ProbeHasOneCarrier ==
    /\ breaker.state = "HalfOpen" => \E r \in Carrying : LiveProbe(r)
    /\ \A r, s \in Requests : LiveProbe(r) /\ LiveProbe(s) => r = s

\* A request has an admission to redeem exactly while one of the two guards is
\* on its stack: it is handed over, never dropped between them or kept.
CarriedToTheEnd == \A r \in Requests : admission[r] # NoPermit <=> r \in Carrying

\* No admission is ahead of the breaker, and one of its generation is of the
\* kind its state hands out.
AdmissionsFenced ==
    \A r \in Requests :
        /\ admission[r].generation =< breaker.generation
        /\ Live(breaker, admission[r]) =>
              breaker.state = IF admission[r].probe THEN "HalfOpen" ELSE "Closed"

\* The instant of the last opening is kept while the breaker is tripped, and a
\* probe is out only after the whole cooldown.
AgeFitsState ==
    /\ breaker.state = "Closed" => breaker.opened_ago = NotOpened
    /\ breaker.state = "Open" => breaker.opened_ago # NotOpened
    /\ breaker.state = "HalfOpen" => breaker.opened_ago = Cooldown

\* The breaker and the requests agree on who has to report what: every way out
\* of acquire_entry and of the executor redeems its admission once.
AdmissionsAccounted ==
    /\ ProbeHasOneCarrier
    /\ CarriedToTheEnd
    /\ AdmissionsFenced
    /\ AgeFitsState

\* The waiter count is the number of requests between the count and the end of
\* their wait, whatever way they leave it: a leaked slot would shrink the queue
\* for ever, a slot returned twice would wrap the counter.
WaitersCounted == waiters = Cardinality(Queued)

\* Semaphore permits are neither lost nor duplicated on any exit path.
PermitsConserved == permits + Cardinality(PermitHolders) = MaxConnections

\* A client is used by one request at a time, and every request that runs
\* commands holds the lease of exactly one client.
OneClientEach ==
    /\ \A c \in Client : lease[c] # Free => lease[c] \in Leasing
    /\ \A r \in Leasing : \E c \in Client : lease[c] = r
    /\ \A c, d \in Client : lease[c] = lease[d] /\ lease[c] # Free => c = d

\* Whoever holds a permit will find a client: the clients that are free, or are
\* about to be freed by a request that already gave its permit back, suffice
\* for all requests still looking for one.  (A permit is returned before its
\* lease, so the free clients alone may not suffice: the scan can come up
\* empty, which is what the await at the end of acquire_client is for.)
ClientForEveryPermit ==
    Cardinality(Seeking) =<
        Cardinality({c \in Client : lease[c] = Free}) + Cardinality(At({"unleasing"}))

\* No request, on whatever path it leaves acquire_entry or its handle, takes a
\* queue slot, a permit or a client with it or gives one back twice, and none
\* is without a client for long.
NothingLeaks ==
    /\ TypeOK
    /\ WaitersCounted
    /\ PermitsConserved
    /\ OneClientEach
    /\ ClientForEveryPermit

\* Every admitted request ends, also when it has to await a lease.
RequestsEnd == \A r \in Requests : pc[r] # "idle" ~> pc[r] = "idle"

-----------------------------------------------------------------------------
TokenOf(r) ==
    IF admission[r] = NoPermit THEN "none"
    ELSE IF ~Live(breaker, admission[r]) THEN "stale"
    ELSE IF admission[r].probe THEN "probe" ELSE "call"

Promise == INSTANCE CircuitBreaker
    WITH Callers <- Requests,
         status <- breaker.state,
         cooled <- (breaker.opened_ago = Cooldown),
         token <- [r \in Requests |-> TokenOf(r)]

\* Requests use the breaker as callers are meant to: every admission is
\* redeemed once, by an outcome or by its cancellation, on every path.
RequestsRespectBreaker == Promise!Spec
=============================================================================
