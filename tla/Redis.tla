------------------------------- MODULE Redis -------------------------------
(***************************************************************************)
(* FredExecutor on the clients of one pool: single commands, pipelines and *)
(* MULTI ... EXEC transactions of requests that hold a client lease, next  *)
(* to readiness PINGs that take no lease.  What keeps two of them apart on *)
(* one connection is the client's operation_lock.                          *)
(*                                                                         *)
(* A connection is its state in Redis: inside MULTI or not, what is queued *)
(* and whether the queue is spoilt.  One raw is one custom_raw call:       *)
(* it is answered, times out in fred, or loses the connection, and the     *)
(* command may have run in the last two cases as well.                     *)
(*                                                                         *)
(* DropsAt are the awaits at which a handler may be dropped (by the HTTP   *)
(* timeout of http/mod.rs, or by hyper when the peer goes away).  fred may *)
(* replace a connection at any time.                                       *)
(*                                                                         *)
(* Of fred it is assumed that commands of one client reach Redis in order, *)
(* that every call ends within default_command_timeout, and that           *)
(* force_reconnection replaces the connection even when its own timeout    *)
(* passes first.                                                           *)
(***************************************************************************)
EXTENDS Naturals, FiniteSets

CONSTANTS
    Requests, Pings, Clients, None,
    Length,      \* bound: the commands of a pipeline and of a transaction
    DropsAt

ASSUME RedisConstants ==
    /\ Length \in Nat \ {0}
    /\ DropsAt \subseteq {"locking", "plain", "multi", "queue", "discard", "exec"}
    /\ Requests \cap Pings = {}
    /\ None \notin Requests \cup Pings \cup Clients

Actors == Requests \cup Pings
Kinds == {"single", "pipeline", "transaction"}

VARIABLES
    at,             \* where each request and each PING is
    kind,           \* what a request executes
    next,           \* the command it is at
    client,         \* the client it uses
    reset_started,  \* has its executor forced a reconnection?
    lease,          \* client_leases: the request that holds each client
    operation_lock, \* client_operations: who runs on each client
    conn,           \* each connection, as Redis sees it
    applied,        \* history: the commands of transactions Redis has run
    replaced,       \* history: requests whose connection was replaced in MULTI
    result,         \* what each request was told
    verdict         \* what readiness() reported for each PING

exec == <<kind, client, replaced>>
vars == <<at, kind, next, client, reset_started, lease, operation_lock, conn,
          applied, replaced, result, verdict>>

Command(r, i) == <<r, i>>
Fresh == [multi |-> FALSE, spoilt |-> FALSE, queue |-> {}]
CommandsOf(r) == {Command(r, i) : i \in 1 .. Length}
Transactions == {r \in Requests : kind[r] = "transaction"}

TypeOK ==
    /\ at \in [Actors -> {"idle", "locking", "plain", "multi", "queue",
                          "discard", "exec", "ping", "done"}]
    /\ kind \in [Requests -> Kinds]
    /\ next \in [Actors -> 1 .. Length]
    /\ client \in [Actors -> Clients \cup {None}]
    /\ reset_started \in [Actors -> BOOLEAN]
    /\ lease \in [Clients -> Requests \cup {None}]
    /\ operation_lock \in [Clients -> Actors \cup {None}]
    /\ conn \in [Clients -> [multi : BOOLEAN, spoilt : BOOLEAN,
                             queue : SUBSET (Actors \X (1 .. Length))]]
    /\ applied \subseteq Actors \X (1 .. Length)
    /\ replaced \subseteq Requests
    /\ result \in [Requests -> {"none", "ok", "error", "dropped"}]
    /\ verdict \in [Pings -> {"none", "ready", "unavailable"}]

Init ==
    /\ at = [a \in Actors |-> "idle"]
    /\ kind \in [Requests -> Kinds]
    /\ next = [a \in Actors |-> 1]
    /\ client = [a \in Actors |-> None]
    /\ reset_started = [a \in Actors |-> FALSE]
    /\ lease = [c \in Clients |-> None]
    /\ operation_lock = [c \in Clients |-> None]
    /\ conn = [c \in Clients |-> Fresh]
    /\ applied = {}
    /\ replaced = {}
    /\ result = [r \in Requests |-> "none"]
    /\ verdict = [p \in Pings |-> "none"]

-----------------------------------------------------------------------------
(***************************************************************************)
(* Redis (external): the answers it may give to a command on a connection, *)
(* each with the connection it leaves and the commands it ran.             *)
(***************************************************************************)

Answer(reply, k, ran) == [reply |-> reply, conn |-> k, ran |-> ran]

Answers(k, name, id) ==
    IF name = "MULTI" THEN
        {Answer("error", k, {})}
        \cup IF k.multi THEN {} ELSE {Answer("OK", [k EXCEPT !.multi = TRUE], {})}
    ELSE IF name = "DISCARD" THEN
        {IF k.multi THEN Answer("OK", Fresh, {}) ELSE Answer("error", k, {})}
    ELSE IF name = "EXEC" THEN
        {IF k.multi /\ ~k.spoilt THEN Answer("array", Fresh, k.queue)
                                 ELSE Answer("error", Fresh, {})}
    ELSE IF k.multi THEN
        {Answer("QUEUED", [k EXCEPT !.queue = @ \cup {id}], {}),
         Answer("error", [k EXCEPT !.spoilt = TRUE], {})}
    ELSE {Answer("value", k, {id}), Answer("error", k, {})}

Recorded(ran) == applied \cup {id \in ran : id[1] \in Transactions}

Replies == {"OK", "QUEUED", "array", "value", "error", "timeout", "transport"}

(***************************************************************************)
(* FredExecutor::raw with map_error: a timeout on a connected client       *)
(* forces a reconnection, once per executor; without it the timed out      *)
(* command still runs before the next one on that connection.              *)
(***************************************************************************)
raw(a, name, reply) ==
    LET c == client[a] IN
    \E answer \in Answers(conn[c], name, Command(a, next[a])) :
        \/ /\ reply = answer.reply
           /\ conn' = [conn EXCEPT ![c] = answer.conn]
           /\ applied' = Recorded(answer.ran)
           /\ UNCHANGED reset_started
        \/ /\ reply = "timeout"
           /\ ~reset_started[a]
           /\ reset_started' = [reset_started EXCEPT ![a] = TRUE]
           /\ conn' = [conn EXCEPT ![c] = Fresh]
           /\ applied' \in {applied, Recorded(answer.ran)}
        \/ /\ reply = "timeout"
           /\ reset_started[a]
           /\ conn' = [conn EXCEPT ![c] = answer.conn]
           /\ applied' = Recorded(answer.ran)
           /\ UNCHANGED reset_started
        \/ /\ reply = "transport"
           /\ conn' = [conn EXCEPT ![c] = Fresh]
           /\ applied' \in {applied, Recorded(answer.ran)}
           /\ UNCHANGED reset_started

More(r) == next[r] < Length

\* Mutant: a command that timed out counts as queued.
QueuedOrTimeout(reply) == reply \in {"QUEUED", "timeout"}

Queued(reply) == reply = "QUEUED"

Go(a, stage, i) ==
    /\ at' = [at EXCEPT ![a] = stage]
    /\ next' = [next EXCEPT ![a] = i]
    /\ UNCHANGED <<lease, operation_lock, result, verdict>>

\* The guard of the operation lock, then the lease, go out of scope.
Release(a) ==
    /\ at' = [at EXCEPT ![a] = "done"]
    /\ operation_lock' = [c \in Clients |->
            IF operation_lock[c] = a THEN None ELSE operation_lock[c]]
    /\ lease' = [c \in Clients |-> IF lease[c] = a THEN None ELSE lease[c]]
    /\ next' = [next EXCEPT ![a] = 1]

Return(r, what) ==
    /\ Release(r)
    /\ result' = [result EXCEPT ![r] = what]
    /\ UNCHANGED verdict

-----------------------------------------------------------------------------
\* from_pooled_client: a new executor on a client the request has leased.
FromPooledClient(r, c) ==
    /\ at[r] = "idle"
    /\ lease[c] = None
    /\ lease' = [lease EXCEPT ![c] = r]
    /\ client' = [client EXCEPT ![r] = c]
    /\ at' = [at EXCEPT ![r] = "locking"]
    /\ UNCHANGED <<kind, next, reset_started, operation_lock, conn, applied, replaced,
                   result, verdict>>

\* Mutant: a PING does not wait for the operation lock.
LockOrPing(a) ==
    /\ at[a] = "locking"
    /\ a \in Requests => operation_lock[client[a]] = None
    /\ operation_lock' = IF a \in Requests THEN [operation_lock EXCEPT ![client[a]] = a]
                         ELSE operation_lock
    /\ at' = [at EXCEPT ![a] =
            IF a \in Pings THEN "ping"
            ELSE IF kind[a] = "transaction" THEN "multi" ELSE "plain"]
    /\ UNCHANGED <<exec, next, reset_started, lease, conn, applied, result, verdict>>

\* operation_lock.lock().await
Lock(a) ==
    /\ at[a] = "locking"
    /\ operation_lock[client[a]] = None
    /\ operation_lock' = [operation_lock EXCEPT ![client[a]] = a]
    /\ at' = [at EXCEPT ![a] =
            IF a \in Pings THEN "ping"
            ELSE IF kind[a] = "transaction" THEN "multi" ELSE "plain"]
    /\ UNCHANGED <<exec, next, reset_started, lease, conn, applied, result, verdict>>

\* execute and pipeline: every command is sent whatever became of the others.
\* The code has a pipeline's commands in flight together; Redis takes them, and
\* fred answers them, one after the other.
Execute(r) ==
    /\ at[r] = "plain"
    /\ \E reply \in Replies : raw(r, "command", reply)
    /\ IF kind[r] = "pipeline" /\ More(r)
       THEN Go(r, "plain", next[r] + 1)
       ELSE Return(r, "ok")
    /\ UNCHANGED exec

\* MULTI: any answer but OK ends the transaction, with no DISCARD.
Multi(r) ==
    /\ at[r] = "multi"
    /\ \E reply \in Replies :
        /\ raw(r, "MULTI", reply)
        /\ IF reply = "OK" THEN Go(r, "queue", 1) ELSE Return(r, "error")
    /\ UNCHANGED exec

\* Mutant: a command that fails to queue ends the transaction without DISCARD.
QueueNoDiscard(r) ==
    /\ at[r] = "queue"
    /\ \E reply \in Replies :
        /\ raw(r, "command", reply)
        /\ IF ~Queued(reply) THEN Return(r, "error")
           ELSE IF More(r) THEN Go(r, "queue", next[r] + 1)
           ELSE Go(r, "exec", next[r])
    /\ UNCHANGED exec

\* One command of the transaction; anything but QUEUED leads to DISCARD.
Queue(r) ==
    /\ at[r] = "queue"
    /\ \E reply \in Replies :
        /\ raw(r, "command", reply)
        /\ IF ~Queued(reply) THEN Go(r, "discard", next[r])
           ELSE IF More(r) THEN Go(r, "queue", next[r] + 1)
           ELSE Go(r, "exec", next[r])
    /\ UNCHANGED exec

\* DISCARD, whose own outcome is ignored.
Discard(r) ==
    /\ at[r] = "discard"
    /\ \E reply \in Replies : raw(r, "DISCARD", reply)
    /\ Return(r, "error")
    /\ UNCHANGED exec

Exec(r) ==
    /\ at[r] = "exec"
    /\ \E reply \in Replies :
        /\ raw(r, "EXEC", reply)
        /\ Return(r, IF reply = "array" THEN "ok" ELSE "error")
    /\ UNCHANGED exec

(***************************************************************************)
(* The handler's future is dropped at its await: its guards are released   *)
(* and nothing more is sent, but the command it waited for may still run.  *)
(***************************************************************************)
Name(r) == CASE at[r] = "multi" -> "MULTI" [] at[r] = "discard" -> "DISCARD"
             [] at[r] = "exec" -> "EXEC"   [] OTHER -> "command"

Drop(r) ==
    /\ at[r] \in DropsAt
    /\ \/ UNCHANGED <<conn, applied>>
       \/ /\ at[r] # "locking"
          /\ \E answer \in Answers(conn[client[r]], Name(r), Command(r, next[r])) :
                /\ conn' = [conn EXCEPT ![client[r]] = answer.conn]
                /\ applied' = Recorded(answer.ran)
    /\ Return(r, "dropped")
    /\ UNCHANGED <<exec, reset_started>>

\* fred replaces a connection that Redis or the network closed.  Whoever runs on
\* it is not told, so a transaction goes on queueing outside any MULTI.
Reconnect(c) ==
    /\ conn[c] # Fresh
    /\ conn' = [conn EXCEPT ![c] = Fresh]
    /\ replaced' = replaced \cup {r \in Requests : operation_lock[c] = r /\ at[r] = "queue"}
    /\ UNCHANGED <<at, kind, next, client, reset_started, lease, operation_lock,
                   applied, result, verdict>>

-----------------------------------------------------------------------------
(***************************************************************************)
(* Readiness.  The client is chosen with try_lock and locked later, so it  *)
(* may be taken in between; a probe that outlasts its deadline is reported *)
(* unavailable and left to finish.                                         *)
(***************************************************************************)

\* Mutant: the guard of the search is kept while the PING locks again.
ReadinessClientKeepsGuard(p, c) ==
    /\ at[p] = "idle"
    /\ operation_lock[c] = None
    /\ operation_lock' = [operation_lock EXCEPT ![c] = p]
    /\ client' = [client EXCEPT ![p] = c]
    /\ at' = [at EXCEPT ![p] = "locking"]
    /\ UNCHANGED <<kind, next, reset_started, lease, conn, applied, replaced, result,
                   verdict>>

ReadinessClient(p, c) ==
    /\ at[p] = "idle"
    /\ \/ operation_lock[c] = None
       \/ \A d \in Clients : operation_lock[d] # None
    /\ client' = [client EXCEPT ![p] = c]
    /\ at' = [at EXCEPT ![p] = "locking"]
    /\ UNCHANGED <<kind, next, reset_started, lease, operation_lock, conn, applied,
                   replaced, result, verdict>>

Report(p, what) ==
    verdict' = [verdict EXCEPT ![p] = IF @ = "none" THEN what ELSE @]

Ping(p) ==
    /\ at[p] = "ping"
    /\ \E reply \in Replies :
        /\ raw(p, "command", reply)
        /\ Report(p, IF reply = "value" THEN "ready" ELSE "unavailable")
    /\ Release(p)
    /\ UNCHANGED <<exec, result>>

ReadinessTimeout(p) ==
    /\ at[p] \in {"locking", "ping"}
    /\ verdict[p] = "none"
    /\ Report(p, "unavailable")
    /\ UNCHANGED <<at, kind, next, client, reset_started, lease, operation_lock, conn,
                   applied, replaced, result>>

-----------------------------------------------------------------------------
RequestStep(r) == Execute(r) \/ Multi(r) \/ Queue(r) \/ Discard(r) \/ Exec(r)

Finished == \A a \in Actors : at[a] = "done"
AllDone == Finished /\ UNCHANGED vars

Next ==
    \/ \E r \in Requests :
        \/ \E c \in Clients : FromPooledClient(r, c)
        \/ RequestStep(r)
        \/ Drop(r)
    \/ \E p \in Pings :
        \/ \E c \in Clients : ReadinessClient(p, c)
        \/ Ping(p)
        \/ ReadinessTimeout(p)
    \/ \E a \in Actors : Lock(a)
    \/ \E c \in Clients : Reconnect(c)
    \/ AllDone

(***************************************************************************)
(* Every call to fred ends (default_command_timeout), tokio's timers fire, *)
(* and tokio's mutex is fair: whoever waits for the lock gets it.          *)
(***************************************************************************)
Fairness ==
    /\ \A r \in Requests : WF_vars(RequestStep(r))
    /\ \A p \in Pings : WF_vars(Ping(p)) /\ WF_vars(ReadinessTimeout(p))
    /\ \A a \in Actors : SF_vars(Lock(a))

Spec == Init /\ [][Next]_vars /\ Fairness

-----------------------------------------------------------------------------
(***************************************************************************)
(* A connection is inside MULTI only while a transaction holds its         *)
(* operation lock: whichever of its exchanges failed, the next holder      *)
(* finds it outside (FredExecutor::transaction, map_error).                *)
(***************************************************************************)
NoTransactionLeftBehind ==
    \A c \in Clients : conn[c].multi =>
        operation_lock[c] \in Transactions

\* Nobody else's command is ever queued in a transaction: the operation lock
\* covers MULTI to EXEC, and readiness PINGs wait for it.
OwnCommandsOnly ==
    \A c \in Clients : \A id \in conn[c].queue : id[1] = operation_lock[c]

Running == {"plain", "multi", "queue", "discard", "exec", "ping"}

\* Each guard is held exactly as long as its holder uses the client: the lease
\* from from_pooled_client on, the operation lock from its lock().await on.
GuardsHeld ==
    /\ \A a \in Actors : at[a] \notin {"idle", "done"} => client[a] \in Clients
    /\ \A a \in Actors : at[a] \in Running => operation_lock[client[a]] = a
    /\ \A c \in Clients : operation_lock[c] # None =>
          at[operation_lock[c]] \in Running /\ client[operation_lock[c]] = c
    /\ \A r \in Requests : at[r] \notin {"idle", "done"} => lease[client[r]] = r
    /\ \A c \in Clients : lease[c] # None =>
          at[lease[c]] \notin {"idle", "done"} /\ client[lease[c]] = c

\* Only transactions take a transaction's steps, and MULTI is an executor's
\* first exchange: the one whose timeout is sure to force a reconnection.
StagesFit ==
    \A a \in Actors :
        /\ at[a] \in {"multi", "queue", "discard", "exec"} => a \in Transactions
        /\ at[a] = "plain" => a \in Requests \ Transactions
        /\ at[a] = "ping" => a \in Pings
        /\ at[a] \in {"idle", "locking", "multi"} => ~reset_started[a]

\* Redis and the holder of a connection agree on whether it is inside MULTI.
ConnectionsFit ==
    \A c \in Clients :
        IF conn[c].multi
        THEN operation_lock[c] # None
             /\ at[operation_lock[c]] \in {"queue", "discard", "exec"}
        ELSE conn[c] = Fresh

\* Requests and PINGs on one client keep out of each other's operations.
OperationsKeptApart ==
    TypeOK /\ GuardsHeld /\ StagesFit /\ ConnectionsFit /\ OwnCommandsOnly

Ran(r) == CommandsOf(r) \cap applied

\* What is queued is what the transaction has sent, in full when it sends EXEC,
\* unless the connection was replaced and the queue lost with it.
QueuedSoFar ==
    \A r \in Transactions :
        LET k == conn[client[r]] IN
        /\ at[r] \notin {"discard", "done"} => Ran(r) = {}
        /\ at[r] = "queue" =>
              \/ k = Fresh /\ r \in replaced
              \/ /\ k.multi /\ ~k.spoilt
                 /\ k.queue = {Command(r, i) : i \in 1 .. next[r] - 1}
        /\ at[r] = "exec" =>
              k = Fresh \/ (~k.spoilt /\ k.queue = CommandsOf(r))

(***************************************************************************)
(* A transaction (POST /multi-exec) runs all of its commands or none, and  *)
(* all of them if it is answered with results, whichever exchange fails    *)
(* and wherever its handler is dropped.  One case is excepted: if fred     *)
(* replaces the connection between MULTI and a queued command, that        *)
(* command runs alone, outside any transaction, and no other: its answer   *)
(* is not QUEUED, so the request is answered with an error.  README.md:172 *)
(* calls the endpoint atomic without this exception.                       *)
(***************************************************************************)
AtomicUnlessReplaced ==
    /\ \A r \in Transactions :
        /\ result[r] = "ok" => Ran(r) = CommandsOf(r)
        /\ \/ Ran(r) \in {{}, CommandsOf(r)}
           \/ r \in replaced /\ \E id \in CommandsOf(r) : Ran(r) = {id}
    /\ QueuedSoFar

\* A request that has a client is answered and a PING is reported, however
\* the locks are contended and whichever calls fail.
OperationsEnd ==
    /\ \A r \in Requests : at[r] = "locking" ~> at[r] = "done"
    /\ \A p \in Pings : at[p] = "locking" ~> at[p] = "done" /\ verdict[p] # "none"
=============================================================================
