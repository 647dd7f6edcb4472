------------------------------ MODULE Gateway ------------------------------
(***************************************************************************)
(* The way of a request through the HTTP layer: load shed and in-flight    *)
(* limit, authentication, the rate limiter's probe, the body, parsing and  *)
(* the charge for it, the ACL, the pool and Redis; with the HTTP timeout   *)
(* around all of it and a client that may go away at any time.             *)
(*                                                                         *)
(* What runs between two awaits is one action.  All requests are of one    *)
(* identity and share its bucket: balance is what module RateLimiter       *)
(* computes, in commands.  Commands are what the ACL makes of them; what a *)
(* request says is decided when it is parsed.                              *)
(***************************************************************************)
EXTENDS Integers, Sequences, FiniteSets, SequencesExt, FiniteSetsExt

CONSTANTS
    Requests,
    MaxInFlight,  \* load.max_in_flight
    Capacity,     \* of the bucket
    MaxCommands   \* bound: the commands of one request

ASSUME GatewayConstants ==
    /\ {MaxInFlight, Capacity, MaxCommands} \subseteq Nat \ {0}
    /\ IsFiniteSet(Requests)

Endpoints == {"/", "/pipeline", "/multi-exec"}
Classes == {"allowed", "forbidden", "invalid"}
Awaits == {"authenticate", "body", "acquire", "redis"}

VARIABLES
    at,       \* the await each request is suspended at
    request,  \* its endpoint, commands, charge and what was sent to Redis
    status,   \* the status of its last response
    slots,    \* free permits of the concurrency limit
    gauge,    \* srh_http_in_flight
    balance,  \* of the bucket
    unpaid    \* history: parses nobody was charged for since the last refill

vars == <<at, request, status, slots, gauge, balance, unpaid>>

Bodies == SeqOf(Classes, MaxCommands)
Blank == [endpoint |-> "/", commands |-> <<>>, charged |-> 0, sent |-> {}]
Statuses == {0, 200, 400, 401, 403, 408, 413, 429, 500, 502, 503}

TypeOK ==
    /\ at \in [Requests -> Awaits \cup {"idle"}]
    /\ request \in [Requests -> [endpoint : Endpoints, commands : Bodies,
                                charged : 0 .. MaxCommands,
                                sent : SUBSET (1 .. MaxCommands)]]
    /\ status \in [Requests -> Statuses]
    /\ slots \in 0 .. MaxInFlight
    /\ gauge \in 0 .. Cardinality(Requests)
    /\ balance \in -MaxCommands .. Capacity
    /\ unpaid \in Nat

Init ==
    /\ at = [r \in Requests |-> "idle"]
    /\ request = [r \in Requests |-> Blank]
    /\ status = [r \in Requests |-> 0]
    /\ slots = MaxInFlight
    /\ gauge = 0
    /\ balance = Capacity
    /\ unpaid = 0

-----------------------------------------------------------------------------
\* Mutant: failures of the backend are reported like an empty bucket.
StatusRetryLater(error) ==
    CASE error \in {"RateLimited", "Overloaded", "PoolOpen"} -> 429
      [] error = "Unauthorized" -> 401
      [] error = "Forbidden" -> 403
      [] error = "RequestBodyTimeout" -> 408
      [] OTHER -> 500

\* AppError::into_response.
Status(error) ==
    CASE error = "Unauthorized" -> 401
      [] error = "Forbidden" -> 403
      [] error \in {"BadRequest", "RedisError"} -> 400
      [] error = "RateLimited" -> 429
      [] error \in {"AuthServiceUnavailable", "Overloaded", "PoolOpen"} -> 503
      [] error = "ResponseTooLarge" -> 502
      [] error = "RequestBodyTimeout" -> 408
      [] error = "Internal" -> 500

\* Mutant: the gauge is lowered when a response is made, not on drop.
LeaveUncounted(r) ==
    /\ at' = [at EXCEPT ![r] = "idle"]
    /\ request' = [request EXCEPT ![r] = Blank]
    /\ slots' = slots + 1
    /\ gauge' = IF status'[r] = 0 THEN gauge ELSE gauge - 1

\* The request's future is dropped, with its permit and its InFlight guard.
Leave(r) ==
    /\ at' = [at EXCEPT ![r] = "idle"]
    /\ request' = [request EXCEPT ![r] = Blank]
    /\ slots' = slots + 1
    /\ gauge' = gauge - 1

Respond(r, code) ==
    /\ status' = [status EXCEPT ![r] = code]
    /\ Leave(r)

Suspend(r, await) ==
    /\ at' = [at EXCEPT ![r] = await]
    /\ UNCHANGED <<status, slots, gauge>>

-----------------------------------------------------------------------------
\* The admission layers: no free permit, no service (load_shed).
Shed(r) ==
    /\ at[r] = "idle"
    /\ slots = 0
    /\ status' = [status EXCEPT ![r] = Status("Overloaded")]
    /\ UNCHANGED <<at, request, slots, gauge, balance, unpaid>>

\* RequestBodyLimitLayer: a Content-Length over max_body_bytes is answered at
\* once, before anyone is asked who it is; the permit is back with the answer.
OverLimit(r) ==
    /\ at[r] = "idle"
    /\ slots > 0
    /\ status' = [status EXCEPT ![r] = 413]
    /\ UNCHANGED <<at, request, slots, gauge, balance, unpaid>>

Admit(r, endpoint) ==
    /\ at[r] = "idle"
    /\ slots > 0
    /\ slots' = slots - 1
    /\ gauge' = gauge + 1
    /\ at' = [at EXCEPT ![r] = "authenticate"]
    /\ request' = [request EXCEPT ![r] = [Blank EXCEPT !.endpoint = endpoint]]
    /\ status' = [status EXCEPT ![r] = 0]
    /\ UNCHANGED <<balance, unpaid>>

AuthFails(r) ==
    /\ at[r] = "authenticate"
    /\ \E error \in {"Unauthorized", "Forbidden", "AuthServiceUnavailable"} :
        Respond(r, Status(error))
    /\ UNCHANGED <<balance, unpaid>>

\* RateLimiter::probe.
Probe == balance > 0

\* The identity is known; AuthedIdentity's extractor probes its bucket.
AuthSucceeds(r) ==
    /\ at[r] = "authenticate"
    /\ IF Probe
       THEN Suspend(r, "body") /\ UNCHANGED request
       ELSE Respond(r, Status("RateLimited"))
    /\ UNCHANGED <<balance, unpaid>>

\* read_body: its timeout, a body that outgrows the limit or a broken one.
BodyFails(r) ==
    /\ at[r] = "body"
    /\ \E error \in {"RequestBodyTimeout", "BadRequest"} : Respond(r, Status(error))
    /\ UNCHANGED <<balance, unpaid>>

\* charge_rate_limit: a positive balance pays for any number of commands.
Charge(n) ==
    /\ Probe
    /\ balance' = balance - n
    /\ UNCHANGED unpaid

ChargeRefused(r) ==
    /\ ~Probe
    /\ unpaid' = unpaid + 1
    /\ Respond(r, Status("RateLimited"))
    /\ UNCHANGED balance

\* Mutant: what does not parse is free.
ParseFailsFree(r) ==
    /\ at[r] = "body"
    /\ unpaid' = unpaid + 1
    /\ Respond(r, Status("BadRequest"))
    /\ UNCHANGED balance

\* What does not parse costs one command all the same.
ParseFails(r) ==
    /\ at[r] = "body"
    /\ \/ ChargeRefused(r)
       \/ Charge(1) /\ Respond(r, Status("BadRequest"))

\* Mutant: a transaction is trimmed to the commands that are allowed.
AclErrorPipelined(endpoint, commands) ==
    LET bad == {i \in DOMAIN commands : commands[i] = "invalid"
                \/ (endpoint = "/" /\ commands[i] = "forbidden")}
    IN  IF bad = {} THEN "none"
        ELSE IF commands[Min(bad)] = "forbidden" THEN "Forbidden" ELSE "BadRequest"

\* What the ACL makes of a request: the error of the first command it rejects.
\* In a pipeline a forbidden command only fails its own slot.
AclError(endpoint, commands) ==
    LET bad == {i \in DOMAIN commands : commands[i] = "invalid"
                \/ (endpoint # "/pipeline" /\ commands[i] = "forbidden")}
    IN  IF bad = {} THEN "none"
        ELSE IF commands[Min(bad)] = "forbidden" THEN "Forbidden" ELSE "BadRequest"

Cost(commands) == Max({1, Len(commands)})
AllowedOf(commands) == {i \in DOMAIN commands : commands[i] = "allowed"}

\* Parsed, charged, checked: an empty transaction is invalid, an empty pipeline
\* or one without an allowed command is answered without Redis.
Parsed(r, commands) ==
    LET endpoint == request[r].endpoint
        error    == IF endpoint = "/multi-exec" /\ commands = <<>> THEN "BadRequest"
                    ELSE AclError(endpoint, commands)
    IN
    /\ at[r] = "body"
    /\ endpoint = "/" => Len(commands) = 1
    /\ \/ ChargeRefused(r)
       \/ /\ Charge(Cost(commands))
          /\ CASE error # "none" -> Respond(r, Status(error))
               [] error = "none" /\ AllowedOf(commands) = {} -> Respond(r, 200)
               [] OTHER ->
                    /\ Suspend(r, "acquire")
                    /\ request' = [request EXCEPT ![r] =
                          [@ EXCEPT !.commands = commands, !.charged = Cost(commands)]]

\* map_acquire_error.
AcquireFails(r) ==
    /\ at[r] = "acquire"
    /\ \E error \in {"Overloaded", "PoolOpen", "Internal"} : Respond(r, Status(error))
    /\ UNCHANGED <<balance, unpaid>>

\* An executor is there and is given the commands that were allowed.
Acquired(r) ==
    /\ at[r] = "acquire"
    /\ request' = [request EXCEPT ![r].sent = AllowedOf(request[r].commands)]
    /\ Suspend(r, "redis")
    /\ UNCHANGED <<balance, unpaid>>

\* map_exec_error for a command and a transaction; a pipeline's errors are in
\* its slots; every reply is charged to the response budget before it is sent.
\* The pipeline's 500 for too few or too many results cannot happen: join_all
\* has one result for each command it was given.
Executed(r) ==
    /\ at[r] = "redis"
    /\ \/ Respond(r, 200)
       \/ Respond(r, Status("ResponseTooLarge"))
       \/ /\ request[r].endpoint # "/pipeline"
          /\ \E error \in {"RedisError", "PoolOpen"} : Respond(r, Status(error))
    /\ UNCHANGED <<balance, unpaid>>

\* http_timeout_ms passes: the handler is dropped and the answer is a 503.
Timeout(r) ==
    /\ at[r] \in Awaits
    /\ Respond(r, Status("Overloaded"))
    /\ UNCHANGED <<balance, unpaid>>

\* The client goes away: the whole future is dropped and nothing is recorded.
Disconnect(r) ==
    /\ at[r] # "idle"
    /\ UNCHANGED <<status, balance, unpaid>>
    /\ Leave(r)

Refill ==
    /\ balance < Capacity
    /\ balance' = balance + 1
    /\ unpaid' = 0
    /\ UNCHANGED <<at, request, status, slots, gauge>>

Next ==
    \/ \E r \in Requests :
        \/ Shed(r) \/ OverLimit(r) \/ \E endpoint \in Endpoints : Admit(r, endpoint)
        \/ AuthFails(r) \/ AuthSucceeds(r)
        \/ BodyFails(r) \/ ParseFails(r) \/ \E commands \in Bodies : Parsed(r, commands)
        \/ AcquireFails(r) \/ Acquired(r) \/ Executed(r)
        \/ Timeout(r) \/ Disconnect(r)
    \/ Refill

(***************************************************************************)
(* Neither the client nor the identity provider nor Redis owes an answer:  *)
(* only tokio's timer for http_timeout_ms is fair.                         *)
(***************************************************************************)
Spec == Init /\ [][Next]_vars

-----------------------------------------------------------------------------
InFlight == {r \in Requests : at[r] # "idle"}

\* However a request ends, answered, timed out or abandoned, it gives back its
\* permit and its count in srh_http_in_flight, once.
InFlightSettles ==
    /\ gauge = Cardinality(InFlight)
    /\ slots = MaxInFlight - Cardinality(InFlight)

\* While the bucket is empty, every parse that was free and every one that may
\* still be is that of a request which had a place next to the one that emptied
\* the bucket: no further request gets past the probe.
Reading == {r \in Requests : at[r] = "body"}

FreeParsesCovered ==
    IF Probe THEN unpaid = 0 ELSE unpaid + Cardinality(Reading) < MaxInFlight

\* Places, gauge and balance account for every request, in whatever order they
\* come and go.
CountsSettle == TypeOK /\ InFlightSettles /\ FreeParsesCovered

\* What the stages leave behind: commands are there once they were charged and
\* passed the ACL, and are sent from the await of Redis on.
StagesInOrder ==
    \A r \in Requests : LET q == request[r] IN
        /\ q.charged >= Len(q.commands)
        /\ q.sent = IF at[r] = "redis" THEN AllowedOf(q.commands) ELSE {}
        /\ q.endpoint = "/multi-exec" =>
              \A i \in DOMAIN q.commands : q.commands[i] = "allowed"

\* The inductive invariant: the counts settle however requests end, because
\* each stage leaves behind what the next one relies on.
IndInv == CountsSettle /\ StagesInOrder

\* Redis sees only what was paid for and allowed: every command of a request
\* was charged, no forbidden one is sent, and of a transaction all or nothing.
OnlyPaidAndAllowed ==
    \A r \in Requests : LET q == request[r] IN
        /\ q.charged >= Cardinality(q.sent)
        /\ \A i \in q.sent : q.commands[i] = "allowed"
        /\ q.endpoint = "/multi-exec" => q.sent \in {{}, DOMAIN q.commands}

(***************************************************************************)
(* Parsing that nobody pays for is bounded by the requests that were       *)
(* already past the probe when another one emptied the bucket: repeating a *)
(* request, valid or garbage, buys no more (the comment in                 *)
(* command::execute).                                                      *)
(***************************************************************************)
FreeParsesBounded == unpaid < MaxInFlight

\* A client that is told 401, 403, 408, 413 or 429 knows that Redis was not asked to
\* do anything: these come from the stages before the commands are handed over.
RefusalsChangeNothing ==
    [][\A r \in Requests :
        status'[r] # status[r] /\ status'[r] \in {401, 403, 408, 413, 429} =>
            request[r].sent = {}]_vars
=============================================================================
