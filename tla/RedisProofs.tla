---------------------------- MODULE RedisProofs ----------------------------
(***************************************************************************)
(* Theorems about FredExecutor on the clients of one pool, for any number  *)
(* of requests, PINGs and clients, and transactions of any length.         *)
(*                                                                         *)
(* That the guards exclude each other, and what a transaction may have     *)
(* run, needs no assumption.  That no connection is left inside MULTI      *)
(* does: a handler dropped inside a transaction leaves it there (the       *)
(* redis_dropped run).  The theorems about that carry a hypothesis.        *)
(***************************************************************************)
EXTENDS Redis, TLAPS

Ids == Actors \X (1 .. Length)
Conns == [multi : BOOLEAN, spoilt : BOOLEAN, queue : SUBSET Ids]

\* Handlers are dropped only while they are not inside a transaction.
DropsOutsideTransactions == DropsAt \subseteq {"locking", "plain"}

-----------------------------------------------------------------------------
(***************************************************************************)
(* What Redis answers, and what one exchange does to the connection.       *)
(***************************************************************************)

LEMMA FreshTyped == Fresh \in Conns
BY DEF Fresh, Conns

LEMMA AnswerFields ==
    ASSUME NEW reply, NEW k, NEW ran
    PROVE  /\ Answer(reply, k, ran).reply = reply
           /\ Answer(reply, k, ran).conn = k
           /\ Answer(reply, k, ran).ran = ran
BY DEF Answer

LEMMA MultiAnswers ==
    ASSUME NEW k \in Conns, NEW id, NEW answer \in Answers(k, "MULTI", id)
    PROVE  \/ answer = Answer("error", k, {})
           \/ ~k.multi /\ answer = Answer("OK", [k EXCEPT !.multi = TRUE], {})
BY DEF Answers

LEMMA DiscardAnswers ==
    ASSUME NEW k \in Conns, NEW id, NEW answer \in Answers(k, "DISCARD", id)
    PROVE  answer = IF k.multi THEN Answer("OK", Fresh, {}) ELSE Answer("error", k, {})
BY DEF Answers

LEMMA ExecAnswers ==
    ASSUME NEW k \in Conns, NEW id, NEW answer \in Answers(k, "EXEC", id)
    PROVE  answer = IF k.multi /\ ~k.spoilt THEN Answer("array", Fresh, k.queue)
                    ELSE Answer("error", Fresh, {})
BY DEF Answers

LEMMA CommandAnswers ==
    ASSUME NEW k \in Conns, NEW id, NEW answer \in Answers(k, "command", id)
    PROVE  IF k.multi
           THEN \/ answer = Answer("QUEUED", [k EXCEPT !.queue = @ \cup {id}], {})
                \/ answer = Answer("error", [k EXCEPT !.spoilt = TRUE], {})
           ELSE \/ answer = Answer("value", k, {id})
                \/ answer = Answer("error", k, {})
BY DEF Answers

Names == {"MULTI", "DISCARD", "EXEC", "command"}

LEMMA AnswersTyped ==
    ASSUME NEW k \in Conns, NEW id \in Ids, NEW name \in Names,
           NEW answer \in Answers(k, name, id)
    PROVE  answer.conn \in Conns /\ answer.ran \subseteq Ids
<1>0. k.queue \subseteq Ids /\ [k EXCEPT !.multi = TRUE] \in Conns
      /\ [k EXCEPT !.queue = @ \cup {id}] \in Conns /\ [k EXCEPT !.spoilt = TRUE] \in Conns
  BY DEF Conns
<1>1. CASE name = "MULTI"
  BY <1>0, <1>1, MultiAnswers, AnswerFields
<1>2. CASE name = "DISCARD"
  BY <1>0, <1>2, DiscardAnswers, AnswerFields, FreshTyped
<1>3. CASE name = "EXEC"
  BY <1>0, <1>3, ExecAnswers, AnswerFields, FreshTyped
<1>4. CASE name = "command"
  <2>1. CASE k.multi
    <3>1. answer \in {Answer("QUEUED", [k EXCEPT !.queue = @ \cup {id}], {}),
                      Answer("error", [k EXCEPT !.spoilt = TRUE], {})}
      BY <1>4, <2>1, CommandAnswers
    <3>2. answer.conn \in {[k EXCEPT !.queue = @ \cup {id}], [k EXCEPT !.spoilt = TRUE]}
          /\ answer.ran = {}
      BY <3>1 DEF Answer
    <3>. QED BY <1>0, <3>2
  <2>2. CASE ~k.multi
    <3>1. answer \in {Answer("value", k, {id}), Answer("error", k, {})}
      BY <1>4, <2>2, CommandAnswers
    <3>. QED BY <3>1 DEF Answer
  <2>. QED BY <2>1, <2>2
<1>. QED BY <1>1, <1>2, <1>3, <1>4 DEF Names

LEMMA RawTyped ==
    ASSUME TypeOK, NEW a \in Actors, client[a] \in Clients,
           NEW name \in Names, NEW reply, raw(a, name, reply)
    PROVE  /\ conn' \in [Clients -> Conns]
           /\ \E k \in Conns : conn' = [conn EXCEPT ![client[a]] = k]
           /\ applied' \subseteq Ids
           /\ reset_started' \in [Actors -> BOOLEAN]
           /\ \A b \in Actors : b # a => reset_started'[b] = reset_started[b]
<1>. DEFINE c == client[a]
<1>1. conn \in [Clients -> Conns] /\ conn[c] \in Conns /\ Command(a, next[a]) \in Ids
      /\ applied \subseteq Ids /\ reset_started \in [Actors -> BOOLEAN]
  BY DEF TypeOK, Conns, Ids, Command
<1>2. PICK answer \in Answers(conn[c], name, Command(a, next[a])) :
        /\ \/ conn' = [conn EXCEPT ![c] = answer.conn]
           \/ conn' = [conn EXCEPT ![c] = Fresh]
        /\ applied' \in {applied, Recorded(answer.ran)}
        /\ reset_started' \in {reset_started, [reset_started EXCEPT ![a] = TRUE]}
  BY DEF raw
<1>3. answer.conn \in Conns /\ answer.ran \subseteq Ids
  BY <1>1, <1>2, AnswersTyped
<1>4. Recorded(answer.ran) \subseteq Ids
  BY <1>1, <1>3 DEF Recorded
<1>5. conn' \in [Clients -> Conns] /\ \E k \in Conns : conn' = [conn EXCEPT ![c] = k]
  BY <1>1, <1>2, <1>3, FreshTyped
<1>. QED BY <1>1, <1>2, <1>4, <1>5

LEMMA NothingRan == Recorded({}) = applied
BY DEF Recorded

\* The states one exchange may lead to, given the answer Redis worked out.
LEMMA RawOutcome ==
    ASSUME TypeOK, NEW a \in Actors, client[a] \in Clients,
           NEW name \in Names, NEW reply, raw(a, name, reply)
    PROVE  \E answer \in Answers(conn[client[a]], name, Command(a, next[a])) :
              /\ conn[client[a]] \in Conns
              /\ \/ reply \in {"timeout", "transport"} /\ conn' = [conn EXCEPT ![client[a]] = Fresh]
                 \/ /\ conn' = [conn EXCEPT ![client[a]] = answer.conn]
                    /\ reply = answer.reply \/ (reply = "timeout" /\ reset_started[a])
              /\ \/ applied' = Recorded(answer.ran)
                 \/ applied' = applied /\ reply \in {"timeout", "transport"}
<1>1. conn[client[a]] \in Conns
  BY DEF TypeOK, Conns, Ids
<1>. QED BY <1>1 DEF raw

\* A command on a connection outside MULTI leaves it there.
LEMMA CommandOutside ==
    ASSUME TypeOK, NEW a \in Actors, client[a] \in Clients, conn[client[a]] = Fresh,
           NEW reply, raw(a, "command", reply)
    PROVE  conn' = conn /\ (a \notin Transactions => applied' = applied)
<1>. DEFINE c == client[a]
<1>1. PICK answer \in Answers(conn[c], "command", Command(a, next[a])) :
        /\ conn' = [conn EXCEPT ![c] = answer.conn] \/ conn' = [conn EXCEPT ![c] = Fresh]
        /\ applied' \in {applied, Recorded(answer.ran)}
  BY RawOutcome DEF Names
<1>2. ~conn[c].multi /\ conn[c] \in Conns
  BY FreshTyped DEF Fresh
<1>3. answer \in {Answer("value", conn[c], {Command(a, next[a])}),
                  Answer("error", conn[c], {})}
  BY <1>1, <1>2, CommandAnswers
<1>4. answer.conn = Fresh /\ answer.ran \subseteq {Command(a, next[a])}
  BY <1>3 DEF Answer
<1>5. conn' = conn
  BY <1>1, <1>4 DEF TypeOK
<1>6. ASSUME a \notin Transactions PROVE applied' = applied
  <2>1. \A id \in answer.ran : id[1] = a
    BY <1>4 DEF Command
  <2>. QED BY <1>1, <1>6, <2>1 DEF Recorded
<1>. QED BY <1>5, <1>6

\* MULTI as the first exchange: the connection is inside iff the answer is OK.
LEMMA MultiExchange ==
    ASSUME TypeOK, NEW a \in Actors, client[a] \in Clients, conn[client[a]] = Fresh,
           ~reset_started[a], NEW reply, raw(a, "MULTI", reply)
    PROVE  /\ applied' = applied
           /\ reply = "OK" =>
                 conn' = [conn EXCEPT ![client[a]] = [Fresh EXCEPT !.multi = TRUE]]
           /\ reply # "OK" => conn' = conn
<1>. DEFINE c == client[a]
<1>1. PICK answer \in Answers(conn[c], "MULTI", Command(a, next[a])) :
        /\ \/ reply \in {"timeout", "transport"} /\ conn' = [conn EXCEPT ![c] = Fresh]
           \/ conn' = [conn EXCEPT ![c] = answer.conn] /\ reply = answer.reply
        /\ applied' \in {applied, Recorded(answer.ran)}
  BY RawOutcome DEF Names
<1>2. conn[c] \in Conns
  BY FreshTyped
<1>3. \/ answer = Answer("error", Fresh, {})
      \/ answer = Answer("OK", [Fresh EXCEPT !.multi = TRUE], {})
  BY <1>1, <1>2, MultiAnswers
<1>4. applied' = applied
  BY <1>1, <1>3, NothingRan DEF Answer
<1>5. [conn EXCEPT ![c] = Fresh] = conn
  BY DEF TypeOK
<1>6. \/ answer.conn = Fresh /\ answer.reply = "error"
      \/ answer.conn = [Fresh EXCEPT !.multi = TRUE] /\ answer.reply = "OK"
  BY <1>3, AnswerFields
<1>7. CASE conn' = [conn EXCEPT ![c] = Fresh] /\ reply \in {"timeout", "transport"}
  BY <1>4, <1>5, <1>7
<1>8. CASE conn' = [conn EXCEPT ![c] = answer.conn] /\ reply = answer.reply
  BY <1>4, <1>5, <1>6, <1>8
<1>. QED BY <1>1, <1>7, <1>8

\* A command inside MULTI runs nothing; it is queued iff the answer is QUEUED,
\* or the answer did not come.
LEMMA QueueExchange ==
    ASSUME TypeOK, NEW a \in Actors, client[a] \in Clients, conn[client[a]].multi,
           NEW reply, raw(a, "command", reply)
    PROVE  /\ applied' = applied
           /\ reply = "QUEUED" => conn' = [conn EXCEPT ![client[a]] =
                 [conn[client[a]] EXCEPT !.queue = @ \cup {Command(a, next[a])}]]
           /\ \E k \in Conns :
                 /\ conn' = [conn EXCEPT ![client[a]] = k]
                 /\ \/ k = Fresh
                    \/ k.multi /\ k.queue \subseteq conn[client[a]].queue \cup {Command(a, next[a])}
<1>. DEFINE c == client[a]
            queued == [conn[c] EXCEPT !.queue = @ \cup {Command(a, next[a])}]
            failed == [conn[c] EXCEPT !.spoilt = TRUE]
<1>1. PICK answer \in Answers(conn[c], "command", Command(a, next[a])) :
        /\ conn[c] \in Conns
        /\ \/ reply \in {"timeout", "transport"} /\ conn' = [conn EXCEPT ![c] = Fresh]
           \/ /\ conn' = [conn EXCEPT ![c] = answer.conn]
              /\ reply = answer.reply \/ reply = "timeout"
        /\ applied' \in {applied, Recorded(answer.ran)}
  BY RawOutcome DEF Names
<1>2. answer = Answer("QUEUED", queued, {}) \/ answer = Answer("error", failed, {})
  BY <1>1, CommandAnswers
<1>3. applied' = applied
  BY <1>1, <1>2, NothingRan DEF Answer
<1>4. Command(a, next[a]) \in Ids
  BY DEF TypeOK, Ids, Command
<1>5. /\ queued \in Conns /\ queued.multi
      /\ queued.queue = conn[c].queue \cup {Command(a, next[a])}
      /\ failed \in Conns /\ failed.multi /\ failed.queue = conn[c].queue
  BY <1>1, <1>4 DEF Conns
<1>. HIDE DEF queued, failed
<1>6. /\ reply = "QUEUED" => conn' = [conn EXCEPT ![c] = queued]
      /\ \E k \in {Fresh, queued, failed} : conn' = [conn EXCEPT ![c] = k]
  BY <1>1, <1>2 DEF Answer
<1>7. \E k \in Conns :
        /\ conn' = [conn EXCEPT ![c] = k]
        /\ k = Fresh \/ (k.multi /\ k.queue \subseteq conn[c].queue \cup {Command(a, next[a])})
  BY <1>5, <1>6, FreshTyped
<1>. QED BY <1>3, <1>6, <1>7 DEF queued

LEMMA DiscardExchange ==
    ASSUME TypeOK, NEW a \in Actors, client[a] \in Clients,
           conn[client[a]].multi \/ conn[client[a]] = Fresh,
           NEW reply, raw(a, "DISCARD", reply)
    PROVE  applied' = applied /\ conn' = [conn EXCEPT ![client[a]] = Fresh]
<1>. DEFINE c == client[a]
<1>1. PICK answer \in Answers(conn[c], "DISCARD", Command(a, next[a])) :
        /\ conn[c] \in Conns
        /\ conn' = [conn EXCEPT ![c] = answer.conn] \/ conn' = [conn EXCEPT ![c] = Fresh]
        /\ applied' \in {applied, Recorded(answer.ran)}
  BY RawOutcome DEF Names
<1>2. answer \in {Answer("OK", Fresh, {}), Answer("error", Fresh, {})}
  BY <1>1, DiscardAnswers
<1>. QED BY <1>1, <1>2, NothingRan DEF Answer

\* EXEC runs the whole queue or nothing, and the whole if it answers an array.
LEMMA ExecExchange ==
    ASSUME TypeOK, NEW a \in Actors, client[a] \in Clients,
           NEW reply, raw(a, "EXEC", reply)
    PROVE  /\ conn' = [conn EXCEPT ![client[a]] = Fresh]
           /\ \/ applied' = applied /\ reply # "array"
              \/ /\ conn[client[a]].multi
                 /\ applied' = Recorded(conn[client[a]].queue)
<1>. DEFINE c == client[a]
<1>1. PICK answer \in Answers(conn[c], "EXEC", Command(a, next[a])) :
        /\ conn[c] \in Conns
        /\ \/ reply \in {"timeout", "transport"} /\ conn' = [conn EXCEPT ![c] = Fresh]
           \/ /\ conn' = [conn EXCEPT ![c] = answer.conn]
              /\ reply = answer.reply \/ reply = "timeout"
        /\ \/ applied' = Recorded(answer.ran)
           \/ applied' = applied /\ reply \in {"timeout", "transport"}
  BY RawOutcome DEF Names
<1>2. \/ answer = Answer("array", Fresh, conn[c].queue) /\ conn[c].multi
      \/ answer = Answer("error", Fresh, {})
  BY <1>1, ExecAnswers
<1>3. conn' = [conn EXCEPT ![c] = Fresh]
  BY <1>1, <1>2, AnswerFields
<1>4. CASE answer = Answer("array", Fresh, conn[c].queue) /\ conn[c].multi
  <2>1. answer.ran = conn[c].queue
    BY <1>4, AnswerFields
  <2>. QED BY <1>1, <1>3, <1>4, <2>1
<1>5. CASE answer = Answer("error", Fresh, {})
  <2>1. answer.ran = {} /\ answer.reply = "error"
    BY <1>5, AnswerFields
  <2>2. applied' = applied
    BY <1>1, <2>1, NothingRan
  <2>3. reply # "array"
    BY <1>1, <2>1
  <2>. QED BY <1>3, <2>2, <2>3
<1>. QED BY <1>2, <1>4, <1>5

-----------------------------------------------------------------------------
(***************************************************************************)
(* The guards: whoever runs on a client holds its operation lock, and only *)
(* it.  No assumption on dropped handlers is needed.                       *)
(***************************************************************************)
Guarded == TypeOK /\ GuardsHeld /\ StagesFit

LEMMA ActorsApart ==
    /\ None \notin Actors /\ None \notin Clients
    /\ \A r \in Requests : r \in Actors /\ r \notin Pings
    /\ \A p \in Pings : p \in Actors /\ p \notin Requests /\ p \notin Transactions
BY RedisConstants DEF Actors, Transactions

LEMMA ReleaseGuarded ==
    ASSUME TypeOK, GuardsHeld, NEW a \in Actors, Release(a), UNCHANGED client
    PROVE  /\ GuardsHeld'
           /\ at' \in [Actors -> {"idle", "locking", "plain", "multi", "queue",
                                  "discard", "exec", "ping", "done"}]
           /\ next' \in [Actors -> 1 .. Length]
           /\ operation_lock' \in [Clients -> Actors \cup {None}]
           /\ lease' \in [Clients -> Requests \cup {None}]
<1>1. /\ at' \in [Actors -> {"idle", "locking", "plain", "multi", "queue",
                             "discard", "exec", "ping", "done"}]
      /\ next' \in [Actors -> 1 .. Length]
      /\ operation_lock' \in [Clients -> Actors \cup {None}]
      /\ lease' \in [Clients -> Requests \cup {None}]
  BY RedisConstants DEF TypeOK, Release
<1>2. a # None
  BY ActorsApart
<1>3. at'[a] = "done" /\ \A b \in Actors : b # a => at'[b] = at[b]
  BY DEF Release, TypeOK
<1>4. \A c \in Clients :
        /\ operation_lock'[c] = IF operation_lock[c] = a THEN None ELSE operation_lock[c]
        /\ lease'[c] = IF lease[c] = a THEN None ELSE lease[c]
  BY DEF Release
<1>5. "done" \notin Running /\ "idle" \notin Running
  BY DEF Running
<1>6. \A b \in Actors : at'[b] \notin {"idle", "done"} => client'[b] \in Clients
  BY <1>3 DEF GuardsHeld
<1>7. \A b \in Actors : at'[b] \in Running => operation_lock'[client'[b]] = b
  BY <1>3, <1>4, <1>5 DEF GuardsHeld
<1>8. \A c \in Clients : operation_lock'[c] # None =>
        at'[operation_lock'[c]] \in Running /\ client'[operation_lock'[c]] = c
  BY <1>1, <1>3, <1>4 DEF GuardsHeld, TypeOK
<1>9. \A r \in Requests : at'[r] \notin {"idle", "done"} => lease'[client'[r]] = r
  BY <1>3, <1>4, <1>6, ActorsApart DEF GuardsHeld
<1>10. \A c \in Clients : lease'[c] # None =>
        at'[lease'[c]] \notin {"idle", "done"} /\ client'[lease'[c]] = c
  BY <1>1, <1>3, <1>4, ActorsApart DEF GuardsHeld, TypeOK
<1>. QED BY <1>1, <1>6, <1>7, <1>8, <1>9, <1>10 DEF GuardsHeld, Running

LEMMA GoGuarded ==
    ASSUME TypeOK, GuardsHeld, NEW a \in Actors, at[a] \in Running,
           NEW stage \in Running, NEW i \in 1 .. Length, Go(a, stage, i), UNCHANGED client
    PROVE  /\ GuardsHeld'
           /\ at' \in [Actors -> {"idle", "locking", "plain", "multi", "queue",
                                  "discard", "exec", "ping", "done"}]
           /\ next' \in [Actors -> 1 .. Length]
           /\ operation_lock' \in [Clients -> Actors \cup {None}]
           /\ lease' \in [Clients -> Requests \cup {None}]
           /\ result' = result /\ verdict' = verdict
<1>1. /\ at' \in [Actors -> {"idle", "locking", "plain", "multi", "queue",
                             "discard", "exec", "ping", "done"}]
      /\ next' \in [Actors -> 1 .. Length]
  BY DEF TypeOK, Go, Running
<1>2. \A b \in Actors : at'[b] \in Running <=> at[b] \in Running
  BY DEF Go, TypeOK
<1>3. \A b \in Actors : at'[b] \in {"idle", "done"} <=> at[b] \in {"idle", "done"}
  BY DEF Go, TypeOK, Running
<1>4. UNCHANGED <<client, operation_lock, lease>>
  BY DEF Go
<1>5. /\ \A c \in Clients : operation_lock[c] # None => operation_lock[c] \in Actors
      /\ \A c \in Clients : lease[c] # None => lease[c] \in Actors
      /\ \A r \in Requests : r \in Actors
  BY ActorsApart DEF TypeOK
<1>6. GuardsHeld'
  BY <1>2, <1>3, <1>4, <1>5 DEF GuardsHeld
<1>. QED BY <1>1, <1>6 DEF TypeOK, Go

\* Only the stage of the actor that steps has to be looked at.
LEMMA StagesKept ==
    ASSUME TypeOK, StagesFit, NEW a \in Actors, UNCHANGED kind,
           \A b \in Actors : b # a => at'[b] = at[b] /\ reset_started'[b] = reset_started[b],
           at'[a] \in {"multi", "queue", "discard", "exec"} => a \in Transactions,
           at'[a] = "plain" => a \in Requests \ Transactions,
           at'[a] = "ping" => a \in Pings,
           at'[a] \in {"idle", "locking", "multi"} => ~reset_started'[a]
    PROVE  StagesFit'
<1>1. Transactions' = Transactions
  BY DEF Transactions
<1>. QED BY <1>1 DEF StagesFit

LEMMA InitGuarded == Init => Guarded
<1>. SUFFICES ASSUME Init PROVE Guarded
  OBVIOUS
<1>1. TypeOK
  <2>1. conn \in [Clients -> Conns]
    BY FreshTyped DEF Init
  <2>. QED BY <2>1, RedisConstants DEF Init, TypeOK, Kinds, Conns, Ids
<1>2. GuardsHeld
  <2>1. /\ \A a \in Actors : at[a] = "idle"
        /\ \A c \in Clients : operation_lock[c] = None /\ lease[c] = None
        /\ \A r \in Requests : r \in Actors
    BY ActorsApart DEF Init
  <2>. QED BY <2>1 DEF GuardsHeld, Running
<1>3. StagesFit
  BY DEF Init, StagesFit
<1>. QED BY <1>1, <1>2, <1>3 DEF Guarded

\* What all the steps with an exchange have in common.
LEMMA ExchangeGuarded ==
    ASSUME Guarded, NEW a \in Actors, at[a] \in Running,
           NEW name \in Names, NEW reply, raw(a, name, reply), UNCHANGED exec,
           result' \in [Requests -> {"none", "ok", "error", "dropped"}],
           verdict' \in [Pings -> {"none", "ready", "unavailable"}],
           \/ Release(a)
           \/ \E stage \in Running \ {"multi"}, i \in 1 .. Length :
                 /\ Go(a, stage, i)
                 /\ stage \in {"queue", "discard", "exec"} => a \in Transactions
                 /\ stage = "plain" => a \in Requests \ Transactions
                 /\ stage = "ping" => a \in Pings
    PROVE  Guarded'
<1>1. client[a] \in Clients
  BY DEF Guarded, GuardsHeld, Running
<1>2. /\ conn' \in [Clients -> Conns]
      /\ applied' \subseteq Ids
      /\ reset_started' \in [Actors -> BOOLEAN]
      /\ \A b \in Actors : b # a => reset_started'[b] = reset_started[b]
  BY <1>1, RawTyped DEF Guarded
<1>3. UNCHANGED client /\ UNCHANGED kind /\ UNCHANGED replaced
  BY DEF exec
<1>4. CASE Release(a)
  <2>1. /\ GuardsHeld'
        /\ at' \in [Actors -> {"idle", "locking", "plain", "multi", "queue",
                               "discard", "exec", "ping", "done"}]
        /\ next' \in [Actors -> 1 .. Length]
        /\ operation_lock' \in [Clients -> Actors \cup {None}]
        /\ lease' \in [Clients -> Requests \cup {None}]
    BY <1>3, <1>4, ReleaseGuarded DEF Guarded
  <2>2. TypeOK'
    BY <1>2, <1>3, <2>1 DEF Guarded, TypeOK, Conns, Ids
  <2>3. at'[a] = "done" /\ \A b \in Actors : b # a => at'[b] = at[b]
    BY <1>4 DEF Guarded, TypeOK, Release
  <2>4. StagesFit'
    BY <1>2, <1>3, <2>3, StagesKept DEF Guarded
  <2>. QED BY <2>1, <2>2, <2>4 DEF Guarded
<1>5. CASE ~Release(a)
  <2>0. PICK stage \in Running \ {"multi"}, i \in 1 .. Length :
                 /\ Go(a, stage, i)
                 /\ stage \in {"queue", "discard", "exec"} => a \in Transactions
                 /\ stage = "plain" => a \in Requests \ Transactions
                 /\ stage = "ping" => a \in Pings
    BY <1>5
  <2>1. /\ GuardsHeld'
        /\ at' \in [Actors -> {"idle", "locking", "plain", "multi", "queue",
                               "discard", "exec", "ping", "done"}]
        /\ next' \in [Actors -> 1 .. Length]
        /\ operation_lock' \in [Clients -> Actors \cup {None}]
        /\ lease' \in [Clients -> Requests \cup {None}]
    BY <1>3, <2>0, GoGuarded DEF Guarded
  <2>2. TypeOK'
    BY <1>2, <1>3, <2>1 DEF Guarded, TypeOK, Conns, Ids
  <2>3. at'[a] = stage /\ \A b \in Actors : b # a => at'[b] = at[b]
    BY <2>0 DEF Guarded, TypeOK, Go
  <2>4. StagesFit'
    BY <1>2, <1>3, <2>0, <2>3, StagesKept DEF Guarded, Running
  <2>. QED BY <2>1, <2>2, <2>4 DEF Guarded
<1>. QED BY <1>4, <1>5

LEMMA ReturnTyped ==
    ASSUME TypeOK, NEW r \in Requests, NEW what \in {"ok", "error", "dropped"}, Return(r, what)
    PROVE  /\ Release(r)
           /\ result' \in [Requests -> {"none", "ok", "error", "dropped"}]
           /\ verdict' \in [Pings -> {"none", "ready", "unavailable"}]
BY DEF TypeOK, Return

LEMMA RequestStepGuarded ==
    ASSUME Guarded, NEW r \in Requests, RequestStep(r)
    PROVE  Guarded'
<1>1. /\ r \in Actors /\ next[r] \in 1 .. Length
      /\ More(r) => next[r] + 1 \in 1 .. Length
      /\ 1 \in 1 .. Length
      /\ result \in [Requests -> {"none", "ok", "error", "dropped"}]
      /\ verdict \in [Pings -> {"none", "ready", "unavailable"}]
  BY ActorsApart, RedisConstants DEF Guarded, TypeOK, More
<1>2. CASE Execute(r)
  <2>1. PICK reply : raw(r, "command", reply)
    BY <1>2 DEF Execute
  <2>2. at[r] \in Running /\ r \in Requests \ Transactions /\ UNCHANGED exec
    BY <1>1, <1>2 DEF Execute, Running, Guarded, StagesFit
  <2>3. CASE Go(r, "plain", next[r] + 1) /\ More(r)
    <3>1. "plain" \in Running \ {"multi"} /\ next[r] + 1 \in 1 .. Length
      BY <1>1, <2>3 DEF Running
    <3>. QED BY <1>1, <2>1, <2>2, <2>3, <3>1, ExchangeGuarded DEF Go, Names
  <2>4. CASE Return(r, "ok")
    BY <1>1, <2>1, <2>2, <2>4, ExchangeGuarded, ReturnTyped DEF Names, Guarded
  <2>. QED BY <1>2, <2>3, <2>4 DEF Execute
<1>3. CASE Multi(r)
  <2>1. PICK reply :
          raw(r, "MULTI", reply) /\ (Go(r, "queue", 1) \/ Return(r, "error"))
    BY <1>3 DEF Multi
  <2>2. at[r] \in Running /\ r \in Transactions /\ UNCHANGED exec
    BY <1>1, <1>3 DEF Multi, Running, Guarded, StagesFit
  <2>3. CASE Go(r, "queue", 1)
    <3>1. "queue" \in Running \ {"multi"}
      BY DEF Running
    <3>. QED BY <1>1, <2>1, <2>2, <2>3, <3>1, ExchangeGuarded DEF Go, Names
  <2>4. CASE Return(r, "error")
    BY <1>1, <2>1, <2>2, <2>4, ExchangeGuarded, ReturnTyped DEF Names, Guarded
  <2>. QED BY <2>1, <2>3, <2>4
<1>4. CASE Queue(r)
  <2>1. PICK reply :
          /\ raw(r, "command", reply)
          /\ \/ Go(r, "discard", next[r])
             \/ Go(r, "queue", next[r] + 1) /\ More(r)
             \/ Go(r, "exec", next[r])
    BY <1>4 DEF Queue
  <2>2. at[r] \in Running /\ r \in Transactions /\ UNCHANGED exec
    BY <1>1, <1>4 DEF Queue, Running, Guarded, StagesFit
  <2>3. PICK stage \in {"discard", "queue", "exec"}, i \in 1 .. Length : Go(r, stage, i)
    BY <1>1, <2>1
  <2>4. stage \in Running \ {"multi"} /\ stage # "plain" /\ stage # "ping"
    BY DEF Running
  <2>. QED BY <1>1, <2>1, <2>2, <2>3, <2>4, ExchangeGuarded DEF Go, Names
<1>5. CASE Discard(r)
  <2>1. PICK reply : raw(r, "DISCARD", reply)
    BY <1>5 DEF Discard
  <2>2. at[r] \in Running /\ UNCHANGED exec /\ Return(r, "error")
    BY <1>5 DEF Discard, Running
  <2>. QED BY <1>1, <2>1, <2>2, ExchangeGuarded, ReturnTyped DEF Names, Guarded
<1>6. CASE Exec(r)
  <2>1. PICK reply :
          raw(r, "EXEC", reply) /\ Return(r, IF reply = "array" THEN "ok" ELSE "error")
    BY <1>6 DEF Exec
  <2>2. at[r] \in Running /\ UNCHANGED exec
    BY <1>6 DEF Exec, Running
  <2>3. Release(r) /\ result' \in [Requests -> {"none", "ok", "error", "dropped"}]
        /\ verdict' \in [Pings -> {"none", "ready", "unavailable"}]
    BY <2>1, ReturnTyped DEF Guarded
  <2>. QED BY <1>1, <2>1, <2>2, <2>3, ExchangeGuarded DEF Names
<1>. QED BY <1>2, <1>3, <1>4, <1>5, <1>6 DEF RequestStep

LEMMA FromPooledClientGuarded ==
    ASSUME Guarded, NEW r \in Requests, NEW c \in Clients, FromPooledClient(r, c)
    PROVE  Guarded'
<1>1. r \in Actors /\ r # None
  BY ActorsApart
<1>2. TypeOK'
  BY <1>1 DEF Guarded, TypeOK, FromPooledClient
<1>3. /\ at[r] = "idle" /\ lease[c] = None
      /\ at'[r] = "locking" /\ \A b \in Actors : b # r => at'[b] = at[b]
      /\ client'[r] = c /\ \A b \in Actors : b # r => client'[b] = client[b]
      /\ lease'[c] = r /\ \A d \in Clients : d # c => lease'[d] = lease[d]
      /\ operation_lock' = operation_lock /\ kind' = kind /\ reset_started' = reset_started
  BY <1>1 DEF Guarded, TypeOK, FromPooledClient
<1>4. \A a \in Actors : at'[a] \notin {"idle", "done"} => client'[a] \in Clients
  BY <1>3 DEF Guarded, GuardsHeld
<1>5. \A a \in Actors : at'[a] \in Running => operation_lock'[client'[a]] = a
  BY <1>3 DEF Guarded, GuardsHeld, Running
<1>6. \A d \in Clients : operation_lock'[d] # None =>
        at'[operation_lock'[d]] \in Running /\ client'[operation_lock'[d]] = d
  <2>1. \A d \in Clients : operation_lock[d] # None =>
          operation_lock[d] \in Actors /\ operation_lock[d] # r
    BY <1>3 DEF Guarded, GuardsHeld, TypeOK, Running
  <2>. QED BY <1>3, <2>1 DEF Guarded, GuardsHeld
<1>7. \A q \in Requests : at'[q] \notin {"idle", "done"} => lease'[client'[q]] = q
  <2>1. \A q \in Requests : q # r /\ at[q] \notin {"idle", "done"} =>
          client[q] \in Clients /\ lease[client[q]] = q /\ client[q] # c
    BY <1>3, ActorsApart DEF Guarded, GuardsHeld
  <2>. QED BY <1>3, <2>1, ActorsApart
<1>8. \A d \in Clients : lease'[d] # None =>
        at'[lease'[d]] \notin {"idle", "done"} /\ client'[lease'[d]] = d
  <2>1. \A d \in Clients : lease[d] # None => lease[d] \in Actors /\ lease[d] # r
    BY <1>3, ActorsApart DEF Guarded, GuardsHeld, TypeOK
  <2>. QED BY <1>3, <2>1 DEF Guarded, GuardsHeld
<1>9. GuardsHeld'
  BY <1>4, <1>5, <1>6, <1>7, <1>8 DEF GuardsHeld, Running
<1>10. StagesFit'
  BY <1>1, <1>3, StagesKept DEF Guarded, StagesFit
<1>. QED BY <1>2, <1>9, <1>10 DEF Guarded

LEMMA ReadinessClientGuarded ==
    ASSUME Guarded, NEW p \in Pings, NEW c \in Clients, ReadinessClient(p, c)
    PROVE  Guarded'
<1>1. p \in Actors /\ p # None /\ p \notin Requests
  BY ActorsApart
<1>2. TypeOK'
  BY <1>1 DEF Guarded, TypeOK, ReadinessClient
<1>3. /\ at[p] = "idle"
      /\ at'[p] = "locking" /\ \A b \in Actors : b # p => at'[b] = at[b]
      /\ client'[p] = c /\ \A b \in Actors : b # p => client'[b] = client[b]
      /\ operation_lock' = operation_lock /\ lease' = lease
      /\ kind' = kind /\ reset_started' = reset_started
  BY <1>1 DEF Guarded, TypeOK, ReadinessClient
<1>4. \A a \in Actors : at'[a] \notin {"idle", "done"} => client'[a] \in Clients
  BY <1>3 DEF Guarded, GuardsHeld
<1>5. \A a \in Actors : at'[a] \in Running => operation_lock'[client'[a]] = a
  BY <1>3 DEF Guarded, GuardsHeld, Running
<1>6. \A d \in Clients : operation_lock'[d] # None =>
        at'[operation_lock'[d]] \in Running /\ client'[operation_lock'[d]] = d
  <2>1. \A d \in Clients : operation_lock[d] # None =>
          operation_lock[d] \in Actors /\ operation_lock[d] # p
    BY <1>3 DEF Guarded, GuardsHeld, TypeOK, Running
  <2>. QED BY <1>3, <2>1 DEF Guarded, GuardsHeld
<1>7. \A q \in Requests : at'[q] \notin {"idle", "done"} => lease'[client'[q]] = q
  BY <1>1, <1>3, ActorsApart DEF Guarded, GuardsHeld
<1>8. \A d \in Clients : lease'[d] # None =>
        at'[lease'[d]] \notin {"idle", "done"} /\ client'[lease'[d]] = d
  <2>1. \A d \in Clients : lease[d] # None => lease[d] \in Actors /\ lease[d] # p
    BY <1>1, ActorsApart DEF Guarded, TypeOK
  <2>. QED BY <1>3, <2>1 DEF Guarded, GuardsHeld
<1>9. GuardsHeld'
  BY <1>4, <1>5, <1>6, <1>7, <1>8 DEF GuardsHeld, Running
<1>10. StagesFit'
  BY <1>1, <1>3, StagesKept DEF Guarded, StagesFit
<1>. QED BY <1>2, <1>9, <1>10 DEF Guarded

LEMMA LockGuarded ==
    ASSUME Guarded, NEW a \in Actors, Lock(a)
    PROVE  Guarded'
<1>. DEFINE c == client[a]
            stage == IF a \in Pings THEN "ping"
                     ELSE IF kind[a] = "transaction" THEN "multi" ELSE "plain"
<1>1. c \in Clients /\ a # None /\ at[a] = "locking" /\ operation_lock[c] = None
  BY ActorsApart DEF Guarded, GuardsHeld, Lock
<1>2. stage \in {"ping", "multi", "plain"}
  OBVIOUS
<1>3. TypeOK'
  BY <1>1, <1>2 DEF Guarded, TypeOK, Lock, exec
<1>4. /\ at'[a] = stage /\ \A b \in Actors : b # a => at'[b] = at[b]
      /\ operation_lock'[c] = a
      /\ \A d \in Clients : d # c => operation_lock'[d] = operation_lock[d]
      /\ client' = client /\ lease' = lease /\ kind' = kind /\ reset_started' = reset_started
  BY <1>1 DEF Guarded, TypeOK, Lock, exec
<1>5. StagesFit'
  <2>1. /\ stage = "multi" => a \in Transactions
        /\ stage = "plain" => a \in Requests \ Transactions
        /\ stage = "ping" => a \in Pings
        /\ stage \notin {"queue", "discard", "exec", "idle", "locking"}
    BY DEF Actors, Transactions
  <2>2. ~reset_started[a]
    BY <1>1 DEF Guarded, StagesFit
  <2>. HIDE DEF stage
  <2>. QED BY <1>4, <2>1, <2>2, StagesKept DEF Guarded
<1>. HIDE DEF stage
<1>6. \A b \in Actors : at'[b] \notin {"idle", "done"} => client'[b] \in Clients
  BY <1>1, <1>4 DEF Guarded, GuardsHeld
<1>7. \A b \in Actors : at'[b] \in Running => operation_lock'[client'[b]] = b
  <2>1. \A b \in Actors : b # a /\ at[b] \in Running =>
          client[b] \in Clients /\ operation_lock[client[b]] = b /\ client[b] # c
    BY <1>1, ActorsApart DEF Guarded, GuardsHeld, Running
  <2>. QED BY <1>4, <2>1
<1>8. \A d \in Clients : operation_lock'[d] # None =>
        at'[operation_lock'[d]] \in Running /\ client'[operation_lock'[d]] = d
  <2>1. \A d \in Clients : operation_lock[d] # None =>
          operation_lock[d] \in Actors /\ operation_lock[d] # a
    BY <1>1 DEF Guarded, GuardsHeld, TypeOK, Running
  <2>. QED BY <1>2, <1>4, <2>1 DEF Guarded, GuardsHeld, Running
<1>9. \A q \in Requests : at'[q] \notin {"idle", "done"} => lease'[client'[q]] = q
  BY <1>1, <1>4, ActorsApart DEF Guarded, GuardsHeld
<1>10. \A d \in Clients : lease'[d] # None =>
        at'[lease'[d]] \notin {"idle", "done"} /\ client'[lease'[d]] = d
  <2>1. \A d \in Clients : lease[d] # None => lease[d] \in Actors
    BY ActorsApart DEF Guarded, TypeOK
  <2>. QED BY <1>2, <1>4, <2>1 DEF Guarded, GuardsHeld
<1>11. GuardsHeld'
  BY <1>6, <1>7, <1>8, <1>9, <1>10 DEF GuardsHeld, Running
<1>. QED BY <1>3, <1>5, <1>11 DEF Guarded

LEMMA NameTyped == \A r : Name(r) \in Names
<1>1. \A r : \/ Name(r) = "MULTI" \/ Name(r) = "DISCARD"
            \/ Name(r) = "EXEC" \/ Name(r) = "command"
  BY Zenon DEF Name
<1>. QED BY <1>1 DEF Names

LEMMA DropGuarded ==
    ASSUME Guarded, NEW r \in Requests, Drop(r)
    PROVE  Guarded'
<1>1. /\ r \in Actors /\ client[r] \in Clients
      /\ UNCHANGED <<client, kind, replaced, reset_started>> /\ Return(r, "dropped")
  BY ActorsApart, RedisConstants DEF Drop, exec, Guarded, GuardsHeld
<1>2. conn[client[r]] \in Conns /\ Command(r, next[r]) \in Ids
      /\ conn \in [Clients -> Conns] /\ applied \subseteq Ids
  BY <1>1 DEF Guarded, TypeOK, Conns, Ids, Command
<1>3. conn' \in [Clients -> Conns] /\ applied' \subseteq Ids
  <2>1. CASE UNCHANGED <<conn, applied>>
    BY <1>2, <2>1
  <2>2. CASE \E answer \in Answers(conn[client[r]], Name(r), Command(r, next[r])) :
                /\ conn' = [conn EXCEPT ![client[r]] = answer.conn]
                /\ applied' = Recorded(answer.ran)
    <3>1. PICK answer \in Answers(conn[client[r]], Name(r), Command(r, next[r])) :
                /\ conn' = [conn EXCEPT ![client[r]] = answer.conn]
                /\ applied' = Recorded(answer.ran)
      BY <2>2
    <3>2. answer.conn \in Conns /\ answer.ran \subseteq Ids
      BY <1>2, NameTyped, AnswersTyped
    <3>. QED BY <1>1, <1>2, <3>1, <3>2 DEF Recorded
  <2>. QED BY <2>1, <2>2 DEF Drop
<1>4. /\ Release(r)
      /\ result' \in [Requests -> {"none", "ok", "error", "dropped"}]
      /\ verdict' \in [Pings -> {"none", "ready", "unavailable"}]
  BY <1>1, ReturnTyped DEF Guarded
<1>5. /\ GuardsHeld'
      /\ at' \in [Actors -> {"idle", "locking", "plain", "multi", "queue",
                             "discard", "exec", "ping", "done"}]
      /\ next' \in [Actors -> 1 .. Length]
      /\ operation_lock' \in [Clients -> Actors \cup {None}]
      /\ lease' \in [Clients -> Requests \cup {None}]
  BY <1>1, <1>4, ReleaseGuarded DEF Guarded
<1>6. TypeOK'
  BY <1>1, <1>3, <1>4, <1>5 DEF Guarded, TypeOK, Conns, Ids
<1>7. at'[r] = "done" /\ \A b \in Actors : b # r => at'[b] = at[b]
  BY <1>1, <1>4 DEF Guarded, TypeOK, Release
<1>8. StagesFit'
  BY <1>1, <1>7, StagesKept DEF Guarded
<1>. QED BY <1>5, <1>6, <1>8 DEF Guarded

LEMMA PingGuarded ==
    ASSUME Guarded, NEW p \in Pings, Ping(p)
    PROVE  Guarded'
<1>1. PICK reply : raw(p, "command", reply)
        /\ Report(p, IF reply = "value" THEN "ready" ELSE "unavailable")
  BY DEF Ping
<1>2. /\ p \in Actors /\ at[p] \in Running /\ UNCHANGED exec /\ Release(p)
      /\ result' \in [Requests -> {"none", "ok", "error", "dropped"}]
  BY ActorsApart DEF Ping, Running, Guarded, TypeOK
<1>3. verdict' \in [Pings -> {"none", "ready", "unavailable"}]
  BY <1>1 DEF Report, Guarded, TypeOK
<1>. QED BY <1>1, <1>2, <1>3, ExchangeGuarded DEF Names

LEMMA NextGuarded == Guarded /\ [Next]_vars => Guarded'
<1>. SUFFICES ASSUME Guarded, [Next]_vars PROVE Guarded'
  OBVIOUS
<1>1. ASSUME NEW c \in Clients, Reconnect(c) PROVE Guarded'
  <2>1. conn' \in [Clients -> Conns]
    BY <1>1, FreshTyped DEF Reconnect, Guarded, TypeOK, Conns, Ids
  <2>2. TypeOK'
    BY <1>1, <2>1 DEF Reconnect, Guarded, TypeOK, Conns, Ids
  <2>3. GuardsHeld' /\ StagesFit'
    BY <1>1 DEF Reconnect, Guarded, GuardsHeld, StagesFit, Transactions
  <2>. QED BY <2>2, <2>3 DEF Guarded
<1>2. ASSUME NEW p \in Pings, ReadinessTimeout(p) PROVE Guarded'
  <2>1. verdict' \in [Pings -> {"none", "ready", "unavailable"}]
    BY <1>2 DEF ReadinessTimeout, Report, Guarded, TypeOK
  <2>2. TypeOK'
    BY <1>2, <2>1 DEF ReadinessTimeout, Guarded, TypeOK
  <2>3. GuardsHeld' /\ StagesFit'
    BY <1>2 DEF ReadinessTimeout, Guarded, GuardsHeld, StagesFit, Transactions
  <2>. QED BY <2>2, <2>3 DEF Guarded
<1>3. ASSUME UNCHANGED vars PROVE Guarded'
  BY <1>3 DEF vars, Guarded, TypeOK, GuardsHeld, StagesFit, Transactions
<1>. QED BY <1>1, <1>2, <1>3, RequestStepGuarded, FromPooledClientGuarded, DropGuarded,
            ReadinessClientGuarded, PingGuarded, LockGuarded DEF Next, AllDone

\* client_leases and client_operations: the operation lock of a client is held
\* by exactly the one request or PING that runs on it, and its lease by the one
\* request that has it, however handlers are dropped and connections lost.
THEOREM GuardsExclude == Spec => []Guarded
BY InitGuarded, NextGuarded, PTL DEF Spec

-----------------------------------------------------------------------------
(***************************************************************************)
(* The connections: Redis has one inside MULTI only while its holder is in *)
(* the middle of a transaction, and has only that holder's commands.       *)
(***************************************************************************)
Connected == Guarded /\ ConnectionsFit /\ OwnCommandsOnly

LEMMA HolderFacts ==
    ASSUME Guarded, NEW a \in Actors, at[a] \in Running
    PROVE  /\ client[a] \in Clients /\ operation_lock[client[a]] = a /\ a # None
           /\ \A d \in Clients : d # client[a] /\ operation_lock[d] # None =>
                 operation_lock[d] \in Actors /\ operation_lock[d] # a
BY ActorsApart DEF Guarded, GuardsHeld, TypeOK, Running

LEMMA FreshOutsideMulti ==
    ASSUME Connected, NEW a \in Actors, at[a] \in {"plain", "multi", "ping"}
    PROVE  conn[client[a]] = Fresh
<1>1. client[a] \in Clients /\ operation_lock[client[a]] = a
  BY HolderFacts DEF Connected, Running
<1>. QED BY <1>1 DEF Connected, ConnectionsFit

LEMMA ReleaseConnected ==
    ASSUME Connected, NEW a \in Actors, at[a] \in Running, Release(a), UNCHANGED client,
           conn' = [conn EXCEPT ![client[a]] = Fresh]
    PROVE  ConnectionsFit' /\ OwnCommandsOnly'
<1>. DEFINE c == client[a]
<1>1. /\ c \in Clients /\ operation_lock[c] = a /\ a # None
      /\ \A d \in Clients : d # c /\ operation_lock[d] # None =>
            operation_lock[d] \in Actors /\ operation_lock[d] # a
  BY HolderFacts DEF Connected
<1>2. /\ conn'[c] = Fresh /\ operation_lock'[c] = None
      /\ \A d \in Clients : d # c => conn'[d] = conn[d] /\ operation_lock'[d] = operation_lock[d]
      /\ \A b \in Actors : b # a => at'[b] = at[b]
  BY <1>1 DEF Connected, Guarded, TypeOK, Release
<1>3. ~Fresh.multi /\ Fresh.queue = {}
  BY DEF Fresh
<1>4. ConnectionsFit'
  <2>1. Fresh' = Fresh
    BY DEF Fresh
  <2>. QED BY <1>1, <1>2, <1>3, <2>1 DEF Connected, ConnectionsFit
<1>5. OwnCommandsOnly'
  BY <1>1, <1>2, <1>3 DEF Connected, OwnCommandsOnly
<1>. QED BY <1>4, <1>5

LEMMA GoConnected ==
    ASSUME Connected, NEW a \in Actors, at[a] \in Running,
           NEW stage, NEW i, Go(a, stage, i), UNCHANGED client,
           NEW k \in Conns, conn' = [conn EXCEPT ![client[a]] = k],
           \/ k = Fresh
           \/ /\ stage \in {"queue", "discard", "exec"}
              /\ k.multi /\ \A id \in k.queue : id[1] = a
    PROVE  ConnectionsFit' /\ OwnCommandsOnly'
<1>. DEFINE c == client[a]
<1>1. /\ c \in Clients /\ operation_lock[c] = a /\ a # None
      /\ \A d \in Clients : d # c /\ operation_lock[d] # None =>
            operation_lock[d] \in Actors /\ operation_lock[d] # a
  BY HolderFacts DEF Connected
<1>2. /\ conn'[c] = k /\ operation_lock' = operation_lock
      /\ \A d \in Clients : d # c => conn'[d] = conn[d]
      /\ at'[a] = stage /\ \A b \in Actors : b # a => at'[b] = at[b]
  BY <1>1 DEF Connected, Guarded, TypeOK, Go
<1>3. ~Fresh.multi /\ Fresh.queue = {}
  BY DEF Fresh
<1>4. ConnectionsFit'
  <2>1. Fresh' = Fresh
    BY DEF Fresh
  <2>. QED BY <1>1, <1>2, <1>3, <2>1 DEF Connected, ConnectionsFit
<1>5. OwnCommandsOnly'
  BY <1>1, <1>2, <1>3 DEF Connected, OwnCommandsOnly
<1>. QED BY <1>4, <1>5

\* Whoever is not running on a client can neither disturb a connection.
LEMMA OutsiderConnected ==
    ASSUME Connected, NEW a \in Actors, at[a] \notin Running, UNCHANGED conn,
           \A b \in Actors : b # a => at'[b] = at[b],
           \A c \in Clients : \/ operation_lock'[c] = operation_lock[c]
                             \/ operation_lock[c] = None
    PROVE  ConnectionsFit' /\ OwnCommandsOnly'
<1>1. \A c \in Clients : operation_lock[c] # None =>
        /\ operation_lock[c] \in Actors /\ operation_lock[c] # a
        /\ at'[operation_lock[c]] = at[operation_lock[c]]
  BY DEF Connected, Guarded, GuardsHeld, TypeOK
<1>2. \A c \in Clients : operation_lock[c] = None => conn[c] = Fresh
  BY DEF Connected, ConnectionsFit
<1>3. ~Fresh.multi /\ Fresh.queue = {}
  BY DEF Fresh
<1>4. ConnectionsFit'
  <2>1. Fresh' = Fresh
    BY DEF Fresh
  <2>. QED BY <1>1, <1>2, <1>3, <2>1 DEF Connected, ConnectionsFit
<1>5. OwnCommandsOnly'
  BY <1>1, <1>2, <1>3 DEF Connected, OwnCommandsOnly
<1>. QED BY <1>4, <1>5

LEMMA RequestStepConnected ==
    ASSUME Connected, NEW r \in Requests, RequestStep(r)
    PROVE  ConnectionsFit' /\ OwnCommandsOnly'
<1>. DEFINE c == client[r]
<1>1. /\ r \in Actors /\ TypeOK
      /\ at[r] \in Running => c \in Clients /\ operation_lock[c] = r
  BY ActorsApart, HolderFacts DEF Connected, Guarded
<1>2. /\ \A d \in Clients : conn[d] \in Conns /\ (conn[d].multi \/ conn[d] = Fresh)
      /\ \A d \in Clients : conn[d] = Fresh => [conn EXCEPT ![d] = Fresh] = conn
  BY DEF Connected, Guarded, TypeOK, Conns, Ids, ConnectionsFit
<1>3. CASE Execute(r)
  <2>1. PICK reply : raw(r, "command", reply)
    BY <1>3 DEF Execute
  <2>2. at[r] \in Running /\ at[r] = "plain" /\ UNCHANGED client
    BY <1>3 DEF Execute, Running, exec
  <2>3. conn[c] = Fresh
    BY <1>1, <2>2, FreshOutsideMulti
  <2>4. conn' = [conn EXCEPT ![c] = Fresh]
    BY <1>1, <1>2, <2>1, <2>2, <2>3, CommandOutside
  <2>5. Release(r) \/ Go(r, "plain", next[r] + 1)
    BY <1>3 DEF Execute, Return
  <2>. QED BY <1>1, <2>2, <2>4, <2>5, ReleaseConnected, GoConnected, FreshTyped
<1>4. CASE Multi(r)
  <2>1. PICK reply : raw(r, "MULTI", reply)
          /\ (IF reply = "OK" THEN Go(r, "queue", 1) ELSE Return(r, "error"))
    BY <1>4 DEF Multi
  <2>2. at[r] \in Running /\ at[r] = "multi" /\ UNCHANGED client
    BY <1>4 DEF Multi, Running, exec
  <2>3. conn[c] = Fresh /\ ~reset_started[r]
    BY <1>1, <2>2, FreshOutsideMulti DEF Connected, Guarded, StagesFit
  <2>4. CASE reply = "OK"
    <3>. DEFINE k == [Fresh EXCEPT !.multi = TRUE]
    <3>1. conn' = [conn EXCEPT ![c] = k] /\ Go(r, "queue", 1)
      BY <1>1, <2>1, <2>2, <2>3, <2>4, MultiExchange
    <3>2. k \in Conns /\ k.multi /\ k.queue = {}
      BY DEF Fresh, Conns
    <3>. HIDE DEF k
    <3>. QED BY <1>1, <2>2, <3>1, <3>2, GoConnected
  <2>5. CASE reply # "OK"
    <3>1. conn' = [conn EXCEPT ![c] = Fresh] /\ Release(r)
      BY <1>1, <1>2, <2>1, <2>2, <2>3, <2>5, MultiExchange DEF Return
    <3>. QED BY <1>1, <2>2, <3>1, ReleaseConnected
  <2>. QED BY <2>4, <2>5
<1>5. CASE Queue(r)
  <2>1. PICK reply : raw(r, "command", reply)
          /\ \E stage \in {"queue", "discard", "exec"}, i \in {next[r], next[r] + 1} :
                Go(r, stage, i)
    BY <1>5 DEF Queue
  <2>2. at[r] \in Running /\ UNCHANGED client
    BY <1>5 DEF Queue, Running, exec
  <2>3. \E k \in Conns :
          /\ conn' = [conn EXCEPT ![c] = k]
          /\ k = Fresh \/ (k.multi /\ \A id \in k.queue : id[1] = r)
    <3>1. CASE conn[c] = Fresh
      BY <1>1, <1>2, <2>1, <2>2, <3>1, CommandOutside, FreshTyped
    <3>2. CASE conn[c].multi
      <4>1. \E k \in Conns :
              /\ conn' = [conn EXCEPT ![c] = k]
              /\ k = Fresh \/ (k.multi /\ k.queue \subseteq conn[c].queue \cup {Command(r, next[r])})
        BY <1>1, <2>1, <2>2, <3>2, QueueExchange
      <4>2. \A id \in conn[c].queue \cup {Command(r, next[r])} : id[1] = r
        BY <1>1, <2>2 DEF Connected, OwnCommandsOnly, Command
      <4>3. PICK k \in Conns :
              /\ conn' = [conn EXCEPT ![c] = k]
              /\ k = Fresh \/ (k.multi /\ k.queue \subseteq conn[c].queue \cup {Command(r, next[r])})
        BY <4>1
      <4>4. k.queue \subseteq conn[c].queue \cup {Command(r, next[r])} =>
              \A id \in k.queue : id[1] = r
        BY <4>2
      <4>. QED BY <4>3, <4>4
    <3>. QED BY <1>1, <1>2, <2>2, <3>1, <3>2
  <2>. QED BY <1>1, <2>1, <2>2, <2>3, GoConnected
<1>6. CASE Discard(r)
  <2>1. PICK reply : raw(r, "DISCARD", reply)
    BY <1>6 DEF Discard
  <2>2. at[r] \in Running /\ UNCHANGED client /\ Release(r)
    BY <1>6 DEF Discard, Running, exec, Return
  <2>3. conn' = [conn EXCEPT ![c] = Fresh]
    BY <1>1, <1>2, <2>1, <2>2, DiscardExchange
  <2>. QED BY <1>1, <2>2, <2>3, ReleaseConnected
<1>7. CASE Exec(r)
  <2>1. PICK reply : raw(r, "EXEC", reply)
    BY <1>7 DEF Exec
  <2>2. at[r] \in Running /\ UNCHANGED client /\ Release(r)
    BY <1>7 DEF Exec, Running, exec, Return
  <2>3. conn' = [conn EXCEPT ![c] = Fresh]
    BY <1>1, <2>1, <2>2, ExecExchange
  <2>. QED BY <1>1, <2>2, <2>3, ReleaseConnected
<1>. QED BY <1>3, <1>4, <1>5, <1>6, <1>7 DEF RequestStep

LEMMA DropConnected ==
    ASSUME Connected, DropsOutsideTransactions, NEW r \in Requests, Drop(r)
    PROVE  ConnectionsFit' /\ OwnCommandsOnly' /\ (r \in Transactions => applied' = applied)
<1>1. /\ r \in Actors /\ at[r] \in {"locking", "plain"} /\ Release(r) /\ UNCHANGED client
  BY ActorsApart DEF DropsOutsideTransactions, Drop, Return, exec
<1>2. CASE at[r] = "locking"
  <2>1. at[r] \notin Running
    BY <1>2 DEF Running
  <2>2. UNCHANGED <<conn, applied>>
    BY <1>2 DEF Drop
  <2>3. \A b \in Actors : b # r => at'[b] = at[b]
    BY <1>1 DEF Release, Connected, Guarded, TypeOK
  <2>4. \A c \in Clients : operation_lock[c] # r
    BY <1>1, <2>1, ActorsApart DEF Connected, Guarded, GuardsHeld, TypeOK
  <2>5. \A c \in Clients : operation_lock'[c] = operation_lock[c]
    BY <1>1, <2>4 DEF Release
  <2>. QED BY <1>1, <2>1, <2>2, <2>3, <2>5, OutsiderConnected
<1>3. CASE at[r] = "plain"
  <2>1. /\ at[r] \in Running /\ client[r] \in Clients /\ conn[client[r]] = Fresh
        /\ r \notin Transactions
    BY <1>1, <1>3, HolderFacts, FreshOutsideMulti DEF Running, Connected, Guarded, StagesFit
  <2>2. conn' = [conn EXCEPT ![client[r]] = Fresh]
    <3>1. [conn EXCEPT ![client[r]] = Fresh] = conn
      BY <2>1 DEF Connected, Guarded, TypeOK
    <3>2. CASE UNCHANGED conn
      BY <3>1, <3>2
    <3>3. CASE \E answer \in Answers(conn[client[r]], Name(r), Command(r, next[r])) :
                  conn' = [conn EXCEPT ![client[r]] = answer.conn]
      <4>0. Name(r) = "command"
        <5>1. at[r] # "multi" /\ at[r] # "discard" /\ at[r] # "exec"
          BY <1>3
        <5>. QED BY <5>1, Zenon DEF Name
      <4>1. PICK answer \in Answers(Fresh, "command", Command(r, next[r])) :
              conn' = [conn EXCEPT ![client[r]] = answer.conn]
        BY <2>1, <3>3, <4>0
      <4>2. ~Fresh.multi
        BY DEF Fresh
      <4>3. answer \in {Answer("value", Fresh, {Command(r, next[r])}), Answer("error", Fresh, {})}
        BY <4>1, <4>2, FreshTyped, CommandAnswers
      <4>4. answer.conn = Fresh
        BY <4>3 DEF Answer
      <4>. QED BY <4>1, <4>4
    <3>. QED BY <3>2, <3>3 DEF Drop
  <2>. QED BY <1>1, <2>1, <2>2, ReleaseConnected
<1>. QED BY <1>1, <1>2, <1>3

LEMMA FromPooledClientConnected ==
    ASSUME Connected, NEW r \in Requests, NEW c \in Clients, FromPooledClient(r, c)
    PROVE  ConnectionsFit' /\ OwnCommandsOnly'
<1>1. r \in Actors /\ at[r] \notin Running
  BY ActorsApart DEF FromPooledClient, Running
<1>2. /\ UNCHANGED <<conn, operation_lock>>
      /\ \A b \in Actors : b # r => at'[b] = at[b]
  BY DEF FromPooledClient, Connected, Guarded, TypeOK
<1>. QED BY <1>1, <1>2, OutsiderConnected

LEMMA ReadinessClientConnected ==
    ASSUME Connected, NEW p \in Pings, NEW c \in Clients, ReadinessClient(p, c)
    PROVE  ConnectionsFit' /\ OwnCommandsOnly'
<1>1. p \in Actors /\ at[p] \notin Running
  BY ActorsApart DEF ReadinessClient, Running
<1>2. /\ UNCHANGED <<conn, operation_lock>>
      /\ \A b \in Actors : b # p => at'[b] = at[b]
  BY DEF ReadinessClient, Connected, Guarded, TypeOK
<1>. QED BY <1>1, <1>2, OutsiderConnected

LEMMA LockConnected ==
    ASSUME Connected, NEW a \in Actors, Lock(a)
    PROVE  ConnectionsFit' /\ OwnCommandsOnly'
<1>1. at[a] \notin Running
  BY DEF Lock, Running
<1>2. /\ UNCHANGED conn
      /\ \A b \in Actors : b # a => at'[b] = at[b]
      /\ \A c \in Clients : operation_lock'[c] = operation_lock[c] \/ operation_lock[c] = None
  BY DEF Lock, Connected, Guarded, TypeOK
<1>. QED BY <1>1, <1>2, OutsiderConnected

LEMMA PingConnected ==
    ASSUME Connected, NEW p \in Pings, Ping(p)
    PROVE  ConnectionsFit' /\ OwnCommandsOnly' /\ applied' = applied
<1>1. PICK reply : raw(p, "command", reply)
  BY DEF Ping
<1>2. /\ p \in Actors /\ p \notin Transactions /\ at[p] = "ping" /\ at[p] \in Running
      /\ Release(p) /\ UNCHANGED client /\ TypeOK
  BY ActorsApart DEF Ping, Running, exec, Connected, Guarded
<1>3. client[p] \in Clients /\ conn[client[p]] = Fresh
  BY <1>2, HolderFacts, FreshOutsideMulti DEF Connected
<1>4. conn' = conn /\ applied' = applied
  BY <1>1, <1>2, <1>3, CommandOutside
<1>5. conn' = [conn EXCEPT ![client[p]] = Fresh]
  BY <1>2, <1>3, <1>4 DEF TypeOK
<1>. QED BY <1>2, <1>4, <1>5, ReleaseConnected

LEMMA ReconnectConnected ==
    ASSUME Connected, NEW c \in Clients, Reconnect(c)
    PROVE  ConnectionsFit' /\ OwnCommandsOnly'
<1>1. UNCHANGED <<at, operation_lock>> /\ Fresh' = Fresh /\ Fresh.queue = {} /\ ~Fresh.multi
  BY DEF Reconnect, Fresh
<1>2. conn'[c] = Fresh /\ \A d \in Clients : d # c => conn'[d] = conn[d]
  BY DEF Reconnect, Connected, Guarded, TypeOK
<1>. QED BY <1>1, <1>2 DEF Connected, ConnectionsFit, OwnCommandsOnly

LEMMA InitConnected == Init => Connected
<1>. SUFFICES ASSUME Init PROVE Connected
  OBVIOUS
<1>1. \A c \in Clients : conn[c] = Fresh
  BY DEF Init
<1>2. ~Fresh.multi /\ Fresh.queue = {}
  BY DEF Fresh
<1>. QED BY <1>1, <1>2, InitGuarded DEF Connected, ConnectionsFit, OwnCommandsOnly

LEMMA NextConnected ==
    ASSUME DropsOutsideTransactions
    PROVE  Connected /\ [Next]_vars => Connected'
<1>. SUFFICES ASSUME Connected, [Next]_vars PROVE Connected'
  OBVIOUS
<1>1. Guarded'
  BY NextGuarded DEF Connected
<1>2. ASSUME UNCHANGED <<at, operation_lock, conn>> PROVE ConnectionsFit' /\ OwnCommandsOnly'
  <2>1. Fresh' = Fresh
    BY DEF Fresh
  <2>. QED BY <1>2, <2>1 DEF Connected, ConnectionsFit, OwnCommandsOnly
<1>3. ASSUME NEW p \in Pings, ReadinessTimeout(p) PROVE ConnectionsFit' /\ OwnCommandsOnly'
  BY <1>2, <1>3 DEF ReadinessTimeout
<1>4. ASSUME UNCHANGED vars PROVE ConnectionsFit' /\ OwnCommandsOnly'
  BY <1>2, <1>4 DEF vars
<1>5. ConnectionsFit' /\ OwnCommandsOnly'
  BY <1>3, <1>4, RequestStepConnected, FromPooledClientConnected, DropConnected,
     ReadinessClientConnected, PingConnected, LockConnected, ReconnectConnected
     DEF Next, AllDone
<1>. QED BY <1>1, <1>5 DEF Connected

\* Requests and PINGs keep out of each other's operations: nobody's command
\* gets into another's transaction, whichever exchanges time out or fail and
\* whenever connections are lost.  Handlers dropped inside a transaction are
\* the one exception, which the redis_dropped run shows.
THEOREM OperationsStayApart ==
    ASSUME DropsOutsideTransactions
    PROVE  Spec => []OperationsKeptApart
<1>1. Connected => OperationsKeptApart
  BY DEF Connected, Guarded, OperationsKeptApart
<1>. QED BY <1>1, InitConnected, NextConnected, PTL DEF Spec

\* FredExecutor::transaction and map_error never hand over a connection that
\* is inside MULTI: EXEC, DISCARD and a forced reconnection all end it, and a
\* MULTI whose answer is lost is the first exchange of its executor, so that
\* its timeout always forces the reconnection.
THEOREM NoTransactionStaysOpen ==
    ASSUME DropsOutsideTransactions
    PROVE  Spec => []NoTransactionLeftBehind
<1>1. Connected => NoTransactionLeftBehind
  <2>. SUFFICES ASSUME Connected, NEW c \in Clients, conn[c].multi
                PROVE  operation_lock[c] \in Transactions
    BY DEF NoTransactionLeftBehind
  <2>1. /\ operation_lock[c] \in Actors
        /\ at[operation_lock[c]] \in {"queue", "discard", "exec"}
    BY DEF Connected, ConnectionsFit, Guarded, TypeOK
  <2>. QED BY <2>1 DEF Connected, Guarded, StagesFit
<1>. QED BY <1>1, InitConnected, NextConnected, PTL DEF Spec

-----------------------------------------------------------------------------
(***************************************************************************)
(* Transactions.  What a transaction has run needs no assumption either: a *)
(* connection left inside MULTI refuses the next MULTI, and nothing on it  *)
(* is ever executed.  TransactionOK is AtomicUnlessReplaced for one of     *)
(* them.                                                                   *)
(***************************************************************************)

\* Nothing is queued, and no queue is spoilt, outside MULTI.
Settled == \A c \in Clients : conn[c].multi \/ conn[c] = Fresh

Outcome(r) ==
    \/ Ran(r) \in {{}, CommandsOf(r)}
    \/ r \in replaced /\ \E id \in CommandsOf(r) : Ran(r) = {id}

QueueOK(r) ==
    /\ at[r] \notin {"discard", "done"} => Ran(r) = {}
    /\ at[r] = "queue" =>
          \/ conn[client[r]] = Fresh /\ r \in replaced
          \/ /\ conn[client[r]].multi /\ ~conn[client[r]].spoilt
             /\ conn[client[r]].queue = {Command(r, i) : i \in 1 .. next[r] - 1}
    /\ at[r] = "exec" =>
          \/ conn[client[r]] = Fresh
          \/ ~conn[client[r]].spoilt /\ conn[client[r]].queue = CommandsOf(r)

TransactionOK(r) ==
    /\ result[r] = "ok" => Ran(r) = CommandsOf(r)
    /\ Outcome(r)
    /\ QueueOK(r)

LEMMA AtomicByTransaction ==
    AtomicUnlessReplaced <=> \A r \in Transactions : TransactionOK(r)
BY DEF AtomicUnlessReplaced, QueuedSoFar, TransactionOK, Outcome, QueueOK

LEMMA AtomicByTransactionNext ==
    ASSUME Transactions' = Transactions, \A r \in Transactions : TransactionOK(r)'
    PROVE  AtomicUnlessReplaced'
BY DEF AtomicUnlessReplaced, QueuedSoFar, TransactionOK, Outcome, QueueOK

LEMMA SomeCommand == \A r : Command(r, 1) \in CommandsOf(r)
BY RedisConstants DEF CommandsOf

LEMMA AnswersSettled ==
    ASSUME NEW k \in Conns, k.multi \/ k = Fresh, NEW id \in Ids, NEW name \in Names,
           NEW answer \in Answers(k, name, id)
    PROVE  answer.conn.multi \/ answer.conn = Fresh
<1>. DEFINE open == [k EXCEPT !.multi = TRUE]
            queued == [k EXCEPT !.queue = @ \cup {id}]
            failed == [k EXCEPT !.spoilt = TRUE]
<1>0. open.multi /\ (k.multi => queued.multi /\ failed.multi)
  BY DEF Conns
<1>. HIDE DEF open, queued, failed
<1>1. CASE name = "MULTI"
  <2>1. answer = Answer("error", k, {}) \/ answer = Answer("OK", open, {})
    BY <1>1, MultiAnswers DEF open
  <2>. QED BY <1>0, <2>1, AnswerFields
<1>2. CASE name = "DISCARD"
  BY <1>2, DiscardAnswers, AnswerFields
<1>3. CASE name = "EXEC"
  BY <1>3, ExecAnswers, AnswerFields
<1>4. CASE name = "command"
  <2>1. CASE k.multi
    <3>1. answer = Answer("QUEUED", queued, {}) \/ answer = Answer("error", failed, {})
      BY <1>4, <2>1, CommandAnswers DEF queued, failed
    <3>. QED BY <1>0, <2>1, <3>1, AnswerFields
  <2>2. CASE ~k.multi
    <3>1. answer \in {Answer("value", k, {id}), Answer("error", k, {})}
      BY <1>4, <2>2, CommandAnswers
    <3>. QED BY <2>2, <3>1, AnswerFields
  <2>. QED BY <2>1, <2>2
<1>. QED BY <1>1, <1>2, <1>3, <1>4 DEF Names

LEMMA RawSettled ==
    ASSUME Guarded, Settled, NEW a \in Actors, at[a] \in Running,
           NEW name \in Names, NEW reply, raw(a, name, reply)
    PROVE  Settled'
<1>. DEFINE c == client[a]
<1>1. c \in Clients /\ TypeOK /\ Command(a, next[a]) \in Ids /\ conn \in [Clients -> Conns]
  BY HolderFacts DEF Guarded, TypeOK, Ids, Command, Conns
<1>2. PICK answer \in Answers(conn[c], name, Command(a, next[a])) :
        conn' = [conn EXCEPT ![c] = Fresh] \/ conn' = [conn EXCEPT ![c] = answer.conn]
  BY <1>1, RawOutcome
<1>3. answer.conn.multi \/ answer.conn = Fresh
  BY <1>1, <1>2, AnswersSettled DEF Settled
<1>4. Fresh' = Fresh
  BY DEF Fresh
<1>5. \E k : conn' = [conn EXCEPT ![c] = k] /\ (k.multi \/ k = Fresh)
  BY <1>2, <1>3
<1>. QED BY <1>1, <1>4, <1>5 DEF Settled

LEMMA DropSettled ==
    ASSUME Guarded, Settled, NEW r \in Requests, Drop(r)
    PROVE  Settled'
<1>. DEFINE c == client[r]
<1>1. /\ r \in Actors /\ c \in Clients /\ Command(r, next[r]) \in Ids
      /\ conn \in [Clients -> Conns] /\ Fresh' = Fresh
  BY ActorsApart, RedisConstants
     DEF Drop, Guarded, GuardsHeld, TypeOK, Ids, Command, Conns, Fresh
<1>2. CASE UNCHANGED conn
  BY <1>1, <1>2 DEF Settled
<1>3. CASE \E answer \in Answers(conn[c], Name(r), Command(r, next[r])) :
             conn' = [conn EXCEPT ![c] = answer.conn]
  <2>1. PICK answer \in Answers(conn[c], Name(r), Command(r, next[r])) :
          conn' = [conn EXCEPT ![c] = answer.conn]
    BY <1>3
  <2>2. answer.conn.multi \/ answer.conn = Fresh
    BY <1>1, <2>1, NameTyped, AnswersSettled DEF Settled
  <2>. QED BY <1>1, <2>1, <2>2 DEF Settled
<1>. QED BY <1>2, <1>3 DEF Drop

LEMMA NextSettled == Guarded /\ Settled /\ [Next]_vars => Settled'
<1>. SUFFICES ASSUME Guarded, Settled, [Next]_vars PROVE Settled'
  OBVIOUS
<1>1. ASSUME UNCHANGED conn PROVE Settled'
  BY <1>1 DEF Settled, Fresh
<1>2. ASSUME NEW r \in Requests, RequestStep(r) PROVE Settled'
  <2>1. r \in Actors /\ at[r] \in Running
    BY <1>2, ActorsApart DEF RequestStep, Execute, Multi, Queue, Discard, Exec, Running
  <2>2. \E name \in Names, reply \in Replies : raw(r, name, reply)
    BY <1>2 DEF RequestStep, Execute, Multi, Queue, Discard, Exec, Names
  <2>. QED BY <2>1, <2>2, RawSettled
<1>3. ASSUME NEW p \in Pings, Ping(p) PROVE Settled'
  <2>1. p \in Actors /\ at[p] \in Running /\ \E reply : raw(p, "command", reply)
    BY <1>3, ActorsApart DEF Ping, Running
  <2>. QED BY <2>1, RawSettled DEF Names
<1>4. ASSUME NEW c \in Clients, Reconnect(c) PROVE Settled'
  <2>1. Fresh' = Fresh /\ conn' = [conn EXCEPT ![c] = Fresh] /\ conn \in [Clients -> Conns]
    BY <1>4 DEF Reconnect, Fresh, Guarded, TypeOK, Conns, Ids
  <2>. QED BY <2>1 DEF Settled
<1>5. ASSUME NEW r \in Requests, NEW c \in Clients, FromPooledClient(r, c) PROVE Settled'
  BY <1>1, <1>5 DEF FromPooledClient
<1>6. ASSUME NEW p \in Pings, NEW c \in Clients, ReadinessClient(p, c) PROVE Settled'
  BY <1>1, <1>6 DEF ReadinessClient
<1>7. ASSUME NEW a \in Actors, Lock(a) PROVE Settled'
  BY <1>1, <1>7 DEF Lock
<1>8. ASSUME NEW p \in Pings, ReadinessTimeout(p) PROVE Settled'
  BY <1>1, <1>8 DEF ReadinessTimeout
<1>9. ASSUME UNCHANGED vars PROVE Settled'
  BY <1>1, <1>9 DEF vars
<1>. QED BY <1>2, <1>3, <1>4, <1>5, <1>6, <1>7, <1>8, <1>9, DropSettled DEF Next, AllDone

\* A command runs at most itself, and nothing inside MULTI, where alone it is queued.
LEMMA CommandRuns ==
    ASSUME NEW k \in Conns, NEW id, NEW answer \in Answers(k, "command", id)
    PROVE  /\ answer.ran \subseteq {id}
           /\ k.multi => answer.ran = {}
           /\ answer.reply = "QUEUED" => k.multi
<1>1. CASE k.multi
  <2>1. \/ answer = Answer("QUEUED", [k EXCEPT !.queue = @ \cup {id}], {})
        \/ answer = Answer("error", [k EXCEPT !.spoilt = TRUE], {})
    BY <1>1, CommandAnswers
  <2>. QED BY <1>1, <2>1, AnswerFields
<1>2. CASE ~k.multi
  <2>1. answer = Answer("value", k, {id}) \/ answer = Answer("error", k, {})
    BY <1>2, CommandAnswers
  <2>. QED BY <1>2, <2>1, AnswerFields
<1>. QED BY <1>1, <1>2

\* Only the commands of transactions are recorded.
LEMMA OthersRunUnrecorded ==
    ASSUME NEW a, a \notin Transactions, NEW i, NEW ran \in SUBSET {Command(a, i)}
    PROVE  Recorded(ran) = applied
<1>1. \A id \in ran : id[1] = a
  BY DEF Command
<1>. QED BY <1>1 DEF Recorded

\* Whether it is answered or dropped, an exchange of a transaction leaves it
\* with an outcome the property allows, and EXEC's array with all it queued.
LEMMA ExchangeOutcome ==
    ASSUME Guarded, Settled, NEW r \in Transactions, TransactionOK(r),
           at[r] \in {"multi", "queue", "discard", "exec"}, replaced' = replaced,
           NEW answer \in Answers(conn[client[r]], Name(r), Command(r, next[r])),
           applied' \in {applied, Recorded(answer.ran)}
    PROVE  /\ applied \subseteq applied'
           /\ \A id \in applied' : id \in applied \/ id[1] = r
           /\ Outcome(r)'
           /\ answer.reply = "array" /\ applied' = Recorded(answer.ran) =>
                 Ran(r)' = CommandsOf(r)'
<1>. DEFINE c == client[r]
            id0 == Command(r, next[r])
<1>1. /\ r \in Actors /\ conn[c] \in Conns /\ (conn[c].multi \/ conn[c] = Fresh)
      /\ id0 \in CommandsOf(r) /\ id0[1] = r /\ CommandsOf(r)' = CommandsOf(r)
      /\ \A id \in CommandsOf(r) : id[1] = r
  <2>1. r \in Actors /\ c \in Clients
    BY ActorsApart, HolderFacts DEF Transactions, Running
  <2>2. conn[c] \in Conns /\ (conn[c].multi \/ conn[c] = Fresh)
    BY <2>1 DEF Guarded, TypeOK, Conns, Ids, Settled
  <2>. QED BY <2>1, <2>2 DEF Guarded, TypeOK, CommandsOf, Command
<1>. HIDE DEF id0
<1>2. ASSUME applied' = applied PROVE Outcome(r)'
  BY <1>1, <1>2 DEF TransactionOK, Outcome, Ran
<1>3. CASE at[r] \in {"multi", "discard"}
  <2>1. answer.ran = {} /\ answer.reply # "array"
    <3>1. CASE at[r] = "multi"
      <4>1. Name(r) = "MULTI"
        BY <3>1, Zenon DEF Name
      <4>2. answer = Answer("error", conn[c], {})
            \/ answer = Answer("OK", [conn[c] EXCEPT !.multi = TRUE], {})
        BY <1>1, <4>1, MultiAnswers
      <4>. QED BY <4>2, AnswerFields
    <3>2. CASE at[r] = "discard"
      <4>0. at[r] # "multi"
        BY <3>2
      <4>1. Name(r) = "DISCARD"
        BY <3>2, <4>0, Zenon DEF Name
      <4>. QED BY <1>1, <4>1, DiscardAnswers, AnswerFields
    <3>. QED BY <1>3, <3>1, <3>2
  <2>2. applied' = applied
    BY <2>1, NothingRan
  <2>. QED BY <1>2, <2>1, <2>2
<1>4. CASE at[r] = "queue"
  <2>1. Name(r) = "command"
    <3>1. at[r] # "multi" /\ at[r] # "discard" /\ at[r] # "exec"
      BY <1>4
    <3>. QED BY <3>1, Zenon DEF Name
  <2>2. /\ answer.ran \subseteq {id0} /\ (conn[c].multi => answer.ran = {})
        /\ answer.reply # "array"
    <3>1. answer \in Answers(conn[c], "command", id0)
      BY <2>1 DEF id0
    <3>2. answer.reply # "array"
      BY <3>1 DEF Answers, Answer
    <3>. QED BY <1>1, <3>1, <3>2, CommandRuns
  <2>3. CASE applied' = applied
    BY <1>2, <2>2, <2>3
  <2>4. CASE applied' # applied
    <3>1. conn[c] = Fresh /\ r \in replaced /\ answer.ran = {id0}
      <4>1. answer.ran = {id0} /\ ~conn[c].multi
        BY <2>2, <2>4, NothingRan
      <4>. QED BY <1>4, <4>1 DEF TransactionOK, QueueOK
    <3>2. applied' = applied \cup {id0}
      BY <1>1, <2>4, <3>1 DEF Recorded
    <3>3. Ran(r) = {}
      BY <1>4 DEF TransactionOK, QueueOK
    <3>4. Ran(r)' = {id0}
      BY <1>1, <3>2, <3>3 DEF Ran
    <3>5. Outcome(r)'
      BY <1>1, <3>1, <3>4 DEF Outcome
    <3>. QED BY <1>1, <2>2, <3>2, <3>5
  <2>. QED BY <2>3, <2>4
<1>5. CASE at[r] = "exec"
  <2>0. at[r] # "multi" /\ at[r] # "discard"
    BY <1>5
  <2>1. Name(r) = "EXEC"
    BY <1>5, <2>0, Zenon DEF Name
  <2>2. CASE conn[c].multi /\ ~conn[c].spoilt
    <3>1. conn[c].queue = CommandsOf(r)
      BY <1>5, <2>2 DEF TransactionOK, QueueOK, Fresh
    <3>2. answer.ran = CommandsOf(r)
      BY <1>1, <2>1, <2>2, <3>1, ExecAnswers, AnswerFields
    <3>3. Recorded(answer.ran) = applied \cup CommandsOf(r)
      BY <1>1, <3>2 DEF Recorded
    <3>4. CASE applied' = Recorded(answer.ran)
      <4>1. Ran(r)' = CommandsOf(r)'
        BY <1>1, <3>3, <3>4 DEF Ran
      <4>. QED BY <1>1, <3>3, <3>4, <4>1 DEF Outcome
    <3>5. CASE applied' # Recorded(answer.ran)
      BY <1>2, <3>5
    <3>. QED BY <3>4, <3>5
  <2>3. CASE ~(conn[c].multi /\ ~conn[c].spoilt)
    <3>1. answer.ran = {} /\ answer.reply = "error"
      BY <1>1, <2>1, <2>3, ExecAnswers, AnswerFields
    <3>2. applied' = applied
      BY <3>1, NothingRan
    <3>. QED BY <1>2, <3>1, <3>2
  <2>. QED BY <2>2, <2>3
<1>. QED BY <1>3, <1>4, <1>5

\* A transaction is not disturbed by the steps of others.
LEMMA OthersUndisturbed ==
    ASSUME NEW r, TransactionOK(r),
           at'[r] = at[r], next'[r] = next[r], client'[r] = client[r], result'[r] = result[r],
           at[r] \in Running => conn'[client[r]] = conn[client[r]],
           r \in replaced => r \in replaced',
           applied \subseteq applied', \A id \in applied' : id \in applied \/ id[1] # r
    PROVE  TransactionOK(r)'
<1>1. CommandsOf(r)' = CommandsOf(r) /\ Fresh' = Fresh
      /\ \A i : Command(r, i)' = Command(r, i)
  BY DEF CommandsOf, Command, Fresh
<1>2. \A id \in CommandsOf(r) : id[1] = r
  BY DEF CommandsOf, Command
<1>3. Ran(r)' = Ran(r)
  BY <1>1, <1>2 DEF Ran
<1>4. Outcome(r)'
  BY <1>1, <1>3 DEF TransactionOK, Outcome
<1>5. QueueOK(r)'
  BY <1>1, <1>3 DEF TransactionOK, QueueOK, Running, Command
<1>. QED BY <1>1, <1>3, <1>4, <1>5 DEF TransactionOK

LEMMA HolderLeavesOthers ==
    ASSUME Guarded, NEW a \in Actors, at[a] \in Running, UNCHANGED <<client, replaced>>,
           Release(a) \/ \E stage, i : Go(a, stage, i),
           NEW k, conn' = [conn EXCEPT ![client[a]] = k],
           \A q \in Requests : q # a => result'[q] = result[q],
           applied \subseteq applied', \A id \in applied' : id \in applied \/ id[1] = a,
           NEW r \in Transactions, r # a, TransactionOK(r)
    PROVE  TransactionOK(r)'
<1>1. r \in Requests /\ r \in Actors
  BY ActorsApart DEF Transactions
<1>2. at'[r] = at[r] /\ next'[r] = next[r]
  BY <1>1 DEF Release, Go, Guarded, TypeOK
<1>3. at[r] \in Running => client[r] \in Clients /\ client[r] # client[a]
  BY <1>1, HolderFacts
<1>4. at[r] \in Running => conn'[client[r]] = conn[client[r]]
  BY <1>3 DEF Guarded, TypeOK
<1>. QED BY <1>1, <1>2, <1>4, OthersUndisturbed

\* A transaction ends, or goes on to DISCARD, with an outcome and without an "ok"
\* it has not earned.
LEMMA EndsWell ==
    ASSUME Guarded, NEW r \in Transactions, TransactionOK(r), applied \subseteq applied',
           Release(r) \/ \E i : Go(r, "discard", i),
           Outcome(r)', result'[r] \in {result[r], "error", "dropped"} \/ Ran(r)' = CommandsOf(r)'
    PROVE  TransactionOK(r)'
<1>1. r \in Actors
  BY ActorsApart DEF Transactions
<1>2. at'[r] \in {"done", "discard"}
  BY <1>1 DEF Release, Go, Guarded, TypeOK
<1>3. QueueOK(r)'
  BY <1>2 DEF QueueOK
<1>4. result'[r] = "ok" => Ran(r)' = CommandsOf(r)'
  <2>1. CommandsOf(r)' = CommandsOf(r)
    BY DEF CommandsOf, Command
  <2>2. Ran(r) = CommandsOf(r) => Ran(r)' = CommandsOf(r)'
    BY <2>1 DEF Ran
  <2>. QED BY <2>2 DEF TransactionOK
<1>. QED BY <1>3, <1>4 DEF TransactionOK

LEMMA MultiOpens ==
    ASSUME TypeOK, NEW a \in Actors, client[a] \in Clients,
           conn[client[a]].multi \/ conn[client[a]] = Fresh,
           ~reset_started[a], raw(a, "MULTI", "OK")
    PROVE  conn' = [conn EXCEPT ![client[a]] = [Fresh EXCEPT !.multi = TRUE]]
<1>. DEFINE k == conn[client[a]]
<1>1. CASE k.multi
  <2>1. PICK answer \in Answers(k, "MULTI", Command(a, next[a])) :
          k \in Conns /\ answer.reply = "OK"
    BY RawOutcome DEF Names
  <2>2. answer = Answer("error", k, {})
    BY <1>1, <2>1, MultiAnswers
  <2>. QED BY <2>1, <2>2, AnswerFields
<1>2. CASE ~k.multi
  BY <1>2, MultiExchange
<1>. QED BY <1>1, <1>2

LEMMA QueueAtomic ==
    ASSUME Guarded, Settled, NEW a \in Transactions, TransactionOK(a), Queue(a),
           Outcome(a)', applied \subseteq applied'
    PROVE  TransactionOK(a)'
<1>. DEFINE c == client[a]
<1>1. PICK reply : /\ raw(a, "command", reply)
          /\ IF ~Queued(reply) THEN Go(a, "discard", next[a])
             ELSE IF More(a) THEN Go(a, "queue", next[a] + 1)
             ELSE Go(a, "exec", next[a])
  BY DEF Queue
<1>2. /\ a \in Actors /\ a \in Requests /\ at[a] = "queue" /\ c \in Clients
      /\ conn[c] \in Conns /\ client' = client /\ TypeOK
      /\ next[a] \in 1 .. Length /\ Length \in Nat
  <2>1. /\ a \in Actors /\ a \in Requests /\ at[a] = "queue" /\ at[a] \in Running
        /\ client' = client /\ TypeOK
    BY ActorsApart DEF Transactions, Queue, Running, exec, Guarded
  <2>. QED BY <2>1, HolderFacts, RedisConstants DEF TypeOK, Conns, Ids
<1>3. CASE ~Queued(reply)
  <2>1. Go(a, "discard", next[a]) /\ result' = result
    BY <1>1, <1>3 DEF Go
  <2>. QED BY <2>1, EndsWell
<1>4. CASE Queued(reply)
  <2>1. reply = "QUEUED"
    BY <1>4 DEF Queued
  <2>2. conn[c].multi
    <3>1. PICK answer \in Answers(conn[c], "command", Command(a, next[a])) : reply = answer.reply
      BY <1>1, <1>2, <2>1, RawOutcome DEF Names
    <3>. QED BY <1>2, <2>1, <3>1, CommandRuns
  <2>3. /\ ~conn[c].spoilt /\ Ran(a) = {}
        /\ conn[c].queue = {Command(a, i) : i \in 1 .. next[a] - 1}
    BY <1>2, <2>2 DEF TransactionOK, QueueOK, Fresh
  <2>4. /\ applied' = applied
        /\ conn' = [conn EXCEPT ![c] = [conn[c] EXCEPT !.queue = @ \cup {Command(a, next[a])}]]
    BY <1>1, <1>2, <2>1, <2>2, QueueExchange
  <2>5. conn'[client'[a]] = [conn[c] EXCEPT !.queue = @ \cup {Command(a, next[a])}]
    BY <1>2, <2>4 DEF TypeOK
  <2>6. /\ conn'[client'[a]].multi /\ ~conn'[client'[a]].spoilt
        /\ conn'[client'[a]].queue = conn[c].queue \cup {Command(a, next[a])}
    BY <1>2, <2>2, <2>3, <2>5 DEF Conns
  <2>7. conn'[client'[a]].queue = {Command(a, i) : i \in 1 .. next[a]}
    BY <1>2, <2>3, <2>6
  <2>8. Ran(a)' = {} /\ result' = result
    BY <1>1, <1>4, <2>3, <2>4 DEF Ran, CommandsOf, Command, Go
  <2>9. result[a] # "ok"
    BY <2>3, SomeCommand DEF TransactionOK
  <2>10. QueueOK(a)'
    <3>1. CASE More(a)
      <4>1. at'[a] = "queue" /\ next'[a] = next[a] + 1
        BY <1>1, <1>2, <1>4, <3>1 DEF Go, TypeOK
      <4>2. next'[a] - 1 = next[a]
        BY <1>2, <4>1
      <4>. QED BY <2>6, <2>7, <2>8, <4>1, <4>2 DEF QueueOK, Command
    <3>2. CASE ~More(a)
      <4>0. next[a] = Length
        BY <1>2, <3>2 DEF More
      <4>1. at'[a] = "exec"
        BY <1>1, <1>2, <1>4, <3>2 DEF Go, TypeOK
      <4>2. conn'[client'[a]].queue = CommandsOf(a)'
        BY <2>7, <4>0 DEF CommandsOf, Command
      <4>. QED BY <2>6, <2>8, <4>1, <4>2 DEF QueueOK
    <3>. QED BY <3>1, <3>2
  <2>. QED BY <2>8, <2>9, <2>10 DEF TransactionOK
<1>. QED BY <1>3, <1>4

LEMMA TransactionStepAtomic ==
    ASSUME Guarded, Settled, NEW a \in Transactions, TransactionOK(a), RequestStep(a)
    PROVE  /\ TransactionOK(a)'
           /\ applied \subseteq applied'
           /\ \A id \in applied' : id \in applied \/ id[1] = a
<1>. DEFINE c == client[a]
<1>1. /\ a \in Actors /\ a \in Requests /\ TypeOK /\ at[a] # "plain"
      /\ at[a] \in {"multi", "queue", "discard", "exec"} /\ at[a] \in Running
      /\ replaced' = replaced /\ client' = client
  <2>1. a \in Actors /\ a \in Requests /\ TypeOK
    BY ActorsApart DEF Transactions, Guarded
  <2>2. at[a] # "plain"
    BY <2>1 DEF Guarded, StagesFit
  <2>. QED BY <2>1, <2>2 DEF RequestStep, Execute, Multi, Queue, Discard, Exec, Running, exec
<1>2. c \in Clients /\ conn[c] \in Conns /\ (conn[c].multi \/ conn[c] = Fresh)
  BY <1>1, HolderFacts DEF TypeOK, Conns, Ids, Settled
<1>3. PICK reply :
        /\ raw(a, Name(a), reply)
        /\ at[a] = "multi" =>
              IF reply = "OK" THEN Go(a, "queue", 1) ELSE Return(a, "error")
        /\ at[a] = "discard" => Return(a, "error")
        /\ at[a] = "exec" => Return(a, IF reply = "array" THEN "ok" ELSE "error")
  <2>1. CASE Multi(a)
    <3>1. at[a] = "multi" /\ at[a] # "discard" /\ at[a] # "exec"
      BY <2>1 DEF Multi
    <3>2. Name(a) = "MULTI"
      BY <3>1, Zenon DEF Name
    <3>. QED BY <2>1, <3>1, <3>2 DEF Multi
  <2>2. CASE Queue(a)
    <3>1. at[a] # "multi" /\ at[a] # "discard" /\ at[a] # "exec"
      BY <2>2 DEF Queue
    <3>2. Name(a) = "command"
      BY <3>1, Zenon DEF Name
    <3>. QED BY <2>2, <3>1, <3>2 DEF Queue
  <2>3. CASE Discard(a)
    <3>1. at[a] = "discard" /\ at[a] # "multi" /\ at[a] # "exec"
      BY <2>3 DEF Discard
    <3>2. Name(a) = "DISCARD"
      BY <3>1, Zenon DEF Name
    <3>. QED BY <2>3, <3>1, <3>2 DEF Discard
  <2>4. CASE Exec(a)
    <3>1. at[a] = "exec" /\ at[a] # "multi" /\ at[a] # "discard"
      BY <2>4 DEF Exec
    <3>2. Name(a) = "EXEC"
      BY <3>1, Zenon DEF Name
    <3>. QED BY <2>4, <3>1, <3>2 DEF Exec
  <2>. QED BY <1>1, <2>1, <2>2, <2>3, <2>4 DEF RequestStep, Execute
<1>4. PICK answer \in Answers(conn[c], Name(a), Command(a, next[a])) :
        /\ applied' \in {applied, Recorded(answer.ran)}
        /\ reply = "array" => answer.reply = "array" /\ applied' = Recorded(answer.ran)
  <2>1. Name(a) \in Names
    BY NameTyped
  <2>. QED BY <1>1, <1>2, <1>3, <2>1, RawOutcome
<1>5. /\ applied \subseteq applied' /\ \A id \in applied' : id \in applied \/ id[1] = a
      /\ Outcome(a)' /\ (reply = "array" => Ran(a)' = CommandsOf(a)')
  BY <1>1, <1>4, ExchangeOutcome
<1>6. TransactionOK(a)'
  <2>1. CASE at[a] = "multi" /\ reply = "OK"
    <3>0. at[a] = "multi"
      BY <2>1
    <3>1. Name(a) = "MULTI"
      BY <3>0, Zenon DEF Name
    <3>2. ~reset_started[a] /\ raw(a, "MULTI", "OK")
      BY <1>1, <1>3, <2>1, <3>1 DEF Guarded, StagesFit
    <3>3. conn' = [conn EXCEPT ![c] = [Fresh EXCEPT !.multi = TRUE]]
      BY <1>1, <1>2, <3>2, MultiOpens
    <3>4. at'[a] = "queue" /\ next'[a] = 1 /\ result' = result
      BY <1>1, <1>3, <2>1 DEF Go, TypeOK
    <3>5. conn'[client'[a]] = [Fresh EXCEPT !.multi = TRUE]
      BY <1>1, <1>2, <3>3 DEF TypeOK
    <3>6. conn'[client'[a]].multi /\ ~conn'[client'[a]].spoilt /\ conn'[client'[a]].queue = {}
      BY <3>5 DEF Fresh
    <3>7. {Command(a, i) : i \in 1 .. next'[a] - 1} = {}
      BY <3>4
    <3>8. Ran(a) = {} /\ applied' = applied
      <4>1. answer = Answer("error", conn[c], {})
            \/ answer = Answer("OK", [conn[c] EXCEPT !.multi = TRUE], {})
        BY <1>2, <1>4, <3>1, MultiAnswers
      <4>2. answer.ran = {}
        BY <4>1, AnswerFields
      <4>. QED BY <1>4, <2>1, <4>2, NothingRan DEF TransactionOK, QueueOK
    <3>9. Ran(a)' = {} /\ result[a] # "ok"
      BY <3>8, SomeCommand DEF Ran, CommandsOf, Command, TransactionOK
    <3>10. QueueOK(a)'
      BY <3>4, <3>6, <3>7, <3>9 DEF QueueOK, Command
    <3>. QED BY <1>5, <3>4, <3>9, <3>10 DEF TransactionOK
  <2>2. CASE at[a] = "queue"
    <3>1. Queue(a)
      BY <2>2 DEF RequestStep, Execute, Multi, Discard, Exec
    <3>. QED BY <1>5, <3>1, QueueAtomic
  <2>3. CASE (at[a] = "multi" /\ reply # "OK") \/ at[a] = "discard"
    <3>1. Release(a) /\ result'[a] = "error"
      BY <1>1, <1>3, <2>3 DEF Return, TypeOK
    <3>. QED BY <1>5, <3>1, EndsWell
  <2>4. CASE at[a] = "exec"
    <3>1. Release(a) /\ result'[a] = IF reply = "array" THEN "ok" ELSE "error"
      BY <1>1, <1>3, <2>4 DEF Return, TypeOK
    <3>. QED BY <1>5, <3>1, EndsWell
  <2>. QED BY <1>1, <2>1, <2>2, <2>3, <2>4
<1>. QED BY <1>5, <1>6

LEMMA RequestStepAtomic ==
    ASSUME Guarded, Settled, AtomicUnlessReplaced, NEW a \in Requests, RequestStep(a)
    PROVE  AtomicUnlessReplaced'
<1>. DEFINE c == client[a]
<1>1. /\ a \in Actors /\ TypeOK /\ Transactions' = Transactions
      /\ at[a] \in Running /\ UNCHANGED <<client, replaced>>
  BY ActorsApart DEF Guarded, RequestStep, Execute, Multi, Queue, Discard, Exec,
                     exec, Transactions, Running
<1>2. c \in Clients /\ conn[c] \in Conns
  BY <1>1, HolderFacts DEF TypeOK, Conns, Ids
<1>3. Release(a) \/ \E stage, i : Go(a, stage, i)
  BY DEF RequestStep, Execute, Multi, Queue, Discard, Exec, Return
<1>4. \A q \in Requests : q # a => result'[q] = result[q]
  BY <1>1 DEF RequestStep, Execute, Multi, Queue, Discard, Exec, Return, Go, TypeOK
<1>5. \E k \in Conns : conn' = [conn EXCEPT ![c] = k]
  BY <1>1, <1>2, RawTyped DEF RequestStep, Execute, Multi, Queue, Discard, Exec, Names
<1>6. /\ a \in Transactions => TransactionOK(a)'
      /\ applied \subseteq applied'
      /\ \A id \in applied' : id \in applied \/ id[1] = a
  <2>1. CASE a \in Transactions
    BY <2>1, TransactionStepAtomic, AtomicByTransaction
  <2>2. CASE a \notin Transactions
    <3>1. Execute(a)
      BY <1>1, <2>2 DEF RequestStep, Execute, Multi, Queue, Discard, Exec, Guarded, StagesFit
    <3>2. PICK reply : raw(a, "command", reply)
      BY <3>1 DEF Execute
    <3>3. PICK answer \in Answers(conn[c], "command", Command(a, next[a])) :
            applied' \in {applied, Recorded(answer.ran)}
      BY <1>1, <1>2, <3>2, RawOutcome DEF Names
    <3>4. answer.ran \in SUBSET {Command(a, next[a])}
      BY <1>2, <3>3, CommandRuns
    <3>5. applied' = applied
      BY <2>2, <3>3, <3>4, OthersRunUnrecorded
    <3>. QED BY <2>2, <3>5
  <2>. QED BY <2>1, <2>2
<1>7. \A r \in Transactions : r # a => TransactionOK(r)'
  BY <1>1, <1>3, <1>4, <1>5, <1>6, HolderLeavesOthers, AtomicByTransaction
<1>. QED BY <1>1, <1>6, <1>7, AtomicByTransactionNext

\* The steps of whoever is not running on a client.
LEMMA OutsiderAtomic ==
    ASSUME Guarded, AtomicUnlessReplaced, NEW a \in Actors, at[a] \in {"idle", "locking"},
           UNCHANGED <<kind, conn, applied, replaced>>,
           \A b \in Actors : b # a => /\ at'[b] = at[b] /\ next'[b] = next[b]
                                      /\ client'[b] = client[b],
           \A q \in Requests : q # a => result'[q] = result[q],
           a \in Transactions =>
              \/ at'[a] \in {"locking", "multi"} /\ result'[a] = result[a]
              \/ at'[a] = "done" /\ result'[a] # "ok"
    PROVE  AtomicUnlessReplaced'
<1>1. Transactions' = Transactions /\ \A r \in Transactions : r \in Requests /\ r \in Actors
  BY ActorsApart DEF Transactions
<1>2. ASSUME NEW r \in Transactions PROVE TransactionOK(r)'
  <2>1. TransactionOK(r) /\ CommandsOf(r)' = CommandsOf(r)
    BY AtomicByTransaction DEF CommandsOf, Command
  <2>2. CASE r = a
    <3>1. Ran(r)' = Ran(r)
      BY <2>1 DEF Ran
    <3>2. Outcome(r)' /\ Ran(r) = {}
      BY <2>1, <2>2, <3>1 DEF TransactionOK, Outcome, QueueOK
    <3>3. QueueOK(r)'
      BY <2>2, <3>1, <3>2 DEF QueueOK
    <3>. QED BY <2>1, <2>2, <3>1, <3>2, <3>3 DEF TransactionOK
  <2>3. CASE r # a
    BY <1>1, <2>1, <2>3, OthersUndisturbed
  <2>. QED BY <2>2, <2>3
<1>. QED BY <1>1, <1>2, AtomicByTransactionNext

LEMMA DropAtomic ==
    ASSUME Guarded, Settled, AtomicUnlessReplaced, NEW a \in Requests, Drop(a)
    PROVE  AtomicUnlessReplaced'
<1>. DEFINE c == client[a]
<1>1. /\ a \in Actors /\ Release(a) /\ TypeOK /\ Transactions' = Transactions
      /\ at[a] \in {"locking", "plain", "multi", "queue", "discard", "exec"}
      /\ UNCHANGED <<client, kind, replaced>>
      /\ result' = [result EXCEPT ![a] = "dropped"]
  BY ActorsApart, RedisConstants DEF Drop, Return, exec, Guarded, Transactions
<1>2. /\ at'[a] = "done" /\ result'[a] = "dropped"
      /\ \A q \in Requests : q # a => result'[q] = result[q]
      /\ \A b \in Actors : b # a => at'[b] = at[b] /\ next'[b] = next[b]
  BY <1>1 DEF Release, TypeOK
<1>3. CASE at[a] = "locking"
  <2>1. UNCHANGED <<conn, applied>>
    BY <1>3 DEF Drop
  <2>. QED BY <1>1, <1>2, <1>3, <2>1, OutsiderAtomic
<1>4. CASE at[a] # "locking"
  <2>1. at[a] \in Running /\ c \in Clients /\ conn \in [Clients -> Conns]
    BY <1>1, <1>4, HolderFacts DEF Running, TypeOK, Conns, Ids
  <2>2. /\ \E k : conn' = [conn EXCEPT ![c] = k]
        /\ \/ applied' = applied
           \/ \E answer \in Answers(conn[c], Name(a), Command(a, next[a])) :
                applied' = Recorded(answer.ran)
    <3>1. CASE UNCHANGED <<conn, applied>>
      <4>1. conn' = [conn EXCEPT ![c] = conn[c]]
        BY <2>1, <3>1
      <4>. QED BY <3>1, <4>1
    <3>2. CASE ~UNCHANGED <<conn, applied>>
      <4>1. PICK answer \in Answers(conn[c], Name(a), Command(a, next[a])) :
              conn' = [conn EXCEPT ![c] = answer.conn] /\ applied' = Recorded(answer.ran)
        BY <3>2 DEF Drop
      <4>. QED BY <4>1
    <3>. QED BY <3>1, <3>2
  <2>3. CASE a \in Transactions
    <3>1. TransactionOK(a) /\ at[a] \in {"multi", "queue", "discard", "exec"}
      BY <1>1, <1>4, <2>3, AtomicByTransaction DEF Guarded, StagesFit
    <3>2. /\ applied \subseteq applied' /\ \A id \in applied' : id \in applied \/ id[1] = a
          /\ Outcome(a)'
      <4>1. CASE applied' = applied
        BY <1>1, <3>1, <4>1 DEF TransactionOK, Outcome, Ran, CommandsOf, Command
      <4>2. CASE applied' # applied
        BY <1>1, <2>2, <2>3, <3>1, <4>2, ExchangeOutcome
      <4>. QED BY <4>1, <4>2
    <3>3. TransactionOK(a)'
      BY <1>1, <1>2, <2>3, <3>1, <3>2, EndsWell
    <3>4. \A r \in Transactions : r # a => TransactionOK(r)'
      BY <1>1, <1>2, <2>1, <2>2, <3>2, HolderLeavesOthers, AtomicByTransaction
    <3>. QED BY <1>1, <3>3, <3>4, AtomicByTransactionNext
  <2>4. CASE a \notin Transactions
    <3>1. at[a] = "plain"
      BY <1>1, <1>4, <2>4 DEF Guarded, StagesFit
    <3>2. at[a] # "multi" /\ at[a] # "discard" /\ at[a] # "exec"
      BY <3>1
    <3>3. Name(a) = "command"
      BY <3>2, Zenon DEF Name
    <3>4. applied' = applied
      <4>1. CASE \E answer \in Answers(conn[c], "command", Command(a, next[a])) :
                   applied' = Recorded(answer.ran)
        <5>1. PICK answer \in Answers(conn[c], "command", Command(a, next[a])) :
                applied' = Recorded(answer.ran)
          BY <4>1
        <5>2. answer.ran \in SUBSET {Command(a, next[a])}
          BY <2>1, <5>1, CommandRuns
        <5>. QED BY <2>4, <5>1, <5>2, OthersRunUnrecorded
      <4>. QED BY <2>2, <3>3, <4>1
    <3>5. \A r \in Transactions : TransactionOK(r)'
      BY <1>1, <1>2, <2>1, <2>2, <2>4, <3>4, HolderLeavesOthers, AtomicByTransaction
    <3>. QED BY <1>1, <3>5, AtomicByTransactionNext
  <2>. QED BY <2>3, <2>4
<1>. QED BY <1>3, <1>4

LEMMA PingAtomic ==
    ASSUME Guarded, Settled, AtomicUnlessReplaced, NEW p \in Pings, Ping(p)
    PROVE  AtomicUnlessReplaced'
<1>. DEFINE c == client[p]
<1>1. /\ p \in Actors /\ p \notin Transactions /\ at[p] \in Running /\ Release(p) /\ TypeOK
      /\ UNCHANGED <<client, kind, replaced, result>> /\ Transactions' = Transactions
  BY ActorsApart DEF Ping, Running, exec, Guarded, Transactions
<1>2. PICK reply : raw(p, "command", reply)
  BY DEF Ping
<1>3. c \in Clients /\ conn[c] \in Conns
  BY <1>1, HolderFacts DEF TypeOK, Conns, Ids
<1>4. \E k \in Conns : conn' = [conn EXCEPT ![c] = k]
  BY <1>1, <1>2, <1>3, RawTyped DEF Names
<1>5. PICK answer \in Answers(conn[c], "command", Command(p, next[p])) :
        applied' \in {applied, Recorded(answer.ran)}
  BY <1>1, <1>2, <1>3, RawOutcome DEF Names
<1>6. answer.ran \in SUBSET {Command(p, next[p])}
  BY <1>3, <1>5, CommandRuns
<1>7. applied' = applied
  BY <1>1, <1>5, <1>6, OthersRunUnrecorded
<1>8. \A r \in Transactions : TransactionOK(r)'
  BY <1>1, <1>4, <1>7, HolderLeavesOthers, AtomicByTransaction
<1>. QED BY <1>1, <1>8, AtomicByTransactionNext

\* A transaction whose connection is replaced while it queues is in replaced;
\* one that has queued everything finds its EXEC or DISCARD refused.
LEMMA ReconnectAtomic ==
    ASSUME Guarded, AtomicUnlessReplaced, NEW c \in Clients, Reconnect(c)
    PROVE  AtomicUnlessReplaced'
<1>1. /\ UNCHANGED <<at, kind, next, client, applied, result>> /\ Transactions' = Transactions
      /\ Fresh' = Fresh /\ replaced \subseteq replaced'
  BY DEF Reconnect, Transactions, Fresh
<1>2. conn'[c] = Fresh /\ \A d \in Clients : d # c => conn'[d] = conn[d]
  BY DEF Reconnect, Guarded, TypeOK
<1>3. ASSUME NEW r \in Transactions PROVE TransactionOK(r)'
  <2>1. /\ TransactionOK(r) /\ CommandsOf(r)' = CommandsOf(r) /\ r \in Actors /\ r \in Requests
    BY AtomicByTransaction, ActorsApart DEF CommandsOf, Command, Transactions
  <2>2. Ran(r)' = Ran(r)
    BY <1>1, <2>1 DEF Ran
  <2>3. Outcome(r)'
    BY <1>1, <2>1, <2>2 DEF TransactionOK, Outcome
  <2>4. QueueOK(r)'
    <3>1. CASE at[r] \in {"queue", "exec"}
      <4>1. client[r] \in Clients /\ operation_lock[client[r]] = r
        BY <2>1, <3>1, HolderFacts DEF Running
      <4>2. CASE client[r] = c
        <5>1. conn'[client'[r]] = Fresh /\ (at[r] = "queue" => r \in replaced')
          BY <1>1, <1>2, <2>1, <4>1, <4>2 DEF Reconnect
        <5>. QED BY <1>1, <2>1, <2>2, <5>1 DEF TransactionOK, QueueOK
      <4>3. CASE client[r] # c
        <5>1. conn'[client'[r]] = conn[client[r]]
          BY <1>1, <1>2, <4>1, <4>3
        <5>. QED BY <1>1, <2>1, <2>2, <5>1 DEF TransactionOK, QueueOK, Command
      <4>. QED BY <4>2, <4>3
    <3>2. CASE at[r] \notin {"queue", "exec"}
      BY <1>1, <2>1, <2>2, <3>2 DEF TransactionOK, QueueOK
    <3>. QED BY <3>1, <3>2
  <2>. QED BY <1>1, <2>1, <2>2, <2>3, <2>4 DEF TransactionOK
<1>. QED BY <1>1, <1>3, AtomicByTransactionNext

LEMMA InitAtomic == Init => Settled /\ AtomicUnlessReplaced
<1>. SUFFICES ASSUME Init PROVE Settled /\ AtomicUnlessReplaced
  OBVIOUS
<1>1. \A r \in Transactions : at[r] = "idle" /\ result[r] = "none" /\ Ran(r) = {}
  BY ActorsApart DEF Init, Transactions, Ran
<1>2. \A r \in Transactions : TransactionOK(r)
  BY <1>1 DEF TransactionOK, Outcome, QueueOK
<1>3. Settled
  BY DEF Init, Settled
<1>. QED BY <1>2, <1>3, AtomicByTransaction

LEMMA NextAtomic ==
    Guarded /\ Settled /\ AtomicUnlessReplaced /\ [Next]_vars => AtomicUnlessReplaced'
<1>. SUFFICES ASSUME Guarded, Settled, AtomicUnlessReplaced, [Next]_vars
              PROVE  AtomicUnlessReplaced'
  OBVIOUS
<1>1. ASSUME NEW r \in Requests, NEW c \in Clients, FromPooledClient(r, c)
      PROVE  AtomicUnlessReplaced'
  <2>1. /\ r \in Actors /\ at[r] = "idle" /\ at'[r] = "locking"
        /\ UNCHANGED <<kind, conn, applied, replaced, next, result>>
        /\ \A b \in Actors : b # r => at'[b] = at[b] /\ client'[b] = client[b]
    BY <1>1, ActorsApart DEF FromPooledClient, Guarded, TypeOK
  <2>. QED BY <2>1, OutsiderAtomic
<1>2. ASSUME NEW p \in Pings, NEW c \in Clients, ReadinessClient(p, c)
      PROVE  AtomicUnlessReplaced'
  <2>1. /\ p \in Actors /\ p \notin Transactions /\ at[p] = "idle"
        /\ UNCHANGED <<kind, conn, applied, replaced, next, result>>
        /\ \A b \in Actors : b # p => at'[b] = at[b] /\ client'[b] = client[b]
    BY <1>2, ActorsApart DEF ReadinessClient, Guarded, TypeOK
  <2>. QED BY <2>1, OutsiderAtomic
<1>3. ASSUME NEW a \in Actors, Lock(a) PROVE AtomicUnlessReplaced'
  <2>1. /\ at[a] = "locking"
        /\ UNCHANGED <<kind, client, conn, applied, replaced, next, result>>
        /\ \A b \in Actors : b # a => at'[b] = at[b]
    BY <1>3 DEF Lock, exec, Guarded, TypeOK
  <2>2. a \in Transactions => at'[a] = "multi"
    BY <1>3, ActorsApart DEF Lock, Transactions, Guarded, TypeOK
  <2>. QED BY <2>1, <2>2, OutsiderAtomic
<1>4. ASSUME UNCHANGED <<at, kind, next, client, conn, applied, replaced, result>>
      PROVE  AtomicUnlessReplaced'
  BY <1>4 DEF AtomicUnlessReplaced, QueuedSoFar, Ran, Transactions, CommandsOf, Command, Fresh
<1>5. ASSUME NEW p \in Pings, ReadinessTimeout(p) PROVE AtomicUnlessReplaced'
  BY <1>4, <1>5 DEF ReadinessTimeout
<1>6. ASSUME UNCHANGED vars PROVE AtomicUnlessReplaced'
  BY <1>4, <1>6 DEF vars
<1>. QED BY <1>1, <1>2, <1>3, <1>5, <1>6, RequestStepAtomic, DropAtomic, PingAtomic,
            ReconnectAtomic DEF Next, AllDone

\* POST /multi-exec: a transaction runs all of its commands or none, and all if
\* it is answered with results, for transactions of any length next to any
\* number of requests and PINGs, wherever handlers are dropped and whenever
\* connections are lost.  The one exception is part of the property: fred
\* replaces the connection while the transaction queues its commands, and one
\* of them then runs alone, with an error for an answer.
THEOREM TransactionsAtomicUnlessReplaced == Spec => []AtomicUnlessReplaced
<1>1. Init => Guarded /\ Settled /\ AtomicUnlessReplaced
  BY InitGuarded, InitAtomic
<1>2. Guarded /\ Settled /\ AtomicUnlessReplaced /\ [Next]_vars =>
        (Guarded /\ Settled /\ AtomicUnlessReplaced)'
  BY NextGuarded, NextSettled, NextAtomic
<1>. QED BY <1>1, <1>2, PTL DEF Spec
=============================================================================
