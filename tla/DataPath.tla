------------------------------ MODULE DataPath ------------------------------
(***************************************************************************)
(* The pure part of the program put together: a process loads its          *)
(* configuration, a credential becomes an identity, a body becomes         *)
(* commands, the ACL judges them, and what Redis answers becomes the       *)
(* response.  Nothing here waits; what the waits do is the subject of the  *)
(* other modules.                                                          *)
(*                                                                         *)
(* Every step takes its input from a set and forgets what the following    *)
(* steps do not depend on.  A body is parsed before anybody's policy is    *)
(* looked at, so Read starts from the beginning.                           *)
(*                                                                         *)
(* The conversions of JSON and RESP trees are parameters here: nothing but *)
(* the two properties of module Wire depends on what they compute.         *)
(***************************************************************************)
EXTENDS Identity

CONSTANTS
    Launches,      \* [env, doc]: environments and configuration files
    Bearers,       \* credentials
    Answers,       \* [key, active]: what JWKS and introspection answer
    Calls,         \* [endpoint, commands]
    Outcomes,      \* what Redis, or the way to it, makes of a command
    Texts,         \* bodies: [value, trailing]
    CommandLimits, ElementLimits, ResponseLimits,
    Now,           \* in seconds
    \* The conversions of trees; module Wire has them.
    ReadBody(_, _, _, _),  \* what the parser makes of a body
    ReplyError(_),         \* the error in an outcome, or "ok"
    Charged(_, _, _)       \* what is left of the budget of a response; below 0, nothing

Numbers == 0 .. MaxInt
Names == [word : STRING, upper : BOOLEAN]

\* What serde and parse_env let through: numbers where they are expected.
TypedPool(pool) ==
    /\ {pool.maxConnections, pool.commandTimeout, pool.acquireTimeout} \subseteq Numbers
    /\ pool.maxWaiters \in Numbers \cup {None}

TypedFile(doc) ==
    IF IsLegacy(doc)
    THEN \A token \in DOMAIN doc :
             Filled(doc[token], RawLegacyDefault).maxConnections \in Numbers
    ELSE LET raw == Filled(doc, RawConfigDefault)
         IN  /\ IsFiniteSet(DOMAIN raw.static_tokens)
             /\ Filled(raw.server, ServerDefault).http_timeout_ms \in Numbers
             /\ \A p \in DOMAIN raw.pools : TypedPool(Filled(raw.pools[p], RawPoolDefault))

ASSUME LaunchesAssumption ==
    \A launch \in Launches :
        /\ launch.env.maxConnections \in Numbers \cup {None, Bad}
        /\ launch.doc # Bad => TypedFile(launch.doc)

ASSUME BearersAssumption == \A bearer \in Bearers : bearer.header \in {"jwt", "json", "other"}

ASSUME CallsAssumption ==
    \A call \in Calls : call.commands \in Seq([name : Names, args : Seq(Names)])

VARIABLES stage, given, config, identity, output

pathVars == <<stage, given, config, identity, output>>

PathInit ==
    /\ stage = "start"
    /\ given = None /\ config = None /\ identity = None /\ output = None

-----------------------------------------------------------------------------
\* The orders in which the entries of a file may be visited.
OrdersOf(S) ==
    {order \in [1 .. Cardinality(S) -> S] : \A x \in S : \E i \in DOMAIN order : order[i] = x}

Orders(doc) ==
    IF doc = Bad THEN {<<>>}
    ELSE OrdersOf(IF IsLegacy(doc) THEN DOMAIN doc
                  ELSE DOMAIN Filled(doc, RawConfigDefault).static_tokens)

\* main stops without a configuration, and with one that asks for TLS.
Load ==
    /\ stage = "start"
    /\ \E launch \in Launches : \E order \in Orders(launch.doc) :
         /\ given' = launch
         /\ config' = FromEnvironment(launch.env, launch.doc, order)
    /\ stage' = IF config' = Error THEN "exit"
                ELSE IF config'.server.tls # None THEN "exit" ELSE "loaded"
    /\ UNCHANGED <<identity, output>>

\* What the operator wrote about a static token: the connection it is for and
\* its policy.  There may be two entries of a new-format file.
EntriesFor(launch, text) ==
    LET raw == Filled(launch.doc, RawConfigDefault)
        entry(k) == Filled(raw.static_tokens[k], RawTokenDefault)
        pool(p) == Filled(raw.pools[p], RawPoolDefault)
    IN  IF launch.env.mode = "env"
        THEN IF text = launch.env.token
             THEN {[connection |-> launch.env.connection, blocked |-> {}]} ELSE {}
        ELSE IF IsLegacy(launch.doc)
        THEN {[connection |-> launch.doc[t].connection, blocked |-> {}] :
                 t \in DOMAIN launch.doc \cap {text}}
        ELSE {[connection |-> pool(entry(k).pool).connection, blocked |-> entry(k).blocked] :
                 k \in {k \in DOMAIN raw.static_tokens : /\ TokenOf(k) = text
                                                         /\ entry(k).pool \in DOMAIN raw.pools}}

LooksLikeJwt(bearer) == bearer.dots = 2 /\ bearer.header # "other"

ViaJwt(bearer) == config.jwt # None /\ LooksLikeJwt(bearer)

\* JWKS and introspection are asked about a JWT only.
Identify ==
    /\ stage = "loaded"
    /\ \E bearer \in Bearers :
         \E answer \in IF ViaJwt(bearer) THEN Answers ELSE {[key |-> None, active |-> None]} :
           /\ given' = [bearer |-> bearer, key |-> answer.key, viaJwt |-> ViaJwt(bearer),
                        entries |-> EntriesFor(given, bearer.text)]
           /\ identity' = Authenticate(bearer, answer.key, answer.active, Now, config)
    /\ stage' = IF Failed(identity') THEN "turned away" ELSE "known"
    /\ UNCHANGED <<config, output>>

\* What the caller was told not to run, by the file or by the claims.
BlockedFor(g) ==
    IF g.viaJwt THEN g.bearer.jwt.blocked
    ELSE {n \in UNION {e.blocked : e \in g.entries} :
            \A e \in g.entries : \E m \in e.blocked : m.word = n.word}

\* The handlers' verdict on the commands.  A pipeline answers a forbidden
\* command in its slot; for the others the first error is the answer.  A
\* pipeline may be empty, a transaction not.
Verdict(endpoint, decisions) ==
    LET errors == {i \in DOMAIN decisions : \/ decisions[i] = "invalid"
                                            \/ endpoint # "pipeline" /\ decisions[i] = "forbidden"}
    IN  IF errors # {} THEN decisions[Min(errors)]
        ELSE IF endpoint = "multi" /\ decisions = <<>> THEN "invalid"
        ELSE "run"

\* A handler gets the identity; the credential is gone.
Enter ==
    /\ stage = "known"
    /\ stage' = "serving"
    /\ given' = [blocked |-> BlockedFor(given)]
    /\ config' = None
    /\ UNCHANGED <<identity, output>>

Judged(who, call) ==
    LET decisions == [i \in DOMAIN call.commands |-> Check(who, call.commands[i])]
    IN  [decisions |-> decisions, verdict |-> Verdict(call.endpoint, decisions),
         sent |-> [i \in DOMAIN call.commands |-> Normalize(call.commands[i])]]

Judge ==
    /\ stage = "serving"
    /\ \E call \in Calls :
         /\ given' = [blocked |-> given.blocked, endpoint |-> call.endpoint]
         /\ output' = Judged(identity, call)
    /\ stage' = "judged"
    /\ UNCHANGED <<config, identity>>

\* The allowed commands go to Redis, which does not know whose they are.
Send ==
    /\ stage = "judged" /\ output.verdict = "run"
    /\ stage' = "sent"
    /\ given' = [endpoint |-> given.endpoint, decisions |-> output.decisions]
    /\ identity' = None /\ output' = None
    /\ UNCHANGED config

-----------------------------------------------------------------------------
\* A pipeline or a transaction: one result or error per command that was sent.
SlotOf(i, outcome) ==
    IF ReplyError(outcome) = "ok" THEN [kind |-> "result", of |-> i, value |-> outcome]
    ELSE [kind |-> "error", of |-> i]

\* How many of the first i commands were sent, and which one was the k-th.
Rank(decisions, i) == Cardinality({j \in 1 .. i : decisions[j] = "allowed"})
NthSent(decisions, k) ==
    CHOOSE i \in DOMAIN decisions : decisions[i] = "allowed" /\ Rank(decisions, i) = k

\* Mutant: the refused commands are answered after the others.
MergeDeniedLast(decisions, results) ==
    results \o [j \in 1 .. Len(decisions) - Len(results) |-> [kind |-> "denied", of |-> 0]]

\* slots and results zipped: a denied slot stays where its command was.
Merge(decisions, results) ==
    [i \in DOMAIN decisions |-> IF decisions[i] = "forbidden" THEN [kind |-> "denied", of |-> i]
                               ELSE results[Rank(decisions, i)]]

\* The outcomes that fail the whole response.
Fatal(endpoint, outcome) ==
    ReplyError(outcome) \notin IF endpoint = "command" THEN {"ok"}
                               ELSE {"ok", "Redis", "Timeout", "Transport"}

Answer ==
    /\ stage = "sent"
    /\ LET decisions == given.decisions
           sent == 1 .. Rank(decisions, Len(decisions))
       IN  \E outcomes \in [sent -> Outcomes], base64 \in BOOLEAN, limit \in ResponseLimits :
             LET slots == Merge(decisions, [k \in sent |->
                                              SlotOf(NthSent(decisions, k), outcomes[k])])
                 left == Charged(slots, base64, limit)
             IN  /\ given' = [decisions |-> decisions, base64 |-> base64, limit |-> limit]
                 /\ output' = IF left < 0 \/ \E k \in sent : Fatal(given.endpoint, outcomes[k])
                              THEN [status |-> "failed"]
                              ELSE [status |-> "ok", slots |-> slots, left |-> left]
    /\ stage' = "answered"
    /\ UNCHANGED <<config, identity>>

\* A body on its own: /, or /pipeline and /multi-exec.
Read ==
    /\ stage = "start"
    /\ \E endpoint \in {"command", "pipeline"}, body \in Texts, max \in CommandLimits,
          budget \in ElementLimits :
         /\ given' = [endpoint |-> endpoint, body |-> body, max |-> max, budget |-> budget]
         /\ output' = ReadBody(endpoint, body, max, budget)
    /\ stage' = "read"
    /\ UNCHANGED <<config, identity>>

PathNext == Load \/ Identify \/ Enter \/ Judge \/ Send \/ Answer \/ Read

PathSpec == PathInit /\ [][PathNext]_pathVars

-----------------------------------------------------------------------------
PathTypeOK ==
    /\ stage \in {"start", "exit", "loaded", "turned away", "known", "serving",
                  "judged", "sent", "answered", "read"}
    /\ stage \in {"loaded", "known"} =>
         \A p \in DOMAIN config.pools : config.pools[p].maxWaiters \in 1 .. MaxInt
    /\ stage = "known" => identity.pool \in DOMAIN config.pools
    /\ stage = "judged" => output.verdict \in {"run", "invalid", "forbidden"}

\* A configuration the program starts with has room, in the HTTP timeout of
\* its server, for waiting, one command and the reset of its connection: the
\* sum validate computes in 64 bits is the sum.
AcceptedTimeoutsFit ==
    stage = "loaded" => \A p \in DOMAIN config.pools :
        config.pools[p].acquireTimeout + 2 * config.pools[p].commandTimeout
            < config.server.http_timeout_ms

\* Whatever the environment and the file say, a process that starts has a
\* configuration it can work with.
ConfigurationsWork == PathTypeOK /\ AcceptedTimeoutsFit

\* A token reaches the connection string written for it and no other, in
\* whatever order the file is visited and whoever shares its pool name; and
\* no configured token is turned away, unless it reads as a JWT.
TokensReachTheirPool ==
    /\ stage = "known" /\ ~given.viaJwt =>
         \E e \in given.entries : e.connection = config.pools[identity.pool].connection
    /\ stage = "turned away" /\ given.entries # {} => given.viaJwt

\* Where JWTs are configured, what reads as a JWT is one: it is never looked
\* up among the static tokens, and is somebody only by a key that signed it.
JwtIsNeverAToken ==
    stage = "known" /\ given.viaJwt => /\ given.bearer.header = "jwt"
                                       /\ given.bearer.jwt.signedBy = given.key
                                       /\ identity.bucket = given.bearer.jwt.sub

\* A JWT counts only with an algorithm of its key's own family, and a key
\* that is not for verifying signatures verifies none.
KeysFitTheirAlgorithm ==
    stage = "known" /\ given.viaJwt =>
        /\ given.bearer.jwt.alg \in CASE given.key.type = "RSA" -> {"RS256", "RS384", "RS512"}
                                      [] given.key.type = "P256" -> {"ES256"}
                                      [] given.key.type = "P384" -> {"ES384"}
                                      [] OTHER -> {}
        /\ given.key.use # "enc"
        /\ given.key.ops = None \/ "verify" \in given.key.ops

\* A JWT proves who its bearer is, or its bearer is nobody.
CredentialsHold == JwtIsNeverAToken /\ KeysFitTheirAlgorithm

\* The commands that Redis documents as changing the connection's state, or as
\* waiting.  The next request would find it so.
Session == {"MULTI", "EXEC", "DISCARD", "WATCH", "UNWATCH", "SUBSCRIBE", "PSUBSCRIBE",
            "SSUBSCRIBE", "UNSUBSCRIBE", "PUNSUBSCRIBE", "SUNSUBSCRIBE", "MONITOR", "SELECT",
            "HELLO", "AUTH", "RESET", "QUIT", "SYNC", "PSYNC"}
SessionOfClient == {"REPLY", "TRACKING"}
Waiting == {"BLPOP", "BRPOP", "BLMOVE", "BRPOPLPUSH", "BLMPOP", "BZPOPMIN", "BZPOPMAX",
            "BZMPOP", "WAIT", "WAITAOF"}

Stays(command) ==
    LET w == command.name.word
        says(k) == \E i \in DOMAIN command.args : command.args[i].word = k
    IN  \/ w \in Session \cup Waiting
        \/ w = "CLIENT" /\ command.args # <<>> /\ Head(command.args).word \in SessionOfClient
        \/ w \in {"XREAD", "XREADGROUP"} /\ says("BLOCK")

Allowed(i) == stage = "judged" /\ output.decisions[i] = "allowed"

\* Nobody, by no policy and no spelling, runs a command of these lists, which
\* outlives its request on a pooled connection (HARD_DENY and the subcommands).
\* A command that neither the ACL nor the lists know, as REPLCONF, passes.
NothingOutlivesTheRequest ==
    stage = "judged" => \A i \in DOMAIN output.decisions :
        Allowed(i) => ~Stays(output.sent[i])

\* Redis's writing commands, and those that run whatever a script says.
Writing == {"SET", "SETNX", "SETEX", "PSETEX", "MSET", "MSETNX", "APPEND", "GETSET", "GETDEL",
            "GETEX", "SETRANGE", "SETBIT", "BITOP", "BITFIELD", "INCR", "DECR", "INCRBY", "DECRBY",
            "DEL", "UNLINK", "EXPIRE", "PEXPIRE", "PERSIST", "RENAME", "COPY", "MOVE", "RESTORE",
            "SORT", "HSET", "HDEL", "HINCRBY", "LPUSH", "RPUSH", "LPOP", "RPOP", "LMOVE", "LREM",
            "LSET", "LTRIM", "SADD", "SREM", "SPOP", "SMOVE", "SINTERSTORE", "SUNIONSTORE",
            "SDIFFSTORE", "ZADD", "ZREM", "ZINCRBY", "ZPOPMIN", "ZRANGESTORE", "ZUNIONSTORE",
            "XADD", "XDEL", "XACK", "XTRIM", "XGROUP", "XREADGROUP", "XCLAIM", "GEOADD",
            "GEOSEARCHSTORE", "GEORADIUS", "PFADD", "PFMERGE", "FLUSHALL", "FLUSHDB", "SWAPDB",
            "EVAL", "EVALSHA", "FCALL"}

\* A read-only identity changes nothing, not even by an approved script.
ReadOnlyNeverWrites ==
    stage = "judged" /\ identity.readOnly => \A i \in DOMAIN output.decisions :
        Allowed(i) => output.sent[i].name.word \notin Writing

\* What the operator or the issuer blocked stays blocked, however either of
\* them and the client spelled it.
BlockedStaysBlocked ==
    stage = "judged" => \A i \in DOMAIN output.decisions :
        Allowed(i) => \A n \in given.blocked : n.word # output.sent[i].name.word

\* Restrictions restrict: whoever has none of them, and the highest role, may
\* run all that the restricted identity may.
RestrictionsOnlyNarrow ==
    stage = "judged" => \A i \in DOMAIN output.decisions :
        Allowed(i) => Check([identity EXCEPT !.blocked = {}, !.keyPrefix = <<>>,
                                             !.readOnly = FALSE, !.isAdmin = TRUE],
                            output.sent[i]) = "allowed"

\* A policy forbids at least what it says: its rules are checked one after the
\* other, and none lets through what another one forbids.
PolicyHolds == ReadOnlyNeverWrites /\ BlockedStaysBlocked /\ RestrictionsOnlyNarrow

\* In a response every command is answered in its own place: a refused one by
\* the refusal, the others by what Redis answered to them.
SlotsAnswerTheirCommands ==
    stage = "answered" /\ output.status = "ok" =>
        /\ Len(output.slots) = Len(given.decisions)
        /\ \A i \in DOMAIN output.slots :
             /\ output.slots[i].of = i
             /\ output.slots[i].kind = "denied" <=> given.decisions[i] = "forbidden"

-----------------------------------------------------------------------------
\* The parts of the inductive invariant, in the order of the stages: a token
\* has a pool, and stands for what the operator wrote about it;
TokensAsWritten ==
    stage = "loaded" =>
        /\ TokensHavePools(config)
        /\ \A bearer \in Bearers :
             LET token == Digest(bearer.text)
                 entries == EntriesFor(given, bearer.text)
             IN  IF token \in DOMAIN config.tokens
                 THEN \E e \in entries :
                        /\ e.connection = config.pools[config.tokens[token].pool].connection
                        /\ UppercaseSet(e.blocked) = config.tokens[token].blocked
                 ELSE entries = {}

\* an identity is one, and blocks what its owner was told not to run;
IsIdentity(x) ==
    x = [subject |-> x.subject, bucket |-> x.bucket, pool |-> x.pool, readOnly |-> x.readOnly,
         isAdmin |-> x.isAdmin, legacy |-> x.legacy, allowed |-> x.allowed,
         blocked |-> x.blocked, scripts |-> x.scripts, keyPrefix |-> x.keyPrefix]

IdentitiesBlock ==
    stage \in {"known", "serving", "judged"} =>
        /\ IsIdentity(identity)
        /\ \A n \in (IF stage = "known" THEN BlockedFor(given) ELSE given.blocked) :
             Upper(n) \in identity.blocked

\* a judgement is the ACL's on one of the requests; and what goes on to Redis
\* holds nothing that was found invalid.
JudgementsAreTheAcls ==
    stage = "judged" => \E call \in Calls : /\ given.endpoint = call.endpoint
                                           /\ output = Judged(identity, call)

SentAreValid ==
    stage = "sent" => given.decisions \in Seq({"allowed", "forbidden"})

PathInv ==
    /\ ConfigurationsWork /\ TokensAsWritten /\ TokensReachTheirPool /\ CredentialsHold
    /\ IdentitiesBlock /\ JudgementsAreTheAcls /\ SentAreValid /\ SlotsAnswerTheirCommands
=============================================================================
