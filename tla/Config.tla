------------------------------- MODULE Config -------------------------------
(***************************************************************************)
(* config.rs: the two ways a configuration is given (environment or file), *)
(* the two formats of the file, and the validation of what comes out.      *)
(*                                                                         *)
(* A JSON object is a function; the fields it leaves out are filled with   *)
(* the defaults.  Numbers are of width MaxInt.  The entries of an object   *)
(* are visited in an order the hash map chooses: order.                    *)
(***************************************************************************)
EXTENDS Integers, Sequences, FiniteSets, FiniteSetsExt, Acl

CONSTANTS
    None,          \* an absent optional value
    Bad,           \* text that does not parse as what it should be
    Error,         \* ConfigError
    MaxInt,        \* u64::MAX and usize::MAX
    PrefixOf(_),   \* the first eight hex digits of a token's digest
    TokenOf(_)     \* the token whose digest a key of static_tokens stands for

ASSUME ConfigConstants ==
    /\ MaxInt \in Nat /\ MaxInt >= 10000   \* the defaults are of that width
    /\ None \notin {"env", "enc"}

Or(option, default) == IF option = None THEN default ELSE option

\* SHA-256 has no collisions; its first eight digits may have.
Digest(token) == [token |-> token]

ServerLimits == {"port", "max_body_bytes", "max_pipeline_commands", "max_request_elements",
                 "http_timeout_ms", "max_in_flight", "max_response_bytes",
                 "shed_retry_after_secs", "body_read_timeout_ms"}

\* The defaults; the limits that nothing here tells apart are 1.
ServerDefault ==
    [port |-> 1, max_body_bytes |-> 1, max_pipeline_commands |-> 1, max_request_elements |-> 1,
     http_timeout_ms |-> 10000, max_in_flight |-> 1, max_response_bytes |-> 1,
     shed_retry_after_secs |-> 1, body_read_timeout_ms |-> 2000, bind |-> "127.0.0.1",
     metrics_bind |-> "address", tls |-> None, per_token_commands_per_sec |-> 0]

RawPoolDefault ==
    [connection |-> "", maxConnections |-> 3, commandTimeout |-> 2000, acquireTimeout |-> 500,
     maxWaiters |-> None, failureThreshold |-> 10, cooldown |-> 2000, scripts |-> {}]

RawTokenDefault ==
    [pool |-> "", readOnly |-> FALSE, allowed |-> <<>>, blocked |-> {}, scripts |-> {},
     keyPrefix |-> <<>>]

RawJwtDefault ==
    [issuer |-> Bad, audience |-> "", clientId |-> "srh", jwksRefresh |-> 600,
     rolePrefix |-> "redis:", introspection |-> FALSE, url |-> Bad, caller |-> "",
     secret |-> "", cacheSecs |-> 30]

RawConfigDefault == [server |-> <<>>, jwt |-> None, static_tokens |-> <<>>, pools |-> <<>>]

\* serde(default, deny_unknown_fields)
Known(raw, default) == DOMAIN raw \subseteq DOMAIN default
Filled(raw, default) ==
    [x \in DOMAIN raw \cup DOMAIN default |-> IF x \in DOMAIN raw THEN raw[x] ELSE default[x]]

\* checked_mul(4) in the loader, saturating_mul(4) where that overflows.
WaitersOf(maxConnections) == IF 4 * maxConnections > MaxInt THEN MaxInt ELSE 4 * maxConnections

PoolConfig(raw) ==
    [raw EXCEPT !.maxWaiters = Or(@, WaitersOf(raw.maxConnections)),
                !.scripts = {Lower(s) : s \in @}]

\* The pool of a connection that nothing else is said about.
PlainPool(connection, maxConnections) ==
    PoolConfig([RawPoolDefault EXCEPT !.connection = connection,
                                      !.maxConnections = maxConnections])

DefaultToken(pool) ==
    [pool |-> pool, readOnly |-> FALSE, legacy |-> TRUE, allowed |-> <<>>, blocked |-> {},
     scripts |-> {}, keyPrefix |-> <<>>]

FromEnvMode(env) ==
    IF None \in {env.token, env.connection} \/ env.maxConnections = Bad THEN Error
    ELSE [server |-> ServerDefault, jwt |-> None,
          tokens |-> [d \in {Digest(env.token)} |-> DefaultToken("default")],
          pools |-> [p \in {"default"} |->
                       PlainPool(env.connection, Or(env.maxConnections, 3))]]

\* Mutant: the first definition of a pool wins.
SameLegacyPoolAlways(left, right) == TRUE

SameLegacyPool(left, right) ==
    left.connection = right.connection /\ left.maxConnections = right.maxConnections

HasConnectionString(entry) == "connection" \in DOMAIN entry

IsLegacy(doc) == \E k \in DOMAIN doc : HasConnectionString(doc[k])

RawLegacyDefault == [srhId |-> None, maxConnections |-> 3]

LegacyPool(token, raw) ==
    LET id == Filled(raw, RawLegacyDefault).srhId
    IN  IF id \in {None, ""} THEN PrefixOf(token) ELSE id

LegacyCandidate(raw) ==
    PlainPool(raw.connection, Filled(raw, RawLegacyDefault).maxConnections)

\* One token per pool, or several that name the same srh_id and agree on it:
\* with the first of them, which defines the pool.
FromLegacyValue(doc, order) ==
    LET pool(token) == LegacyPool(token, doc[token])
        first(p) == LegacyCandidate(doc[order[Min({i \in DOMAIN order : pool(order[i]) = p})]])
    IN  IF \E token \in DOMAIN doc : ~HasConnectionString(doc[token]) THEN Error
        ELSE IF \E token \in DOMAIN doc :
                   ~SameLegacyPool(first(pool(token)), LegacyCandidate(doc[token])) THEN Error
        ELSE [server |-> ServerDefault, jwt |-> None,
              tokens |-> [d \in {Digest(token) : token \in DOMAIN doc} |->
                            DefaultToken(pool(d.token))],
              pools |-> [p \in {pool(token) : token \in DOMAIN doc} |-> first(p)]]

\* A key is the token itself, or "sha256:" and 64 hex digits; else it is Bad.
ParseConfiguredDigest(key) == Digest(TokenOf(key))

UppercaseSet(names) == {Upper(n) : n \in names}

\* The scripts of the pool are those of its tokens too.
StaticToken(raw, pools) ==
    LET entry == Filled(raw, RawTokenDefault)
    IN  [pool |-> entry.pool, readOnly |-> entry.readOnly, legacy |-> FALSE,
         allowed |-> IF entry.allowed = <<>> THEN <<>> ELSE <<UppercaseSet(entry.allowed[1])>>,
         blocked |-> UppercaseSet(entry.blocked),
         scripts |-> {Lower(s) : s \in entry.scripts}
                     \cup IF entry.pool \in DOMAIN pools THEN pools[entry.pool].scripts ELSE {},
         keyPrefix |-> entry.keyPrefix]

\* serde: every field is known, and every key of a token can be read.
WellFormed(raw) ==
    /\ Known(raw, RawConfigDefault)
    /\ Known(raw.server, ServerDefault)
    /\ raw.jwt # None => Known(raw.jwt, RawJwtDefault)
    /\ \A p \in DOMAIN raw.pools : Known(raw.pools[p], RawPoolDefault)
    /\ \A k \in DOMAIN raw.static_tokens : /\ Known(raw.static_tokens[k], RawTokenDefault)
                                           /\ TokenOf(k) # Bad

\* Two keys of one token are one entry: the last in the order.
FromNewValue(doc, order) ==
    LET raw == Filled(doc, RawConfigDefault)
        pools == [p \in DOMAIN raw.pools |-> PoolConfig(Filled(raw.pools[p], RawPoolDefault))]
        last(d) == order[Max({i \in DOMAIN order : ParseConfiguredDigest(order[i]) = d})]
    IN  IF ~WellFormed(raw) THEN Error
        ELSE [server |-> Filled(raw.server, ServerDefault),
              jwt |-> IF raw.jwt = None THEN None ELSE Filled(raw.jwt, RawJwtDefault),
              tokens |-> [d \in {ParseConfiguredDigest(k) : k \in DOMAIN raw.static_tokens} |->
                            StaticToken(raw.static_tokens[last(d)], pools)],
              pools |-> pools]

\* Mutant: the arithmetic wraps.
TotalTimeoutWraps(pool) ==
    (pool.acquireTimeout + 2 * pool.commandTimeout) % (MaxInt + 1)

\* checked_add and checked_mul: a sum that overflows fits in no HTTP timeout.
TotalTimeout(pool) ==
    IF \/ 2 * pool.commandTimeout > MaxInt
       \/ pool.acquireTimeout + 2 * pool.commandTimeout > MaxInt
    THEN MaxInt
    ELSE pool.acquireTimeout + 2 * pool.commandTimeout

HttpUrl(url) == url \in {"http", "https"}

ValidJwt(jwt) ==
    /\ HttpUrl(jwt.issuer)
    /\ jwt.audience # "" /\ jwt.clientId # ""
    /\ jwt.jwksRefresh # 0
    /\ jwt.introspection => /\ HttpUrl(jwt.url)
                            /\ jwt.caller # "" /\ jwt.secret # ""
                            /\ jwt.cacheSecs # 0

ValidPool(pool, server) ==
    /\ pool.connection # ""
    /\ 0 \notin {pool.maxConnections, pool.commandTimeout, pool.acquireTimeout,
                 pool.maxWaiters, pool.failureThreshold, pool.cooldown}
    /\ TotalTimeout(pool) < server.http_timeout_ms

TokensHavePools(config) ==
    \A d \in DOMAIN config.tokens : config.tokens[d].pool \in DOMAIN config.pools

Validate(config) ==
    IF /\ config # Error
       /\ \A l \in ServerLimits : config.server[l] # 0
       /\ config.server.metrics_bind # Bad
       /\ config.jwt # None => ValidJwt(config.jwt)
       /\ TokensHavePools(config)
       /\ \A p \in DOMAIN config.pools : ValidPool(config.pools[p], config.server)
    THEN config ELSE Error

FromJson(doc, order) ==
    IF doc = Bad THEN Error
    ELSE Validate(IF IsLegacy(doc) THEN FromLegacyValue(doc, order)
                  ELSE FromNewValue(doc, order))

\* SRH_BIND, SRH_PORT and then SRH_IPV6, which turns the address it finds.
ApplyServerOverrides(config, env) ==
    LET bind == Or(env.bind, config.server.bind)
    IN  IF Bad \in {env.port, env.ipv6} THEN Error
        ELSE [config EXCEPT !.server =
                [@ EXCEPT !.port = Or(env.port, @),
                          !.bind = IF env.ipv6 # TRUE THEN bind
                                   ELSE IF bind = "0.0.0.0" THEN "::" ELSE "::1"]]

FromEnvironment(env, doc, order) ==
    LET config == CASE env.mode = "env" -> FromEnvMode(env)
                    [] env.mode \in {None, "file"} -> FromJson(doc, order)
                    [] OTHER -> Error
    IN  IF config = Error THEN Error ELSE Validate(ApplyServerOverrides(config, env))
=============================================================================
