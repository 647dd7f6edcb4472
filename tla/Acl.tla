-------------------------------- MODULE Acl --------------------------------
(***************************************************************************)
(* domain/acl.rs and domain/compat.rs: which commands an identity may run, *)
(* and the one argument that is rewritten before Redis sees it.            *)
(*                                                                         *)
(* A name, like an argument, is a word and the way it is spelled: in upper *)
(* case, or not.  A script is an argument; its digest is a hex string,     *)
(* which is again a word and a spelling.                                   *)
(***************************************************************************)
EXTENDS Sequences

Word(w) == [word |-> w, upper |-> TRUE]
Words(ws) == {Word(w) : w \in ws}
Upper(name) == Word(name.word)
Lower(name) == [word |-> name.word, upper |-> FALSE]

\* Ignoring case, an argument is a keyword.
Says(arg, keyword) == arg.word = keyword

\* The SHA-256 of a script, in lower-case hex: another word for every body.
HexDigest(script) == Lower(Word(<<"sha256", script>>))

HARD_DENY == Words({
    "CONFIG", "SHUTDOWN", "DEBUG", "SLAVEOF", "REPLICAOF", "MIGRATE", "MODULE", "SAVE",
    "BGSAVE", "BGREWRITEAOF", "LASTSAVE", "ACL", "CLIENT", "CLUSTER", "LATENCY", "MONITOR",
    "PSYNC", "SYNC", "FAILOVER", "RESET", "SLOWLOG", "COMMAND", "MEMORY", "HELLO", "SELECT",
    "SWAPDB", "AUTH", "QUIT", "MULTI", "EXEC", "DISCARD", "WATCH", "UNWATCH", "SUBSCRIBE",
    "PSUBSCRIBE", "UNSUBSCRIBE", "PUNSUBSCRIBE", "SSUBSCRIBE", "SUNSUBSCRIBE", "PUBLISH",
    "PUBSUB", "BLPOP", "BRPOP", "BLMOVE", "BRPOPLPUSH", "BLMPOP", "BZPOPMIN", "BZPOPMAX",
    "BZMPOP", "WAIT", "WAITAOF", "SCRIPT", "FUNCTION"})

SCRIPTING == Words({"EVAL", "EVALSHA", "EVALSHA_RO", "EVAL_RO", "FCALL", "FCALL_RO"})

DEFAULT_BLOCK == Words({"FLUSHALL", "FLUSHDB", "KEYS", "RANDOMKEY", "INFO", "DBSIZE"})

READ_COMMANDS == Words({
    "GET", "MGET", "GETRANGE", "STRLEN", "EXISTS", "TYPE", "TTL", "PTTL", "EXPIRETIME",
    "PEXPIRETIME", "HGET", "HMGET", "HGETALL", "HKEYS", "HVALS", "HLEN", "HEXISTS", "HSTRLEN",
    "HRANDFIELD", "LRANGE", "LLEN", "LINDEX", "LPOS", "SMEMBERS", "SISMEMBER", "SMISMEMBER",
    "SCARD", "SRANDMEMBER", "SINTER", "SUNION", "SDIFF", "SINTERCARD", "ZRANGE",
    "ZRANGEBYSCORE", "ZRANGEBYLEX", "ZREVRANGE", "ZREVRANGEBYSCORE", "ZREVRANGEBYLEX",
    "ZSCORE", "ZMSCORE", "ZCARD", "ZCOUNT", "ZLEXCOUNT", "ZRANK", "ZREVRANK", "ZRANDMEMBER",
    "GETBIT", "BITCOUNT", "BITPOS", "BITFIELD_RO", "XRANGE", "XREVRANGE", "XLEN", "XREAD",
    "XINFO", "GEOPOS", "GEODIST", "GEOHASH", "GEOSEARCH", "PFCOUNT", "OBJECT", "DUMP", "TOUCH",
    "TIME", "PING", "ECHO", "SORT_RO", "LCS", "SUBSTR"})

AdminSubcommands ==
    [CONFIG  |-> {"GET"},             CLIENT |-> {"LIST", "INFO"},
     SLOWLOG |-> {"GET", "LEN"},      COMMAND |-> {"COUNT", "INFO", "DOCS"},
     LATENCY |-> {"HISTORY", "LATEST"}, MEMORY |-> {"USAGE", "STATS", "DOCTOR"},
     ACL     |-> {"WHOAMI"}]

\* Mutant: the exemption covers the command whatever its subcommand.
AdminAllowAny(name, args) == name.word \in {"INFO"} \cup DOMAIN AdminSubcommands

AdminAllow(name, args) ==
    \/ name.word = "INFO"
    \/ /\ name.word \in DOMAIN AdminSubcommands
       /\ args # <<>>
       /\ Head(args).word \in AdminSubcommands[name.word]

\* EVALSHA and FCALL name a script by something no approved digest can match.
CheckScripting(identity, name, args) ==
    name \in SCRIPTING =>
        /\ name.word \in {"EVAL", "EVAL_RO"}
        /\ args # <<>>
        /\ HexDigest(Head(args)) \in identity.scripts

Blocks(name, args) ==
    /\ name.word \in {"XREAD", "XREADGROUP"}
    /\ \E i \in DOMAIN args : Says(args[i], "BLOCK")

\* SORT reads keys its BY and GET patterns name.
EscapesPrefix(name, args) ==
    /\ name.word \in {"SORT", "SORT_RO"}
    /\ \E i \in DOMAIN args : Says(args[i], "BY") \/ Says(args[i], "GET")

DefaultBlocked(identity, name) == name \in DEFAULT_BLOCK /\ ~identity.legacy

\* Mutant: an approved script is approved for everybody.
ReadsOrScript(name) == name \in READ_COMMANDS \cup SCRIPTING

Reads(name) == name \in READ_COMMANDS

\* identity.allowed is an option: <<>>, or <<the allowed commands>>.
Permits(identity, name, args) ==
    LET admin == identity.isAdmin /\ AdminAllow(name, args)
        listed == identity.allowed # <<>> /\ name \in identity.allowed[1]
    IN  /\ name \in HARD_DENY => admin
        /\ CheckScripting(identity, name, args)
        /\ ~Blocks(name, args)
        /\ identity.keyPrefix # <<>> => ~EscapesPrefix(name, args)
        /\ name \notin identity.blocked
        /\ DefaultBlocked(identity, name) => listed \/ admin
        /\ identity.allowed # <<>> => listed
        /\ identity.readOnly => Reads(name)

\* The ACL's answer: the name is compared in upper case.
Check(identity, command) ==
    IF command.name.word = "" THEN "invalid"
    ELSE IF Permits(identity, Upper(command.name), command.args) THEN "allowed"
    ELSE "forbidden"

\* Redis wants the unit of GEODIST in lower case.  The name is compared as it
\* was spelled.
Normalize(command) ==
    IF /\ command.name = Word("GEODIST")
       /\ Len(command.args) = 4
       /\ command.args[4] \in Words({"M", "KM", "FT", "MI"})
    THEN [command EXCEPT !.args[4] = Lower(@)]
    ELSE command
=============================================================================
