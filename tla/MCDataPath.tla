----------------------------- MODULE MCDataPath -----------------------------
\* DataPath, with its conversions, over small sets of every input.
EXTENDS Wire

\* t1 and t2 have digests with the same first eight digits.
MCPrefixOf(token) == IF token \in {"t1", "t2"} THEN "ab" ELSE "cd"
MCTokenOf(key) ==
    CASE key = "sha256:t1" -> "t1" [] key = "sha256:xyz" -> Bad [] OTHER -> key

File == [mode |-> None, token |-> None, connection |-> None, maxConnections |-> None,
         bind |-> None, port |-> None, ipv6 |-> None]
Env == [File EXCEPT !.mode = "env", !.token = "t1", !.connection = "r1"]

LegacyEntries ==
    {[connection |-> c, srhId |-> i] : c \in {"r1", "r2"}, i \in {None, "", "ab", "team"}}
    \cup {[connection |-> "r1", maxConnections |-> 5], [connection |-> ""], [srhId |-> "team"]}

LegacyDocs ==
    UNION {[ts -> LegacyEntries] : ts \in {{"t1", "t2"}, {"t1", "t3"}}}

Pools(p) == [default |-> [connection |-> "r1"] @@ p,
             other |-> [connection |-> "r2", scripts |-> {Upper(HexDigest(Word("s1")))}]]

Plain(tokens) == [server |-> <<>>, pools |-> Pools(<<>>), static_tokens |-> tokens]

Policies ==
    {[pool |-> "default"], [pool |-> "other"], [pool |-> "gone"],
     [pool |-> "other", readOnly |-> TRUE],
     [pool |-> "other", blocked |-> {Lower(Word("FLUSHALL")), Word("GET")}],
     [pool |-> "other", allowed |-> <<{Lower(Word("FLUSHALL")), Word("SORT"), Word("EVAL")}>>],
     [pool |-> "default", scripts |-> {HexDigest(Word("s1"))}, keyPrefix |-> <<"k">>]}

Jwt == [issuer |-> "https", audience |-> "api"]
Introspecting == Jwt @@ [introspection |-> TRUE, url |-> "https", caller |-> "srh", secret |-> "s"]

NewDocs ==
    \* timeouts at and around the limit, and around the width of the numbers
    {[server |-> s, pools |-> [default |-> [connection |-> "r1", commandTimeout |-> c,
                                             acquireTimeout |-> a]],
      static_tokens |-> [t1 |-> [pool |-> "default"]]] :
        s \in {<<>>, [http_timeout_ms |-> 4500], [http_timeout_ms |-> 4501],
               [http_timeout_ms |-> MaxInt]},
        c \in {0, 2000, 32767, 32768, 40000}, a \in {0, 500, 501, 65000}}
    \cup {[pools |-> [default |-> <<>>], static_tokens |-> [t1 |-> [pool |-> "default"]]]}
    \cup {Plain([t1 |-> p, t3 |-> q]) : p \in Policies, q \in Policies}
    \cup {Plain(("t1" :> p) @@ ("sha256:t1" :> q)) : p \in Policies, q \in Policies}
    \cup {Plain("sha256:xyz" :> [pool |-> "default"]), Plain("t1" :> [pol |-> "default"])}
    \cup {Plain("t4" :> [pool |-> "default"]) @@ [jwt |-> j] :
            j \in {Jwt, Introspecting, Jwt @@ [audience |-> "", jwksRefresh |-> 0],
                   [issuer |-> "ftp", audience |-> "api"], [Introspecting EXCEPT !.secret = ""]}}
    \cup {[server |-> s, pools |-> Pools(p), static_tokens |-> <<>>] :
            s \in {[port |-> 0], [metrics_bind |-> Bad], [colour |-> 1],
                  [tls |-> "certificate"], <<>>},
            p \in {<<>>, [maxConnections |-> 0], [maxConnections |-> 40000], [cooldown |-> 0]}}

MCLaunches ==
    {[env |-> File, doc |-> d] : d \in LegacyDocs \cup NewDocs \cup {Bad}}
    \cup {[env |-> e, doc |-> Bad] :
            e \in {Env, [Env EXCEPT !.token = None], [Env EXCEPT !.maxConnections = Bad],
                   [Env EXCEPT !.maxConnections = 0], [Env EXCEPT !.mode = "both"],
                   [Env EXCEPT !.port = 0], [Env EXCEPT !.bind = "0.0.0.0", !.ipv6 = TRUE],
                   [Env EXCEPT !.ipv6 = Bad]}}

\* Keys of every family and use, and what may be asked of them.
RsaKey == [type |-> "RSA", alg |-> None, use |-> "sig", ops |-> None]
Jwks ==
    {[type |-> t, alg |-> a, use |-> None, ops |-> None] :
        t \in {"RSA", "P256", "P384", "oct"}, a \in {None, "RS256", "RS512", "ES256", "ES384", "HS256"}}
    \cup {RsaKey, [RsaKey EXCEPT !.use = "enc"], [RsaKey EXCEPT !.ops = {"sign"}],
          [RsaKey EXCEPT !.ops = {"verify"}]}

MCAnswers ==
    {[key |-> k, active |-> TRUE] : k \in Jwks \cup {NotFound, ServiceUnavailable}}
    \cup {[key |-> RsaKey, active |-> a] : a \in {FALSE, ServiceUnavailable}}

Role(r) == <<"redis:", r>>

BaseJwt == [kid |-> "k1", alg |-> "RS256", signedBy |-> RsaKey, exp |-> Now, nbf |-> None,
            iss |-> "https", sub |-> "alice", typ |-> "Bearer", aud |-> {"api"}, azp |-> None,
            roles |-> {Role("write")}, pool |-> None, blocked |-> {}, keyPrefix |-> <<>>]

Signed == {[BaseJwt EXCEPT !.alg = a, !.signedBy = k] :
             a \in {"RS256", "RS512", "ES256", "ES384", "HS256"}, k \in Jwks}
Claimed == {[BaseJwt EXCEPT !.roles = r, !.pool = p, !.blocked = b, !.keyPrefix = k] :
              r \in {{}, {Role("read")}, {Role("read"), Role("write")}, {Role("admin")}},
              p \in {None, "other", "gone"}, b \in {{}, {Lower(Word("INFO")), Word("SET")}},
              k \in {<<>>, <<"k">>}}
Odd == {[BaseJwt EXCEPT !.kid = None], [BaseJwt EXCEPT !.exp = Now - 30],
        [BaseJwt EXCEPT !.exp = Now - 31], [BaseJwt EXCEPT !.exp = None],
        [BaseJwt EXCEPT !.nbf = Now + 31], [BaseJwt EXCEPT !.iss = "http"],
        [BaseJwt EXCEPT !.sub = None], [BaseJwt EXCEPT !.typ = "ID"],
        [BaseJwt EXCEPT !.aud = {}], [BaseJwt EXCEPT !.aud = {}, !.azp = "api"]}

Text(t) == [text |-> t, dots |-> 0, header |-> "other", jwt |-> None]

\* t4 reads as a JWT and is configured as a token too.
MCBearers ==
    {Text(t) : t \in {"t1", "t2", "t3", "t5"}}
    \cup {[text |-> "t4", dots |-> d, header |-> h, jwt |-> BaseJwt] :
            d \in {1, 2}, h \in {"jwt", "json", "other"}}
    \cup {[text |-> "jwt", dots |-> 2, header |-> "jwt", jwt |-> j] :
            j \in Signed \cup Claimed \cup Odd}

\* Every command by name, in upper case and not, with the arguments it minds.
Subcommands == {"GET", "SET", "LIST", "REPLY", "COUNT", "WHOAMI", "RESET"}
ArgsOf(w) ==
    CASE w \in DOMAIN AdminSubcommands -> {<<>>} \cup {<<Word(a)>> : a \in Subcommands}
                                          \cup {<<Lower(Word("GET"))>>, <<Word("LIST"), Word("REPLY")>>}
      [] w \in {"XREAD", "XREADGROUP"} -> {<<Word("k")>>, <<Word("k"), Lower(Word("BLOCK"))>>}
      [] w \in {"SORT", "SORT_RO"} -> {<<Word("k")>>, <<Word("k"), Lower(Word("BY"))>>}
      [] w \in {s.word : s \in SCRIPTING} -> {<<>>, <<Word("s1")>>, <<Word("s2")>>}
      [] w = "GEODIST" -> {<<Word("k"), Word("a"), Word("b"), Word("KM")>>}
      [] OTHER -> {<<>>}

CommandWords == Writing \cup {n.word : n \in HARD_DENY \cup SCRIPTING \cup DEFAULT_BLOCK \cup READ_COMMANDS}

Singles ==
    UNION {{[endpoint |-> "command", commands |-> <<[name |-> n, args |-> a]>>] :
              n \in {Word(w), Lower(Word(w))}, a \in ArgsOf(w)} : w \in CommandWords \cup {""}}

Few == {[name |-> Word(w), args |-> <<>>] : w \in {"GET", "SET", ""}}

MCCalls ==
    Singles \cup {[endpoint |-> e, commands |-> c] :
                    e \in {"pipeline", "multi"}, c \in UNION {[1 .. n -> Few] : n \in 0 .. 3}}

\* Strings of every class of bytes, and the longest integer.
Bytes(plain, quote, control, invalid) ==
    [plain |-> plain, quote |-> quote, control |-> control, invalid |-> invalid]
Bulk == Leaf("bulk", Bytes(4, 0, 0, 0))
Binary == Leaf("bulk", Bytes(0, 0, 20, 0))
Bare(kind) == Leaf(kind, NoBytes)
MCOutcomes ==
    {Simple("OK"), Simple("no"), Leaf("simple", Bytes(1, 0, 0, 1)), Bulk, Binary,
     Leaf("bulk", Bytes(0, 1, 0, 2)), Leaf("int", Bytes(20, 0, 0, 0)),
     Bare("nil"), Bare("error"), Bare("resp3"), Bare("timeout"),
     Array(<<Bulk, Bare("nil")>>), Array(<<Bulk, Bare("error")>>),
     Array(<<Array(<<>>)>>), Array(<<Array(<<Bulk>>)>>), Array(<<Binary>>)}

Node(kind, items) == [kind |-> kind, items |-> items]
Str == Node("string", <<>>)
Num == Node("number", <<>>)
Garbage == Node("garbage", <<>>)
Nested(v) == Node("array", <<v>>)
Values ==
    {Str, Num, Garbage, Nested(Num), Nested(Garbage), Nested(Nested(Nested(Str))),
     Node("array", <<Num, Str>>), Node("object", <<>>), Node("object", <<Num>>),
     Node("object", <<Str, Nested(Num)>>)}
Commands ==
    {Str, Garbage, Node("array", <<>>), Nested(Str), Nested(Num)}
    \cup {Node("array", <<Str, a>>) : a \in Values}
    \cup {Node("array", <<Str, a, b>>) : a \in Values, b \in Values}
Short == {Garbage, Nested(Garbage), Nested(Str), Nested(Num), Node("array", <<Str, Num>>)}

MCTexts ==
    {[value |-> v, trailing |-> FALSE] :
        v \in Commands \cup {Nested(c) : c \in Commands} \cup {Node("array", c) : c \in [1 .. 2 -> Short]}
                       \cup {Node("array", c) : c \in [1 .. 3 -> Short]}}
    \cup {[value |-> v, trailing |-> TRUE] : v \in Short \cup {Nested(c) : c \in Short}}
=============================================================================
