--------------------------- MODULE RequestProofs ---------------------------
(***************************************************************************)
(* The way of a request, for any inputs and limits.  First the data path:  *)
(* any configurations, credentials, requests and replies, and whatever the *)
(* conversions of their trees do.  Then the HTTP layer's accounting, for   *)
(* any finite number of requests, in-flight limit, bucket and request size.*)
(***************************************************************************)
EXTENDS Gateway, DataPath, FiniteSetTheorems, WellFoundedInduction, TLAPS

(***************************************************************************)
(* The ACL, on one command.                                                *)
(***************************************************************************)

\* Words in capitals are the words they spell.
LEMMA WordsAreWords ==
    ASSUME NEW w, NEW S
    PROVE  Word(w) \in Words(S) <=> w \in S
<1>1. \A v : Word(v) = Word(w) => v = w
  BY DEF Word
<1>. QED BY <1>1 DEF Words

\* What stays on the connection is denied, and to admins too.
LEMMA HeldIsDenied ==
    ASSUME NEW w \in Session \cup Waiting
    PROVE  /\ Word(w) \in HARD_DENY
           /\ w \notin DOMAIN AdminSubcommands
           /\ w \notin {"INFO", "GEODIST", "CLIENT", "XREAD", "XREADGROUP"}
<1>1. Word(w) \in HARD_DENY
  BY WordsAreWords DEF Session, Waiting, HARD_DENY
<1>2. w \notin DOMAIN AdminSubcommands
  BY DEF Session, Waiting, AdminSubcommands
<1>. QED BY <1>1, <1>2 DEF Session, Waiting

\* CLIENT is denied too, and its subcommands that outlive the request to admins.
LEMMA ClientIsDenied ==
    /\ Word("CLIENT") \in HARD_DENY
    /\ \A k \in SessionOfClient : k \notin AdminSubcommands["CLIENT"]
<1>1. Word("CLIENT") \in HARD_DENY
  BY WordsAreWords DEF HARD_DENY
<1>. QED BY <1>1 DEF SessionOfClient, AdminSubcommands

\* No command that only reads writes, or runs a script.
LEMMA ReadersDoNotWrite ==
    ASSUME NEW w \in Writing
    PROVE  ~Reads(Word(w))
BY WordsAreWords DEF Writing, READ_COMMANDS, Reads

\* compat::normalize keeps the name, and every argument but for its spelling.
LEMMA NormalizeKeeps ==
    ASSUME NEW c \in [name : Names, args : Seq(Names)]
    PROVE  /\ Normalize(c).name = c.name
           /\ c.name.word # "GEODIST" => Normalize(c) = c
           /\ DOMAIN Normalize(c).args = DOMAIN c.args
           /\ \A j \in DOMAIN c.args : Normalize(c).args[j].word = c.args[j].word
           /\ Normalize(c).args # <<>> <=> c.args # <<>>
           /\ c.args # <<>> => Head(Normalize(c).args).word = Head(c.args).word
<1>1. CASE Normalize(c) = c
  BY <1>1
<1>2. CASE Normalize(c) # c
  <2>1. /\ c.name = Word("GEODIST") /\ Len(c.args) = 4
        /\ Normalize(c) = [c EXCEPT !.args[4] = Lower(@)]
    BY <1>2 DEF Normalize
  <2>2. c.name.word = "GEODIST"
    BY <2>1 DEF Word
  <2>3. Normalize(c) = [c EXCEPT !.args = [c.args EXCEPT ![4] = Lower(c.args[4])]]
    BY <2>1
  <2>4. /\ Normalize(c).name = c.name
        /\ Normalize(c).args = [c.args EXCEPT ![4] = Lower(c.args[4])]
    BY <2>3
  <2>5. c.args \in Seq(Names) /\ c.args[4] \in Names /\ Lower(c.args[4]) \in Names
    <3>1. c.args \in Seq(Names) /\ c.args[4] \in Names
      BY <2>1
    <3>2. ASSUME NEW x \in Names PROVE Lower(x) \in Names
      BY DEF Names, Lower
    <3>. QED BY <3>1, <3>2
  <2>6. Normalize(c).args \in Seq(Names) /\ Len(Normalize(c).args) = 4
    BY <2>1, <2>4, <2>5
  <2>7. \A j \in DOMAIN c.args : Normalize(c).args[j].word = c.args[j].word
    BY <2>4, <2>5 DEF Lower
  <2>8. 1 \in DOMAIN c.args /\ Head(c.args) = c.args[1] /\ Head(Normalize(c).args) = Normalize(c).args[1]
    BY <2>1, <2>5, <2>6
  <2>. QED BY <2>1, <2>2, <2>4, <2>5, <2>6, <2>7, <2>8
<1>. QED BY <1>1, <1>2

\* The ACL allows what has a name and is permitted.
LEMMA CheckAllows ==
    ASSUME NEW who, NEW c
    PROVE  Check(who, c) = "allowed"
             <=> c.name.word # "" /\ Permits(who, Upper(c.name), c.args)
BY DEF Check

\* What the ACL permits does not stay on the connection.
LEMMA PermittedLeaves ==
    ASSUME NEW who, NEW c \in [name : Names, args : Seq(Names)], Check(who, c) = "allowed"
    PROVE  ~Stays(Normalize(c))
<1> DEFINE n == Normalize(c)
           w == c.name.word
<1>1. /\ Word(w) \in HARD_DENY => AdminAllow(Word(w), c.args)
      /\ ~Blocks(Word(w), c.args)
  BY CheckAllows DEF Permits, Upper
<1>2. n.name.word = w
  BY NormalizeKeeps
<1>3. w \notin Session \cup Waiting
  BY <1>1, HeldIsDenied DEF AdminAllow, Word
<1>4. ~(w = "CLIENT" /\ n.args # <<>> /\ Head(n.args).word \in SessionOfClient)
  BY <1>1, ClientIsDenied, NormalizeKeeps DEF AdminAllow, Word
<1>5. ~(w \in {"XREAD", "XREADGROUP"} /\ \E i \in DOMAIN n.args : n.args[i].word = "BLOCK")
  BY <1>1, NormalizeKeeps DEF Blocks, Says, Word
<1>. QED BY <1>2, <1>3, <1>4, <1>5 DEF Stays

\* A read-only identity is permitted no command that writes.
LEMMA ReadersPermitNoWrite ==
    ASSUME NEW who, who.readOnly, NEW c \in [name : Names, args : Seq(Names)],
           Check(who, c) = "allowed"
    PROVE  Normalize(c).name.word \notin Writing
<1>1. Reads(Word(c.name.word))
  BY CheckAllows DEF Permits, Upper
<1>. QED BY <1>1, ReadersDoNotWrite, NormalizeKeeps

\* What is blocked is not permitted, however it is spelled.
LEMMA BlockedIsNotPermitted ==
    ASSUME NEW who, NEW c \in [name : Names, args : Seq(Names)], Check(who, c) = "allowed",
           NEW n, Upper(n) \in who.blocked
    PROVE  n.word # Normalize(c).name.word
<1>1. Word(c.name.word) \notin who.blocked
  BY CheckAllows DEF Permits, Upper
<1>. QED BY <1>1, NormalizeKeeps DEF Upper

\* The identity without its restrictions, in the highest role, is permitted
\* what it was permitted with them; and the spelling of a unit is no matter.
LEMMA UnrestrictedIsPermitted ==
    ASSUME NEW who, IsIdentity(who), NEW c \in [name : Names, args : Seq(Names)],
           Check(who, c) = "allowed"
    PROVE  Check([who EXCEPT !.blocked = {}, !.keyPrefix = <<>>, !.readOnly = FALSE,
                             !.isAdmin = TRUE], Normalize(c)) = "allowed"
<1> DEFINE free == [who EXCEPT !.blocked = {}, !.keyPrefix = <<>>, !.readOnly = FALSE,
                               !.isAdmin = TRUE]
           n == Normalize(c)
           name == Word(c.name.word)
<1>1. /\ free.blocked = {} /\ free.keyPrefix = <<>> /\ free.readOnly = FALSE /\ free.isAdmin = TRUE
      /\ free.scripts = who.scripts /\ free.allowed = who.allowed /\ free.legacy = who.legacy
  BY DEF IsIdentity
<1>2. c.name.word # "" /\ Permits(who, name, c.args)
  BY CheckAllows DEF Upper
<1>3. n.name.word = c.name.word
  BY NormalizeKeeps
<1>4. AdminAllow(name, c.args) => AdminAllow(name, n.args)
  BY NormalizeKeeps DEF AdminAllow
<1>5. CheckScripting(who, name, c.args) => CheckScripting(free, name, n.args)
  <2>1. CASE c.name.word = "GEODIST"
    <3>1. name \notin SCRIPTING
      BY <2>1, WordsAreWords DEF SCRIPTING
    <3>. QED BY <3>1 DEF CheckScripting
  <2>2. CASE c.name.word # "GEODIST"
    BY <2>2, <1>1, NormalizeKeeps DEF CheckScripting
  <2>. QED BY <2>1, <2>2
<1>6. ~Blocks(name, c.args) => ~Blocks(name, n.args)
  BY NormalizeKeeps DEF Blocks, Says
<1>7. DefaultBlocked(free, name) <=> DefaultBlocked(who, name)
  BY <1>1 DEF DefaultBlocked
<1> HIDE DEF free, n, name
<1>8. Permits(free, name, n.args)
  BY <1>1, <1>2, <1>4, <1>5, <1>6, <1>7 DEF Permits
<1>9. Upper(n.name) = name
  BY <1>3 DEF Upper, name
<1>10. Check(free, n) = "allowed"
  BY <1>2, <1>3, <1>8, <1>9, CheckAllows
<1>. QED BY <1>10 DEF free, n
-----------------------------------------------------------------------------
Below == OpToRel(<, Nat)

-----------------------------------------------------------------------------
(***************************************************************************)
(* Verdicts and slots.                                                     *)
(***************************************************************************)

\* A set of numbers has a least, and one with an upper bound a greatest.
LEMMA LeastNat ==
    ASSUME NEW T, T \subseteq Nat, T # {}
    PROVE  \E x \in T : \A y \in T : x <= y
<1>1. IsWellFoundedOn(Below, Nat)
  BY NatLessThanWellFounded, Zenon DEF Below
<1>2. \A x, y \in Nat : x < y => <<x, y>> \in Below
  BY DEF Below, OpToRel
<1>3. \E x \in T : \A y \in T : ~ (<<y, x>> \in Below)
  BY <1>1, WFMin, Zenon
<1>4. PICK x \in T : \A y \in T : ~ (<<y, x>> \in Below)
  BY <1>3
<1>5. ASSUME NEW y \in T PROVE x <= y
  <2>1. x \in Nat /\ y \in Nat
    OBVIOUS
  <2>2. ~(y < x)
    BY <1>2, <1>4, <2>1
  <2>. QED BY <2>1, <2>2
<1>. QED BY <1>5

\* The least is in the set;
LEMMA MinIsLeast ==
    ASSUME NEW T, T \subseteq Nat, T # {}
    PROVE  Min(T) \in T
<1>1. \E x \in T : \A y \in T : x <= y
  BY LeastNat
<1>. QED BY <1>1 DEF Min

\* and so is the greatest.
LEMMA MaxIsGreatest ==
    ASSUME NEW m \in Nat, NEW T, T \subseteq 1 .. m, T # {}
    PROVE  Max(T) \in T
<1> DEFINE R == {m - x : x \in T}
<1>1. R \subseteq Nat /\ R # {}
  <2>1. PICK t \in T : TRUE
    OBVIOUS
  <2>2. m - t \in R
    OBVIOUS
  <2>3. \A x \in T : m - x \in Nat
    OBVIOUS
  <2>. QED BY <2>2, <2>3
<1> HIDE DEF R
<1>2. PICK r \in R : \A y \in R : r <= y
  BY <1>1, LeastNat
<1>3. PICK x \in T : r = m - x
  BY <1>2 DEF R
<1>4. ASSUME NEW y \in T PROVE x >= y
  <2>1. m - y \in R
    BY DEF R
  <2>2. m - x <= m - y
    BY <1>2, <1>3, <2>1
  <2>. QED BY <2>2
<1>. QED BY <1>4 DEF Max

\* A verdict is one of three; what may run holds nothing invalid.
LEMMA VerdictFits ==
    ASSUME NEW endpoint, NEW decisions \in Seq({"allowed", "forbidden", "invalid"})
    PROVE  /\ Verdict(endpoint, decisions) \in {"run", "invalid", "forbidden"}
           /\ Verdict(endpoint, decisions) = "run" =>
                \A i \in DOMAIN decisions : decisions[i] # "invalid"
<1> DEFINE errors == {i \in DOMAIN decisions :
                        \/ decisions[i] = "invalid"
                        \/ endpoint # "pipeline" /\ decisions[i] = "forbidden"}
<1>1. errors \subseteq Nat
  OBVIOUS
<1>2. errors # {} => Min(errors) \in errors
  BY <1>1, MinIsLeast
<1>3. Verdict(endpoint, decisions) = IF errors # {} THEN decisions[Min(errors)]
                                     ELSE IF endpoint = "multi" /\ decisions = <<>> THEN "invalid"
                                     ELSE "run"
  BY DEF Verdict
<1>4. \A i \in errors : decisions[i] \in {"invalid", "forbidden"}
  OBVIOUS
<1>5. errors = {} => \A i \in DOMAIN decisions : decisions[i] # "invalid"
  OBVIOUS
<1> HIDE DEF errors
<1>. QED BY <1>2, <1>3, <1>4, <1>5

-----------------------------------------------------------------------------
\* Of two commands that were sent the later one has the higher rank.
LEMMA RanksDiffer ==
    ASSUME NEW decisions \in Seq({"allowed", "forbidden"}),
           NEW i \in DOMAIN decisions, NEW j \in DOMAIN decisions, i < j,
           decisions[j] = "allowed"
    PROVE  Rank(decisions, i) < Rank(decisions, j)
<1> DEFINE S(k) == {x \in 1 .. k : decisions[x] = "allowed"}
<1>0. i \in Nat /\ j \in Nat /\ i < j
  OBVIOUS
<1>1. IsFiniteSet(1 .. j)
  BY <1>0, FS_Interval
<1>2. IsFiniteSet(S(j))
  BY <1>1, FS_Subset
<1>3. S(i) \subseteq S(j) /\ j \in S(j) /\ j \notin S(i)
  BY <1>0
<1> HIDE DEF S
<1>4. IsFiniteSet(S(i)) /\ Cardinality(S(i)) <= Cardinality(S(j)) /\ (Cardinality(S(i)) = Cardinality(S(j)) => S(i) = S(j))
  BY <1>2, <1>3, FS_Subset
<1>5. Cardinality(S(i)) \in Nat /\ Cardinality(S(j)) \in Nat
  BY <1>2, <1>4, FS_CardinalityType
<1>6. Cardinality(S(i)) < Cardinality(S(j))
  BY <1>3, <1>4, <1>5
<1>. QED BY <1>6 DEF Rank, S

\* The command of a rank is the only one of that rank.
LEMMA NthOfRank ==
    ASSUME NEW decisions \in Seq({"allowed", "forbidden"}),
           NEW i \in DOMAIN decisions, decisions[i] = "allowed"
    PROVE  NthSent(decisions, Rank(decisions, i)) = i
<1> DEFINE n == NthSent(decisions, Rank(decisions, i))
<1>1. n \in DOMAIN decisions /\ decisions[n] = "allowed" /\ Rank(decisions, n) = Rank(decisions, i)
  BY DEF NthSent
<1> HIDE DEF n
<1>2. ~(n < i) /\ ~(i < n)
  <2>1. n < i => Rank(decisions, n) < Rank(decisions, i)
    BY <1>1, RanksDiffer
  <2>2. i < n => Rank(decisions, i) < Rank(decisions, n)
    BY <1>1, RanksDiffer
  <2>3. Rank(decisions, i) \in Nat
    <3>1. IsFiniteSet(1 .. i)
      BY FS_Interval
    <3>2. IsFiniteSet({j \in 1 .. i : decisions[j] = "allowed"})
      BY <3>1, FS_Subset
    <3>. QED BY <3>2, FS_CardinalityType DEF Rank
  <2>. QED BY <1>1, <2>1, <2>2, <2>3
<1>3. n = i
  BY <1>1, <1>2
<1>. QED BY <1>3 DEF n

\* A rank is one of the results'.
LEMMA RankOfSent ==
    ASSUME NEW decisions \in Seq({"allowed", "forbidden"}),
           NEW i \in DOMAIN decisions, decisions[i] = "allowed"
    PROVE  Rank(decisions, i) \in 1 .. Rank(decisions, Len(decisions))
<1> DEFINE S(k) == {x \in 1 .. k : decisions[x] = "allowed"}
           n == Len(decisions)
<1>1. n \in Nat /\ i \in 1 .. n
  OBVIOUS
<1>2. IsFiniteSet(1 .. n)
  BY <1>1, FS_Interval
<1>3. IsFiniteSet(S(n))
  BY <1>2, FS_Subset
<1>4. S(i) \subseteq S(n) /\ {i} \subseteq S(i)
  BY <1>1
<1> HIDE DEF S, n
<1>5. IsFiniteSet(S(i)) /\ Cardinality(S(i)) <= Cardinality(S(n))
  BY <1>3, <1>4, FS_Subset
<1>6. Cardinality({i}) <= Cardinality(S(i)) /\ Cardinality({i}) = 1
  BY <1>4, <1>5, FS_Subset, FS_Singleton
<1>7. Cardinality(S(i)) \in Nat /\ Cardinality(S(n)) \in Nat
  BY <1>3, <1>5, FS_CardinalityType
<1>8. Cardinality(S(i)) \in 1 .. Cardinality(S(n))
  BY <1>5, <1>6, <1>7
<1>. QED BY <1>8 DEF Rank, S, n

\* Zipping gives every command the answer to it.
LEMMA MergeAnswers ==
    ASSUME NEW decisions \in Seq({"allowed", "forbidden"}), NEW outcomes, NEW zipped,
           zipped = Merge(decisions, [k \in 1 .. Rank(decisions, Len(decisions)) |->
                                        SlotOf(NthSent(decisions, k), outcomes[k])])
    PROVE  /\ Len(zipped) = Len(decisions)
           /\ DOMAIN zipped = DOMAIN decisions
           /\ \A i \in DOMAIN zipped :
                /\ zipped[i].of = i
                /\ zipped[i].kind = "denied" <=> decisions[i] = "forbidden"
<1> DEFINE results == [k \in 1 .. Rank(decisions, Len(decisions)) |->
                         SlotOf(NthSent(decisions, k), outcomes[k])]
<1>1. DOMAIN zipped = DOMAIN decisions /\ DOMAIN decisions = 1 .. Len(decisions) /\ Len(decisions) \in Nat
  BY DEF Merge
<1>2. Len(zipped) = Len(decisions)
  BY <1>1
<1>3. ASSUME NEW i \in DOMAIN decisions
      PROVE  /\ zipped[i].of = i
             /\ zipped[i].kind = "denied" <=> decisions[i] = "forbidden"
  <2>1. CASE decisions[i] = "forbidden"
    BY <2>1 DEF Merge
  <2>2. CASE decisions[i] = "allowed"
    <3> DEFINE k == Rank(decisions, i)
    <3>1. zipped[i] = results[k]
      BY <2>2 DEF Merge
    <3>2. results[k] = SlotOf(NthSent(decisions, k), outcomes[k])
      BY <2>2, RankOfSent
    <3>3. NthSent(decisions, k) = i
      BY <2>2, NthOfRank
    <3> HIDE DEF k, results
    <3>4. zipped[i] = SlotOf(i, outcomes[k])
      BY <3>1, <3>2, <3>3
    <3>. QED BY <2>2, <3>4 DEF SlotOf
  <2>. QED BY <2>1, <2>2
<1>. QED BY <1>1, <1>2, <1>3

-----------------------------------------------------------------------------
(***************************************************************************)
(* Keys and JWTs.                                                          *)
(***************************************************************************)

\* A key of a set is trusted for an algorithm of its family, if it is one for
\* signatures at all.
LEMMA CacheableFits ==
    ASSUME NEW jwk, CacheableKey(jwk) # None
    PROVE  /\ jwk.use # "enc" /\ (jwk.ops = None \/ "verify" \in jwk.ops)
           /\ \/ jwk.type = "RSA" /\ CacheableKey(jwk) \in {"RS256", "RS384", "RS512"}
              \/ jwk.type = "P256" /\ CacheableKey(jwk) = "ES256"
              \/ jwk.type = "P384" /\ CacheableKey(jwk) = "ES384"
<1> DEFINE algorithm ==
             CASE jwk.type = "RSA" /\ jwk.alg \in {"RS256", "RS384", "RS512"} -> jwk.alg
               [] jwk.type = "RSA" /\ jwk.alg = None -> "RS256"
               [] jwk.type = "P256" /\ jwk.alg \in {None, "ES256"} -> "ES256"
               [] jwk.type = "P384" /\ jwk.alg \in {None, "ES384"} -> "ES384"
               [] OTHER -> None
<1>1. /\ jwk.use \in {None, "sig"} /\ CacheableKey(jwk) = algorithm
      /\ jwk.ops = None \/ "verify" \in jwk.ops
  BY DEF CacheableKey
<1>2. jwk.use # "enc"
  BY <1>1, ConfigConstants
<1>3. CASE jwk.type = "RSA" /\ jwk.alg \in {"RS256", "RS384", "RS512"}
  <2>1. algorithm \in {"RS256", "RS384", "RS512"}
    BY <1>3
  <2>. QED BY <1>1, <1>2, <1>3, <2>1
<1>4. CASE jwk.type = "RSA" /\ jwk.alg = None
  <2>1. algorithm \in {"RS256", "RS384", "RS512"}
    BY <1>4
  <2>. QED BY <1>1, <1>2, <1>4, <2>1
<1>5. CASE jwk.type = "P256" /\ jwk.alg \in {None, "ES256"}
  <2>1. algorithm = "ES256"
    BY <1>5
  <2>. QED BY <1>1, <1>2, <1>5, <2>1
<1>6. CASE jwk.type = "P384" /\ jwk.alg \in {None, "ES384"}
  <2>1. algorithm = "ES384"
    BY <1>6
  <2>. QED BY <1>1, <1>2, <1>6, <2>1
<1>7. CASE /\ ~(jwk.type = "RSA" /\ jwk.alg \in {"RS256", "RS384", "RS512"})
           /\ ~(jwk.type = "RSA" /\ jwk.alg = None)
           /\ ~(jwk.type = "P256" /\ jwk.alg \in {None, "ES256"})
           /\ ~(jwk.type = "P384" /\ jwk.alg \in {None, "ES384"})
  <2>1. algorithm = None
    BY <1>7
  <2>. QED BY <1>1, <2>1
<1>. QED BY <1>3, <1>4, <1>5, <1>6, <1>7

\* An error is not an identity.
LEMMA ErrorsFail == ASSUME NEW e PROVE Failed(AuthError(e))
BY DEF Failed, AuthError

\* A JWT that makes an identity was signed by the key, with an algorithm the
\* key is trusted for.
LEMMA JwtIdentityHolds ==
    ASSUME NEW jwt, NEW key, NEW active, NEW c,
           ~Failed(ValidateJwt(jwt, key, active, Now, c))
    PROVE  LET who == ValidateJwt(jwt, key, active, Now, c)
           IN  /\ jwt.signedBy = key
               /\ CacheableKey(key) # None /\ jwt.alg = CacheableKey(key)
               /\ who = JwtIdentity(jwt, c)
<1> DEFINE who == ValidateJwt(jwt, key, active, Now, c)
<1>1. ~Failed(who) /\ \A e : who # AuthError(e)
  BY ErrorsFail
<1>. QED BY <1>1 DEF ValidateJwt, Decodes, Rejected

\* The identity is the subject's, has a pool, and blocks what the claims block.
LEMMA JwtIdentityIs ==
    ASSUME NEW jwt, NEW c, ~Failed(JwtIdentity(jwt, c))
    PROVE  LET who == JwtIdentity(jwt, c)
           IN  /\ IsIdentity(who) /\ who.bucket = jwt.sub
               /\ who.pool \in DOMAIN c.pools
               /\ who.blocked = UppercaseSet(jwt.blocked)
BY ErrorsFail DEF JwtIdentity, IsIdentity

-----------------------------------------------------------------------------
(***************************************************************************)
(* Configurations.                                                         *)
(***************************************************************************)

\* The pool of a raw one has a number of waiters, its timeouts and connection.
LEMMA PoolConfigIs ==
    ASSUME NEW raw, DOMAIN RawPoolDefault \subseteq DOMAIN raw, TypedPool(raw)
    PROVE  /\ PoolConfig(raw).connection = raw.connection
           /\ PoolConfig(raw).maxWaiters \in Numbers
           /\ PoolConfig(raw).acquireTimeout \in Numbers
           /\ PoolConfig(raw).commandTimeout \in Numbers
<1>1. {"connection", "maxConnections", "commandTimeout", "acquireTimeout", "maxWaiters", "scripts"}
        \subseteq DOMAIN raw
  BY DEF RawPoolDefault
<1>2. /\ PoolConfig(raw).connection = raw.connection
      /\ PoolConfig(raw).acquireTimeout = raw.acquireTimeout
      /\ PoolConfig(raw).commandTimeout = raw.commandTimeout
      /\ PoolConfig(raw).maxWaiters = Or(raw.maxWaiters, WaitersOf(raw.maxConnections))
  BY <1>1 DEF PoolConfig
<1>3. WaitersOf(raw.maxConnections) \in Numbers
  BY ConfigConstants DEF TypedPool, Numbers, WaitersOf
<1>. QED BY <1>2, <1>3 DEF Or, TypedPool

\* So has the pool of a connection that nothing else is said about.
LEMMA PlainPoolIs ==
    ASSUME NEW connection, NEW n \in Numbers
    PROVE  /\ PlainPool(connection, n).connection = connection
           /\ PlainPool(connection, n).maxConnections = n
           /\ PlainPool(connection, n).maxWaiters \in Numbers
           /\ PlainPool(connection, n).acquireTimeout = 500
           /\ PlainPool(connection, n).commandTimeout = 2000
<1> DEFINE raw == [RawPoolDefault EXCEPT !.connection = connection, !.maxConnections = n]
<1>1. /\ raw.connection = connection /\ raw.maxConnections = n
      /\ raw.commandTimeout = 2000 /\ raw.acquireTimeout = 500 /\ raw.maxWaiters = None
      /\ DOMAIN raw = DOMAIN RawPoolDefault
  BY DEF RawPoolDefault
<1>2. /\ PlainPool(connection, n) = PoolConfig(raw)
  BY DEF PlainPool
<1> HIDE DEF raw
<1>3. {"connection", "maxConnections", "commandTimeout", "acquireTimeout", "maxWaiters", "scripts"}
        \subseteq DOMAIN raw
  BY <1>1 DEF RawPoolDefault
<1>4. /\ PoolConfig(raw).connection = connection
      /\ PoolConfig(raw).maxConnections = n
      /\ PoolConfig(raw).acquireTimeout = 500
      /\ PoolConfig(raw).commandTimeout = 2000
      /\ PoolConfig(raw).maxWaiters = WaitersOf(n)
  BY <1>1, <1>3 DEF PoolConfig, Or
<1>5. WaitersOf(n) \in Numbers
  BY ConfigConstants DEF Numbers, WaitersOf
<1>. QED BY <1>2, <1>4, <1>5

\* What each of the three ways to a configuration gives before it is
\* validated; and a token of it that stands for what was written about it.
Drafted(c) ==
    /\ DOMAIN c = {"server", "jwt", "tokens", "pools"}
    /\ "http_timeout_ms" \in DOMAIN c.server
    /\ c.server.http_timeout_ms \in Numbers
    /\ \A p \in DOMAIN c.pools : /\ c.pools[p].maxWaiters \in Numbers
                                 /\ c.pools[p].acquireTimeout \in Numbers
                                 /\ c.pools[p].commandTimeout \in Numbers

AsWritten(c, launch, text) ==
    IF Digest(text) \in DOMAIN c.tokens
    THEN \E e \in EntriesFor(launch, text) :
           /\ e.connection = c.pools[c.tokens[Digest(text)].pool].connection
           /\ UppercaseSet(e.blocked) = c.tokens[Digest(text)].blocked
    ELSE EntriesFor(launch, text) = {}

\* Different tokens have different digests.
LEMMA DigestsDiffer ==
    ASSUME NEW s, NEW t
    PROVE  /\ Digest(s) = Digest(t) <=> s = t
           /\ Digest(s).token = s
BY DEF Digest

\* The defaults are of the width of the numbers.
LEMMA DefaultsAreNumbers ==
    /\ "http_timeout_ms" \in DOMAIN ServerDefault
    /\ ServerDefault.http_timeout_ms \in Numbers
    /\ 500 \in Numbers /\ 2000 \in Numbers /\ 3 \in Numbers
BY ConfigConstants DEF ServerDefault, Numbers

\* The configuration of the environment is as drafted, and its token as written;
LEMMA EnvDrafted ==
    ASSUME NEW launch \in Launches, launch.env.mode = "env",
           NEW c, c = FromEnvMode(launch.env), c # Error
    PROVE  Drafted(c) /\ \A text : AsWritten(c, launch, text)
<1> DEFINE env == launch.env
           n == Or(env.maxConnections, 3)
<1>1. /\ env.maxConnections # Bad
      /\ c = [server |-> ServerDefault, jwt |-> None,
              tokens |-> [d \in {Digest(env.token)} |-> DefaultToken("default")],
              pools |-> [p \in {"default"} |-> PlainPool(env.connection, n)]]
  BY DEF FromEnvMode
<1>2. n \in Numbers
  BY <1>1, LaunchesAssumption, DefaultsAreNumbers DEF Or
<1> HIDE DEF n
<1>3. Drafted(c)
  BY <1>1, <1>2, PlainPoolIs, DefaultsAreNumbers DEF Drafted
<1>4. ASSUME NEW text PROVE AsWritten(c, launch, text)
  <2>1. EntriesFor(launch, text) = IF text = env.token
                                   THEN {[connection |-> env.connection, blocked |-> {}]} ELSE {}
    BY DEF EntriesFor
  <2>2. Digest(text) \in DOMAIN c.tokens <=> text = env.token
    BY <1>1, DigestsDiffer
  <2>3. CASE text = env.token
    <3>1. /\ c.tokens[Digest(text)] = DefaultToken("default")
          /\ c.pools["default"].connection = env.connection
      BY <1>1, <1>2, <2>3, PlainPoolIs
    <3>2. DefaultToken("default").pool = "default" /\ DefaultToken("default").blocked = {}
      BY DEF DefaultToken
    <3>3. UppercaseSet({}) = {}
      BY DEF UppercaseSet
    <3> DEFINE e == [connection |-> env.connection, blocked |-> {}]
    <3>4. /\ e.connection = c.pools[c.tokens[Digest(text)].pool].connection
          /\ UppercaseSet(e.blocked) = c.tokens[Digest(text)].blocked
          /\ e \in EntriesFor(launch, text)
      BY <2>1, <2>3, <3>1, <3>2, <3>3
    <3> HIDE DEF e
    <3>. QED BY <2>2, <2>3, <3>4 DEF AsWritten
  <2>4. CASE text # env.token
    BY <2>1, <2>2, <2>4 DEF AsWritten
  <2>. QED BY <2>3, <2>4
<1>. QED BY <1>3, <1>4

\* that of a legacy file, whichever entry of a pool came first;
LEMMA LegacyDrafted ==
    ASSUME NEW launch \in Launches, launch.env.mode # "env", launch.doc # Bad,
           IsLegacy(launch.doc), NEW order, NEW c, c = FromLegacyValue(launch.doc, order), c # Error
    PROVE  Drafted(c) /\ \A text : AsWritten(c, launch, text)
<1> DEFINE doc == launch.doc
           pool(token) == LegacyPool(token, doc[token])
           first(p) == LegacyCandidate(doc[order[Min({i \in DOMAIN order : pool(order[i]) = p})]])
<1>1. /\ \A token \in DOMAIN doc : SameLegacyPool(first(pool(token)), LegacyCandidate(doc[token]))
      /\ c = [server |-> ServerDefault, jwt |-> None,
              tokens |-> [d \in {Digest(token) : token \in DOMAIN doc} |->
                            DefaultToken(pool(d.token))],
              pools |-> [p \in {pool(token) : token \in DOMAIN doc} |-> first(p)]]
  BY DEF FromLegacyValue
<1>2. \A p : \E raw : first(p) = LegacyCandidate(raw)
  OBVIOUS
<1> HIDE DEF first, pool
<1>3. ASSUME NEW token \in DOMAIN doc
      PROVE  /\ LegacyCandidate(doc[token]).connection = doc[token].connection
             /\ LegacyCandidate(doc[token]).maxConnections \in Numbers
  <2>1. Filled(doc[token], RawLegacyDefault).maxConnections \in Numbers
    BY LaunchesAssumption DEF TypedFile
  <2>. QED BY <2>1, PlainPoolIs DEF LegacyCandidate
<1>4. ASSUME NEW p \in DOMAIN c.pools
      PROVE  /\ c.pools[p].maxWaiters \in Numbers
             /\ c.pools[p].acquireTimeout \in Numbers
             /\ c.pools[p].commandTimeout \in Numbers
  <2>1. PICK token \in DOMAIN doc : p = pool(token)
    BY <1>1
  <2>2. c.pools[p] = first(p)
    BY <1>1
  <2>3. PICK raw : first(p) = LegacyCandidate(raw)
    BY <1>2
  <2> DEFINE n == Filled(raw, RawLegacyDefault).maxConnections
  <2>4. first(p).maxConnections \in Numbers
    BY <1>1, <1>3, <2>1 DEF SameLegacyPool
  <2>5. first(p) = PlainPool(raw.connection, n)
    BY <2>3 DEF LegacyCandidate
  <2> HIDE DEF n
  <2>6. PlainPool(raw.connection, n).maxConnections = n
    BY DEF PlainPool, PoolConfig, RawPoolDefault
  <2>7. n \in Numbers
    BY <2>4, <2>5, <2>6
  <2>. QED BY <2>2, <2>5, <2>7, PlainPoolIs, DefaultsAreNumbers
<1>5. Drafted(c)
  BY <1>1, <1>4, DefaultsAreNumbers DEF Drafted
<1>6. ASSUME NEW text PROVE AsWritten(c, launch, text)
  <2>1. EntriesFor(launch, text) = {[connection |-> doc[t].connection, blocked |-> {}] :
                                      t \in DOMAIN doc \cap {text}}
    BY DEF EntriesFor
  <2>2. DOMAIN c.tokens = {Digest(token) : token \in DOMAIN doc}
    BY <1>1
  <2>3. Digest(text) \in DOMAIN c.tokens <=> text \in DOMAIN doc
    BY <2>2, DigestsDiffer
  <2>4. CASE text \in DOMAIN doc
    <3>1. c.tokens[Digest(text)] = DefaultToken(pool(text))
      BY <1>1, <2>2, <2>3, <2>4, DigestsDiffer
    <3>2. DefaultToken(pool(text)).pool = pool(text) /\ DefaultToken(pool(text)).blocked = {}
      BY DEF DefaultToken
    <3>3. c.pools[pool(text)].connection = doc[text].connection
      BY <1>1, <1>3, <2>4 DEF SameLegacyPool
    <3>4. UppercaseSet({}) = {}
      BY DEF UppercaseSet
    <3> DEFINE e == [connection |-> doc[text].connection, blocked |-> {}]
    <3>5. e \in EntriesFor(launch, text)
      BY <2>1, <2>4
    <3>6. /\ e.connection = c.pools[c.tokens[Digest(text)].pool].connection
          /\ UppercaseSet(e.blocked) = c.tokens[Digest(text)].blocked
      BY <3>1, <3>2, <3>3, <3>4
    <3> HIDE DEF e
    <3>. QED BY <2>3, <2>4, <3>5, <3>6 DEF AsWritten
  <2>5. CASE text \notin DOMAIN doc
    <3>1. EntriesFor(launch, text) = {}
      BY <2>1, <2>5
    <3>. QED BY <2>3, <2>5, <3>1 DEF AsWritten
  <2>. QED BY <2>4, <2>5
<1>. QED BY <1>5, <1>6

\* and that of a new-format file, whichever key of a token came last.
LEMMA NewDrafted ==
    ASSUME NEW launch \in Launches, launch.env.mode # "env", launch.doc # Bad,
           ~IsLegacy(launch.doc), NEW order \in Orders(launch.doc),
           NEW c, c = FromNewValue(launch.doc, order), c # Error
    PROVE  Drafted(c) /\ (TokensHavePools(c) => \A text : AsWritten(c, launch, text))
<1> DEFINE raw == Filled(launch.doc, RawConfigDefault)
           entry(k) == Filled(raw.static_tokens[k], RawTokenDefault)
           pool(p) == Filled(raw.pools[p], RawPoolDefault)
           keys == DOMAIN raw.static_tokens
           pools == [p \in DOMAIN raw.pools |-> PoolConfig(Filled(raw.pools[p], RawPoolDefault))]
           last(d) == order[Max({i \in DOMAIN order : ParseConfiguredDigest(order[i]) = d})]
<1>1. c = [server |-> Filled(raw.server, ServerDefault),
           jwt |-> IF raw.jwt = None THEN None ELSE Filled(raw.jwt, RawJwtDefault),
           tokens |-> [d \in {ParseConfiguredDigest(k) : k \in keys} |->
                         StaticToken(raw.static_tokens[last(d)], pools)],
           pools |-> pools]
  BY DEF FromNewValue
<1>2. /\ IsFiniteSet(keys)
      /\ Filled(raw.server, ServerDefault).http_timeout_ms \in Numbers
      /\ \A p \in DOMAIN raw.pools : TypedPool(Filled(raw.pools[p], RawPoolDefault))
  BY LaunchesAssumption DEF TypedFile
<1>3. order \in [1 .. Cardinality(keys) -> keys] /\ \A k \in keys : \E i \in DOMAIN order : order[i] = k
  BY DEF Orders, OrdersOf
<1>4. \A d : last(d) = order[Max({i \in DOMAIN order : ParseConfiguredDigest(order[i]) = d})]
  OBVIOUS
<1>5. \A text : EntriesFor(launch, text) =
            {[connection |-> pool(entry(k).pool).connection, blocked |-> entry(k).blocked] :
               k \in {k \in keys : TokenOf(k) = text /\ entry(k).pool \in DOMAIN raw.pools}}
  BY DEF EntriesFor
<1> HIDE DEF raw, last
<1>6. Drafted(c)
  <2>1. ASSUME NEW p \in DOMAIN raw.pools
        PROVE  /\ c.pools[p] = PoolConfig(Filled(raw.pools[p], RawPoolDefault))
               /\ c.pools[p].maxWaiters \in Numbers
               /\ c.pools[p].acquireTimeout \in Numbers
               /\ c.pools[p].commandTimeout \in Numbers
    <3>1. DOMAIN RawPoolDefault \subseteq DOMAIN Filled(raw.pools[p], RawPoolDefault)
      BY DEF Filled
    <3>2. c.pools[p] = PoolConfig(Filled(raw.pools[p], RawPoolDefault))
      BY <1>1
    <3>. QED BY <1>2, <3>1, <3>2, PoolConfigIs
  <2>2. "http_timeout_ms" \in DOMAIN Filled(raw.server, ServerDefault)
    BY DefaultsAreNumbers DEF Filled
  <2>3. /\ DOMAIN c = {"server", "jwt", "tokens", "pools"}
        /\ c.server = Filled(raw.server, ServerDefault)
        /\ DOMAIN c.pools = DOMAIN raw.pools
    BY <1>1
  <2>4. \A p \in DOMAIN c.pools : /\ c.pools[p].maxWaiters \in Numbers
                                  /\ c.pools[p].acquireTimeout \in Numbers
                                  /\ c.pools[p].commandTimeout \in Numbers
    BY <2>1, <2>3
  <2>5. /\ "http_timeout_ms" \in DOMAIN c.server
        /\ c.server.http_timeout_ms \in Numbers
    BY <1>2, <2>2, <2>3
  <2>. QED BY <2>3, <2>4, <2>5 DEF Drafted
<1>7. ASSUME TokensHavePools(c), NEW text PROVE AsWritten(c, launch, text)
  <2>1. DOMAIN c.tokens = {ParseConfiguredDigest(k) : k \in keys}
    BY <1>1
  <2>2. CASE Digest(text) \in DOMAIN c.tokens
    <3> DEFINE T == {i \in DOMAIN order : ParseConfiguredDigest(order[i]) = Digest(text)}
               k == last(Digest(text))
    <3>1. PICK k0 \in keys : Digest(text) = ParseConfiguredDigest(k0)
      BY <2>1, <2>2
    <3>2. T # {} /\ T \subseteq DOMAIN order
      BY <1>3, <3>1
    <3>3. DOMAIN order = 1 .. Cardinality(keys) /\ Cardinality(keys) \in Nat
      BY <1>2, <1>3, FS_CardinalityType
    <3>4. Max(T) \in T
      BY <3>2, <3>3, MaxIsGreatest
    <3>5. k = order[Max(T)]
      BY <1>4
    <3> HIDE DEF T, k
    <3>6. k \in keys /\ TokenOf(k) = text
      BY <1>3, <3>4, <3>5, DigestsDiffer DEF T, ParseConfiguredDigest
    <3> DEFINE token == c.tokens[Digest(text)]
    <3>7. token = StaticToken(raw.static_tokens[k], pools)
      <4>1. token = StaticToken(raw.static_tokens[last(Digest(text))], pools)
        BY <1>1, <2>1, <2>2
      <4>. QED BY <4>1 DEF k
    <3>8. token.pool = entry(k).pool /\ token.blocked = UppercaseSet(entry(k).blocked)
      BY <3>7 DEF StaticToken
    <3>9. entry(k).pool \in DOMAIN raw.pools
      <4>1. token.pool \in DOMAIN c.pools
        BY <1>7, <2>2 DEF TokensHavePools
      <4>2. DOMAIN c.pools = DOMAIN raw.pools
        BY <1>1
      <4>. QED BY <3>8, <4>1, <4>2
    <3>10. c.pools[entry(k).pool].connection = Filled(raw.pools[entry(k).pool], RawPoolDefault).connection
      <4>1. DOMAIN RawPoolDefault \subseteq DOMAIN Filled(raw.pools[entry(k).pool], RawPoolDefault)
        BY DEF Filled
      <4>. QED BY <1>1, <1>2, <3>9, <4>1, PoolConfigIs
    <3> DEFINE e == [connection |-> pool(entry(k).pool).connection, blocked |-> entry(k).blocked]
    <3>11. e \in EntriesFor(launch, text)
      BY <1>5, <3>6, <3>9
    <3>12. e.connection = c.pools[token.pool].connection /\ UppercaseSet(e.blocked) = token.blocked
      BY <3>8, <3>10
    <3> HIDE DEF e
    <3>. QED BY <2>2, <3>11, <3>12 DEF AsWritten
  <2>3. CASE Digest(text) \notin DOMAIN c.tokens
    <3>1. \A k \in keys : TokenOf(k) # text
      BY <2>1, <2>3 DEF ParseConfiguredDigest
    <3>2. EntriesFor(launch, text) = {}
      BY <1>5, <3>1
    <3>. QED BY <2>3, <3>2 DEF AsWritten
  <2>. QED BY <2>2, <2>3
<1>. QED BY <1>6, <1>7

\* What validation passes it does not change.
LEMMA ValidatePasses ==
    ASSUME NEW c, Validate(c) # Error
    PROVE  Validate(c) = c /\ TokensHavePools(c) /\ \A p \in DOMAIN c.pools : ValidPool(c.pools[p], c.server)
BY DEF Validate

\* A sum of timeouts that is checked against the HTTP timeout is the sum.
LEMMA TotalTimeoutFits ==
    ASSUME NEW pool, pool.acquireTimeout \in Numbers, pool.commandTimeout \in Numbers,
           NEW limit \in Numbers, TotalTimeout(pool) < limit
    PROVE  pool.acquireTimeout + 2 * pool.commandTimeout < limit
BY ConfigConstants DEF TotalTimeout, Numbers

\* A configuration that a process starts with: its pools can be waited for,
\* within the HTTP timeout, and its tokens stand for what was written.
LEMMA LoadedWorks ==
    ASSUME NEW launch \in Launches, NEW order \in Orders(launch.doc),
           NEW c, c = FromEnvironment(launch.env, launch.doc, order), c # Error
    PROVE  /\ \A p \in DOMAIN c.pools :
                /\ c.pools[p].maxWaiters \in 1 .. MaxInt
                /\ c.pools[p].acquireTimeout + 2 * c.pools[p].commandTimeout
                     < c.server.http_timeout_ms
           /\ TokensHavePools(c)
           /\ \A text : AsWritten(c, launch, text)
<1> DEFINE env == launch.env
           doc == launch.doc
           draft == CASE env.mode = "env" -> FromEnvMode(env)
                      [] env.mode \in {None, "file"} -> FromJson(doc, order)
                      [] OTHER -> Error
           over == ApplyServerOverrides(draft, env)
<1>1. draft # Error /\ c = Validate(over)
  BY DEF FromEnvironment
<1>2. c = over /\ TokensHavePools(c) /\ \A p \in DOMAIN c.pools : ValidPool(c.pools[p], c.server)
  BY <1>1, ValidatePasses
<1>3. Drafted(draft) /\ (TokensHavePools(draft) => \A text : AsWritten(draft, launch, text))
  <2>1. CASE env.mode = "env"
    <3>1. env.mode \notin {None, "file"}
      BY <2>1, ConfigConstants
    <3>2. draft = FromEnvMode(env)
      BY <2>1, <3>1
    <3>. QED BY <1>1, <2>1, <3>2, EnvDrafted
  <2>2. CASE env.mode # "env" /\ env.mode \in {None, "file"}
    <3>1. draft = FromJson(doc, order)
      BY <2>2
    <3>2. /\ doc # Bad
          /\ draft = Validate(IF IsLegacy(doc) THEN FromLegacyValue(doc, order)
                              ELSE FromNewValue(doc, order))
      BY <1>1, <3>1 DEF FromJson
    <3> HIDE DEF draft
    <3>3. CASE IsLegacy(doc)
      <4>1. draft = FromLegacyValue(doc, order)
        BY <1>1, <3>2, <3>3, ValidatePasses
      <4>. QED BY <1>1, <2>2, <3>2, <3>3, <4>1, LegacyDrafted
    <3>4. CASE ~IsLegacy(doc)
      <4>1. draft = FromNewValue(doc, order)
        BY <1>1, <3>2, <3>4, ValidatePasses
      <4>. QED BY <1>1, <2>2, <3>2, <3>4, <4>1, NewDrafted
    <3>. QED BY <3>3, <3>4
  <2>3. CASE env.mode # "env" /\ env.mode \notin {None, "file"}
    BY <1>1, <2>3
  <2>. QED BY <2>1, <2>2, <2>3
<1> HIDE DEF draft
<1>4. over # Error
  BY <1>2
<1>5. /\ over.tokens = draft.tokens /\ over.pools = draft.pools
      /\ over.server.http_timeout_ms = draft.server.http_timeout_ms
  BY <1>3, <1>4 DEF ApplyServerOverrides, Drafted
<1>6. TokensHavePools(draft)
  BY <1>2, <1>5 DEF TokensHavePools
<1>7. \A text : AsWritten(c, launch, text)
  BY <1>2, <1>3, <1>5, <1>6 DEF AsWritten
<1>8. ASSUME NEW p \in DOMAIN c.pools
      PROVE  /\ c.pools[p].maxWaiters \in 1 .. MaxInt
             /\ c.pools[p].acquireTimeout + 2 * c.pools[p].commandTimeout
                     < c.server.http_timeout_ms
  <2>1. /\ c.pools[p].maxWaiters \in Numbers
        /\ c.pools[p].acquireTimeout \in Numbers
        /\ c.pools[p].commandTimeout \in Numbers
        /\ c.server.http_timeout_ms \in Numbers
    BY <1>2, <1>3, <1>5 DEF Drafted
  <2>2. c.pools[p].maxWaiters # 0 /\ TotalTimeout(c.pools[p]) < c.server.http_timeout_ms
    BY <1>2 DEF ValidPool
  <2>3. c.pools[p].maxWaiters \in 1 .. MaxInt
    BY <2>1, <2>2, ConfigConstants DEF Numbers
  <2>. QED BY <2>1, <2>2, <2>3, TotalTimeoutFits
<1>. QED BY <1>2, <1>7, <1>8

-----------------------------------------------------------------------------
(***************************************************************************)
(* The data path: the invariant, stage by stage.                           *)
(***************************************************************************)

\* At three of the stages no part of the invariant says anything;
LEMMA QuietStages ==
    ASSUME stage \in {"start", "exit", "read"}
    PROVE  PathInv
BY DEF PathInv, ConfigurationsWork, PathTypeOK, AcceptedTimeoutsFit, TokensAsWritten,
       TokensReachTheirPool, CredentialsHold, JwtIsNeverAToken, KeysFitTheirAlgorithm,
       IdentitiesBlock, JudgementsAreTheAcls, SentAreValid, SlotsAnswerTheirCommands

\* nor after a step that leads to one of them.
LEMMA QuietStagesNext ==
    ASSUME stage' \in {"start", "exit", "read"}
    PROVE  PathInv'
BY DEF PathInv, ConfigurationsWork, PathTypeOK, AcceptedTimeoutsFit, TokensAsWritten,
       TokensReachTheirPool, CredentialsHold, JwtIsNeverAToken, KeysFitTheirAlgorithm,
       IdentitiesBlock, JudgementsAreTheAcls, SentAreValid, SlotsAnswerTheirCommands

\* A configuration that is loaded works, and its tokens are as written.
LEMMA LoadPreserves == ASSUME Load PROVE PathInv'
<1>1. PICK launch \in Launches : \E order \in Orders(launch.doc) :
        given' = launch /\ config' = FromEnvironment(launch.env, launch.doc, order)
  BY DEF Load
<1>2. PICK order \in Orders(launch.doc) :
        given' = launch /\ config' = FromEnvironment(launch.env, launch.doc, order)
  BY <1>1
<1>3. CASE config' = Error \/ stage' = "exit"
  <2>1. stage' = "exit"
    BY <1>3 DEF Load
  <2>. QED BY <2>1, QuietStagesNext
<1>4. CASE config' # Error /\ stage' # "exit"
  <2>1. stage' = "loaded"
    BY <1>4 DEF Load
  <2>2. PICK c : c = config'
    OBVIOUS
  <2>3. c = FromEnvironment(launch.env, launch.doc, order) /\ c # Error
    BY <1>2, <1>4, <2>2
  <2>4. /\ \A p \in DOMAIN c.pools :
             /\ c.pools[p].maxWaiters \in 1 .. MaxInt
             /\ c.pools[p].acquireTimeout + 2 * c.pools[p].commandTimeout
                  < c.server.http_timeout_ms
        /\ TokensHavePools(c)
        /\ \A text : AsWritten(c, launch, text)
    BY <2>3, LoadedWorks
  <2>5. ConfigurationsWork'
    BY <2>1, <2>2, <2>4 DEF ConfigurationsWork, PathTypeOK, AcceptedTimeoutsFit
  <2>6. TokensAsWritten'
    <3>1. TokensHavePools(config)'
      BY <2>2, <2>4 DEF TokensHavePools
    <3>2. ASSUME NEW bearer \in Bearers
          PROVE  (IF Digest(bearer.text) \in DOMAIN config.tokens
                  THEN \E e \in EntriesFor(given, bearer.text) :
                        /\ e.connection = config.pools[config.tokens[Digest(bearer.text)].pool].connection
                        /\ UppercaseSet(e.blocked) = config.tokens[Digest(bearer.text)].blocked
                  ELSE EntriesFor(given, bearer.text) = {})'
      <4>1. AsWritten(c, launch, bearer.text)
        BY <2>4
      <4>2. EntriesFor(given, bearer.text)' = EntriesFor(launch, bearer.text)
        BY <1>2 DEF EntriesFor
      <4>. QED BY <2>2, <4>1, <4>2 DEF AsWritten
    <3>. QED BY <3>1, <3>2 DEF TokensAsWritten
  <2>. QED BY <2>1, <2>5, <2>6
       DEF PathInv, TokensReachTheirPool, CredentialsHold, JwtIsNeverAToken,
           KeysFitTheirAlgorithm, IdentitiesBlock, JudgementsAreTheAcls, SentAreValid,
           SlotsAnswerTheirCommands
<1>. QED BY <1>3, <1>4

\* What the chain makes of a credential: an answer of the JWT link, if it has
\* one, and what the static tokens know otherwise.
LEMMA AuthenticateIs ==
    ASSUME NEW bearer \in Bearers, NEW key, NEW active, NEW c
    PROVE  Authenticate(bearer, key, active, Now, c) =
             IF c.jwt # None /\ LooksLikeJwt(bearer)
             THEN IF bearer.header = "json" THEN Rejected
                  ELSE ValidateJwt(bearer.jwt, key, active, Now, c)
             ELSE IF StaticAuth(bearer, c) # <<>> THEN StaticAuth(bearer, c)[1] ELSE Rejected
<1> DEFINE jwt == IF c.jwt = None THEN <<>> ELSE JwtAuth(bearer, key, active, Now, c)
<1>1. Authenticate(bearer, key, active, Now, c) =
        IF jwt # <<>> THEN jwt[1]
        ELSE IF StaticAuth(bearer, c) # <<>> THEN StaticAuth(bearer, c)[1] ELSE Rejected
  BY DEF Authenticate
<1>2. CASE c.jwt # None /\ LooksLikeJwt(bearer)
  <2>1. jwt = IF bearer.header = "json" THEN <<Rejected>>
              ELSE <<ValidateJwt(bearer.jwt, key, active, Now, c)>>
    BY <1>2 DEF JwtAuth, LooksLikeJwt
  <2> HIDE DEF jwt
  <2>2. CASE bearer.header = "json"
    <3>1. jwt = <<Rejected>>
      BY <2>1, <2>2
    <3>2. jwt # <<>> /\ jwt[1] = Rejected
      BY <3>1
    <3>. QED BY <1>1, <1>2, <2>2, <3>2
  <2>3. CASE bearer.header # "json"
    <3>1. PICK v : v = ValidateJwt(bearer.jwt, key, active, Now, c)
      OBVIOUS
    <3>2. jwt = <<v>>
      BY <2>1, <2>3, <3>1
    <3>3. jwt # <<>> /\ jwt[1] = v
      BY <3>2
    <3>. QED BY <1>1, <1>2, <2>3, <3>1, <3>3
  <2>. QED BY <2>2, <2>3
<1>3. CASE ~(c.jwt # None /\ LooksLikeJwt(bearer))
  <2>1. jwt = <<>>
    BY <1>3 DEF JwtAuth, LooksLikeJwt
  <2> HIDE DEF jwt
  <2>. QED BY <1>1, <1>3, <2>1
<1>. QED BY <1>2, <1>3

\* The static tokens abstain, or make an identity of what is configured.
LEMMA StaticAuthIs ==
    ASSUME NEW bearer, NEW c
    PROVE  IF Digest(bearer.text) \in DOMAIN c.tokens
           THEN /\ StaticAuth(bearer, c) # <<>>
                /\ IsIdentity(StaticAuth(bearer, c)[1])
                /\ StaticAuth(bearer, c)[1].pool = c.tokens[Digest(bearer.text)].pool
                /\ StaticAuth(bearer, c)[1].blocked = c.tokens[Digest(bearer.text)].blocked
           ELSE StaticAuth(bearer, c) = <<>>
<1> DEFINE token == c.tokens[Digest(bearer.text)]
           who == [subject |-> PrefixOf(bearer.text), bucket |-> Digest(bearer.text),
                   pool |-> token.pool, readOnly |-> token.readOnly, isAdmin |-> FALSE,
                   legacy |-> token.legacy, allowed |-> token.allowed,
                   blocked |-> token.blocked, scripts |-> token.scripts,
                   keyPrefix |-> token.keyPrefix]
<1>1. StaticAuth(bearer, c) = IF Digest(bearer.text) \in DOMAIN c.tokens THEN <<who>> ELSE <<>>
  BY DEF StaticAuth
<1>2. IsIdentity(who) /\ who.pool = token.pool /\ who.blocked = token.blocked
  BY DEF IsIdentity
<1> HIDE DEF who
<1>3. <<who>> # <<>> /\ <<who>>[1] = who
  OBVIOUS
<1>. QED BY <1>1, <1>2, <1>3

\* An identity is not an error.
LEMMA IdentitiesDoNotFail == ASSUME NEW who, IsIdentity(who) PROVE ~Failed(who)
BY DEF IsIdentity, Failed

\* What a static token's owner was told not to run is blocked by the entry
\* that counts.
LEMMA BlockedByEntry ==
    ASSUME NEW entries, NEW e \in entries, NEW n,
           n \in {m \in UNION {x.blocked : x \in entries} :
                    \A x \in entries : \E y \in x.blocked : y.word = m.word}
    PROVE  Upper(n) \in UppercaseSet(e.blocked)
<1>1. PICK m \in e.blocked : m.word = n.word
  OBVIOUS
<1>2. Upper(m) = Upper(n)
  BY <1>1 DEF Upper
<1>. QED BY <1>1, <1>2 DEF UppercaseSet

\* A credential becomes an identity that is as written, or is turned away.
LEMMA IdentifyPreserves == ASSUME PathInv, Identify PROVE PathInv'
<1>1. PICK bearer \in Bearers : \E key, active :
        /\ given' = [bearer |-> bearer, key |-> key, viaJwt |-> ViaJwt(bearer),
                     entries |-> EntriesFor(given, bearer.text)]
        /\ identity' = Authenticate(bearer, key, active, Now, config)
  BY DEF Identify
<1>2. PICK key, active :
        /\ given' = [bearer |-> bearer, key |-> key, viaJwt |-> ViaJwt(bearer),
                     entries |-> EntriesFor(given, bearer.text)]
        /\ identity' = Authenticate(bearer, key, active, Now, config)
  BY <1>1
<1>3. PICK c, who, entries : c = config /\ who = identity' /\ entries = EntriesFor(given, bearer.text)
  OBVIOUS
<1>4. /\ stage = "loaded" /\ config' = config
      /\ stage' = IF Failed(who) THEN "turned away" ELSE "known"
  BY <1>3 DEF Identify
<1>5. /\ given'.bearer = bearer /\ given'.key = key /\ given'.viaJwt = ViaJwt(bearer)
      /\ given'.entries = entries
  BY <1>2, <1>3
<1>6. who = IF ViaJwt(bearer)
            THEN IF bearer.header = "json" THEN Rejected
                 ELSE ValidateJwt(bearer.jwt, key, active, Now, c)
            ELSE IF StaticAuth(bearer, c) # <<>> THEN StaticAuth(bearer, c)[1] ELSE Rejected
  BY <1>2, <1>3, AuthenticateIs DEF ViaJwt
<1>7. /\ TokensHavePools(c)
      /\ IF Digest(bearer.text) \in DOMAIN c.tokens
         THEN \E e \in entries :
                /\ e.connection = c.pools[c.tokens[Digest(bearer.text)].pool].connection
                /\ UppercaseSet(e.blocked) = c.tokens[Digest(bearer.text)].blocked
         ELSE entries = {}
  BY <1>3, <1>4 DEF PathInv, TokensAsWritten
<1>8. \A p \in DOMAIN c.pools : c.pools[p].maxWaiters \in 1 .. MaxInt
  BY <1>3, <1>4 DEF PathInv, ConfigurationsWork, PathTypeOK
<1>9. CASE ViaJwt(bearer)
  <2>1. CASE Failed(who)
    <3>1. stage' = "turned away" /\ given'.viaJwt
      BY <1>4, <1>5, <1>9, <2>1
    <3>. QED BY <3>1
         DEF PathInv, ConfigurationsWork, PathTypeOK, AcceptedTimeoutsFit, TokensAsWritten,
             TokensReachTheirPool, CredentialsHold, JwtIsNeverAToken, KeysFitTheirAlgorithm,
             IdentitiesBlock, JudgementsAreTheAcls, SentAreValid, SlotsAnswerTheirCommands
  <2>2. CASE ~Failed(who)
    <3>1. stage' = "known" /\ given'.viaJwt
      BY <1>4, <1>5, <1>9, <2>2
    <3>2. who = ValidateJwt(bearer.jwt, key, active, Now, c) /\ bearer.header # "json"
      BY <1>6, <1>9, <2>2, ErrorsFail DEF Rejected
    <3>3. bearer.header = "jwt"
      BY <1>9, <3>2, BearersAssumption DEF ViaJwt, LooksLikeJwt
    <3>4. /\ bearer.jwt.signedBy = key /\ CacheableKey(key) # None
          /\ bearer.jwt.alg = CacheableKey(key)
          /\ who = JwtIdentity(bearer.jwt, c)
      BY <2>2, <3>2, JwtIdentityHolds
    <3>5. /\ IsIdentity(who) /\ who.bucket = bearer.jwt.sub /\ who.pool \in DOMAIN c.pools
          /\ who.blocked = UppercaseSet(bearer.jwt.blocked)
      BY <2>2, <3>4, JwtIdentityIs
    <3>6. /\ key.use # "enc" /\ (key.ops = None \/ "verify" \in key.ops)
          /\ \/ key.type = "RSA" /\ bearer.jwt.alg \in {"RS256", "RS384", "RS512"}
             \/ key.type = "P256" /\ bearer.jwt.alg = "ES256"
             \/ key.type = "P384" /\ bearer.jwt.alg = "ES384"
      BY <3>4, CacheableFits
    <3>7. CredentialsHold'
      <4>1. JwtIsNeverAToken'
        BY <1>3, <1>5, <3>3, <3>4, <3>5 DEF JwtIsNeverAToken
      <4>2. KeysFitTheirAlgorithm'
        BY <1>5, <3>6 DEF KeysFitTheirAlgorithm
      <4>. QED BY <4>1, <4>2 DEF CredentialsHold
    <3>8. IdentitiesBlock'
      <4>1. BlockedFor(given)' = bearer.jwt.blocked
        BY <1>5, <3>1 DEF BlockedFor
      <4>2. IsIdentity(identity)'
        BY <1>3, <3>5 DEF IsIdentity
      <4>3. \A n \in BlockedFor(given)' : Upper(n) \in identity'.blocked
        BY <1>3, <3>5, <4>1 DEF UppercaseSet
      <4>. QED BY <3>1, <4>2, <4>3 DEF IdentitiesBlock
    <3>9. ConfigurationsWork'
      BY <1>3, <1>4, <1>8, <3>1, <3>5 DEF ConfigurationsWork, PathTypeOK, AcceptedTimeoutsFit
    <3>. QED BY <3>1, <3>7, <3>8, <3>9
         DEF PathInv, TokensAsWritten, TokensReachTheirPool, JudgementsAreTheAcls, SentAreValid,
             SlotsAnswerTheirCommands
  <2>. QED BY <2>1, <2>2
<1>10. CASE ~ViaJwt(bearer)
  <2>0. ~given'.viaJwt
    BY <1>5, <1>10
  <2>1. CASE Digest(bearer.text) \notin DOMAIN c.tokens
    <3>1. who = Rejected /\ entries = {}
      BY <1>6, <1>7, <1>10, <2>1, StaticAuthIs
    <3>2. stage' = "turned away" /\ given'.entries = {}
      BY <1>4, <1>5, <3>1, ErrorsFail DEF Rejected
    <3>. QED BY <3>2
         DEF PathInv, ConfigurationsWork, PathTypeOK, AcceptedTimeoutsFit, TokensAsWritten,
             TokensReachTheirPool, CredentialsHold, JwtIsNeverAToken, KeysFitTheirAlgorithm,
             IdentitiesBlock, JudgementsAreTheAcls, SentAreValid, SlotsAnswerTheirCommands
  <2>2. CASE Digest(bearer.text) \in DOMAIN c.tokens
    <3> DEFINE token == c.tokens[Digest(bearer.text)]
    <3>1. IsIdentity(who) /\ who.pool = token.pool /\ who.blocked = token.blocked
      BY <1>6, <1>10, <2>2, StaticAuthIs
    <3>2. stage' = "known"
      BY <1>4, <3>1, IdentitiesDoNotFail
    <3>3. who.pool \in DOMAIN c.pools
      BY <1>7, <2>2, <3>1 DEF TokensHavePools
    <3>4. PICK e \in entries : /\ e.connection = c.pools[token.pool].connection
                               /\ UppercaseSet(e.blocked) = token.blocked
      BY <1>7, <2>2
    <3> HIDE DEF token
    <3>5. TokensReachTheirPool'
      BY <1>3, <1>4, <1>5, <3>1, <3>2, <3>4 DEF TokensReachTheirPool
    <3>6. IdentitiesBlock'
      <4>1. IsIdentity(identity)'
        BY <1>3, <3>1 DEF IsIdentity
      <4>2. ASSUME NEW n \in BlockedFor(given)' PROVE Upper(n) \in identity'.blocked
        <5>1. n \in {m \in UNION {x.blocked : x \in entries} :
                       \A x \in entries : \E y \in x.blocked : y.word = m.word}
          BY <1>5, <2>0 DEF BlockedFor
        <5>2. Upper(n) \in UppercaseSet(e.blocked)
          BY <5>1, BlockedByEntry
        <5>. QED BY <1>3, <3>1, <3>4, <5>2
      <4>. QED BY <3>2, <4>1, <4>2 DEF IdentitiesBlock
    <3>7. ConfigurationsWork'
      BY <1>3, <1>4, <1>8, <3>2, <3>3 DEF ConfigurationsWork, PathTypeOK, AcceptedTimeoutsFit
    <3>. QED BY <2>0, <3>2, <3>5, <3>6, <3>7
         DEF PathInv, TokensAsWritten, CredentialsHold, JwtIsNeverAToken, KeysFitTheirAlgorithm,
             JudgementsAreTheAcls, SentAreValid, SlotsAnswerTheirCommands
  <2>. QED BY <2>1, <2>2
<1>. QED BY <1>9, <1>10

\* The handler knows what the caller was told not to run.
LEMMA EnterPreserves == ASSUME PathInv, Enter PROVE PathInv'
<1>1. /\ stage = "known" /\ stage' = "serving" /\ identity' = identity
      /\ given' = [blocked |-> BlockedFor(given)]
  BY DEF Enter
<1>2. given'.blocked = BlockedFor(given)
  BY <1>1
<1>3. IsIdentity(identity) /\ \A n \in BlockedFor(given) : Upper(n) \in identity.blocked
  BY <1>1 DEF PathInv, IdentitiesBlock
<1>4. IdentitiesBlock'
  <2>1. IsIdentity(identity)'
    BY <1>1, <1>3 DEF IsIdentity
  <2>. QED BY <1>1, <1>2, <1>3, <2>1 DEF IdentitiesBlock
<1>. QED BY <1>1, <1>4
     DEF PathInv, ConfigurationsWork, PathTypeOK, AcceptedTimeoutsFit, TokensAsWritten,
         TokensReachTheirPool, CredentialsHold, JwtIsNeverAToken, KeysFitTheirAlgorithm,
         JudgementsAreTheAcls, SentAreValid, SlotsAnswerTheirCommands

\* The decisions on a request are one for every command.
LEMMA JudgedIs ==
    ASSUME NEW who, NEW call \in Calls
    PROVE  /\ Judged(who, call).decisions \in Seq({"allowed", "forbidden", "invalid"})
           /\ DOMAIN Judged(who, call).decisions = DOMAIN call.commands
           /\ \A i \in DOMAIN call.commands :
                /\ call.commands[i] \in [name : Names, args : Seq(Names)]
                /\ Judged(who, call).decisions[i] = Check(who, call.commands[i])
                /\ Judged(who, call).sent[i] = Normalize(call.commands[i])
           /\ Judged(who, call).verdict = Verdict(call.endpoint, Judged(who, call).decisions)
<1> DEFINE decisions == [i \in DOMAIN call.commands |-> Check(who, call.commands[i])]
<1>1. call.commands \in Seq([name : Names, args : Seq(Names)])
  BY CallsAssumption
<1>2. DOMAIN call.commands = 1 .. Len(call.commands) /\ Len(call.commands) \in Nat
  BY <1>1
<1>3. \A i \in DOMAIN call.commands : Check(who, call.commands[i]) \in {"allowed", "forbidden", "invalid"}
  BY DEF Check
<1>4. decisions \in Seq({"allowed", "forbidden", "invalid"})
  BY <1>2, <1>3
<1>5. /\ Judged(who, call).decisions = decisions
      /\ Judged(who, call).verdict = Verdict(call.endpoint, decisions)
      /\ Judged(who, call).sent = [i \in DOMAIN call.commands |-> Normalize(call.commands[i])]
  BY DEF Judged
<1>6. \A i \in DOMAIN call.commands : call.commands[i] \in [name : Names, args : Seq(Names)]
  <2>1. ASSUME NEW S, NEW commands \in Seq(S), NEW i \in DOMAIN commands
        PROVE  commands[i] \in S
    OBVIOUS
  <2>. QED BY <1>1, <2>1
<1>. QED BY <1>4, <1>5, <1>6

\* The handler judges by the ACL.
LEMMA JudgePreserves == ASSUME PathInv, Judge PROVE PathInv'
<1>1. PICK call \in Calls : /\ given' = [blocked |-> given.blocked, endpoint |-> call.endpoint]
                            /\ output' = Judged(identity, call)
  BY DEF Judge
<1>2. stage = "serving" /\ stage' = "judged" /\ identity' = identity
  BY DEF Judge
<1>3. given'.blocked = given.blocked /\ given'.endpoint = call.endpoint
  BY <1>1
<1>4. JudgementsAreTheAcls'
  <2>1. output' = Judged(identity', call)
    BY <1>1, <1>2
  <2>. QED BY <1>3, <2>1 DEF JudgementsAreTheAcls
<1>5. IdentitiesBlock'
  <2>1. IsIdentity(identity) /\ \A n \in given.blocked : Upper(n) \in identity.blocked
    BY <1>2 DEF PathInv, IdentitiesBlock
  <2>2. IsIdentity(identity)'
    BY <1>2, <2>1 DEF IsIdentity
  <2>. QED BY <1>2, <1>3, <2>1, <2>2 DEF IdentitiesBlock
<1>6. output'.verdict \in {"run", "invalid", "forbidden"}
  <2>1. PICK who : who = identity
    OBVIOUS
  <2>. QED BY <1>1, <2>1, JudgedIs, VerdictFits
<1>. QED BY <1>2, <1>4, <1>5, <1>6
     DEF PathInv, ConfigurationsWork, PathTypeOK, AcceptedTimeoutsFit, TokensAsWritten,
         TokensReachTheirPool, CredentialsHold, JwtIsNeverAToken, KeysFitTheirAlgorithm,
         SentAreValid, SlotsAnswerTheirCommands

\* What is sent was judged valid.
LEMMA SendPreserves == ASSUME PathInv, Send PROVE PathInv'
<1>1. /\ stage = "judged" /\ stage' = "sent" /\ output.verdict = "run"
      /\ given' = [endpoint |-> given.endpoint, decisions |-> output.decisions]
  BY DEF Send
<1>2. PICK call \in Calls : given.endpoint = call.endpoint /\ output = Judged(identity, call)
  BY <1>1 DEF PathInv, JudgementsAreTheAcls
<1>3. PICK who, decisions : who = identity /\ decisions = output.decisions
  OBVIOUS
<1>4. /\ decisions \in Seq({"allowed", "forbidden", "invalid"})
      /\ output.verdict = Verdict(call.endpoint, decisions)
  BY <1>2, <1>3, JudgedIs
<1>5. \A i \in DOMAIN decisions : decisions[i] # "invalid"
  BY <1>1, <1>4, VerdictFits
<1>6. decisions \in Seq({"allowed", "forbidden"})
  <2>1. DOMAIN decisions = 1 .. Len(decisions) /\ Len(decisions) \in Nat
    BY <1>4
  <2>2. \A i \in DOMAIN decisions : decisions[i] \in {"allowed", "forbidden"}
    BY <1>4, <1>5
  <2>3. decisions = [i \in 1 .. Len(decisions) |-> decisions[i]]
    BY <1>4
  <2>. QED BY <2>1, <2>2, <2>3
<1>7. SentAreValid'
  BY <1>1, <1>3, <1>6 DEF SentAreValid
<1>. QED BY <1>1, <1>7
     DEF PathInv, ConfigurationsWork, PathTypeOK, AcceptedTimeoutsFit, TokensAsWritten,
         TokensReachTheirPool, CredentialsHold, JwtIsNeverAToken, KeysFitTheirAlgorithm,
         IdentitiesBlock, JudgementsAreTheAcls, SlotsAnswerTheirCommands

\* Every command is answered in its place.
LEMMA AnswerPreserves == ASSUME PathInv, Answer PROVE PathInv'
<1>1. stage = "sent" /\ stage' = "answered"
  BY DEF Answer
<1>2. PICK decisions : decisions = given.decisions
  OBVIOUS
<1>3. decisions \in Seq({"allowed", "forbidden"})
  BY <1>1, <1>2 DEF PathInv, SentAreValid
<1> DEFINE slotsOf(outcomes) ==
             Merge(decisions, [k \in 1 .. Rank(decisions, Len(decisions)) |->
                                 SlotOf(NthSent(decisions, k), outcomes[k])])
<1>4. PICK outcomes, base64, limit, left :
        /\ given' = [decisions |-> decisions, base64 |-> base64, limit |-> limit]
        /\ output' \in {[status |-> "failed"],
                        [status |-> "ok", slots |-> slotsOf(outcomes), left |-> left]}
  BY <1>2, Zenon DEF Answer
<1>5. PICK zipped : zipped = slotsOf(outcomes)
  OBVIOUS
<1>6. /\ Len(zipped) = Len(decisions)
      /\ \A i \in DOMAIN zipped :
           /\ zipped[i].of = i
           /\ zipped[i].kind = "denied" <=> decisions[i] = "forbidden"
  BY <1>3, <1>5, MergeAnswers
<1> HIDE DEF slotsOf
<1>7. output' \in {[status |-> "failed"], [status |-> "ok", slots |-> zipped, left |-> left]}
  BY <1>4, <1>5
<1>8. SlotsAnswerTheirCommands'
  <2>1. given'.decisions = decisions
    BY <1>4
  <2>2. CASE output' = [status |-> "failed"]
    BY <2>2 DEF SlotsAnswerTheirCommands
  <2>3. CASE output' = [status |-> "ok", slots |-> zipped, left |-> left]
    <3>1. output'.slots = zipped
      BY <2>3
    <3>2. /\ Len(output'.slots) = Len(given'.decisions)
          /\ \A i \in DOMAIN output'.slots :
               /\ output'.slots[i].of = i
               /\ output'.slots[i].kind = "denied" <=> given'.decisions[i] = "forbidden"
      BY <1>6, <2>1, <3>1
    <3>. QED BY <3>2 DEF SlotsAnswerTheirCommands
  <2>. QED BY <1>7, <2>2, <2>3
<1>. QED BY <1>1, <1>8
     DEF PathInv, ConfigurationsWork, PathTypeOK, AcceptedTimeoutsFit, TokensAsWritten,
         TokensReachTheirPool, CredentialsHold, JwtIsNeverAToken, KeysFitTheirAlgorithm,
         IdentitiesBlock, JudgementsAreTheAcls, SentAreValid

\* A step that changes nothing keeps the invariant.
LEMMA PathInvUnchanged == ASSUME PathInv, UNCHANGED pathVars PROVE PathInv'
<1>1. UNCHANGED <<stage, given, config, identity, output>>
  BY DEF pathVars
<1>2. ConfigurationsWork'
  BY <1>1 DEF PathInv, ConfigurationsWork, PathTypeOK, AcceptedTimeoutsFit
<1>3. TokensAsWritten'
  BY <1>1 DEF PathInv, TokensAsWritten, TokensHavePools
<1>4. TokensReachTheirPool'
  BY <1>1 DEF PathInv, TokensReachTheirPool
<1>5. CredentialsHold'
  BY <1>1 DEF PathInv, CredentialsHold, JwtIsNeverAToken, KeysFitTheirAlgorithm
<1>6. IdentitiesBlock'
  BY <1>1 DEF PathInv, IdentitiesBlock, IsIdentity, BlockedFor
<1>7. JudgementsAreTheAcls'
  BY <1>1 DEF PathInv, JudgementsAreTheAcls
<1>8. SentAreValid' /\ SlotsAnswerTheirCommands'
  BY <1>1 DEF PathInv, SentAreValid, SlotsAnswerTheirCommands
<1>. QED BY <1>2, <1>3, <1>4, <1>5, <1>6, <1>7, <1>8 DEF PathInv

-----------------------------------------------------------------------------
(***************************************************************************)
(* What it shows of the data path.                                         *)
(***************************************************************************)

\* PathInv holds in every state: from the configuration a process starts with
\* to the slots of its responses, every stage keeps what the following ones rely
\* on (Config::validate, AuthChain, acl::check, the pipeline's slots).
THEOREM PathInvariant == PathSpec => []PathInv
<1>1. PathInit => PathInv
  BY QuietStages DEF PathInit
<1>2. PathInv /\ [PathNext]_pathVars => PathInv'
  <2> SUFFICES ASSUME PathInv, [PathNext]_pathVars PROVE PathInv'
    OBVIOUS
  <2>1. CASE Load
    BY <2>1, LoadPreserves
  <2>2. CASE Identify
    BY <2>2, IdentifyPreserves
  <2>3. CASE Enter
    BY <2>3, EnterPreserves
  <2>4. CASE Judge
    BY <2>4, JudgePreserves
  <2>5. CASE Send
    BY <2>5, SendPreserves
  <2>6. CASE Answer
    BY <2>6, AnswerPreserves
  <2>7. CASE Read
    <3>1. stage' = "read"
      BY <2>7 DEF Read
    <3>. QED BY <3>1, QuietStagesNext
  <2>8. CASE UNCHANGED pathVars
    BY <2>8, PathInvUnchanged
  <2>. QED BY <2>1, <2>2, <2>3, <2>4, <2>5, <2>6, <2>7, <2>8 DEF PathNext
<1>. QED BY <1>1, <1>2, PTL DEF PathSpec

\* An allowed command is one that the ACL allows to the identity, and what is
\* sent is its normal form.
LEMMA AllowedIsChecked ==
    ASSUME PathInv, stage = "judged", NEW i \in DOMAIN output.decisions, Allowed(i)
    PROVE  \E c \in [name : Names, args : Seq(Names)] :
             Check(identity, c) = "allowed" /\ output.sent[i] = Normalize(c)
<1>1. PICK call \in Calls : output = Judged(identity, call)
  BY DEF PathInv, JudgementsAreTheAcls
<1>2. PICK who : who = identity
  OBVIOUS
<1>3. /\ i \in DOMAIN call.commands
      /\ call.commands[i] \in [name : Names, args : Seq(Names)]
      /\ output.decisions[i] = Check(who, call.commands[i])
      /\ output.sent[i] = Normalize(call.commands[i])
  BY <1>1, <1>2, JudgedIs
<1>. QED BY <1>2, <1>3 DEF Allowed

\* Nobody runs a command listed as one that stays on the pooled connection:
\* what the ACL denies to everybody covers all of the list, and what it exempts
\* for admins none (acl::check, admin_allow).
THEOREM NothingOutlives == PathSpec => []NothingOutlivesTheRequest
<1>1. PathInv => NothingOutlivesTheRequest
  <2> SUFFICES ASSUME PathInv, stage = "judged", NEW i \in DOMAIN output.decisions, Allowed(i)
               PROVE  ~Stays(output.sent[i])
    BY DEF NothingOutlivesTheRequest
  <2>1. PICK c \in [name : Names, args : Seq(Names)] :
          Check(identity, c) = "allowed" /\ output.sent[i] = Normalize(c)
    BY AllowedIsChecked
  <2>2. PICK who : who = identity
    OBVIOUS
  <2>3. ~Stays(Normalize(c))
    BY <2>1, <2>2, PermittedLeaves
  <2>. QED BY <2>1, <2>3
<1>. QED BY <1>1, PathInvariant, PTL

\* A policy forbids what it says: a read-only identity runs no command that
\* writes, nobody what is blocked for him, and no restriction widens another
\* (the order of the rules in acl::check).
THEOREM PoliciesHold == PathSpec => []PolicyHolds
<1>1. PathInv => PolicyHolds
  <2> SUFFICES ASSUME PathInv PROVE PolicyHolds
    OBVIOUS
  <2>1. ASSUME stage = "judged", NEW i \in DOMAIN output.decisions, Allowed(i)
        PROVE  /\ identity.readOnly => output.sent[i].name.word \notin Writing
               /\ \A n \in given.blocked : n.word # output.sent[i].name.word
               /\ Check([identity EXCEPT !.blocked = {}, !.keyPrefix = <<>>,
                                         !.readOnly = FALSE, !.isAdmin = TRUE],
                        output.sent[i]) = "allowed"
    <3>1. PICK c \in [name : Names, args : Seq(Names)] :
            Check(identity, c) = "allowed" /\ output.sent[i] = Normalize(c)
      BY <2>1, AllowedIsChecked
    <3>2. PICK who, n : who = identity /\ n = Normalize(c)
      OBVIOUS
    <3>3. IsIdentity(who) /\ \A b \in given.blocked : Upper(b) \in who.blocked
      BY <2>1, <3>2 DEF PathInv, IdentitiesBlock
    <3>4. who.readOnly => n.name.word \notin Writing
      BY <3>1, <3>2, ReadersPermitNoWrite
    <3>5. \A b \in given.blocked : b.word # n.name.word
      BY <3>1, <3>2, <3>3, BlockedIsNotPermitted
    <3>6. Check([who EXCEPT !.blocked = {}, !.keyPrefix = <<>>, !.readOnly = FALSE,
                            !.isAdmin = TRUE], n) = "allowed"
      BY <3>1, <3>2, <3>3, UnrestrictedIsPermitted
    <3>. QED BY <3>1, <3>2, <3>4, <3>5, <3>6
  <2>. QED BY <2>1 DEF PolicyHolds, ReadOnlyNeverWrites, BlockedStaysBlocked, RestrictionsOnlyNarrow
<1>. QED BY <1>1, PathInvariant, PTL

\* Whatever the environment and the file say, a process that starts has pools
\* whose queues have room, and timeouts that fit in its HTTP timeout, for every
\* width of the numbers (Config::validate).
THEOREM ConfigurationsAlwaysWork == PathSpec => []ConfigurationsWork
<1>1. PathInv => ConfigurationsWork
  BY DEF PathInv
<1>. QED BY <1>1, PathInvariant, PTL

\* A token reaches the connection written for it, for every file, in whatever
\* order the hash map visits it and however digests share their prefix
\* (from_legacy_value, from_new_value, StaticAuth).
THEOREM TokensAlwaysReachTheirPool == PathSpec => []TokensReachTheirPool
<1>1. PathInv => TokensReachTheirPool
  BY DEF PathInv
<1>. QED BY <1>1, PathInvariant, PTL

\* What reads as a JWT is somebody only by a key that signed it, with an
\* algorithm of the family of that key (JwtAuth, cacheable_key).
THEOREM CredentialsAlwaysHold == PathSpec => []CredentialsHold
<1>1. PathInv => CredentialsHold
  BY DEF PathInv
<1>. QED BY <1>1, PathInvariant, PTL

\* Every command of every pipeline is answered in its own place, whatever the
\* conversion and the charging of the replies do (pipeline::execute).
THEOREM SlotsAlwaysAnswer == PathSpec => []SlotsAnswerTheirCommands
<1>1. PathInv => SlotsAnswerTheirCommands
  BY DEF PathInv
<1>. QED BY <1>1, PathInvariant, PTL

-----------------------------------------------------------------------------
USE GatewayConstants

(***************************************************************************)
(* Charges and statuses.                                                   *)
(***************************************************************************)

\* Every body is charged for at least one command, for all it holds and for
\* no more than a request may hold.
LEMMA CostCovers ==
    ASSUME NEW commands \in Bodies
    PROVE  /\ Cost(commands) \in 1 .. MaxCommands
           /\ Cost(commands) >= Len(commands)
           /\ DOMAIN commands = 1 .. Len(commands)
           /\ Len(commands) \in 0 .. MaxCommands
           /\ \A i \in DOMAIN commands : commands[i] \in Classes
<1>1. PICK m \in 0 .. MaxCommands : commands \in [1 .. m -> Classes]
  BY DEF Bodies, SeqOf
<1>2. commands \in Seq(Classes) /\ Len(commands) = m
  BY <1>1
<1>3. \E x \in {1, m} : \A y \in {1, m} : x >= y
  BY <1>1
<1>4. Max({1, m}) \in {1, m} /\ \A y \in {1, m} : Max({1, m}) >= y
  BY <1>3 DEF Max
<1>. QED BY <1>1, <1>2, <1>4 DEF Cost, GatewayConstants

\* A transaction the ACL does not reject holds allowed commands only.
LEMMA AclAdmitsTransaction ==
    ASSUME NEW commands \in Bodies, AclError("/multi-exec", commands) = "none"
    PROVE  \A i \in DOMAIN commands : commands[i] = "allowed"
<1> DEFINE bad == {i \in DOMAIN commands : commands[i] = "invalid"
                     \/ ("/multi-exec" # "/pipeline" /\ commands[i] = "forbidden")}
<1>1. bad = {}
  BY DEF AclError
<1>. QED BY <1>1, CostCovers DEF Classes

\* AppError::into_response only makes the statuses listed.
LEMMA StatusType ==
    \A error \in {"Unauthorized", "Forbidden", "BadRequest", "RedisError", "RateLimited",
                  "AuthServiceUnavailable", "Overloaded", "PoolOpen", "ResponseTooLarge",
                  "RequestBodyTimeout", "Internal"} : Status(error) \in Statuses
BY DEF Status, Statuses

-----------------------------------------------------------------------------
(***************************************************************************)
(* Counting requests.                                                      *)
(***************************************************************************)

\* A request that moves from one await to another changes the counts of those
\* in flight and of those reading a body by at most one.
LEMMA MoveCounts ==
    ASSUME TypeOK, NEW r \in Requests, NEW x \in Awaits \cup {"idle"},
           at' = [at EXCEPT ![r] = x]
    PROVE  /\ IsFiniteSet(InFlight) /\ IsFiniteSet(Reading)
           /\ Cardinality(InFlight) \in 0 .. Cardinality(Requests)
           /\ Cardinality(Reading) =< Cardinality(InFlight)
           /\ x # "idle" /\ at[r] = "idle" =>
                 Cardinality(InFlight)' = Cardinality(InFlight) + 1
           /\ x = "idle" /\ at[r] # "idle" =>
                 Cardinality(InFlight)' = Cardinality(InFlight) - 1
           /\ x # "idle" /\ at[r] # "idle" =>
                 Cardinality(InFlight)' = Cardinality(InFlight)
           /\ x # "body" /\ at[r] = "body" =>
                 Cardinality(Reading)' = Cardinality(Reading) - 1
           /\ x # "body" /\ at[r] # "body" =>
                 Cardinality(Reading)' = Cardinality(Reading)
           /\ Cardinality(InFlight) \in Nat /\ Cardinality(Reading) \in Nat
           /\ Cardinality(InFlight)' \in 0 .. Cardinality(Requests)
           /\ Cardinality(Reading)' \in Nat
<1>1. /\ InFlight \subseteq Requests /\ Reading \subseteq InFlight
      /\ InFlight' \subseteq Requests /\ Reading' \subseteq InFlight'
  BY DEF InFlight, Reading
<1>2. IsFiniteSet(Requests)
  BY DEF GatewayConstants
<1>3. /\ IsFiniteSet(InFlight) /\ IsFiniteSet(Reading)
      /\ Cardinality(InFlight) =< Cardinality(Requests)
      /\ Cardinality(Reading) =< Cardinality(InFlight)
  BY <1>1, <1>2, FS_Subset
<1>4. /\ IsFiniteSet(InFlight') /\ IsFiniteSet(Reading')
      /\ Cardinality(InFlight') =< Cardinality(Requests)
  BY <1>1, <1>2, FS_Subset
<1>5. /\ Cardinality(InFlight) \in Nat /\ Cardinality(Reading) \in Nat
      /\ Cardinality(InFlight') \in Nat /\ Cardinality(Reading') \in Nat
      /\ Cardinality(Requests) \in Nat
  BY <1>2, <1>3, <1>4, FS_CardinalityType
<1>6. /\ at'[r] = x
      /\ \A s \in Requests \ {r} : at'[s] = at[s]
  BY DEF TypeOK
<1>7. /\ InFlight' = IF x = "idle" THEN InFlight \ {r} ELSE InFlight \cup {r}
      /\ r \in InFlight <=> at[r] # "idle"
  BY <1>6 DEF InFlight
<1>8. /\ Reading' = IF x = "body" THEN Reading \cup {r} ELSE Reading \ {r}
      /\ r \in Reading <=> at[r] = "body"
  BY <1>6 DEF Reading
<1>9. /\ Cardinality(InFlight \cup {r}) =
            IF r \in InFlight THEN Cardinality(InFlight) ELSE Cardinality(InFlight) + 1
      /\ Cardinality(InFlight \ {r}) =
            IF r \in InFlight THEN Cardinality(InFlight) - 1 ELSE Cardinality(InFlight)
  BY <1>3, FS_AddElement, FS_RemoveElement
<1>10. Cardinality(Reading \ {r}) =
          IF r \in Reading THEN Cardinality(Reading) - 1 ELSE Cardinality(Reading)
  BY <1>3, FS_RemoveElement
<1>. QED BY <1>3, <1>4, <1>5, <1>7, <1>8, <1>9, <1>10

-----------------------------------------------------------------------------
(***************************************************************************)
(* The invariant is inductive.                                             *)
(***************************************************************************)

\* With no request at all, nothing is owed.
LEMMA InitIndInv == Init => IndInv
<1> SUFFICES ASSUME Init PROVE IndInv
  OBVIOUS
<1>1. InFlight = {} /\ Reading = {}
  BY DEF Init, InFlight, Reading
<1>2. Cardinality(InFlight) = 0 /\ Cardinality(Reading) = 0
  BY <1>1, FS_EmptySet
<1>3. Cardinality(Requests) \in Nat
  BY FS_CardinalityType DEF GatewayConstants
<1>4. <<>> \in Bodies /\ Len(<<>>) = 0 /\ DOMAIN <<>> = {}
  <2>1. <<>> \in [1 .. 0 -> Classes]
    OBVIOUS
  <2>. QED BY <2>1 DEF Bodies, SeqOf, GatewayConstants
<1>5. TypeOK
  <2>1. request \in [Requests -> [endpoint : Endpoints, commands : Bodies,
                                  charged : 0 .. MaxCommands, sent : SUBSET (1 .. MaxCommands)]]
    BY <1>4 DEF Init, Blank, Endpoints, GatewayConstants
  <2>. QED BY <1>3, <2>1 DEF Init, TypeOK, Awaits, Statuses, GatewayConstants
<1>6. InFlightSettles /\ FreeParsesCovered
  BY <1>2 DEF Init, InFlightSettles, FreeParsesCovered, Probe, GatewayConstants
<1>7. StagesInOrder
  BY <1>4 DEF Init, StagesInOrder, Blank
<1>. QED BY <1>5, <1>6, <1>7 DEF IndInv, CountsSettle

\* A request that ends takes its permit and its count with it; what it was
\* charged is the caller's concern.
LEMMA LeaveIndInv ==
    ASSUME IndInv, NEW r \in Requests, at[r] # "idle", Leave(r),
           status' \in [Requests -> Statuses],
           balance' \in -MaxCommands .. Capacity, unpaid' \in Nat,
           FreeParsesCovered'
    PROVE  IndInv'
<1>1. /\ TypeOK /\ InFlightSettles /\ StagesInOrder
  BY DEF IndInv, CountsSettle
<1>2. /\ at' = [at EXCEPT ![r] = "idle"]
      /\ request' = [request EXCEPT ![r] = Blank]
      /\ slots' = slots + 1
      /\ gauge' = gauge - 1
  BY DEF Leave
<1>3. /\ Cardinality(InFlight)' = Cardinality(InFlight) - 1
      /\ Cardinality(InFlight) \in 0 .. Cardinality(Requests)
      /\ Cardinality(InFlight)' \in 0 .. Cardinality(Requests)
  BY <1>1, <1>2, MoveCounts
<1>4. <<>> \in Bodies /\ Len(<<>>) = 0 /\ DOMAIN <<>> = {}
  <2>1. <<>> \in [1 .. 0 -> Classes]
    OBVIOUS
  <2>. QED BY <2>1 DEF Bodies, SeqOf, GatewayConstants
<1>5. InFlightSettles'
  BY <1>1, <1>2, <1>3 DEF InFlightSettles, TypeOK, GatewayConstants
<1>6. TypeOK'
  <2>1. Blank \in [endpoint : Endpoints, commands : Bodies,
                   charged : 0 .. MaxCommands, sent : SUBSET (1 .. MaxCommands)]
    BY <1>4 DEF Blank, Endpoints, GatewayConstants
  <2>2. slots' \in 0 .. MaxInFlight /\ gauge' \in 0 .. Cardinality(Requests)
    BY <1>1, <1>2, <1>3, <1>5 DEF InFlightSettles, TypeOK, GatewayConstants
  <2>. QED BY <1>1, <1>2, <2>1, <2>2 DEF TypeOK
<1>7. StagesInOrder'
  BY <1>1, <1>2, <1>4 DEF StagesInOrder, TypeOK, Blank
<1>. QED BY <1>5, <1>6, <1>7 DEF IndInv, CountsSettle

\* A request that ends without being charged.
LEMMA LeaveUncharged ==
    ASSUME IndInv, NEW r \in Requests, at[r] # "idle", Leave(r),
           status' \in [Requests -> Statuses], UNCHANGED <<balance, unpaid>>
    PROVE  IndInv'
<1>1. /\ TypeOK /\ FreeParsesCovered
  BY DEF IndInv, CountsSettle
<1>2. /\ Cardinality(Reading)' =< Cardinality(Reading)
      /\ Cardinality(Reading)' \in Nat /\ Cardinality(Reading) \in Nat
  <2>1. at' = [at EXCEPT ![r] = "idle"]
    BY DEF Leave
  <2>a. "idle" # "body" /\ "idle" \in Awaits \cup {"idle"}
    OBVIOUS
  <2>2. /\ at[r] = "body" => Cardinality(Reading)' = Cardinality(Reading) - 1
        /\ at[r] # "body" => Cardinality(Reading)' = Cardinality(Reading)
        /\ Cardinality(Reading)' \in Nat /\ Cardinality(Reading) \in Nat
    BY <1>1, <2>1, <2>a, MoveCounts
  <2>. QED BY <2>2
<1>3. FreeParsesCovered'
  BY <1>1, <1>2 DEF FreeParsesCovered, Probe, TypeOK, GatewayConstants
<1>. QED BY <1>1, <1>3, LeaveIndInv DEF TypeOK

\* The same with an answer.
LEMMA RespondUncharged ==
    ASSUME IndInv, NEW r \in Requests, at[r] # "idle",
           NEW code \in Statuses, Respond(r, code), UNCHANGED <<balance, unpaid>>
    PROVE  IndInv'
<1>1. status' \in [Requests -> Statuses]
  BY DEF Respond, IndInv, CountsSettle, TypeOK
<1>. QED BY <1>1, LeaveUncharged DEF Respond

\* The first charge that empties the bucket: everybody who may still parse for
\* free has a place next to the request that is charged.
LEMMA ChargeCovered ==
    ASSUME IndInv, NEW r \in Requests, at[r] = "body",
           NEW x \in Awaits \cup {"idle"}, x # "body", at' = [at EXCEPT ![r] = x],
           NEW n \in 1 .. MaxCommands, Charge(n)
    PROVE  /\ FreeParsesCovered'
           /\ balance' \in -MaxCommands .. Capacity
           /\ unpaid' \in Nat
<1>1. TypeOK /\ FreeParsesCovered /\ InFlightSettles
  BY DEF IndInv, CountsSettle
<1>2. balance > 0 /\ balance' = balance - n /\ unpaid' = unpaid
  BY DEF Charge, Probe
<1>3. /\ Cardinality(Reading)' = Cardinality(Reading) - 1
      /\ Cardinality(Reading)' \in Nat /\ Cardinality(Reading) \in Nat
      /\ Cardinality(Reading) =< Cardinality(InFlight)
      /\ Cardinality(InFlight) \in Nat
  BY <1>1, MoveCounts
<1>4. Cardinality(InFlight) =< MaxInFlight
  BY <1>1, <1>3 DEF InFlightSettles, TypeOK, GatewayConstants
<1>. QED BY <1>1, <1>2, <1>3, <1>4 DEF FreeParsesCovered, Probe, TypeOK, GatewayConstants

\* A refused charge moves one request from those that may parse for free to
\* those that did.
LEMMA ChargeRefusedIndInv ==
    ASSUME IndInv, NEW r \in Requests, at[r] = "body", ChargeRefused(r)
    PROVE  IndInv'
<1>1. TypeOK /\ FreeParsesCovered
  BY DEF IndInv, CountsSettle
<1>2. /\ ~(balance > 0) /\ unpaid' = unpaid + 1 /\ balance' = balance
      /\ status' = [status EXCEPT ![r] = Status("RateLimited")]
      /\ Leave(r)
  BY DEF ChargeRefused, Probe, Respond
<1>3. /\ Cardinality(Reading)' = Cardinality(Reading) - 1
      /\ Cardinality(Reading)' \in Nat /\ Cardinality(Reading) \in Nat
  <2>1. at' = [at EXCEPT ![r] = "idle"]
    BY <1>2 DEF Leave
  <2>a. "idle" # "body" /\ "idle" \in Awaits \cup {"idle"}
    OBVIOUS
  <2>2. at[r] = "body" => Cardinality(Reading)' = Cardinality(Reading) - 1
    BY <1>1, <2>1, <2>a, MoveCounts
  <2>3. Cardinality(Reading)' \in Nat /\ Cardinality(Reading) \in Nat
    BY <1>1, <2>1, MoveCounts
  <2>. QED BY <2>2, <2>3
<1>4. FreeParsesCovered'
  BY <1>1, <1>2, <1>3 DEF FreeParsesCovered, Probe, TypeOK, GatewayConstants
<1>5. status' \in [Requests -> Statuses]
  BY <1>1, <1>2, StatusType DEF TypeOK
<1>. QED BY <1>1, <1>2, <1>4, <1>5, LeaveIndInv DEF TypeOK

\* A charged request that ends at once.
LEMMA ChargedRespondIndInv ==
    ASSUME IndInv, NEW r \in Requests, at[r] = "body",
           NEW n \in 1 .. MaxCommands, Charge(n),
           NEW code \in Statuses, Respond(r, code)
    PROVE  IndInv'
<1>1. /\ FreeParsesCovered'
      /\ balance' \in -MaxCommands .. Capacity
      /\ unpaid' \in Nat
  BY ChargeCovered DEF Respond, Leave
<1>2. status' \in [Requests -> Statuses]
  BY DEF Respond, IndInv, CountsSettle, TypeOK
<1>. QED BY <1>1, <1>2, LeaveIndInv DEF Respond

\* A parsed request is refused its charge, or is charged and then answered, or
\* goes on to a pool with commands that were paid for and passed the ACL.
LEMMA ParsedIndInv ==
    ASSUME IndInv, NEW r \in Requests, NEW commands \in Bodies, Parsed(r, commands)
    PROVE  IndInv'
<1> DEFINE endpoint == request[r].endpoint
           error == IF endpoint = "/multi-exec" /\ commands = <<>> THEN "BadRequest"
                    ELSE AclError(endpoint, commands)
           n == Cost(commands)
<1>1. /\ at[r] = "body"
      /\ \/ ChargeRefused(r)
         \/ /\ Charge(n)
            /\ \/ error # "none" /\ Respond(r, Status(error))
               \/ error = "none" /\ Respond(r, 200)
               \/ /\ error = "none"
                  /\ Suspend(r, "acquire")
                  /\ request' = [request EXCEPT ![r] =
                                    [@ EXCEPT !.commands = commands, !.charged = n]]
  BY DEF Parsed
<1>2. /\ n \in 1 .. MaxCommands /\ n >= Len(commands)
      /\ DOMAIN commands = 1 .. Len(commands)
  BY CostCovers
<1>3. CASE ChargeRefused(r)
  BY <1>1, <1>3, ChargeRefusedIndInv
<1>4. CASE Charge(n) /\ error # "none" /\ Respond(r, Status(error))
  <2>1. error \in {"none", "Forbidden", "BadRequest"}
    BY DEF AclError
  <2>2. Status(error) \in Statuses
    BY <1>4, <2>1, StatusType
  <2>. QED BY <1>1, <1>2, <1>4, <2>2, ChargedRespondIndInv
<1>5. CASE Charge(n) /\ error = "none" /\ Respond(r, 200)
  BY <1>1, <1>2, <1>5, ChargedRespondIndInv DEF Statuses
<1>6. CASE /\ Charge(n) /\ error = "none"
           /\ Suspend(r, "acquire")
           /\ request' = [request EXCEPT ![r] =
                         [@ EXCEPT !.commands = commands, !.charged = n]]
  <2>0. TypeOK /\ InFlightSettles /\ StagesInOrder
    BY DEF IndInv, CountsSettle
  <2>1. /\ at' = [at EXCEPT ![r] = "acquire"]
        /\ UNCHANGED <<status, slots, gauge>>
        /\ "acquire" \in Awaits \cup {"idle"}
    BY <1>6 DEF Suspend, Awaits
  <2>2. /\ FreeParsesCovered'
        /\ balance' \in -MaxCommands .. Capacity
        /\ unpaid' \in Nat
    BY <1>1, <1>2, <1>6, <2>1, ChargeCovered
  <2>3. Cardinality(InFlight)' = Cardinality(InFlight)
    BY <1>1, <2>0, <2>1, MoveCounts
  <2>4. InFlightSettles'
    BY <2>0, <2>1, <2>3 DEF InFlightSettles
  <2>5. /\ request'[r].commands = commands /\ request'[r].charged = n
        /\ request'[r].endpoint = endpoint /\ request'[r].sent = request[r].sent
        /\ request'[r] \in [endpoint : Endpoints, commands : Bodies,
                            charged : 0 .. MaxCommands, sent : SUBSET (1 .. MaxCommands)]
        /\ \A s \in Requests \ {r} : request'[s] = request[s] /\ at'[s] = at[s]
        /\ at'[r] = "acquire"
    <3>1. /\ request[r] \in [endpoint : Endpoints, commands : Bodies,
                             charged : 0 .. MaxCommands, sent : SUBSET (1 .. MaxCommands)]
          /\ request'[r] = [request[r] EXCEPT !.commands = commands, !.charged = n]
          /\ \A s \in Requests \ {r} : request'[s] = request[s] /\ at'[s] = at[s]
          /\ at'[r] = "acquire"
      BY <1>6, <2>0, <2>1 DEF TypeOK
    <3>2. n \in 0 .. MaxCommands
      BY <1>2 DEF GatewayConstants
    <3> HIDE DEF n
    <3>. QED BY <3>1, <3>2
  <2>6. TypeOK'
    BY <1>6, <2>0, <2>1, <2>2, <2>5 DEF TypeOK
  <2>7. endpoint = "/multi-exec" => \A i \in DOMAIN commands : commands[i] = "allowed"
    <3>1. ASSUME endpoint = "/multi-exec" PROVE AclError("/multi-exec", commands) = "none"
      BY <1>6, <3>1
    <3>. QED BY <3>1, AclAdmitsTransaction
  <2>8. StagesInOrder'
    <3>1. request[r].sent = {}
      BY <1>1, <2>0 DEF StagesInOrder
    <3>2. ASSUME NEW s \in Requests, s # r
          PROVE  /\ request'[s].charged >= Len(request'[s].commands)
                 /\ request'[s].sent = IF at'[s] = "redis"
                                       THEN AllowedOf(request'[s].commands) ELSE {}
                 /\ request'[s].endpoint = "/multi-exec" =>
                      \A i \in DOMAIN request'[s].commands :
                          request'[s].commands[i] = "allowed"
      BY <2>0, <2>5, <3>2 DEF StagesInOrder
    <3>3. /\ request'[r].charged >= Len(request'[r].commands)
          /\ request'[r].sent = IF at'[r] = "redis"
                                THEN AllowedOf(request'[r].commands) ELSE {}
      BY <1>2, <2>5, <3>1
    <3>4. request'[r].endpoint = "/multi-exec" =>
            \A i \in DOMAIN request'[r].commands : request'[r].commands[i] = "allowed"
      BY <2>5, <2>7
    <3>. QED BY <3>2, <3>3, <3>4 DEF StagesInOrder
  <2>. QED BY <2>2, <2>4, <2>6, <2>8 DEF IndInv, CountsSettle
<1>. QED BY <1>1, <1>3, <1>4, <1>5, <1>6

\* The executor is given the allowed commands, of those that were paid for.
LEMMA AcquiredIndInv ==
    ASSUME IndInv, NEW r \in Requests, Acquired(r)
    PROVE  IndInv'
<1> DEFINE q == request[r]
<1>0. TypeOK /\ InFlightSettles /\ StagesInOrder /\ FreeParsesCovered
  BY DEF IndInv, CountsSettle
<1>1. /\ at[r] = "acquire"
      /\ request' = [request EXCEPT ![r].sent = AllowedOf(q.commands)]
      /\ at' = [at EXCEPT ![r] = "redis"]
      /\ UNCHANGED <<status, slots, gauge, balance, unpaid>>
      /\ "redis" \in Awaits \cup {"idle"}
  BY DEF Acquired, Suspend, Awaits
<1>2. /\ Cardinality(InFlight)' = Cardinality(InFlight)
      /\ Cardinality(Reading)' = Cardinality(Reading)
  BY <1>0, <1>1, MoveCounts
<1>3. InFlightSettles' /\ FreeParsesCovered'
  BY <1>0, <1>1, <1>2 DEF InFlightSettles, FreeParsesCovered, Probe
<1>4. AllowedOf(q.commands) \in SUBSET (1 .. MaxCommands)
  <2>1. q.commands \in Bodies
    BY <1>0 DEF TypeOK
  <2>2. /\ DOMAIN q.commands = 1 .. Len(q.commands)
        /\ Len(q.commands) \in 0 .. MaxCommands
    BY <2>1, CostCovers
  <2>. QED BY <2>2 DEF AllowedOf, GatewayConstants
<1>5. TypeOK'
  BY <1>0, <1>1, <1>4 DEF TypeOK
<1>6. StagesInOrder'
  BY <1>0, <1>1 DEF StagesInOrder, TypeOK
<1>. QED BY <1>3, <1>5, <1>6 DEF IndInv, CountsSettle

\* A request that finds a place starts with a blank record.
LEMMA AdmitIndInv ==
    ASSUME IndInv, NEW r \in Requests, NEW endpoint \in Endpoints, Admit(r, endpoint)
    PROVE  IndInv'
<1>0. TypeOK /\ InFlightSettles /\ StagesInOrder /\ FreeParsesCovered
  BY DEF IndInv, CountsSettle
<1> DEFINE q == [Blank EXCEPT !.endpoint = endpoint]
<1>1. /\ at[r] = "idle" /\ slots > 0
      /\ slots' = slots - 1 /\ gauge' = gauge + 1
      /\ at' = [at EXCEPT ![r] = "authenticate"]
      /\ request' = [request EXCEPT ![r] = q]
      /\ status' = [status EXCEPT ![r] = 0]
      /\ UNCHANGED <<balance, unpaid>>
      /\ "authenticate" \in Awaits \cup {"idle"}
  BY DEF Admit, Awaits
<1>2. /\ Cardinality(InFlight)' = Cardinality(InFlight) + 1
      /\ Cardinality(Reading)' = Cardinality(Reading)
      /\ Cardinality(InFlight)' \in 0 .. Cardinality(Requests)
      /\ Cardinality(InFlight) \in Nat
  BY <1>0, <1>1, MoveCounts
<1>3. InFlightSettles' /\ FreeParsesCovered'
  BY <1>0, <1>1, <1>2
  DEF InFlightSettles, FreeParsesCovered, Probe, TypeOK, GatewayConstants
<1>4. /\ q.commands = <<>> /\ q.charged = 0 /\ q.sent = {} /\ q.endpoint = endpoint
      /\ q \in [endpoint : Endpoints, commands : Bodies,
                charged : 0 .. MaxCommands, sent : SUBSET (1 .. MaxCommands)]
  <2>1. <<>> \in Bodies
    <3>1. <<>> \in [1 .. 0 -> Classes]
      OBVIOUS
    <3>. QED BY <3>1 DEF Bodies, SeqOf, GatewayConstants
  <2>. QED BY <2>1 DEF Blank, GatewayConstants
<1> HIDE DEF q
<1>5. TypeOK'
  <2>1. slots' \in 0 .. MaxInFlight /\ gauge' \in 0 .. Cardinality(Requests)
    BY <1>0, <1>1, <1>2, <1>3 DEF InFlightSettles, TypeOK, GatewayConstants
  <2>. QED BY <1>0, <1>1, <1>4, <2>1 DEF TypeOK, Statuses
<1>6. StagesInOrder'
  <2>1. /\ request'[r] = q /\ at'[r] = "authenticate"
        /\ \A s \in Requests \ {r} : request'[s] = request[s] /\ at'[s] = at[s]
    BY <1>0, <1>1 DEF TypeOK
  <2>2. Len(<<>>) = 0 /\ DOMAIN <<>> = {}
    OBVIOUS
  <2>3. /\ q.charged >= Len(q.commands) /\ q.sent = {}
        /\ \A i \in DOMAIN q.commands : q.commands[i] = "allowed"
    BY <1>4, <2>2
  <2>4. ASSUME NEW s \in Requests, s # r
        PROVE  /\ request'[s].charged >= Len(request'[s].commands)
               /\ request'[s].sent = IF at'[s] = "redis"
                                     THEN AllowedOf(request'[s].commands) ELSE {}
               /\ request'[s].endpoint = "/multi-exec" =>
                    \A i \in DOMAIN request'[s].commands :
                        request'[s].commands[i] = "allowed"
    BY <1>0, <2>1, <2>4 DEF StagesInOrder
  <2>. QED BY <2>1, <2>3, <2>4 DEF StagesInOrder
<1>. QED BY <1>3, <1>5, <1>6 DEF IndInv, CountsSettle

\* Only a request that sees a positive balance goes on to read its body.
LEMMA AuthSucceedsIndInv ==
    ASSUME IndInv, NEW r \in Requests, AuthSucceeds(r)
    PROVE  IndInv'
<1>0. TypeOK /\ InFlightSettles /\ StagesInOrder /\ FreeParsesCovered
  BY DEF IndInv, CountsSettle
<1>1. at[r] = "authenticate" /\ UNCHANGED <<balance, unpaid>>
  BY DEF AuthSucceeds
<1>2. CASE ~Probe
  <2>1. Respond(r, Status("RateLimited"))
    BY <1>2 DEF AuthSucceeds
  <2>2. Status("RateLimited") \in Statuses
    BY StatusType
  <2>. QED BY <1>1, <2>1, <2>2, RespondUncharged
<1>3. CASE Probe
  <2>1. /\ at' = [at EXCEPT ![r] = "body"]
        /\ UNCHANGED <<status, slots, gauge, request>>
        /\ "body" \in Awaits \cup {"idle"}
    BY <1>3 DEF AuthSucceeds, Suspend, Awaits
  <2>2. Cardinality(InFlight)' = Cardinality(InFlight)
    BY <1>0, <1>1, <2>1, MoveCounts
  <2>3. InFlightSettles' /\ FreeParsesCovered'
    BY <1>0, <1>1, <1>3, <2>1, <2>2 DEF InFlightSettles, FreeParsesCovered, Probe
  <2>4. TypeOK' /\ StagesInOrder'
    BY <1>0, <1>1, <2>1 DEF TypeOK, StagesInOrder
  <2>. QED BY <2>3, <2>4 DEF IndInv, CountsSettle
<1>. QED BY <1>2, <1>3

\* A refill forgives what was parsed for free before it.
LEMMA RefillIndInv == ASSUME IndInv, Refill PROVE IndInv'
<1>0. TypeOK /\ InFlightSettles /\ StagesInOrder /\ FreeParsesCovered
  BY DEF IndInv, CountsSettle
<1>1. /\ balance < Capacity /\ balance' = balance + 1 /\ unpaid' = 0
      /\ UNCHANGED <<at, request, status, slots, gauge>>
  BY DEF Refill
<1>2. Cardinality(Reading) \in Nat
  <2>1. IsFiniteSet(Requests) /\ Reading \in SUBSET Requests
    BY DEF Reading, GatewayConstants
  <2>2. IsFiniteSet(Reading)
    BY <2>1, FS_Subset
  <2>. QED BY <2>2, FS_CardinalityType
<1>3. Reading' = Reading /\ InFlight' = InFlight
  BY <1>1 DEF Reading, InFlight
<1>4. FreeParsesCovered'
  BY <1>0, <1>1, <1>2, <1>3 DEF FreeParsesCovered, Probe, TypeOK, GatewayConstants
<1>5. TypeOK' /\ InFlightSettles' /\ StagesInOrder'
  BY <1>0, <1>1, <1>3 DEF TypeOK, InFlightSettles, StagesInOrder, GatewayConstants
<1>. QED BY <1>4, <1>5 DEF IndInv, CountsSettle

\* Every step of the HTTP layer keeps the invariant.
LEMMA NextIndInv == IndInv /\ [Next]_vars => IndInv'
<1> SUFFICES ASSUME IndInv, [Next]_vars PROVE IndInv'
  OBVIOUS
<1>1. ASSUME NEW r \in Requests, Shed(r) PROVE IndInv'
  <2>1. Status("Overloaded") \in Statuses
    BY StatusType
  <2>. QED BY <1>1, <2>1 DEF Shed, IndInv, CountsSettle, TypeOK, InFlightSettles,
                             FreeParsesCovered, StagesInOrder, InFlight, Reading, Probe
<1>15. ASSUME NEW r \in Requests, OverLimit(r) PROVE IndInv'
  <2>1. 413 \in Statuses
    BY DEF Statuses
  <2>. QED BY <1>15, <2>1 DEF OverLimit, IndInv, CountsSettle, TypeOK, InFlightSettles,
                              FreeParsesCovered, StagesInOrder, InFlight, Reading, Probe
<1>2. ASSUME NEW r \in Requests, NEW endpoint \in Endpoints, Admit(r, endpoint)
      PROVE  IndInv'
  BY <1>2, AdmitIndInv
<1>3. ASSUME NEW r \in Requests, AuthFails(r) PROVE IndInv'
  BY <1>3, StatusType, RespondUncharged DEF AuthFails
<1>4. ASSUME NEW r \in Requests, AuthSucceeds(r) PROVE IndInv'
  BY <1>4, AuthSucceedsIndInv
<1>5. ASSUME NEW r \in Requests, BodyFails(r) PROVE IndInv'
  BY <1>5, StatusType, RespondUncharged DEF BodyFails
<1>6. ASSUME NEW r \in Requests, ParseFails(r) PROVE IndInv'
  <2>1. 1 \in 1 .. MaxCommands /\ Status("BadRequest") \in Statuses
    BY StatusType DEF GatewayConstants
  <2>. QED BY <1>6, <2>1, ChargeRefusedIndInv, ChargedRespondIndInv DEF ParseFails
<1>7. ASSUME NEW r \in Requests, NEW commands \in Bodies, Parsed(r, commands)
      PROVE  IndInv'
  BY <1>7, ParsedIndInv
<1>8. ASSUME NEW r \in Requests, AcquireFails(r) PROVE IndInv'
  BY <1>8, StatusType, RespondUncharged DEF AcquireFails
<1>9. ASSUME NEW r \in Requests, Acquired(r) PROVE IndInv'
  BY <1>9, AcquiredIndInv
<1>10. ASSUME NEW r \in Requests, Executed(r) PROVE IndInv'
  <2>1. 200 \in Statuses
    BY DEF Statuses
  <2>. QED BY <1>10, <2>1, StatusType, RespondUncharged DEF Executed
<1>11. ASSUME NEW r \in Requests, Timeout(r) PROVE IndInv'
  BY <1>11, StatusType, RespondUncharged DEF Timeout, Awaits
<1>12. ASSUME NEW r \in Requests, Disconnect(r) PROVE IndInv'
  BY <1>12, LeaveUncharged DEF Disconnect, IndInv, CountsSettle, TypeOK
<1>13. CASE Refill
  BY <1>13, RefillIndInv
<1>14. CASE UNCHANGED vars
  BY <1>14 DEF vars, IndInv, CountsSettle, TypeOK, InFlightSettles,
               FreeParsesCovered, StagesInOrder, InFlight, Reading, Probe
<1>. QED BY <1>1, <1>2, <1>3, <1>4, <1>5, <1>6, <1>7, <1>8, <1>9, <1>10, <1>11,
            <1>12, <1>13, <1>14, <1>15 DEF Next

\* Permits, gauge, balance and free parses add up in every reachable state,
\* however requests end (InFlight, Admission, charge_rate_limit).
THEOREM GatewayInvariant == Spec => []IndInv
BY InitIndInv, NextIndInv, PTL DEF Spec

-----------------------------------------------------------------------------
\* What Redis is asked to do was charged for and allowed (command::execute,
\* pipeline and transaction handlers).
THEOREM PaidAndAllowed == Spec => []OnlyPaidAndAllowed
<1>1. IndInv => OnlyPaidAndAllowed
  <2> SUFFICES ASSUME IndInv, NEW r \in Requests
               PROVE  LET q == request[r] IN
                        /\ q.charged >= Cardinality(q.sent)
                        /\ \A i \in q.sent : q.commands[i] = "allowed"
                        /\ q.endpoint = "/multi-exec" => q.sent \in {{}, DOMAIN q.commands}
    BY DEF OnlyPaidAndAllowed
  <2> DEFINE q == request[r]
             n == Len(q.commands)
  <2>1. /\ q.commands \in Bodies /\ q.charged \in Nat
        /\ q.charged >= n
        /\ q.sent = {} \/ q.sent = AllowedOf(q.commands)
        /\ q.endpoint = "/multi-exec" =>
              \A i \in DOMAIN q.commands : q.commands[i] = "allowed"
    BY DEF IndInv, CountsSettle, TypeOK, StagesInOrder, GatewayConstants
  <2>2. n \in Nat /\ DOMAIN q.commands = 1 .. n
    BY <2>1, CostCovers DEF GatewayConstants
  <2> HIDE DEF n
  <2>3. IsFiniteSet(1 .. n) /\ Cardinality(1 .. n) = n
    <3>0. 1 \in Int /\ n \in Int
      BY <2>2
    <3>1. /\ IsFiniteSet(1 .. n)
          /\ Cardinality(1 .. n) = IF 1 > n THEN 0 ELSE n - 1 + 1
      BY <3>0, FS_Interval
    <3>. QED BY <2>2, <3>1
  <2>4. q.sent \in SUBSET (1 .. n)
    <3>1. AllowedOf(q.commands) \subseteq DOMAIN q.commands
      BY DEF AllowedOf
    <3>. QED BY <2>1, <2>2, <3>1
  <2>5. Cardinality(q.sent) =< n /\ Cardinality(q.sent) \in Nat
    BY <2>3, <2>4, FS_Subset, FS_CardinalityType
  <2>6. q.charged >= Cardinality(q.sent)
    BY <2>1, <2>2, <2>5
  <2>. QED BY <2>1, <2>6 DEF AllowedOf
<1>. QED BY GatewayInvariant, <1>1, PTL

\* The handlers that parse before they charge give away less than one parse per
\* place between two refills.
THEOREM FreeParsesStayBounded == Spec => []FreeParsesBounded
<1>1. IndInv => FreeParsesBounded
  <2> SUFFICES ASSUME IndInv PROVE unpaid < MaxInFlight
    BY DEF FreeParsesBounded
  <2>1. IsFiniteSet(Requests) /\ Reading \in SUBSET Requests
    BY DEF Reading, GatewayConstants
  <2>2. IsFiniteSet(Reading)
    BY <2>1, FS_Subset
  <2>3. Cardinality(Reading) \in Nat
    BY <2>2, FS_CardinalityType
  <2>. QED BY <2>3 DEF IndInv, CountsSettle, TypeOK, FreeParsesCovered, GatewayConstants
<1>. QED BY GatewayInvariant, <1>1, PTL

\* A refusal is only ever answered from a stage before the commands are handed
\* over (AppError::into_response and the stages that make its errors).
THEOREM RefusalsAreHarmless == Spec => RefusalsChangeNothing
<1> DEFINE Harmless ==
        \A r \in Requests :
            status'[r] # status[r] /\ status'[r] \in {401, 403, 408, 413, 429} =>
                request[r].sent = {}
<1>1. IndInv /\ [Next]_vars => [Harmless]_vars
  <2> SUFFICES ASSUME IndInv, Next, NEW s \in Requests,
                      status'[s] # status[s], status'[s] \in {401, 403, 408, 413, 429},
                      at[s] = "redis"
               PROVE  FALSE
    BY DEF IndInv, StagesInOrder
  <2>1. /\ Status("Overloaded") = 503 /\ Status("ResponseTooLarge") = 502
        /\ Status("RedisError") = 400 /\ Status("PoolOpen") = 503
    BY DEF Status
  <2>2. status \in [Requests -> Statuses]
    BY DEF IndInv, CountsSettle, TypeOK
  <2>3. ASSUME NEW r \in Requests, NEW code, Respond(r, code)
        PROVE  r = s /\ code = status'[s]
    BY <2>2, <2>3 DEF Respond
  <2>4. ASSUME NEW r \in Requests,
               \/ Shed(r) \/ OverLimit(r) \/ \E endpoint \in Endpoints : Admit(r, endpoint)
               \/ AuthFails(r) \/ AuthSucceeds(r) \/ BodyFails(r) \/ ParseFails(r)
               \/ AcquireFails(r) \/ \E commands \in Bodies : Parsed(r, commands)
        PROVE  FALSE
    <3>1. at[r] # "redis"
      BY <2>4 DEF Shed, OverLimit, Admit, AuthFails, AuthSucceeds, BodyFails, ParseFails, Parsed,
                  AcquireFails
    <3>2. status' = status \/ \E code : status' = [status EXCEPT ![r] = code]
      <4>1. ASSUME NEW commands \in Bodies, Parsed(r, commands)
            PROVE  status' = status \/ \E code : status' = [status EXCEPT ![r] = code]
        BY <4>1 DEF Parsed, ChargeRefused, Respond, Suspend
      <4>. QED BY <2>4, <4>1
               DEF Shed, OverLimit, Admit, AuthFails, AuthSucceeds, BodyFails, ParseFails,
                   AcquireFails, ChargeRefused, Respond, Suspend
    <3>. QED BY <2>2, <3>1, <3>2
  <2>5. ASSUME NEW r \in Requests, Executed(r) PROVE FALSE
    BY <2>1, <2>3, <2>5 DEF Executed
  <2>6. ASSUME NEW r \in Requests, Timeout(r) PROVE FALSE
    BY <2>1, <2>3, <2>6 DEF Timeout
  <2>7. ASSUME NEW r \in Requests, Acquired(r) \/ Disconnect(r) PROVE FALSE
    BY <2>7 DEF Acquired, Disconnect, Suspend
  <2>8. ASSUME Refill PROVE FALSE
    BY <2>8 DEF Refill
  <2>. QED BY <2>4, <2>5, <2>6, <2>7, <2>8 DEF Next
<1>. QED BY GatewayInvariant, <1>1, PTL DEF Spec, RefusalsChangeNothing

-----------------------------------------------------------------------------
(***************************************************************************)
(* The two models of the handlers' decision are one.                       *)
(***************************************************************************)

\* The names of the endpoints in module DataPath.
EndpointOf(path) ==
    IF path = "/" THEN "command" ELSE IF path = "/pipeline" THEN "pipeline" ELSE "multi"

\* The error a handler ends with before it looks for a pool, in module Gateway
\* (Parsed).
ErrorOf(path, commands) ==
    IF path = "/multi-exec" /\ commands = <<>> THEN "BadRequest" ELSE AclError(path, commands)

\* On what the ACL says of the commands, the handlers of the data path decide
\* as those of the HTTP layer do, so what is proved of paid and allowed
\* commands there is about the commands the ACL allows here: they run the same
\* requests, and refuse the others for the same reason.
THEOREM HandlersAgree ==
    ASSUME NEW path \in Endpoints, NEW decisions \in Seq(Classes)
    PROVE  /\ ErrorOf(path, decisions) = "none" <=> Verdict(EndpointOf(path), decisions) = "run"
           /\ ErrorOf(path, decisions) = "Forbidden"
                <=> Verdict(EndpointOf(path), decisions) = "forbidden"
           /\ ErrorOf(path, decisions) = "BadRequest"
                <=> Verdict(EndpointOf(path), decisions) = "invalid"
<1> DEFINE bad == {i \in DOMAIN decisions :
                     decisions[i] = "invalid"
                     \/ (path # "/pipeline" /\ decisions[i] = "forbidden")}
           errors == {i \in DOMAIN decisions :
                        \/ decisions[i] = "invalid"
                        \/ EndpointOf(path) # "pipeline" /\ decisions[i] = "forbidden"}
<1>1. EndpointOf(path) = "pipeline" <=> path = "/pipeline"
  BY DEF EndpointOf, Endpoints
<1>2. EndpointOf(path) = "multi" <=> path = "/multi-exec"
  BY DEF EndpointOf, Endpoints
<1>3. bad = errors
  BY <1>1
<1>4. bad # {} => Min(bad) \in bad
  <2>1. bad \subseteq Nat
    OBVIOUS
  <2>. QED BY <2>1, MinIsLeast
<1>5. \A i \in bad : decisions[i] \in {"invalid", "forbidden"}
  OBVIOUS
<1>6. AclError(path, decisions) = IF bad = {} THEN "none"
                                  ELSE IF decisions[Min(bad)] = "forbidden" THEN "Forbidden"
                                  ELSE "BadRequest"
  BY DEF AclError
<1>7. Verdict(EndpointOf(path), decisions) =
        IF errors # {} THEN decisions[Min(errors)]
        ELSE IF EndpointOf(path) = "multi" /\ decisions = <<>> THEN "invalid" ELSE "run"
  BY DEF Verdict
<1>8. decisions = <<>> => bad = {}
  OBVIOUS
<1> HIDE DEF bad, errors
<1>9. CASE path = "/multi-exec" /\ decisions = <<>>
  BY <1>2, <1>3, <1>7, <1>8, <1>9 DEF ErrorOf
<1>10. CASE ~(path = "/multi-exec" /\ decisions = <<>>)
  BY <1>2, <1>3, <1>4, <1>5, <1>6, <1>7, <1>10 DEF ErrorOf
<1>. QED BY <1>9, <1>10
=============================================================================
