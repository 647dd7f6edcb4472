------------------------------ MODULE Identity ------------------------------
(***************************************************************************)
(* Who a bearer credential is: the chain of the JWT authenticator and the  *)
(* static tokens (auth_chain.rs, jwt_auth.rs, static_auth.rs) and the keys *)
(* a JWKS document supplies (http_jwks.rs).                                *)
(*                                                                         *)
(* A credential is a text, how many dots it has, what its first part       *)
(* decodes to, and, when that is a JWT header, what the JWT says.  The     *)
(* JWT library's decode is external: it verifies the signature with the    *)
(* algorithm and the key it is given and checks issuer and times.          *)
(***************************************************************************)
EXTENDS Config

CONSTANTS ServiceUnavailable, NotFound   \* instead of a key or a verdict

\* An AuthError, where an identity would be.
AuthError(error) == [error |-> error]
Failed(result) == "error" \in DOMAIN result
Rejected == AuthError("Rejected")

\* Mutant: any key the document has an algorithm for.
CacheableKeyAny(jwk) == Or(jwk.alg, "RS256")

\* The algorithm a key of the document is trusted for; None drops the key.  A
\* key without kid is dropped too, and no lookup could name it.
CacheableKey(jwk) ==
    IF jwk.use \notin {None, "sig"} \/ (jwk.ops # None /\ "verify" \notin jwk.ops) THEN None
    ELSE CASE jwk.type = "RSA" /\ jwk.alg \in {"RS256", "RS384", "RS512"} -> jwk.alg
           [] jwk.type = "RSA" /\ jwk.alg = None -> "RS256"
           [] jwk.type = "P256" /\ jwk.alg \in {None, "ES256"} -> "ES256"
           [] jwk.type = "P384" /\ jwk.alg \in {None, "ES384"} -> "ES384"
           [] OTHER -> None

CLOCK_SKEW_SECS == 30

\* The library's decode: the algorithm is the key's, never the header's choice.
Decodes(jwt, algorithm, jwk, now, config) ==
    /\ jwt.alg = algorithm /\ jwt.signedBy = jwk
    /\ None \notin {jwt.exp, jwt.sub}
    /\ jwt.exp + CLOCK_SKEW_SECS >= now
    /\ Or(jwt.nbf, now) <= now + CLOCK_SKEW_SECS
    /\ jwt.iss = config.jwt.issuer

MeantForUs(jwt, config) ==
    /\ jwt.typ = "Bearer"
    /\ config.jwt.audience \in jwt.aud \cup {jwt.azp}

\* The highest role wins.  A claim selects a pool and narrows what may be run;
\* what widens is the server's: the scripts of the pool.
JwtIdentity(jwt, config) ==
    LET pool == Or(jwt.pool, "default")
        has(r) == <<config.jwt.rolePrefix, r>> \in jwt.roles
    IN  IF (\A r \in {"admin", "write", "read"} : ~has(r)) \/ pool \notin DOMAIN config.pools
        THEN AuthError("Forbidden")
        ELSE [subject |-> jwt.sub, bucket |-> jwt.sub, pool |-> pool,
              readOnly |-> ~has("admin") /\ ~has("write"), isAdmin |-> has("admin"),
              legacy |-> FALSE, allowed |-> <<>>, blocked |-> UppercaseSet(jwt.blocked),
              scripts |-> config.pools[pool].scripts, keyPrefix |-> jwt.keyPrefix]

\* key is what key_for returns: a key, NotFound or ServiceUnavailable.  active
\* is the verdict of the introspection, or ServiceUnavailable.
ValidateJwt(jwt, key, active, now, config) ==
    IF jwt.kid = None THEN Rejected
    ELSE IF key = ServiceUnavailable THEN AuthError("ServiceUnavailable")
    ELSE IF \/ key = NotFound
            \/ CacheableKey(key) = None
            \/ ~Decodes(jwt, CacheableKey(key), key, now, config)
            \/ ~MeantForUs(jwt, config)
         THEN Rejected
    ELSE IF ~config.jwt.introspection THEN JwtIdentity(jwt, config)
    ELSE IF active = ServiceUnavailable THEN AuthError("ServiceUnavailable")
    ELSE IF active THEN JwtIdentity(jwt, config) ELSE Rejected

\* A link of the chain abstains, <<>>, or answers, <<identity or error>>.
JwtAuth(bearer, key, active, now, config) ==
    IF bearer.dots # 2 \/ bearer.header = "other" THEN <<>>
    ELSE IF bearer.header = "json" THEN <<Rejected>>
    ELSE <<ValidateJwt(bearer.jwt, key, active, now, config)>>

StaticAuth(bearer, config) ==
    LET digest == Digest(bearer.text)
        token == config.tokens[digest]
    IN  IF digest \notin DOMAIN config.tokens THEN <<>>
        ELSE <<[subject |-> PrefixOf(bearer.text), bucket |-> digest, pool |-> token.pool,
                readOnly |-> token.readOnly, isAdmin |-> FALSE, legacy |-> token.legacy,
                allowed |-> token.allowed, blocked |-> token.blocked,
                scripts |-> token.scripts, keyPrefix |-> token.keyPrefix]>>

\* The JWT link comes first, if there is one.  The first answer is final.
Authenticate(bearer, key, active, now, config) ==
    LET jwt == IF config.jwt = None THEN <<>> ELSE JwtAuth(bearer, key, active, now, config)
        static == StaticAuth(bearer, config)
    IN  IF jwt # <<>> THEN jwt[1] ELSE IF static # <<>> THEN static[1] ELSE Rejected
=============================================================================
