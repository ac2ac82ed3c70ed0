-------------------------------- MODULE Auth --------------------------------
(***************************************************************************)
(* The way of a token from signal.WS to the signal server's validator:     *)
(* wsURL, package auth, and the validators cmd/peerrpc/signal.go installs. *)
(* A URL is [scheme, host, path, query], a query a function from keys to   *)
(* values; a JWT is [header, claims, sig], its signature a function of the *)
(* other two and the secret; any other token is a word.                    *)
(***************************************************************************)
EXTENDS Integers, Sequences, SequencesExt

Unset == ""

\* url.Values.Set: a value replaces the one its key has.
Put(query, k, v) == [x \in DOMAIN query \cup {k} |-> IF x = k THEN v ELSE query[x]]

\* WS.wsURL: the scheme is rewritten, a missing path is /ws, and the token
\* replaces one the base URL carries.
Rewrite(scheme) == CASE scheme = "http" -> "ws" [] scheme = "https" -> "wss"
                     [] scheme \in {"ws", "wss"} -> scheme [] OTHER -> "ws"

\* Faulty variant: a token is put only into a URL without a query.
wsURLKeepsQuery(base, token) ==
  [base EXCEPT !.scheme = Rewrite(@), !.path = IF @ \in {Unset, "/"} THEN "/ws" ELSE @,
               !.query = IF token = Unset \/ @ # << >> THEN @ ELSE Put(@, "token", token)]

wsURL(base, token) ==
  [base EXCEPT !.scheme = Rewrite(@), !.path = IF @ \in {Unset, "/"} THEN "/ws" ELSE @,
               !.query = IF token = Unset THEN @ ELSE Put(@, "token", token)]

\* bearerToken: the header is <<"Bearer", token>>, a bare <<token>> or absent.
\* "Bearer " with nothing after it is too short for the prefix: a bare token.
bearerToken(authorization) ==
  IF authorization = <<>> THEN Unset
  ELSE IF Len(authorization) = 2 /\ authorization[1] = "Bearer" /\ authorization[2] # Unset THEN authorization[2]
  ELSE IF Len(authorization) = 2 THEN "Bearer " ELSE authorization[1]

tokenFromRequest(r) ==
  IF bearerToken(r.authorization) # Unset THEN bearerToken(r.authorization)
  ELSE IF "token" \in DOMAIN r.query THEN r.query["token"] ELSE Unset

-----------------------------------------------------------------------------
\* IssueHS256.  A JWT is named by the word a request carries; Jwts gives its
\* parts, and any other word does not split into three segments.
Sign(secret, header, claims) == <<secret, header, claims>>
IssueHS256(secret, claims) == [header |-> "HS256", claims |-> claims, sig |-> Sign(secret, "HS256", claims)]

\* Faulty variant: the expiry counts as passed at its own second.
ExpiredEarly(claims, now, leeway) == claims.exp > 0 /\ now >= claims.exp + leeway

\* A token without exp, or with a negative one, never expires.
Expired(claims, now, leeway) == claims.exp > 0 /\ now > claims.exp + leeway

\* HS256Verifier.Verify: the signature first, then the algorithm, then expiry.
Verify(secret, now, leeway, jwt) ==
  IF jwt.sig # Sign(secret, jwt.header, jwt.claims) THEN "invalid"
  ELSE IF jwt.header # "HS256" THEN "invalid"
  ELSE IF Expired(jwt.claims, now, leeway) THEN "expired" ELSE "ok"

\* parseStaticValidator: pairs <<token, subject>> or what is no pair; the last
\* of two pairs with one token wins.
parseStaticValidator(pairs) ==
  IF \E p \in Range(pairs) : Len(p) # 2 \/ p[1] = Unset THEN [ok |-> FALSE, ids |-> << >>]
  ELSE [ok |-> TRUE, ids |-> [t \in {p[1] : p \in Range(pairs)} |->
                                pairs[Max({i \in DOMAIN pairs : pairs[i][1] = t})][2]]]

\* runSignal's choice: a JWT secret wins over static pairs, no flag is no
\* validator, a bad pair ends the command.
runSignal(jwtSecret, authStatic) ==
  IF jwtSecret # Unset THEN [kind |-> "jwt", secret |-> jwtSecret]
  ELSE IF authStatic = <<>> THEN [kind |-> "open"]
  ELSE LET v == parseStaticValidator(authStatic)
       IN IF v.ok THEN [kind |-> "static", ids |-> v.ids] ELSE [kind |-> "refused"]

\* StaticValidator.Validate and jwtVerifierAdapter.Validate, as far as the
\* error goes: identities drive nothing.  The adapter leaves Leeway 0.
Validate(v, jwts, now, tok) ==
  CASE v.kind = "static" -> tok \in DOMAIN v.ids
    [] v.kind = "jwt" -> tok \in DOMAIN jwts /\ Verify(v.secret, now, 0, jwts[tok]) = "ok"

\* AuthorizeRequest: with no validator everything passes; a refusal is a 401
\* before the WebSocket upgrade.
AuthorizeRequest(v, jwts, now, r) == v.kind = "open" \/ Validate(v, jwts, now, tokenFromRequest(r))

-----------------------------------------------------------------------------
(* Whatever form the signal server's URL has, the token signal.WS was given *)
(* is the one the server validates, over the path the server serves unless  *)
(* the URL names another; a proxy's Authorization header shadows it.        *)
TokenArrives(base, token, authorization) ==
  LET u == wsURL(base, token)
      got == tokenFromRequest([authorization |-> authorization, query |-> u.query])
  IN /\ token # Unset /\ bearerToken(authorization) = Unset => got = token
     /\ bearerToken(authorization) # Unset => got = bearerToken(authorization)
     /\ u.scheme \in {"ws", "wss"} /\ (u.scheme = "wss" <=> base.scheme \in {"https", "wss"})

(* The server lets a request in exactly when the flags it was started with  *)
(* name no credential, or its token is a configured one or a JWT of the     *)
(* configured secret whose last valid second has not passed.  A JWT secret  *)
(* makes static tokens useless.                                             *)
GateExact(jwtSecret, authStatic, jwts, now, r) ==
  LET v == runSignal(jwtSecret, authStatic)
      tok == tokenFromRequest(r)
  IN v.kind # "refused" =>
       (AuthorizeRequest(v, jwts, now, r) <=>
          IF jwtSecret # Unset
          THEN \E k \in DOMAIN jwts :
                 /\ tok = k /\ (jwts[k].claims.exp <= 0 \/ now <= jwts[k].claims.exp)
                 /\ jwts[k] = IssueHS256(jwtSecret, jwts[k].claims)
          ELSE authStatic = <<>> \/ \E p \in Range(authStatic) : p[1] = tok)
=============================================================================
