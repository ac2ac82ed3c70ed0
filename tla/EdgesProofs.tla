----------------------------- MODULE EdgesProofs -----------------------------
(***************************************************************************)
(* What MCEdges checks on bounded inputs, proved for inputs of any length: *)
(* credentials, the data of a call and observability; and that the frames  *)
(* it picks are among those of FramesProofs.                               *)
(***************************************************************************)
EXTENDS MCEdges, FramesProofs, FiniteSetTheorems, TLAPS

-----------------------------------------------------------------------------
\* Deadlines, tokens and the gate of the signal server.

\* What cutting to an integer of 2 * p values does to a count of milliseconds.
LEMMA CutTo ==
  ASSUME NEW m \in Int, NEW p \in Nat \ {0}
  PROVE  LET t == ((m + p) % (2 * p)) - p IN
         /\ t \in Int /\ (m >= 0 /\ t > 0 => t <= m) /\ (-p <= m /\ m < p => t = m)
         /\ (-p <= t /\ t < p)
<1> DEFINE q == 2 * p
           r == (m + p) % q
           k == (m + p) \div q
<1>1. q \in Nat /\ q > 0 /\ m + p \in Int OBVIOUS
<1>2. r \in 0..(q - 1) /\ k \in Int /\ m + p = q * k + r BY <1>1
<1>3. -p <= m /\ m < p => r = m + p
  <2> SUFFICES ASSUME -p <= m, m < p PROVE r = m + p
    OBVIOUS
  <2>1. m + p \in 0..(q - 1) BY <1>1
  <2>2. QED BY <1>1, <2>1
<1>4. m >= 0 => r <= m + p
  <2> SUFFICES ASSUME m >= 0 PROVE r <= m + p
    OBVIOUS
  <2>1. m + p \in Nat BY <1>1
  <2>2. CASE m + p < q BY <1>1, <2>1, <2>2
  <2>3. CASE m + p >= q BY <1>1, <1>2, <2>1, <2>3
  <2>4. QED BY <1>1, <2>1, <2>2, <2>3
<1> HIDE DEF r
<1>5. QED BY <1>1, <1>2, <1>3, <1>4 DEF q, r

\* CalculateRelativeDeadline at any integer width: the deadline_ms that the server
\* turns back into a timeout is never later than the caller meant.
LEMMA DeadlineFor ==
  ASSUME NEW left \in Int, NEW w \in Nat \ {0}, NEW p \in Nat \ {0}, 2^(w - 1) = p, 2^w = 2 * p
  PROVE  I!DeadlineNotLater(left, w)
<1> DEFINE m == I!Milliseconds(left)
           t == I!DeadlineMs(left, w)
<1>1. m \in Int /\ (left >= 0 => m = left \div 4) /\ (left < 4 => m <= 0) /\ (-(4 * p) <= left => -p <= m)
  BY DEF I!Milliseconds, I!Unit
<1>2. /\ t \in Int /\ (m >= 0 /\ t > 0 => t <= m) /\ (-p <= m /\ m < p => t = m)
      /\ (-p <= t /\ t < p)
  <2>1. t = ((m + p) % (2 * p)) - p BY DEF I!DeadlineMs, I!Truncate
  <2> HIDE DEF m, t
  <2>2. QED BY <1>1, <2>1, CutTo
<1> HIDE DEF m, t
<1>3. QED BY <1>1, <1>2 DEF I!DeadlineNotLater, I!durationFromMs, I!Unit, t

\* The width of the code, int32, and the width the run uses.
LEMMA DeadlineWidths == \A left \in Int : I!DeadlineNotLater(left, 32) /\ I!DeadlineNotLater(left, 4)
<1> DEFINE p == 2^31
           q == 2^3
<1>1. p \in Nat \ {0} /\ 2^32 = 2 * p /\ q \in Nat \ {0} /\ 2^4 = 2 * q BY SMT
<1>2. 2^(32 - 1) = p /\ 2^(4 - 1) = q BY SMT
<1> HIDE DEF p, q
<1>3. 32 \in Nat \ {0} /\ 4 \in Nat \ {0} BY SMT
<1> SUFFICES ASSUME NEW left \in Int PROVE I!DeadlineNotLater(left, 32) /\ I!DeadlineNotLater(left, 4)
  OBVIOUS
<1>4. I!DeadlineNotLater(left, 32) BY <1>1, <1>2, <1>3, DeadlineFor, Zenon
<1>5. I!DeadlineNotLater(left, 4) BY <1>1, <1>2, <1>3, DeadlineFor, Zenon
<1>6. QED BY <1>4, <1>5

\* signal.WS puts the token into the query that TokenFromRequest reads, over
\* whatever query the URL had.
LEMMA TokenReaches ==
  ASSUME NEW base, NEW scheme, NEW path, NEW query, NEW host,
         base = [scheme |-> scheme, host |-> host, path |-> path, query |-> query],
         NEW token, NEW authorization
  PROVE  A!TokenArrives(base, token, authorization)
<1> DEFINE u == A!wsURL(base, token)
           bear == A!bearerToken(authorization)
           got == A!tokenFromRequest([authorization |-> authorization, query |-> u.query])
<1>1. u.scheme = A!Rewrite(scheme) /\ u.query = (IF token = A!Unset THEN query ELSE A!Put(query, "token", token))
  BY DEF A!wsURL
<1>2. A!Rewrite(scheme) \in {"ws", "wss"} /\ (A!Rewrite(scheme) = "wss" <=> scheme \in {"https", "wss"})
  BY Zenon DEF A!Rewrite
<1>3. token # A!Unset => "token" \in DOMAIN u.query /\ u.query["token"] = token
  BY <1>1 DEF A!Put
<1>4. bear # A!Unset => got = bear BY DEF A!tokenFromRequest
<1>5. bear = A!Unset /\ token # A!Unset => got = token BY <1>3 DEF A!tokenFromRequest
<1>6. QED BY <1>1, <1>2, <1>4, <1>5 DEF A!TokenArrives

\* A verifier accepts exactly the tokens its own secret issued, until exp.
LEMMA VerifyExact ==
  ASSUME NEW secret, NEW H, NEW C, NEW G, \A c \in C : c.exp \in Int,
         NEW jwt \in [header : H, claims : C, sig : G], NEW now \in Int
  PROVE  A!Verify(secret, now, 0, jwt) = "ok"
           <=> /\ jwt.claims.exp <= 0 \/ now <= jwt.claims.exp
               /\ jwt = A!IssueHS256(secret, jwt.claims)
<1>1. jwt.claims.exp \in Int /\ jwt.claims.exp + 0 = jwt.claims.exp OBVIOUS
<1>2. A!Expired(jwt.claims, now, 0) <=> ~(jwt.claims.exp <= 0 \/ now <= jwt.claims.exp)
  BY <1>1 DEF A!Expired
<1>3. jwt = A!IssueHS256(secret, jwt.claims)
        <=> jwt.header = "HS256" /\ jwt.sig = A!Sign(secret, jwt.header, jwt.claims)
  BY DEF A!IssueHS256
<1>4. QED BY <1>2, <1>3 DEF A!Verify

\* The gate of the WebSocket server admits exactly what its flags name, for any
\* list of static credentials and any table of tokens.
LEMMA GateOpens ==
  ASSUME NEW secret, NEW X, NEW st \in Seq(Seq(X)), NEW H, NEW C, NEW G, \A c \in C : c.exp \in Int,
         NEW W, NEW jwts \in [W -> [header : H, claims : C, sig : G]], NEW now \in Int, NEW r
  PROVE  A!GateExact(secret, st, jwts, now, r)
<1> DEFINE v == A!runSignal(secret, st)
           tok == A!tokenFromRequest(r)
           ids == A!parseStaticValidator(st).ids
<1>1. ASSUME secret # A!Unset
      PROVE  v.kind # "refused" /\ (A!AuthorizeRequest(v, jwts, now, r) <=>
               \E k \in DOMAIN jwts : /\ tok = k /\ (jwts[k].claims.exp <= 0 \/ now <= jwts[k].claims.exp)
                                      /\ jwts[k] = A!IssueHS256(secret, jwts[k].claims))
  <2>1. v = [kind |-> "jwt", secret |-> secret] BY <1>1 DEF A!runSignal
  <2>2. v.kind = "jwt" /\ v.secret = secret BY <2>1
  <2> HIDE DEF v, tok
  <2>3. A!AuthorizeRequest(v, jwts, now, r) <=> tok \in DOMAIN jwts /\ A!Verify(secret, now, 0, jwts[tok]) = "ok"
    BY <2>2, Zenon DEF A!AuthorizeRequest, A!Validate, tok
  <2>4. tok \in DOMAIN jwts =>
          (A!Verify(secret, now, 0, jwts[tok]) = "ok"
             <=> /\ jwts[tok].claims.exp <= 0 \/ now <= jwts[tok].claims.exp
                 /\ jwts[tok] = A!IssueHS256(secret, jwts[tok].claims))
    BY VerifyExact
  <2>5. QED BY <2>2, <2>3, <2>4
<1>2. ASSUME secret = A!Unset, st = <<>> PROVE v.kind = "open" /\ A!AuthorizeRequest(v, jwts, now, r)
  BY <1>2 DEF A!runSignal, A!AuthorizeRequest
<1>3. ASSUME secret = A!Unset, st # <<>>, v.kind # "refused"
      PROVE  A!AuthorizeRequest(v, jwts, now, r) <=> \E p \in A!Range(st) : p[1] = tok
  <2>1. v = [kind |-> "static", ids |-> ids] BY <1>3 DEF A!runSignal
  <2>2. v.kind = "static" /\ v.ids = ids BY <2>1
  <2>3. DOMAIN ids = {p[1] : p \in A!Range(st)} BY <1>3 DEF A!runSignal, A!parseStaticValidator
  <2> HIDE DEF v, tok, ids
  <2>4. A!AuthorizeRequest(v, jwts, now, r) <=> tok \in DOMAIN ids
    BY <2>2, Zenon DEF A!AuthorizeRequest, A!Validate, tok
  <2>5. QED BY <2>3, <2>4
<1> HIDE DEF v, tok
<1>4. QED BY <1>1, <1>2, <1>3 DEF A!GateExact, v, tok

-----------------------------------------------------------------------------
\* Metadata.

\* The metadata maps with keys in K and values in V.
Md(K, V) == UNION {[Keys -> Seq(V)] : Keys \in SUBSET K}

\* A metadata map holds a sequence of values for each of its keys.
LEMMA MdIs ==
  ASSUME NEW K, NEW V, NEW x
  PROVE  x \in Md(K, V) <=> DOMAIN x \subseteq K /\ x \in [DOMAIN x -> Seq(V)]
BY DEF Md

\* The empty map is one.
LEMMA EmptyIsMd == ASSUME NEW K, NEW V PROVE I!EmptyMd \in Md(K, V) /\ DOMAIN I!EmptyMd = {}
<1>1. DOMAIN I!EmptyMd = {} /\ I!EmptyMd \in [{} -> Seq(V)] BY DEF I!EmptyMd
<1>2. QED BY <1>1, MdIs

\* Reading a key that is not there gives no values.
LEMMA AtSeq == ASSUME NEW K, NEW V, NEW x \in Md(K, V), NEW k PROVE I!At(x, k) \in Seq(V)
BY MdIs DEF I!At

\* mergeMetadata appends, key by key.
LEMMA MergeIsMd ==
  ASSUME NEW K, NEW V, NEW a \in Md(K, V), NEW b \in Md(K, V)
  PROVE  I!Merge(a, b) \in Md(K, V) /\ \A k : I!At(I!Merge(a, b), k) = I!At(a, k) \o I!At(b, k)
<1> DEFINE Keys == DOMAIN a \cup DOMAIN b
<1>1. Keys \subseteq K BY MdIs
<1>2. \A k : I!At(a, k) \in Seq(V) /\ I!At(b, k) \in Seq(V) BY AtSeq
<1>3. I!Merge(a, b) = [k \in Keys |-> I!At(a, k) \o I!At(b, k)] BY DEF I!Merge
<1>4. \A k \in Keys : I!At(a, k) \o I!At(b, k) \in Seq(V) BY <1>2
<1>5. I!Merge(a, b) \in [Keys -> Seq(V)] BY <1>3, <1>4
<1>6. I!Merge(a, b) \in Md(K, V) BY <1>1, <1>5, MdIs
<1>7. ASSUME NEW k PROVE I!At(I!Merge(a, b), k) = I!At(a, k) \o I!At(b, k)
  <2>1. CASE k \in Keys BY <1>3, <2>1 DEF I!At
  <2>2. CASE k \notin Keys
    <3>1. I!At(a, k) = <<>> /\ I!At(b, k) = <<>> /\ I!At(I!Merge(a, b), k) = <<>> BY <1>3, <2>2 DEF I!At
    <3>2. QED BY <3>1
  <2>3. QED BY <2>1, <2>2
<1>8. QED BY <1>6, <1>7

\* And adds nothing to an empty map.
LEMMA MergeEmpty ==
  ASSUME NEW K, NEW V, NEW x \in Md(K, V)
  PROVE  I!Merge(I!EmptyMd, x) = x
<1>1. DOMAIN I!EmptyMd = {} /\ x \in [DOMAIN x -> Seq(V)] BY EmptyIsMd, MdIs
<1>2. \A k \in DOMAIN x : I!At(I!EmptyMd, k) \o I!At(x, k) = x[k]
  <2> SUFFICES ASSUME NEW k \in DOMAIN x PROVE I!At(I!EmptyMd, k) \o I!At(x, k) = x[k]
    OBVIOUS
  <2>1. I!At(I!EmptyMd, k) = <<>> /\ I!At(x, k) = x[k] /\ x[k] \in Seq(V) BY <1>1 DEF I!At
  <2>2. QED BY <2>1
<1>3. I!Merge(I!EmptyMd, x) = [k \in DOMAIN x |-> x[k]] BY <1>1, <1>2 DEF I!Merge
<1>4. QED BY <1>1, <1>3

-----------------------------------------------------------------------------
\* Headers and trailers of a ServerStream.

\* The states of a ServerStream whose metadata has keys in K and values in V, and
\* the operations its handler may call.
StreamOf(K, V) == [holder : Md(K, V), headerSent : BOOLEAN, begin : Md(K, V), panic : BOOLEAN]
OpsOf(K, V, X) == \A op \in X : op.do \in {"header", "trailer", "send"} /\ (op.do # "send" => op.kv \in Md(K, V))

\* What SetHeader, SetTrailer and Send do to a ServerStream, case by case.
LEMMA HandlerOpDoes ==
  ASSUME NEW K, NEW V, NEW X, OpsOf(K, V, X), NEW s \in StreamOf(K, V), NEW op \in X,
         NEW t, t = I!HandlerOp(s, op)
  PROVE  /\ t \in StreamOf(K, V)
         /\ s.panic => t = s
         /\ ~s.panic /\ op.do = "send" =>
              /\ ~t.panic /\ t.headerSent /\ t.holder = s.holder
              /\ t.begin = IF s.headerSent THEN s.begin ELSE s.holder
         /\ ~s.panic /\ op.do # "send" /\ ~(op.do = "header" /\ s.headerSent) =>
              /\ ~t.panic /\ t.headerSent = s.headerSent /\ t.begin = s.begin
              /\ t.holder = I!Merge(s.holder, op.kv)
         /\ ~s.panic /\ op.do = "header" /\ s.headerSent => t = [s EXCEPT !.panic = TRUE]
<1> DEFINE M == Md(K, V)
<1>0. s.panic \in BOOLEAN /\ s.headerSent \in BOOLEAN /\ s.holder \in M /\ s.begin \in M BY DEF StreamOf
<1>1. op.do \in {"header", "trailer", "send"} /\ (op.do # "send" => op.kv \in M) BY DEF OpsOf
<1>2. op.do # "send" => I!Merge(s.holder, op.kv) \in M BY <1>0, <1>1, MergeIsMd
<1>3. s.panic => t = s BY DEF I!HandlerOp
<1>4. ~s.panic /\ op.do = "header" => t = I!SetHeader(s, op.kv) BY Zenon DEF I!HandlerOp
<1>5. ~s.panic /\ op.do = "trailer" => t = I!SetTrailer(s, op.kv)
  <2>1. op.do = "trailer" => op.do # "header" OBVIOUS
  <2>2. QED BY <2>1, Zenon DEF I!HandlerOp
<1>6. ~s.panic /\ op.do = "send" => t = I!flushBegin(s)
  <2>1. op.do = "send" => op.do # "header" /\ op.do # "trailer" OBVIOUS
  <2>2. QED BY <2>1, Zenon DEF I!HandlerOp
<1> HIDE DEF M
<1>7. CASE s.panic BY <1>3, <1>7
<1>8. CASE ~s.panic /\ op.do = "send"
  BY <1>0, <1>6, <1>8 DEF I!flushBegin, StreamOf, M
<1>9. CASE ~s.panic /\ op.do = "trailer"
  BY <1>0, <1>2, <1>5, <1>9 DEF I!SetTrailer, StreamOf, M
<1>10. CASE ~s.panic /\ op.do = "header"
  BY <1>0, <1>2, <1>4, <1>10 DEF I!SetHeader, StreamOf, M
<1>11. QED BY <1>0, <1>1, <1>7, <1>8, <1>9, <1>10

\* A script played on a new ServerStream, operation by operation.
LEMMA PlayedIs ==
  ASSUME NEW K, NEW V, NEW X, OpsOf(K, V, X), NEW script \in Seq(X)
  PROVE  /\ I!Played(script) \in [0..Len(script) -> StreamOf(K, V)]
         /\ I!Played(script)[0] = I!NewStream
         /\ \A i \in 1..Len(script) : I!Played(script)[i] = I!HandlerOp(I!Played(script)[i - 1], script[i])
<1> DEFINE L == Len(script)
           S == StreamOf(K, V)
           d == [p \in S \X (1..L) |-> I!HandlerOp(p[1], script[p[2]])]
<1>1. L \in Nat /\ \A i \in 1..L : script[i] \in X OBVIOUS
<1>2. I!NewStream \in S BY EmptyIsMd DEF I!NewStream, StreamOf
<1>3. \A s \in S, i \in 1..L : I!HandlerOp(s, script[i]) \in S BY <1>1, HandlerOpDoes
<1> HIDE DEF S, L
<1>4. d \in [S \X (1..L) -> S] BY <1>3
<1>5. \A s \in S, i \in 1..L : d[<<s, i>>] = I!HandlerOp(s, script[i]) OBVIOUS
<1> HIDE DEF d
<1>6. PICK f \in [0..L -> S] : f[0] = I!NewStream /\ \A i \in 1..L : f[i] = d[<<f[i - 1], i>>]
  <2>1. Steps(S, I!NewStream, L, d) # {} BY <1>1, <1>2, <1>4, Iterates
  <2>2. QED BY <2>1 DEF Steps
<1>7. \A i \in 1..L : f[i] = I!HandlerOp(f[i - 1], script[i])
  <2>1. \A i \in 1..L : f[i - 1] \in S BY <1>1, <1>6
  <2>2. QED BY <1>5, <1>6, <2>1
<1> DEFINE Is(g) == g = [n \in 0..L |-> IF n = 0 THEN I!NewStream ELSE I!HandlerOp(g[n - 1], script[n])]
<1>8. Is(f) 
  <2>1. f = [n \in 0..L |-> f[n]] BY <1>6
  <2>2. \A n \in 0..L : f[n] = IF n = 0 THEN I!NewStream ELSE I!HandlerOp(f[n - 1], script[n])
    BY <1>1, <1>6, <1>7
  <2>3. QED BY <2>1, <2>2
<1>9. I!Played(script) = CHOOSE g : Is(g) BY Zenon DEF I!Played, L
<1>10. Is(I!Played(script))
  <2> HIDE DEF Is
  <2>1. QED BY <1>8, <1>9, Zenon
<1> DEFINE s == I!Played(script)
<1>11. s[0] = I!NewStream /\ \A i \in 1..L : s[i] = I!HandlerOp(s[i - 1], script[i])
  BY <1>1, <1>10
<1>12. s = [n \in 0..L |-> s[n]] BY <1>10
<1> HIDE DEF s, Is
<1>13. s \in [0..L -> S]
  <2>1. Follows(s, S, I!NewStream, L, d) BY <1>1, <1>5, <1>11, <1>12 DEF Follows
  <2>2. QED BY <1>1, <1>2, <1>4, <2>1, StaysIn
<1>14. QED BY <1>11, <1>13 DEF L, S, s

\* What a script sets, operation by operation, with the Sends left out.
LEMMA SetByIs ==
  ASSUME NEW K, NEW V, NEW X, OpsOf(K, V, X), NEW script \in Seq(X)
  PROVE  /\ I!SetBy(script) \in [0..Len(script) -> Md(K, V)]
         /\ I!SetBy(script)[0] = I!EmptyMd
         /\ \A i \in 1..Len(script) :
              I!SetBy(script)[i] = IF script[i].do = "send" THEN I!SetBy(script)[i - 1]
                                   ELSE I!Merge(I!SetBy(script)[i - 1], script[i].kv)
<1> DEFINE L == Len(script)
           S == Md(K, V)
           d == [p \in S \X (1..L) |-> IF script[p[2]].do = "send" THEN p[1] ELSE I!Merge(p[1], script[p[2]].kv)]
<1>1. L \in Nat /\ \A i \in 1..L : script[i] \in X OBVIOUS
<1>2. I!EmptyMd \in S BY EmptyIsMd
<1>3. \A s \in S, i \in 1..L : script[i].do # "send" => I!Merge(s, script[i].kv) \in S
  BY <1>1, MergeIsMd DEF OpsOf
<1> HIDE DEF S, L
<1>4. d \in [S \X (1..L) -> S] BY <1>3
<1>5. \A s \in S, i \in 1..L :
        d[<<s, i>>] = IF script[i].do = "send" THEN s ELSE I!Merge(s, script[i].kv)
  OBVIOUS
<1> HIDE DEF d
<1>6. PICK f \in [0..L -> S] : f[0] = I!EmptyMd /\ \A i \in 1..L : f[i] = d[<<f[i - 1], i>>]
  <2>1. Steps(S, I!EmptyMd, L, d) # {} BY <1>1, <1>2, <1>4, Iterates
  <2>2. QED BY <2>1 DEF Steps
<1> DEFINE Is(g) == g = [n \in 0..L |-> IF n = 0 THEN I!EmptyMd
                                       ELSE IF script[n].do = "send" THEN g[n - 1]
                                       ELSE I!Merge(g[n - 1], script[n].kv)]
<1>8. Is(f)
  <2>1. f = [n \in 0..L |-> f[n]] BY <1>6
  <2>2. \A i \in 1..L : f[i - 1] \in S BY <1>1, <1>6
  <2>3. \A n \in 0..L : f[n] = IF n = 0 THEN I!EmptyMd
                              ELSE IF script[n].do = "send" THEN f[n - 1]
                              ELSE I!Merge(f[n - 1], script[n].kv)
    <3>1. \A n \in 0..L : n = 0 \/ n \in 1..L BY <1>1
    <3>2. \A i \in 1..L : f[i] = IF script[i].do = "send" THEN f[i - 1] ELSE I!Merge(f[i - 1], script[i].kv)
      BY <1>5, <1>6, <2>2
    <3>3. \A i \in 1..L : i # 0 OBVIOUS
    <3>4. QED BY <1>6, <3>1, <3>2, <3>3
  <2>4. QED BY <2>1, <2>3
<1>9. I!SetBy(script) = CHOOSE g : Is(g) BY Zenon DEF I!SetBy, L
<1>10. Is(I!SetBy(script))
  <2> HIDE DEF Is
  <2>1. QED BY <1>8, <1>9, Zenon
<1> DEFINE s == I!SetBy(script)
<1>11. s[0] = I!EmptyMd /\ \A i \in 1..L : s[i] = IF script[i].do = "send" THEN s[i - 1]
                                                   ELSE I!Merge(s[i - 1], script[i].kv)
  BY <1>1, <1>10
<1>12. s = [n \in 0..L |-> s[n]] BY <1>10
<1> HIDE DEF s, Is
<1>13. s \in [0..L -> S]
  <2>1. Follows(s, S, I!EmptyMd, L, d) BY <1>1, <1>5, <1>11, <1>12 DEF Follows
  <2>2. QED BY <1>1, <1>2, <1>4, <2>1, StaysIn
<1>14. QED BY <1>11, <1>13 DEF L, S, s

\* After n operations: a Send was made if the header is out, the holder is what
\* was set, unless SetHeader panicked, and Begin is what was set before the
\* first Send.
Sends(script, n) == {i \in 1..n : script[i].do = "send"}
LateHeader(script, n) == \E i \in 1..n : script[i].do = "header" /\ \E j \in Sends(script, n) : j < i
PlayedSo(script, n) ==
  LET s == I!Played(script)[n]  sum == I!SetBy(script) IN
  /\ s.panic <=> LateHeader(script, n)
  /\ s.headerSent <=> Sends(script, n) # {}
  /\ ~s.panic => s.holder = sum[n]
  /\ \A i \in Sends(script, n) : (\A j \in Sends(script, n) : i <= j) => s.begin = sum[i - 1]

\* One more operation keeps PlayedSo: the four cases of HandlerOp.
LEMMA PlayedStep ==
  ASSUME NEW K, NEW V, NEW X, OpsOf(K, V, X), NEW script \in Seq(X), NEW n \in Nat, n + 1 <= Len(script),
         PlayedSo(script, n)
  PROVE  PlayedSo(script, n + 1)
<1> DEFINE L == Len(script)
           s == I!Played(script)[n]
           t == I!Played(script)[n + 1]
           sum == I!SetBy(script)
           op == script[n + 1]
           A1 == Sends(script, n)
           A2 == Sends(script, n + 1)
<1>1. n + 1 \in 1..L /\ n \in 0..L /\ (n + 1) - 1 = n /\ op \in X OBVIOUS
<1>2. s \in StreamOf(K, V) /\ t = I!HandlerOp(s, op) BY <1>1, PlayedIs
<1>3. /\ sum[n] \in Md(K, V)
      /\ sum[n + 1] = IF op.do = "send" THEN sum[n] ELSE I!Merge(sum[n], op.kv)
  BY <1>1, SetByIs
<1>4. op.do \in {"header", "trailer", "send"} BY <1>1 DEF OpsOf
<1>5. A1 \subseteq 1..n /\ A2 = IF op.do = "send" THEN A1 \cup {n + 1} ELSE A1 BY DEF Sends
<1>6. LateHeader(script, n + 1) <=> LateHeader(script, n) \/ (op.do = "header" /\ A1 # {})
  <2>1. ASSUME LateHeader(script, n) PROVE LateHeader(script, n + 1) BY <1>5, <2>1 DEF LateHeader
  <2>2. ASSUME op.do = "header", A1 # {} PROVE LateHeader(script, n + 1) BY <1>5, <2>2 DEF LateHeader
  <2>3. ASSUME LateHeader(script, n + 1), ~LateHeader(script, n) PROVE op.do = "header" /\ A1 # {}
    <3>1. PICK i \in 1..(n + 1) : script[i].do = "header" /\ \E j \in A2 : j < i BY <2>3 DEF LateHeader
    <3>2. PICK j \in A2 : j < i BY <3>1
    <3>3. j \in A1 BY <1>5, <3>1, <3>2
    <3>4. i = n + 1 BY <2>3, <3>1, <3>2, <3>3 DEF LateHeader
    <3>5. QED BY <3>1, <3>3, <3>4
  <2>4. QED BY <2>1, <2>2, <2>3
<1>7. /\ s.panic <=> LateHeader(script, n)
      /\ s.headerSent <=> A1 # {}
      /\ ~s.panic => s.holder = sum[n]
      /\ \A i \in A1 : (\A j \in A1 : i <= j) => s.begin = sum[i - 1]
  BY DEF PlayedSo
<1>8. /\ s.panic => t = s
      /\ ~s.panic /\ op.do = "send" =>
           /\ ~t.panic /\ t.headerSent /\ t.holder = s.holder
           /\ t.begin = IF s.headerSent THEN s.begin ELSE s.holder
      /\ ~s.panic /\ op.do # "send" /\ ~(op.do = "header" /\ s.headerSent) =>
           /\ ~t.panic /\ t.headerSent = s.headerSent /\ t.begin = s.begin
           /\ t.holder = I!Merge(s.holder, op.kv)
      /\ ~s.panic /\ op.do = "header" /\ s.headerSent => t = [s EXCEPT !.panic = TRUE]
  <2> HIDE DEF s, t, op, L
  <2>1. QED BY <1>1, <1>2, HandlerOpDoes
<1>9. s.panic => A1 # {} BY <1>7 DEF LateHeader
<1>10. ASSUME A1 # {}
       PROVE  \A i \in A2 : (\A j \in A2 : i <= j) => i \in A1 /\ \A j \in A1 : i <= j
  <2> SUFFICES ASSUME NEW i \in A2, \A j \in A2 : i <= j PROVE i \in A1 /\ \A j \in A1 : i <= j
    OBVIOUS
  <2> HIDE DEF A1, A2, op
  <2>1. PICK a \in A1 : TRUE BY <1>10
  <2>2. a <= n /\ a \in A2 /\ a \in Nat BY <1>5, <2>1
  <2>3. i # n + 1 BY <2>2
  <2>4. QED BY <1>5, <2>3
<1>11. /\ t.panic <=> LateHeader(script, n + 1)
       /\ t.headerSent <=> A2 # {}
       /\ ~t.panic => t.holder = sum[n + 1]
       /\ \A i \in A2 : (\A j \in A2 : i <= j) => t.begin = sum[i - 1]
  <2> HIDE DEF L, s, t, sum, op, A1, A2
  <2>0. s.panic \in BOOLEAN /\ s.headerSent \in BOOLEAN /\ s = [holder |-> s.holder, headerSent |-> s.headerSent,
          begin |-> s.begin, panic |-> s.panic]
    BY <1>2 DEF StreamOf
  <2>1. CASE s.panic BY <2>1, <1>5, <1>6, <1>7, <1>8, <1>9, <1>10
  <2>2. CASE ~s.panic /\ op.do = "send"
    <3>1. CASE A1 # {} BY <2>0, <2>2, <3>1, <1>3, <1>5, <1>6, <1>7, <1>8, <1>10
    <3>2. CASE A1 = {}
      <4>1. A2 = {n + 1} BY <1>5, <2>2, <3>2
      <4>2. t.begin = sum[n] BY <1>7, <1>8, <2>0, <2>2, <3>2
      <4>3. QED BY <1>1, <1>3, <1>6, <1>7, <1>8, <2>2, <3>2, <4>1, <4>2
    <3>3. QED BY <3>1, <3>2
  <2>3. CASE ~s.panic /\ op.do # "send" /\ ~(op.do = "header" /\ s.headerSent)
    BY <2>3, <1>3, <1>4, <1>5, <1>6, <1>7, <1>8
  <2>4. CASE ~s.panic /\ op.do = "header" /\ s.headerSent
    <3>1. t.panic /\ t.headerSent = s.headerSent /\ t.begin = s.begin BY <1>8, <2>0, <2>4
    <3>2. QED BY <2>4, <3>1, <1>4, <1>5, <1>6, <1>7
  <2>5. QED BY <2>0, <2>1, <2>2, <2>3, <2>4
<1>12. QED BY <1>11 DEF PlayedSo

\* Headers and trailers reach the client as the one holder keeps them, for every
\* script of a handler.
LEMMA MetadataCarried ==
  ASSUME NEW K, NEW V, NEW X, OpsOf(K, V, X), NEW script \in Seq(X)
  PROVE  I!MetadataArrives(script)
<1> DEFINE L == Len(script)
           s == I!Played(script)[L]
           sum == I!SetBy(script)
           r == I!Metadata(script)
           Reached == {n \in Nat : n <= L => PlayedSo(script, n)}
<1>1. L \in Nat /\ DOMAIN script = 1..L OBVIOUS
<1>2. 0 \in Reached
  <2>1. Sends(script, 0) = {} /\ ~LateHeader(script, 0) BY DEF Sends, LateHeader
  <2>2. I!Played(script)[0] = I!NewStream /\ sum[0] = I!EmptyMd BY PlayedIs, SetByIs
  <2>3. PlayedSo(script, 0) BY <2>1, <2>2 DEF PlayedSo, I!NewStream
  <2>4. QED BY <2>3
<1>3. ASSUME NEW n \in Nat, n \in Reached PROVE n + 1 \in Reached
  <2> SUFFICES ASSUME n + 1 <= L PROVE PlayedSo(script, n + 1)
    OBVIOUS
  <2>1. PlayedSo(script, n) BY <1>1, <1>3
  <2>2. QED BY <2>1, PlayedStep
<1>4. PlayedSo(script, L)
  <2> HIDE DEF Reached
  <2>1. L \in Reached BY <1>1, <1>2, <1>3, NatSetInduction
  <2>2. QED BY <1>1, <2>1 DEF Reached
<1>5. s \in StreamOf(K, V) BY <1>1, PlayedIs
<1>6. /\ s.panic \in BOOLEAN /\ s.headerSent \in BOOLEAN /\ s.holder \in Md(K, V) /\ s.begin \in Md(K, V)
      /\ s = [holder |-> s.holder, headerSent |-> s.headerSent, begin |-> s.begin, panic |-> s.panic]
  BY <1>5 DEF StreamOf
<1>7. /\ r.panic = s.panic /\ r.trailer = s.holder
      /\ r.header = IF s.headerSent THEN s.begin ELSE s.holder
  <2> DEFINE t == I!flushBegin(s)
  <2>1. t.panic = s.panic /\ t.holder = s.holder /\ t.begin = IF s.headerSent THEN s.begin ELSE s.holder
    BY <1>6 DEF I!flushBegin
  <2>2. r = [panic |-> t.panic, header |-> I!Merge(I!EmptyMd, t.begin), trailer |-> I!Merge(I!EmptyMd, t.holder)]
    BY DEF I!Metadata
  <2>3. t.begin \in Md(K, V) /\ t.holder \in Md(K, V) BY <1>6, <2>1
  <2> HIDE DEF t
  <2>4. I!Merge(I!EmptyMd, t.begin) = t.begin /\ I!Merge(I!EmptyMd, t.holder) = t.holder BY <2>3, MergeEmpty
  <2>5. QED BY <2>1, <2>2, <2>4
<1> DEFINE A1 == Sends(script, L)
<1>8. /\ s.panic <=> LateHeader(script, L)
      /\ s.headerSent <=> A1 # {}
      /\ ~s.panic => s.holder = sum[L]
      /\ \A i \in A1 : (\A j \in A1 : i <= j) => s.begin = sum[i - 1]
  BY <1>4 DEF PlayedSo
<1>9. A1 = {i \in DOMAIN script : script[i].do = "send"} BY <1>1 DEF Sends
<1>10. A1 = {} => ~s.panic BY <1>8 DEF LateHeader
<1>11. r.panic <=> \E i \in DOMAIN script : script[i].do = "header" /\ \E j \in A1 : j < i
  BY <1>1, <1>7, <1>8 DEF LateHeader
<1> HIDE DEF s, r, sum, A1
<1>12. QED BY <1>6, <1>7, <1>8, <1>9, <1>10, <1>11 DEF I!MetadataArrives, L, sum, r

-----------------------------------------------------------------------------
\* Which input a step picks, and the credentials.

\* A step picks an input of one kind, or none.
LEMMA OnePick ==
  ASSUME [EdgeNext]_edgeVars
  PROVE  \/ UNCHANGED <<kind, input>>
         \/ (PickUrl /\ kind' = "url") \/ (PickGate /\ kind' = "gate")
         \/ (PickScript /\ kind' = "script") \/ (PickDeadline /\ kind' = "deadline")
         \/ (PickChain /\ kind' = "chain") \/ (PickCalls /\ kind' = "calls")
         \/ (PickStream /\ kind' = "stream") \/ (PickHeader /\ kind' = "header")
         \/ (PickProto /\ kind' = "proto") \/ (PickBody /\ kind' = "body")
         \/ (PickSealed /\ kind' = "sealed")
         \/ kind' \in {"key", "target", "answer", "messages", "specs", "tier", "chunks"}
<1>1. PickUrl => kind' = "url" BY Zenon DEF PickUrl, Pick
<1>2. PickGate => kind' = "gate" BY Zenon DEF PickGate, Pick
<1>3. PickScript => kind' = "script" BY Zenon DEF PickScript, Pick
<1>4. PickDeadline => kind' = "deadline" BY Zenon DEF PickDeadline, Pick
<1>5. PickChain => kind' = "chain" BY Zenon DEF PickChain, Pick
<1>6. PickCalls => kind' = "calls" BY Zenon DEF PickCalls, Pick
<1>7. PickKey => kind' = "key" BY Zenon DEF PickKey, Pick
<1>8. PickTarget => kind' = "target" BY Zenon DEF PickTarget, Pick
<1>9. PickStream => kind' = "stream" BY Zenon DEF PickStream, Pick
<1>10. PickHeader => kind' = "header" BY Zenon DEF PickHeader, Pick
<1>11. PickProto => kind' = "proto" BY SMT DEF PickProto, Pick
<1>12. PickBody => kind' = "body" BY Zenon DEF PickBody, Pick
<1>13. PickSealed => kind' = "sealed" BY Zenon DEF PickSealed, Pick
<1>14. PickAnswer => kind' = "answer" BY Zenon DEF PickAnswer, Pick
<1>15. PickMessages => kind' = "messages" BY Zenon DEF PickMessages, Pick
<1>16. PickSpecs => kind' = "specs" BY Zenon DEF PickSpecs, Pick
<1>17. PickTier => kind' = "tier" BY Zenon DEF PickTier, Pick
<1>18. PickChunks => kind' = "chunks" BY Zenon DEF PickChunks, Pick
<1>19. Traffic => UNCHANGED <<kind, input>> BY DEF Traffic
<1>20. UNCHANGED edgeVars => UNCHANGED <<kind, input>> BY DEF edgeVars
<1>21. QED BY <1>1, <1>2, <1>3, <1>4, <1>5, <1>6, <1>7, <1>8, <1>9, <1>10, <1>11, <1>12, <1>13, <1>14, <1>15,
              <1>16, <1>17, <1>18, <1>19, <1>20 DEF EdgeNext

\* What the tokens of the run claim, who may have signed them, and the tokens.
Claims == [sub : {"s"}, exp : Int]
Secrets == {"k1", "k2"}
Algs == {"HS256", "none"}
Jwt == [header : Algs, claims : Claims, sig : Secrets \X Algs \X Claims]
Words == {"t1", "t2", "t3", "t4", "t5", "t6"}

\* A token that IssueHS256 makes.
LEMMA Issued ==
  ASSUME NEW secret \in Secrets, NEW claims \in Claims
  PROVE  A!IssueHS256(secret, claims) \in Jwt
BY DEF A!IssueHS256, A!Sign, Jwt, Algs

\* The table of tokens the run picks from, forged and expired ones among them.
LEMMA JwtsTyped == Jwts \in [Words -> Jwt]
<1>1. \A e \in Int : [sub |-> "s", exp |-> e] \in Claims BY DEF Claims
<1>2. DOMAIN Jwts = Words BY DEF Jwts, Words
<1>3. Jwts.t1 \in Jwt BY <1>1, Issued DEF Jwts, Secrets
<1>4. Jwts.t2 \in Jwt BY <1>1, Issued DEF Jwts, Secrets
<1>5. Jwts.t3 \in Jwt BY <1>1, Issued DEF Jwts, Secrets
<1>6. Jwts.t6 \in Jwt BY <1>1, Issued DEF Jwts, Secrets
<1>7. Jwts.t4 \in Jwt
  <2> DEFINE j == A!IssueHS256("k1", [sub |-> "s", exp |-> 5])
  <2>1. j \in Jwt BY <1>1, Issued DEF Secrets
  <2>2. Jwts.t4 = [j EXCEPT !.claims.exp = 0] BY DEF Jwts
  <2> HIDE DEF j
  <2>3. QED BY <2>1, <2>2 DEF Jwt, Claims
<1>8. Jwts.t5 \in Jwt
  <2> DEFINE c == [sub |-> "s", exp |-> 0]
  <2>1. c \in Claims BY <1>1
  <2>2. Jwts.t5 = [header |-> "none", claims |-> c, sig |-> <<"k1", "none", c>>] BY DEF Jwts, A!Sign
  <2> HIDE DEF c
  <2>3. QED BY <2>1, <2>2 DEF Jwt, Algs, Secrets
<1>9. Jwts = [k \in DOMAIN Jwts |-> Jwts[k]] BY DEF Jwts
<1> HIDE DEF Jwts, Jwt
<1>10. QED BY <1>2, <1>3, <1>4, <1>5, <1>6, <1>7, <1>8, <1>9 DEF Words

\* Every URL the run picks.
LEMMA UrlsPass ==
  ASSUME NEW u \in Urls, NEW tok, NEW h
  PROVE  A!TokenArrives(u, tok, h)
<1> DEFINE Q == {<< >>, [token |-> "old"], [room |-> "r"]}
<1>0. u \in [scheme : {"", "http", "https", "ws", "wss"}, host : {"h"}, path : {"", "/", "/x"}, query : Q]
  BY DEF Urls
<1> HIDE DEF Q
<1>1. u = [scheme |-> u.scheme, host |-> u.host, path |-> u.path, query |-> u.query]
  BY <1>0
<1>2. QED BY <1>1, TokenReaches

\* Every gate and request the run picks.
LEMMA GatesPass ==
  ASSUME NEW secret, NEW st \in Statics, NEW now \in 4..6, NEW r
  PROVE  A!GateExact(secret, st, Jwts, now, r)
<1> DEFINE X == {"", "x", "t1", "t2"}
<1>1. st \in Seq(Seq(X))
  <2>1. <<"t1", "x">> \in Seq(X) /\ <<"t2", "x">> \in Seq(X) /\ <<"t2", "">> \in Seq(X)
    OBVIOUS
  <2>2. <<"", "x">> \in Seq(X) /\ <<"t1">> \in Seq(X) OBVIOUS
  <2>3. \A a, b \in Seq(X) : <<a>> \in Seq(Seq(X)) /\ <<a, b>> \in Seq(Seq(X))
    <3> DEFINE Y == Seq(X)
    <3> HIDE DEF Y
    <3>1. \A a, b \in Y : <<a>> \in Seq(Y) /\ <<a, b>> \in Seq(Y) OBVIOUS
    <3>2. QED BY <3>1 DEF Y
  <2> HIDE DEF X
  <2>4. <<>> \in Seq(Seq(X)) OBVIOUS
  <2>5. QED BY <2>1, <2>2, <2>3, <2>4, Zenon DEF Statics
<1>2. \A c \in Claims : c.exp \in Int BY DEF Claims
<1>3. Jwts \in [Words -> [header : Algs, claims : Claims, sig : Secrets \X Algs \X Claims]]
  BY JwtsTyped DEF Jwt
<1>4. now \in Int OBVIOUS
<1> HIDE DEF X
<1>5. QED BY <1>1, <1>2, <1>3, <1>4, GateOpens

\* [](CredentialsExact): signal.WS delivers the token it was given and the signal
\* server admits exactly the credentials its flags name, at every clock and for
\* every list of static ones.
THEOREM CredentialsHold == EdgeSpec => []CredentialsExact
<1>1. EdgeInit => CredentialsExact BY DEF EdgeInit, CredentialsExact
<1>2. CredentialsExact /\ [EdgeNext]_edgeVars => CredentialsExact'
  <2> SUFFICES ASSUME CredentialsExact, [EdgeNext]_edgeVars PROVE CredentialsExact'
    OBVIOUS
  <2>1. CASE UNCHANGED <<kind, input>> BY <2>1 DEF CredentialsExact
  <2>2. CASE PickUrl /\ kind' = "url"
    <3>1. PICK u \in Urls, tok \in {"", "t1", "t2"}, h \in Headers : input' = <<u, tok, h>>
      BY <2>2 DEF PickUrl, Pick
    <3>2. A!TokenArrives(u, tok, h) BY UrlsPass
    <3>3. input'[1] = u /\ input'[2] = tok /\ input'[3] = h BY <3>1
    <3>4. QED BY <2>2, <3>2, <3>3 DEF CredentialsExact
  <2>3. CASE PickGate /\ kind' = "gate"
    <3>1. PICK secret \in {"", "k1", "k2"}, st \in Statics, now \in 4..6, h \in Headers,
               q \in {<< >>} \cup [{"token"} -> {"t1", "t2", "t3", "t4", "t5", "t6", "zz"}] :
             input' = <<secret, st, now, [authorization |-> h, query |-> q]>>
      BY <2>3, Zenon DEF PickGate, Pick
    <3> DEFINE r == [authorization |-> h, query |-> q]
    <3>2. A!GateExact(secret, st, Jwts, now, r) BY GatesPass
    <3>3. input'[1] = secret /\ input'[2] = st /\ input'[3] = now /\ input'[4] = r BY <3>1
    <3> HIDE DEF r
    <3>4. QED BY <2>3, <3>2, <3>3 DEF CredentialsExact
  <2>4. CASE kind' \notin {"url", "gate"} BY <2>4 DEF CredentialsExact
  <2>5. QED BY <2>1, <2>2, <2>3, <2>4, OnePick
<1>3. QED BY <1>1, <1>2, PTL DEF EdgeSpec

-----------------------------------------------------------------------------
\* The data that rides along with a call.

\* The scripts the run picks are scripts of such operations.
LEMMA ScriptsPass ==
  ASSUME NEW script \in UpTo(Ops, MaxList)
  PROVE  I!MetadataArrives(script)
<1> DEFINE V == {"1", "2", "3"}
           K == {"x", "y"}
           M == Md(K, V)
<1>1. Kv \subseteq M
  <2>1. <<"1">> \in Seq(V) /\ <<"2">> \in Seq(V) /\ <<"3">> \in Seq(V) OBVIOUS
  <2> DEFINE a == [x |-> <<"1">>]
             b == [x |-> <<"2">>, y |-> <<"3">>]
  <2>2. a \in M
    <3>1. DOMAIN a = {"x"} /\ a.x = <<"1">> /\ a = [k \in DOMAIN a |-> a[k]] OBVIOUS
    <3> HIDE DEF a, M
    <3>2. a \in [DOMAIN a -> Seq(V)] /\ DOMAIN a \subseteq K BY <2>1, <3>1
    <3>3. QED BY <3>2, MdIs DEF M
  <2>3. b \in M
    <3>1. DOMAIN b = {"x", "y"} /\ b.x = <<"2">> /\ b.y = <<"3">> /\ b = [k \in DOMAIN b |-> b[k]] OBVIOUS
    <3> HIDE DEF b, M
    <3>2. b \in [DOMAIN b -> Seq(V)] /\ DOMAIN b \subseteq K BY <2>1, <3>1
    <3>3. QED BY <3>2, MdIs DEF M
  <2> HIDE DEF M
  <2>6. QED BY <2>2, <2>3 DEF Kv
<1> HIDE DEF V, K, M
<1>2. OpsOf(K, V, Ops)
  <2>1. \A op \in Ops : op.do \in {"header", "trailer", "send"} /\ (op.do # "send" => op.kv \in M)
    BY <1>1 DEF Ops
  <2>2. QED BY <2>1 DEF OpsOf, M
<1>3. script \in Seq(Ops)
  <2> HIDE DEF Ops
  <2>1. PICK m \in 0..MaxList : script \in [1..m -> Ops] BY DEF UpTo
  <2>2. m \in Nat BY EdgeBounds
  <2>3. QED BY <2>1, <2>2
<1> HIDE DEF Ops
<1>4. QED BY <1>2, <1>3, MetadataCarried

\* [](CallDataSurvives): headers and trailers of a handler of any length arrive as
\* ServerStream keeps them, and deadline_ms never extends a deadline but in the
\* two ways DeadlineNotLater names.
THEOREM CallDataHolds == EdgeSpec => []CallDataSurvives
<1>1. EdgeInit => CallDataSurvives BY DEF EdgeInit, CallDataSurvives
<1>2. CallDataSurvives /\ [EdgeNext]_edgeVars => CallDataSurvives'
  <2> SUFFICES ASSUME CallDataSurvives, [EdgeNext]_edgeVars PROVE CallDataSurvives'
    OBVIOUS
  <2>1. CASE UNCHANGED <<kind, input>> BY <2>1 DEF CallDataSurvives
  <2>2. CASE PickScript /\ kind' = "script"
    <3>1. input' \in UpTo(Ops, MaxList) BY <2>2, Zenon DEF PickScript, Pick
    <3>2. I!MetadataArrives(input') BY <3>1, ScriptsPass
    <3>3. kind' # "deadline" BY <2>2
    <3>4. QED BY <3>2, <3>3 DEF CallDataSurvives
  <2>3. CASE PickDeadline /\ kind' = "deadline"
    <3>1. input' \in (-80)..80 BY <2>3, Zenon DEF PickDeadline, Pick
    <3>2. input' \in Int BY <3>1
    <3>3. I!DeadlineNotLater(input', 4) BY <3>2, DeadlineWidths
    <3>4. kind' # "script" BY <2>3
    <3>5. QED BY <3>3, <3>4 DEF CallDataSurvives
  <2>4. CASE kind' \notin {"script", "deadline"} BY <2>4 DEF CallDataSurvives
  <2>5. QED BY <2>1, <2>2, <2>3, <2>4, OnePick
<1>3. QED BY <1>1, <1>2, PTL DEF EdgeSpec

-----------------------------------------------------------------------------
\* Interceptors, one at a time.

\* The spans, the labels of a code and the worlds: what interceptors keep.
Spans == {ToString(n) : n \in Nat}
Labels(C) == {I!codeLabel(c, 8) : c \in C}
World(X, C) == [hdr : Md({I!TraceKey}, Spans), spans : Nat, total : Seq(Labels(C)), logs : Seq(C),
                inFlight : Int, entered : Seq(X)]

\* The parts of a world.
LEMMA WorldIs ==
  ASSUME NEW X, NEW C, NEW w \in World(X, C)
  PROVE  /\ w.hdr \in Md({I!TraceKey}, Spans) /\ w.spans \in Nat /\ w.total \in Seq(Labels(C))
         /\ w.logs \in Seq(C) /\ w.inFlight \in Int /\ w.entered \in Seq(X)
<1> DEFINE M == Md({I!TraceKey}, Spans)
           TL == Seq(Labels(C))
           LL == Seq(C)
           EE == Seq(X)
<1>1. World(X, C) = [hdr : M, spans : Nat, total : TL, logs : LL, inFlight : Int, entered : EE] BY DEF World
<1> HIDE DEF M, TL, LL, EE
<1>2. QED BY <1>1 DEF M, TL, LL, EE

\* And a world from its parts.
LEMMA WorldMade ==
  ASSUME NEW X, NEW C, NEW hdr \in Md({I!TraceKey}, Spans), NEW spans \in Nat, NEW total \in Seq(Labels(C)),
         NEW logs \in Seq(C), NEW inFlight \in Int, NEW entered \in Seq(X)
  PROVE  [hdr |-> hdr, spans |-> spans, total |-> total, logs |-> logs, inFlight |-> inFlight,
          entered |-> entered] \in World(X, C)
BY DEF World

\* A world is its parts.
LEMMA WorldParts ==
  ASSUME NEW X, NEW C, NEW w \in World(X, C)
  PROVE  w = [hdr |-> w.hdr, spans |-> w.spans, total |-> w.total, logs |-> w.logs, inFlight |-> w.inFlight,
              entered |-> w.entered]
<1> DEFINE M == Md({I!TraceKey}, Spans)
           TL == Seq(Labels(C))
           LL == Seq(C)
           EE == Seq(X)
<1>1. World(X, C) = [hdr : M, spans : Nat, total : TL, logs : LL, inFlight : Int, entered : EE] BY DEF World
<1> HIDE DEF M, TL, LL, EE
<1>2. QED BY <1>1

\* What entering an interceptor does to what is observed, and to the trace.
Noted(side, w, k, t) ==
  /\ t.entered = Append(w.entered, k) /\ t.total = w.total /\ t.logs = w.logs
  /\ t.inFlight = w.inFlight + (IF k = "metrics" /\ side = "server" THEN 1 ELSE 0)
Traced(side, w, k, t) ==
  IF k = "trace" /\ side = "client"
    THEN /\ t.spans = w.spans + 1
         /\ I!At(t.hdr, I!TraceKey) = I!At(w.hdr, I!TraceKey) \o <<ToString(w.spans + 1)>>
    ELSE t.spans = w.spans /\ t.hdr = w.hdr

\* What each interceptor does on the way in: TraceUnaryClient appends a span to
\* the header map, the server metrics count a call in flight.
LEMMA EnterDoes ==
  ASSUME NEW X, NEW C, NEW w \in World(X, C), NEW k \in X, NEW side, NEW t, t = I!Enter(side, w, k)
  PROVE  t \in World(X, C) /\ Noted(side, w, k, t) /\ Traced(side, w, k, t)
<1> USE DEF Noted, Traced
<1> DEFINE M == Md({I!TraceKey}, Spans)
           e == [w EXCEPT !.entered = Append(@, k)]
           one == [x \in {I!TraceKey} |-> <<ToString(w.spans + 1)>>]
           m == I!Merge(w.hdr, one)
<1>0. w = [hdr |-> w.hdr, spans |-> w.spans, total |-> w.total, logs |-> w.logs, inFlight |-> w.inFlight,
           entered |-> w.entered]
  BY WorldParts
<1>1. /\ w.hdr \in M /\ w.spans \in Nat /\ w.inFlight \in Int /\ w.entered \in Seq(X)
      /\ w.total \in Seq(Labels(C)) /\ w.logs \in Seq(C)
  BY WorldIs
<1>2. one \in M /\ I!At(one, I!TraceKey) = <<ToString(w.spans + 1)>>
  <2>1. ToString(w.spans + 1) \in Spans BY <1>1 DEF Spans
  <2>2. one \in [{I!TraceKey} -> Seq(Spans)] /\ DOMAIN one = {I!TraceKey} BY <2>1
  <2>3. one \in M BY <2>2, MdIs
  <2>4. QED BY <2>3 DEF I!At
<1>3. m \in M /\ I!At(m, I!TraceKey) = I!At(w.hdr, I!TraceKey) \o <<ToString(w.spans + 1)>>
  <2> DEFINE a == w.hdr
             K == {I!TraceKey}
  <2>1. a \in Md(K, Spans) /\ one \in Md(K, Spans) BY <1>1, <1>2
  <2> HIDE DEF one, a, K
  <2>2. I!Merge(a, one) \in Md(K, Spans) /\ \A x : I!At(I!Merge(a, one), x) = I!At(a, x) \o I!At(one, x)
    BY <2>1, MergeIsMd
  <2>3. I!At(I!Merge(a, one), I!TraceKey) = I!At(a, I!TraceKey) \o I!At(one, I!TraceKey) BY <2>2
  <2>4. QED BY <1>2, <2>2, <2>3 DEF a, K
<1>4. e = [hdr |-> w.hdr, spans |-> w.spans, total |-> w.total, logs |-> w.logs, inFlight |-> w.inFlight,
           entered |-> Append(w.entered, k)]
  <2> DEFINE h == w.hdr
             n == w.spans
             to == w.total
             lo == w.logs
             i == w.inFlight
             en == w.entered
  <2>1. w = [hdr |-> h, spans |-> n, total |-> to, logs |-> lo, inFlight |-> i, entered |-> en] BY <1>0
  <2> HIDE DEF h, n, to, lo, i, en
  <2>2. e = [hdr |-> h, spans |-> n, total |-> to, logs |-> lo, inFlight |-> i, entered |-> Append(en, k)]
    BY <2>1
  <2>3. QED BY <2>2 DEF h, n, to, lo, i, en
<1>5. Append(w.entered, k) \in Seq(X) /\ w.spans + 1 \in Nat /\ w.inFlight + 1 \in Int BY <1>1
<1>6. CASE k = "trace" /\ side = "client"
  <2>1. t = I!TraceUnaryClient(e) BY <1>6, Zenon DEF I!Enter
  <2>2. t = [hdr |-> m, spans |-> w.spans + 1, total |-> w.total, logs |-> w.logs, inFlight |-> w.inFlight,
             entered |-> Append(w.entered, k)]
    BY <1>4, <2>1 DEF I!TraceUnaryClient
  <2> DEFINE n == w.spans + 1
             en == Append(w.entered, k)
  <2> HIDE DEF m, M, e, one, n, en
  <2>3. t \in World(X, C)
    <3>1. n \in Nat /\ en \in Seq(X) BY <1>5 DEF n, en
    <3>2. QED BY <1>1, <1>3, <2>2, <3>1, WorldMade DEF M, n, en
  <2>4. k # "metrics" BY <1>6
  <2>a. t = [hdr |-> m, spans |-> n, total |-> w.total, logs |-> w.logs, inFlight |-> w.inFlight,
             entered |-> en]
    BY <2>2 DEF n, en
  <2>5. /\ t.entered = en /\ t.total = w.total /\ t.logs = w.logs /\ t.inFlight = w.inFlight
        /\ t.spans = n /\ t.hdr = m
    BY <2>a
  <2>6. t.inFlight = w.inFlight + (IF k = "metrics" /\ side = "server" THEN 1 ELSE 0)
    <3>1. w.inFlight + (IF k = "metrics" /\ side = "server" THEN 1 ELSE 0) = w.inFlight BY <1>1, <2>4
    <3>2. QED BY <2>5, <3>1
  <2>7. t.entered = Append(w.entered, k) /\ t.total = w.total /\ t.logs = w.logs BY <2>5 DEF en
  <2>8. t.spans = w.spans + 1 BY <2>5 DEF n
  <2>9. I!At(t.hdr, I!TraceKey) = I!At(w.hdr, I!TraceKey) \o <<ToString(w.spans + 1)>> BY <1>3, <2>5
  <2>10. QED BY <1>6, <2>3, <2>6, <2>7, <2>8, <2>9, Zenon
<1>7. CASE k = "metrics" /\ side = "server"
  <2>1. t = I!MetricsServerStream(e)
    <3>1. ~(k = "trace" /\ side = "client") BY <1>7
    <3>2. QED BY <1>7, <3>1, Zenon DEF I!Enter
  <2>2. t = [hdr |-> w.hdr, spans |-> w.spans, total |-> w.total, logs |-> w.logs, inFlight |-> w.inFlight + 1,
             entered |-> Append(w.entered, k)]
    BY <1>4, <2>1 DEF I!MetricsServerStream
  <2> DEFINE i == w.inFlight + 1
             en == Append(w.entered, k)
  <2> HIDE DEF m, M, e, one, i, en
  <2>3. t \in World(X, C)
    <3>1. i \in Int /\ en \in Seq(X) BY <1>5 DEF i, en
    <3>2. t = [hdr |-> w.hdr, spans |-> w.spans, total |-> w.total, logs |-> w.logs, inFlight |-> i,
               entered |-> en]
      BY <2>2 DEF i, en
    <3>3. QED BY <1>1, <3>1, <3>2, WorldMade DEF M
  <2>4. ~(k = "trace" /\ side = "client") BY <1>7
  <2>5. QED BY <1>7, <2>2, <2>3, <2>4
<1>8. CASE ~(k = "trace" /\ side = "client") /\ ~(k = "metrics" /\ side = "server")
  <2>1. t = e BY <1>8, Zenon DEF I!Enter
  <2>2. t = [hdr |-> w.hdr, spans |-> w.spans, total |-> w.total, logs |-> w.logs, inFlight |-> w.inFlight,
             entered |-> Append(w.entered, k)]
    BY <1>4, <2>1
  <2> HIDE DEF m, M, e, one
  <2>3. t \in World(X, C) BY <1>1, <1>5, <2>2, WorldMade DEF M
  <2>4. QED BY <1>1, <1>8, <2>2, <2>3
<1>9. QED BY <1>6, <1>7, <1>8

\* What each interceptor does on the way out: one count and one log line each.
LEMMA LeaveDoes ==
  ASSUME NEW X, NEW C, NEW w \in World(X, C), NEW k \in X, NEW side, NEW code \in C,
         NEW t, t = I!Leave(side, w, k, code)
  PROVE  /\ t \in World(X, C)
         /\ t.entered = w.entered /\ t.spans = w.spans /\ t.hdr = w.hdr
         /\ t.total = IF k = "metrics" THEN Append(w.total, I!codeLabel(code, 8)) ELSE w.total
         /\ t.logs = IF k = "log" THEN Append(w.logs, code) ELSE w.logs
         /\ t.inFlight = w.inFlight - (IF k = "metrics" /\ side = "server" THEN 1 ELSE 0)
<1> DEFINE lab == I!codeLabel(code, 8)
           TL == Labels(C)
           M == Md({I!TraceKey}, Spans)
<1>1. lab \in TL BY DEF Labels
<1>0. w = [hdr |-> w.hdr, spans |-> w.spans, total |-> w.total, logs |-> w.logs, inFlight |-> w.inFlight,
           entered |-> w.entered]
  BY WorldParts
<1>2. /\ w.hdr \in M /\ w.spans \in Nat /\ w.inFlight \in Int /\ w.entered \in Seq(X)
      /\ w.total \in Seq(TL) /\ w.logs \in Seq(C)
  BY WorldIs
<1> HIDE DEF lab, TL, M
<1>3. Append(w.total, lab) \in Seq(TL) /\ Append(w.logs, code) \in Seq(C) BY <1>1, <1>2
<1>4. CASE k = "metrics"
  <2>1. t = I!MetricsDone(side, w, code) BY <1>4, Zenon DEF I!Leave
  <2>2. t = [w EXCEPT !.total = Append(@, lab), !.inFlight = IF side = "server" THEN @ - 1 ELSE @]
    BY <2>1 DEF I!MetricsDone, lab
  <2> DEFINE f == IF side = "server" THEN w.inFlight - 1 ELSE w.inFlight
  <2>3. t = [hdr |-> w.hdr, spans |-> w.spans, total |-> Append(w.total, lab), logs |-> w.logs,
             inFlight |-> f, entered |-> w.entered]
    BY <1>0, <2>2
  <2>4. f \in Int /\ f = w.inFlight - (IF side = "server" THEN 1 ELSE 0) BY <1>2
  <2> HIDE DEF f
  <2> DEFINE to == Append(w.total, lab)
  <2> HIDE DEF to
  <2>5. t \in World(X, C)
    <3>1. to \in Seq(Labels(C)) BY <1>3 DEF to, TL
    <3>2. t = [hdr |-> w.hdr, spans |-> w.spans, total |-> to, logs |-> w.logs, inFlight |-> f,
               entered |-> w.entered]
      BY <2>3 DEF to
    <3>3. /\ w.hdr \in Md({I!TraceKey}, Spans) /\ w.spans \in Nat /\ w.logs \in Seq(C) /\ w.entered \in Seq(X)
          /\ f \in Int
      BY <1>2, <2>4 DEF M
    <3>4. QED BY <3>1, <3>2, <3>3, WorldMade, Zenon
  <2>6. k # "log" BY <1>4
  <2>7. QED BY <1>4, <2>3, <2>4, <2>5, <2>6 DEF lab
<1>5. CASE k = "log"
  <2>1. k # "metrics" BY <1>5
  <2>2. t = I!LogDone(w, code) BY <1>5, <2>1, Zenon DEF I!Leave
  <2>3. t = [hdr |-> w.hdr, spans |-> w.spans, total |-> w.total, logs |-> Append(w.logs, code),
             inFlight |-> w.inFlight, entered |-> w.entered]
    BY <1>0, <2>2 DEF I!LogDone
  <2>4. t \in World(X, C) BY <1>2, <1>3, <2>3, WorldMade DEF M, TL
  <2>5. QED BY <1>2, <1>5, <2>1, <2>3, <2>4
<1>6. CASE k # "metrics" /\ k # "log"
  <2>1. t = w BY <1>6, Zenon DEF I!Leave
  <2>2. QED BY <1>2, <1>6, <2>1
<1>7. QED BY <1>4, <1>5, <1>6

\* The chain of interceptors is the list itself.
LEMMA ChainIs ==
  ASSUME NEW X, NEW is \in Seq(X)
  PROVE  I!chain(is) = is
<1> DEFINE L == Len(is)
           S == Seq(X)
           d == [p \in S \X (1..L) |-> <<is[L - p[2] + 1]>> \o p[1]]
<1>1. L \in Nat /\ (\A i \in 1..L : is[i] \in X /\ L - i + 1 \in 1..L) /\ is \in S /\ <<>> \in S OBVIOUS
<1>2. \A s \in S, i \in 1..L : <<is[L - i + 1]>> \o s \in S
  <2> SUFFICES ASSUME NEW s \in S, NEW i \in 1..L PROVE <<is[L - i + 1]>> \o s \in S
    OBVIOUS
  <2>1. <<is[L - i + 1]>> \in S BY <1>1
  <2>2. QED BY <2>1
<1> HIDE DEF S, L
<1>3. d \in [S \X (1..L) -> S] BY <1>2
<1>4. \A s \in S, i \in 1..L : d[<<s, i>>] = <<is[L - i + 1]>> \o s OBVIOUS
<1> HIDE DEF d
<1>5. PICK f \in [0..L -> S] : f[0] = <<>> /\ \A i \in 1..L : f[i] = d[<<f[i - 1], i>>]
  <2>1. Steps(S, <<>>, L, d) # {} BY <1>1, <1>3, Iterates
  <2>2. QED BY <2>1 DEF Steps
<1>6. \A i \in 1..L : f[i] = <<is[L - i + 1]>> \o f[i - 1]
  <2>1. \A i \in 1..L : f[i - 1] \in S BY <1>1, <1>5
  <2>2. QED BY <1>4, <1>5, <2>1
<1> DEFINE Is(g) == g = [n \in 0..L |-> IF n = 0 THEN <<>> ELSE <<is[L - n + 1]>> \o g[n - 1]]
<1>7. Is(f)
  <2>1. f = [n \in 0..L |-> f[n]] BY <1>5
  <2>2. \A n \in 0..L : f[n] = IF n = 0 THEN <<>> ELSE <<is[L - n + 1]>> \o f[n - 1] BY <1>1, <1>5, <1>6
  <2>3. QED BY <2>1, <2>2
<1>8. I!Wrapped(is) = CHOOSE g : Is(g) BY Zenon DEF I!Wrapped, L
<1>9. Is(I!Wrapped(is))
  <2> HIDE DEF Is
  <2>1. QED BY <1>7, <1>8, Zenon
<1> DEFINE h == I!Wrapped(is)
<1> HIDE DEF h
<1>10. h[0] = <<>> /\ \A i \in 1..L : h[i] = <<is[L - i + 1]>> \o h[i - 1]
  <2>1. h = [n \in 0..L |-> IF n = 0 THEN <<>> ELSE <<is[L - n + 1]>> \o h[n - 1]] BY <1>9 DEF h
  <2>2. \A n \in 0..L : h[n] = IF n = 0 THEN <<>> ELSE <<is[L - n + 1]>> \o h[n - 1] BY <2>1
  <2>3. 0 \in 0..L /\ \A i \in 1..L : i \in 0..L /\ i # 0 BY <1>1
  <2>4. QED BY <2>2, <2>3
<1> HIDE DEF Is
<1> DEFINE Tail0(s, n) == s \in S /\ Len(s) = n /\ \A i \in 1..n : s[i] = is[L - n + i]
           Reached == {n \in Nat : n <= L => Tail0(h[n], n)}
<1>11. 0 \in Reached
  <2>1. <<>> \in S /\ Len(<<>>) = 0 BY <1>1
  <2>2. Tail0(h[0], 0) BY <1>10, <2>1
  <2> HIDE DEF Tail0
  <2>3. QED BY <2>2
<1>12. ASSUME NEW n \in Nat, n \in Reached PROVE n + 1 \in Reached
  <2> SUFFICES ASSUME n + 1 <= L PROVE Tail0(h[n + 1], n + 1)
    OBVIOUS
  <2>1. Tail0(h[n], n) /\ n + 1 \in 1..L /\ (n + 1) - 1 = n BY <1>1, <1>12
  <2> DEFINE s == h[n]
             a == is[L - (n + 1) + 1]
             t == <<a>> \o s
  <2>2. h[n + 1] = t BY <1>10, <2>1
  <2>3. a \in X /\ s \in S BY <1>1, <2>1
  <2>4. t \in Seq(X) /\ Len(t) = n + 1 /\ t[1] = a /\ \A i \in 2..(n + 1) : t[i] = s[i - 1]
    <3> HIDE DEF a, s
    <3>1. <<a>> \in Seq(X) /\ s \in Seq(X) /\ Len(<<a>>) = 1 /\ Len(s) = n BY <2>1, <2>3 DEF S, s
    <3>2. QED BY <3>1
  <2>5. \A i \in 1..(n + 1) : t[i] = is[L - (n + 1) + i]
    <3> HIDE DEF t
    <3> SUFFICES ASSUME NEW i \in 1..(n + 1) PROVE t[i] = is[L - (n + 1) + i]
      OBVIOUS
    <3>1. CASE i = 1 BY <2>4, <3>1
    <3>2. CASE i # 1
      <4>1. i \in 2..(n + 1) /\ i - 1 \in 1..n /\ L - n + (i - 1) = L - (n + 1) + i BY <1>1, <3>2
      <4>2. t[i] = s[i - 1] BY <2>4, <4>1
      <4>3. s[i - 1] = is[L - n + (i - 1)] BY <2>1, <4>1
      <4>4. QED BY <4>1, <4>2, <4>3
    <3>3. QED BY <3>1, <3>2
  <2>6. QED BY <2>2, <2>4, <2>5 DEF S
<1>13. Tail0(h[L], L)
  <2> HIDE DEF Reached
  <2>1. L \in Reached BY <1>1, <1>11, <1>12, NatSetInduction
  <2>2. QED BY <1>1, <2>1 DEF Reached
<1>14. h[L] = is
  <2> DEFINE s == h[L]
  <2>1. s \in Seq(X) /\ Len(s) = L /\ \A i \in 1..L : s[i] = is[i]
    <3>1. \A i \in 1..L : L - L + i = i BY <1>1
    <3>2. QED BY <1>13, <3>1 DEF S
  <2> HIDE DEF s, h
  <2>2. Len(s) = Len(is) /\ \A i \in 1..Len(s) : s[i] = is[i] BY <2>1 DEF L
  <2>3. s = is BY <2>1, <2>2
  <2>4. QED BY <2>3 DEF s
<1>15. QED BY <1>14 DEF I!chain, h, L

-----------------------------------------------------------------------------
\* A chain of interceptors: each observes a call once.

\* The way in, interceptor by interceptor.
LEMMA EnteredIs ==
  ASSUME NEW X, NEW C, NEW w \in World(X, C), NEW h \in Seq(X), NEW side
  PROVE  /\ I!Entered(side, w, h) \in [0..Len(h) -> World(X, C)]
         /\ I!Entered(side, w, h)[0] = w
         /\ \A i \in 1..Len(h) : I!Entered(side, w, h)[i] = I!Enter(side, I!Entered(side, w, h)[i - 1], h[i])
<1> DEFINE L == Len(h)
           S == World(X, C)
           d == [p \in S \X (1..L) |-> I!Enter(side, p[1], h[p[2]])]
<1>1. L \in Nat /\ \A i \in 1..L : h[i] \in X OBVIOUS
<1>2. \A s \in S, i \in 1..L : I!Enter(side, s, h[i]) \in S BY <1>1, EnterDoes
<1> HIDE DEF S, L
<1>3. d \in [S \X (1..L) -> S] BY <1>2
<1>4. \A s \in S, i \in 1..L : d[<<s, i>>] = I!Enter(side, s, h[i]) OBVIOUS
<1>5. w \in S BY DEF S
<1> HIDE DEF d
<1>6. PICK f \in [0..L -> S] : f[0] = w /\ \A i \in 1..L : f[i] = d[<<f[i - 1], i>>]
  <2>1. Steps(S, w, L, d) # {} BY <1>1, <1>3, <1>5, Iterates
  <2>2. QED BY <2>1 DEF Steps
<1>7. \A i \in 1..L : f[i] = I!Enter(side, f[i - 1], h[i])
  <2>1. \A i \in 1..L : f[i - 1] \in S BY <1>1, <1>6
  <2>2. QED BY <1>4, <1>6, <2>1
<1> DEFINE Is(g) == g = [n \in 0..L |-> IF n = 0 THEN w ELSE I!Enter(side, g[n - 1], h[n])]
<1>8. Is(f)
  <2>1. f = [n \in 0..L |-> f[n]] BY <1>6
  <2>2. \A n \in 0..L : f[n] = IF n = 0 THEN w ELSE I!Enter(side, f[n - 1], h[n]) BY <1>1, <1>6, <1>7
  <2>3. QED BY <2>1, <2>2
<1>9. I!Entered(side, w, h) = CHOOSE g : Is(g) BY Zenon DEF I!Entered, L
<1>10. Is(I!Entered(side, w, h))
  <2> HIDE DEF Is
  <2>1. QED BY <1>8, <1>9, Zenon
<1> DEFINE s == I!Entered(side, w, h)
<1> HIDE DEF s
<1>11. s = [n \in 0..L |-> IF n = 0 THEN w ELSE I!Enter(side, s[n - 1], h[n])] BY <1>10 DEF s
<1>12. s[0] = w /\ \A i \in 1..L : s[i] = I!Enter(side, s[i - 1], h[i])
  <2>1. \A n \in 0..L : s[n] = IF n = 0 THEN w ELSE I!Enter(side, s[n - 1], h[n]) BY <1>11
  <2>2. 0 \in 0..L /\ \A i \in 1..L : i \in 0..L /\ i # 0 BY <1>1
  <2>3. QED BY <2>1, <2>2
<1>13. s = [n \in 0..L |-> s[n]] BY <1>11
<1> HIDE DEF Is
<1>14. s \in [0..L -> S]
  <2>1. Follows(s, S, w, L, d) BY <1>1, <1>4, <1>12, <1>13 DEF Follows
  <2>2. QED BY <1>1, <1>3, <1>5, <2>1, StaysIn
<1>15. QED BY <1>12, <1>14 DEF L, S, s

\* The way out, innermost first.
LEMMA LeftIs ==
  ASSUME NEW X, NEW C, NEW w \in World(X, C), NEW h \in Seq(X), NEW side, NEW code \in C
  PROVE  /\ I!Left(side, w, h, code) \in [0..Len(h) -> World(X, C)]
         /\ I!Left(side, w, h, code)[0] = w
         /\ \A i \in 1..Len(h) : I!Left(side, w, h, code)[i]
                                   = I!Leave(side, I!Left(side, w, h, code)[i - 1], h[Len(h) - i + 1], code)
<1> DEFINE L == Len(h)
           S == World(X, C)
           at(i) == h[L - i + 1]
           d == [p \in S \X (1..L) |-> I!Leave(side, p[1], at(p[2]), code)]
<1>1. L \in Nat /\ \A i \in 1..L : at(i) \in X OBVIOUS
<1> HIDE DEF at
<1>2. \A s \in S, i \in 1..L : I!Leave(side, s, at(i), code) \in S BY <1>1, LeaveDoes
<1> HIDE DEF S, L
<1>3. d \in [S \X (1..L) -> S] BY <1>2
<1>4. \A s \in S, i \in 1..L : d[<<s, i>>] = I!Leave(side, s, at(i), code) OBVIOUS
<1>5. w \in S BY DEF S
<1> HIDE DEF d
<1>6. PICK f \in [0..L -> S] : f[0] = w /\ \A i \in 1..L : f[i] = d[<<f[i - 1], i>>]
  <2>1. Steps(S, w, L, d) # {} BY <1>1, <1>3, <1>5, Iterates
  <2>2. QED BY <2>1 DEF Steps
<1>7. \A i \in 1..L : f[i] = I!Leave(side, f[i - 1], at(i), code)
  <2>1. \A i \in 1..L : f[i - 1] \in S BY <1>1, <1>6
  <2>2. QED BY <1>4, <1>6, <2>1
<1> DEFINE Is(g) == g = [n \in 0..L |-> IF n = 0 THEN w ELSE I!Leave(side, g[n - 1], h[L - n + 1], code)]
<1>8. Is(f)
  <2>1. f = [n \in 0..L |-> f[n]] BY <1>6
  <2>2. \A n \in 0..L : f[n] = IF n = 0 THEN w ELSE I!Leave(side, f[n - 1], h[L - n + 1], code)
    BY <1>1, <1>6, <1>7 DEF at
  <2>3. QED BY <2>1, <2>2
<1>9. I!Left(side, w, h, code) = CHOOSE g : Is(g) BY Zenon DEF I!Left, L
<1>10. Is(I!Left(side, w, h, code))
  <2> HIDE DEF Is
  <2>1. QED BY <1>8, <1>9, Zenon
<1> DEFINE s == I!Left(side, w, h, code)
<1> HIDE DEF s
<1>11. s = [n \in 0..L |-> IF n = 0 THEN w ELSE I!Leave(side, s[n - 1], at(n), code)] BY <1>10 DEF s, at
<1>12. s[0] = w /\ \A i \in 1..L : s[i] = I!Leave(side, s[i - 1], at(i), code)
  <2>1. \A n \in 0..L : s[n] = IF n = 0 THEN w ELSE I!Leave(side, s[n - 1], at(n), code) BY <1>11
  <2>2. 0 \in 0..L /\ \A i \in 1..L : i \in 0..L /\ i # 0 BY <1>1
  <2>3. QED BY <2>1, <2>2
<1>13. s = [n \in 0..L |-> s[n]] BY <1>11
<1> HIDE DEF Is
<1>14. s \in [0..L -> S]
  <2>1. Follows(s, S, w, L, d) BY <1>1, <1>4, <1>12, <1>13 DEF Follows
  <2>2. QED BY <1>1, <1>3, <1>5, <2>1, StaysIn
<1>15. QED BY <1>12, <1>14 DEF L, S, s, at

\* The places from a to b that hold a kind.
PlacesOf(h, k, a, b) == {i \in a..b : h[i] = k}
Times(h, k, a, b) == Cardinality(PlacesOf(h, k, a, b))
Hit(h, k, i) == IF h[i] = k THEN 1 ELSE 0

\* Counting one more place, at either end.
LEMMA TimesUp ==
  ASSUME NEW h, NEW k, NEW a \in Int, NEW b \in Int, a <= b + 1
  PROVE  /\ Times(h, k, a, b) \in Nat
         /\ Times(h, k, a, b + 1) = Times(h, k, a, b) + Hit(h, k, b + 1)
         /\ Times(h, k, a - 1, b) = Times(h, k, a, b) + Hit(h, k, a - 1)
<1> DEFINE P == PlacesOf(h, k, a, b)
<1>1. IsFiniteSet(P)
  <2>1. IsFiniteSet(a..b) BY FS_Interval
  <2>2. P \subseteq a..b BY DEF PlacesOf
  <2>3. QED BY <2>1, <2>2, FS_Subset
<1>2. Cardinality(P) \in Nat BY <1>1, FS_CardinalityType
<1>3. \A x : x \notin P => Cardinality(P \cup {x}) = Cardinality(P) + 1 BY <1>1, FS_AddElement
<1>4. PlacesOf(h, k, a, b + 1) = IF h[b + 1] = k THEN P \cup {b + 1} ELSE P
  <2>1. a..(b + 1) = (a..b) \cup {b + 1} OBVIOUS
  <2>2. QED BY <2>1 DEF PlacesOf
<1>5. PlacesOf(h, k, a - 1, b) = IF h[a - 1] = k THEN P \cup {a - 1} ELSE P
  <2>1. (a - 1)..b = (a..b) \cup {a - 1} OBVIOUS
  <2>2. QED BY <2>1 DEF PlacesOf
<1>6. b + 1 \notin P /\ a - 1 \notin P BY DEF PlacesOf
<1> HIDE DEF P
<1>7. QED BY <1>2, <1>3, <1>4, <1>5, <1>6 DEF Times, Hit, P

\* Counting over no places.
LEMMA TimesNone ==
  ASSUME NEW h, NEW k, NEW a \in Int, NEW b \in Int, b < a
  PROVE  Times(h, k, a, b) = 0
<1>1. PlacesOf(h, k, a, b) = {} BY DEF PlacesOf
<1>2. QED BY <1>1, FS_EmptySet DEF Times

\* After the way in every interceptor was entered in order, and nothing was
\* counted yet but the calls in flight.
LEMMA EnteredObserves ==
  ASSUME NEW X, NEW C, NEW w \in World(X, C), w.entered = <<>>, w.inFlight = 0, NEW h \in Seq(X), NEW side,
         NEW e, e = I!Entered(side, w, h)[Len(h)]
  PROVE  /\ e \in World(X, C) /\ e.entered = h /\ e.total = w.total /\ e.logs = w.logs
         /\ e.inFlight = IF side = "server" THEN Times(h, "metrics", 1, Len(h)) ELSE 0
<1> DEFINE L == Len(h)
           s == I!Entered(side, w, h)
           So(n) == /\ s[n].total = w.total /\ s[n].logs = w.logs
                    /\ Len(s[n].entered) = n /\ \A i \in 1..n : s[n].entered[i] = h[i]
                    /\ s[n].inFlight = IF side = "server" THEN Times(h, "metrics", 1, n) ELSE 0
           Reached == {n \in Nat : n <= L => So(n)}
<1>1. L \in Nat /\ \A i \in 1..L : h[i] \in X OBVIOUS
<1>2. s \in [0..L -> World(X, C)] /\ s[0] = w /\ \A i \in 1..L : s[i] = I!Enter(side, s[i - 1], h[i])
  BY EnteredIs
<1> HIDE DEF s
<1>3. 0 \in Reached
  <2>1. Times(h, "metrics", 1, 0) = 0 BY TimesNone
  <2>2. Len(<<>>) = 0 OBVIOUS
  <2>3. So(0) BY <1>2, <2>1, <2>2
  <2>4. QED BY <2>3
<1>4. ASSUME NEW n \in Nat, n \in Reached PROVE n + 1 \in Reached
  <2> SUFFICES ASSUME n + 1 <= L PROVE So(n + 1)
    <3> HIDE DEF So, L
    <3>1. QED OBVIOUS
  <2>1. So(n) /\ n + 1 \in 1..L /\ n \in 0..L /\ (n + 1) - 1 = n
    <3> HIDE DEF So
    <3>1. QED BY <1>1, <1>4
  <2> DEFINE u == s[n]
             t == s[n + 1]
             k == h[n + 1]
  <2>2. u \in World(X, C) /\ t = I!Enter(side, u, k) /\ k \in X BY <1>1, <1>2, <2>1
  <2>3. u.entered \in Seq(X) /\ u.inFlight \in Int BY <2>2, WorldIs
  <2> HIDE DEF u, t, k
  <2>4. /\ t.entered = Append(u.entered, k) /\ t.total = u.total /\ t.logs = u.logs
        /\ t.inFlight = u.inFlight + (IF k = "metrics" /\ side = "server" THEN 1 ELSE 0)
    <3> HIDE DEF So, Reached, L
    <3>1. Noted(side, u, k, t) BY <2>2, EnterDoes
    <3>2. QED BY <3>1 DEF Noted
  <2>5. Times(h, "metrics", 1, n + 1) = Times(h, "metrics", 1, n) + (IF k = "metrics" THEN 1 ELSE 0)
    <3> HIDE DEF So, Reached, L
    <3>1. n \in Int /\ 1 \in Int /\ 1 <= n + 1 OBVIOUS
    <3>2. Times(h, "metrics", 1, n + 1) = Times(h, "metrics", 1, n) + Hit(h, "metrics", n + 1)
      BY <3>1, TimesUp
    <3>3. QED BY <3>2 DEF k, Hit
  <2>6. Len(t.entered) = n + 1 /\ \A i \in 1..(n + 1) : t.entered[i] = h[i]
    <3>1. Len(u.entered) = n /\ \A i \in 1..n : u.entered[i] = h[i] BY <2>1 DEF u
    <3> DEFINE en == u.entered
    <3>2. en \in Seq(X) BY <2>3
    <3> HIDE DEF en
    <3>3. QED BY <2>4, <3>1, <3>2 DEF en, k
  <2>7. t.inFlight = IF side = "server" THEN Times(h, "metrics", 1, n + 1) ELSE 0
    <3>1. u.inFlight = IF side = "server" THEN Times(h, "metrics", 1, n) ELSE 0 BY <2>1 DEF u
    <3>2. QED BY <2>3, <2>4, <2>5, <3>1
  <2>8. u.total = w.total /\ u.logs = w.logs BY <2>1 DEF u
  <2>9. QED BY <2>4, <2>6, <2>7, <2>8 DEF t
<1>5. So(L)
  <2> HIDE DEF Reached
  <2>1. L \in Reached BY <1>1, <1>3, <1>4, NatSetInduction
  <2>2. QED BY <1>1, <2>1 DEF Reached
<1>6. s[L] \in World(X, C) BY <1>1, <1>2
<1>7. s[L].entered = h
  <2> DEFINE en == s[L].entered
  <2>1. en \in Seq(X) BY <1>6, WorldIs
  <2>2. Len(en) = Len(h) /\ \A i \in 1..Len(h) : en[i] = h[i] BY <1>5
  <2> HIDE DEF en
  <2>3. en = h BY <2>1, <2>2
  <2>4. QED BY <2>3 DEF en
<1>8. QED BY <1>5, <1>6, <1>7 DEF s

\* The world after every interceptor of h was left with a code.
AllLeft(side, w, h, code, l) ==
  /\ l.entered = w.entered
  /\ l.inFlight = w.inFlight - (IF side = "server" THEN Times(h, "metrics", 1, Len(h)) ELSE 0)
  /\ l.logs = [i \in 1..Times(h, "log", 1, Len(h)) |-> code]
  /\ l.total = [i \in 1..Times(h, "metrics", 1, Len(h)) |-> I!codeLabel(code, 8)]

\* After the way out each metrics and log interceptor observed the code once, and
\* no call is in flight any more than before.
LEMMA LeftObserves ==
  ASSUME NEW X, NEW C, NEW w \in World(X, C), w.total = <<>>, w.logs = <<>>, NEW h \in Seq(X), NEW side,
         NEW code \in C, NEW l, l = I!Left(side, w, h, code)[Len(h)]
  PROVE  l \in World(X, C) /\ AllLeft(side, w, h, code, l)
<1> DEFINE L == Len(h)
           lab == I!codeLabel(code, 8)
           s == I!Left(side, w, h, code)
           Logs(n) == Times(h, "log", L - n + 1, L)
           Done(n) == Times(h, "metrics", L - n + 1, L)
           So(n) == /\ s[n].entered = w.entered
                    /\ s[n].inFlight = w.inFlight - (IF side = "server" THEN Done(n) ELSE 0)
                    /\ s[n].logs = [i \in 1..Logs(n) |-> code]
                    /\ s[n].total = [i \in 1..Done(n) |-> lab]
           Reached == {n \in Nat : n <= L => So(n)}
<1>1. L \in Nat /\ \A i \in 1..L : h[L - i + 1] \in X OBVIOUS
<1>2. /\ s \in [0..L -> World(X, C)] /\ s[0] = w
      /\ \A i \in 1..L : s[i] = I!Leave(side, s[i - 1], h[L - i + 1], code)
  BY LeftIs
<1> HIDE DEF s, lab, L
<1>3. 0 \in Reached
  <2>1. Logs(0) = 0 /\ Done(0) = 0
    <3>1. L - 0 + 1 \in Int /\ L \in Int /\ L < L - 0 + 1 BY <1>1
    <3>2. QED BY <3>1, TimesNone
  <2>2. w.inFlight \in Int BY WorldIs
  <2> HIDE DEF Logs, Done
  <2>3. So(0)
    <3>1. [i \in 1..0 |-> code] = <<>> /\ [i \in 1..0 |-> lab] = <<>> OBVIOUS
    <3>2. QED BY <1>2, <2>1, <2>2, <3>1
  <2>4. QED BY <2>3
<1>4. ASSUME NEW n \in Nat, n \in Reached PROVE n + 1 \in Reached
  <2> SUFFICES ASSUME n + 1 <= L PROVE So(n + 1)
    <3> HIDE DEF So
    <3>1. QED OBVIOUS
  <2>1. So(n) /\ n + 1 \in 1..L /\ n \in 0..L /\ (n + 1) - 1 = n
    <3> HIDE DEF So
    <3>1. QED BY <1>1, <1>4
  <2> DEFINE u == s[n]
             t == s[n + 1]
             k == h[L - (n + 1) + 1]
  <2>2. u \in World(X, C) /\ t = I!Leave(side, u, k, code) /\ k \in X BY <1>1, <1>2, <2>1
  <2>3. u.inFlight \in Int /\ w.inFlight \in Int BY <2>2, WorldIs
  <2>4. /\ Logs(n) \in Nat /\ Done(n) \in Nat
        /\ Logs(n + 1) = Logs(n) + (IF k = "log" THEN 1 ELSE 0)
        /\ Done(n + 1) = Done(n) + (IF k = "metrics" THEN 1 ELSE 0)
    <3> DEFINE a == L - n + 1
    <3>1. a \in Int /\ L \in Int /\ a <= L + 1 /\ a - 1 = L - (n + 1) + 1 BY <1>1
    <3> HIDE DEF a
    <3>2. \A x : /\ Times(h, x, a, L) \in Nat
                 /\ Times(h, x, a - 1, L) = Times(h, x, a, L) + Hit(h, x, a - 1)
      BY <3>1, TimesUp
    <3>3. QED BY <3>1, <3>2 DEF a, Hit
  <2> HIDE DEF u, t, k, Logs, Done
  <2>5. /\ t.entered = u.entered
        /\ t.total = IF k = "metrics" THEN Append(u.total, lab) ELSE u.total
        /\ t.logs = IF k = "log" THEN Append(u.logs, code) ELSE u.logs
        /\ t.inFlight = u.inFlight - (IF k = "metrics" /\ side = "server" THEN 1 ELSE 0)
    BY <2>2, LeaveDoes DEF lab
  <2>6. /\ u.entered = w.entered
        /\ u.inFlight = w.inFlight - (IF side = "server" THEN Done(n) ELSE 0)
        /\ u.logs = [i \in 1..Logs(n) |-> code] /\ u.total = [i \in 1..Done(n) |-> lab]
    BY <2>1 DEF u
  <2>7. \A m \in Nat : \A v : Append([i \in 1..m |-> v], v) = [i \in 1..(m + 1) |-> v]
    <3> SUFFICES ASSUME NEW m \in Nat, NEW v PROVE Append([i \in 1..m |-> v], v) = [i \in 1..(m + 1) |-> v]
      OBVIOUS
    <3>1. [i \in 1..m |-> v] \in Seq({v}) /\ Len([i \in 1..m |-> v]) = m OBVIOUS
    <3>2. QED BY <3>1
  <2>8. t.logs = [i \in 1..Logs(n + 1) |-> code] BY <2>4, <2>5, <2>6, <2>7
  <2>9. t.total = [i \in 1..Done(n + 1) |-> lab]
    <3> HIDE DEF So, Reached
    <3>1. Append([i \in 1..Done(n) |-> lab], lab) = [i \in 1..(Done(n) + 1) |-> lab] BY <2>4, <2>7
    <3>2. CASE k = "metrics"
      <4>1. t.total = Append(u.total, lab) /\ Done(n + 1) = Done(n) + 1 BY <2>4, <2>5, <3>2
      <4>2. QED BY <2>6, <3>1, <4>1
    <3>3. CASE k # "metrics"
      <4>1. t.total = u.total /\ Done(n + 1) = Done(n) BY <2>4, <2>5, <3>3
      <4>2. QED BY <2>6, <4>1
    <3>4. QED BY <3>2, <3>3
  <2>10. t.inFlight = w.inFlight - (IF side = "server" THEN Done(n + 1) ELSE 0) BY <2>3, <2>4, <2>5, <2>6
  <2>11. QED BY <2>5, <2>6, <2>8, <2>9, <2>10 DEF t
<1>5. So(L)
  <2> HIDE DEF Reached
  <2>1. L \in Reached BY <1>1, <1>3, <1>4, NatSetInduction
  <2>2. QED BY <1>1, <2>1 DEF Reached
<1>6. L - L + 1 = 1 /\ s[L] \in World(X, C) BY <1>1, <1>2
<1>7. QED BY <1>5, <1>6 DEF s, L, lab, AllLeft

\* A process that made no call.
LEMMA FreshWorld == ASSUME NEW X, NEW C PROVE I!NewWorld \in World(X, C)
<1>1. I!EmptyMd \in Md({I!TraceKey}, Spans) BY EmptyIsMd
<1>2. <<>> \in Seq(X) /\ <<>> \in Seq(C) /\ <<>> \in Seq(Labels(C)) OBVIOUS
<1> DEFINE m == I!EmptyMd
<1> HIDE DEF m
<1>3. I!NewWorld = [hdr |-> m, spans |-> 0, total |-> <<>>, logs |-> <<>>, inFlight |-> 0, entered |-> <<>>]
  BY DEF I!NewWorld, m
<1>4. m \in Md({I!TraceKey}, Spans) /\ 0 \in Nat /\ 0 \in Int BY <1>1 DEF m
<1>5. QED BY <1>2, <1>3, <1>4, WorldMade, Zenon

\* Every chain observes every call once.
LEMMA EachObserves ==
  ASSUME NEW X, NEW is \in Seq(X), NEW code, NEW side
  PROVE  I!ObservedOnce(side, is, code)
<1> DEFINE w == I!NewWorld
           C == {code}
           e == I!Entered(side, w, is)[Len(is)]
           l == I!Left(side, e, is, code)[Len(is)]
           r == I!Through(side, w, is, code)
<1>1. w \in World(X, C) /\ w.entered = <<>> /\ w.inFlight = 0 /\ w.total = <<>> /\ w.logs = <<>>
  BY FreshWorld DEF I!NewWorld
<1>2. I!chain(is) = is BY ChainIs
<1> HIDE DEF w
<1>3. r.after = l BY <1>2 DEF I!Through
<1>4. /\ e \in World(X, C) /\ e.entered = is /\ e.total = <<>> /\ e.logs = <<>>
      /\ e.inFlight = IF side = "server" THEN Times(is, "metrics", 1, Len(is)) ELSE 0
  BY <1>1, EnteredObserves
<1> HIDE DEF e
<1>5. /\ l.entered = e.entered
      /\ l.inFlight = e.inFlight - (IF side = "server" THEN Times(is, "metrics", 1, Len(is)) ELSE 0)
      /\ l.logs = [i \in 1..Times(is, "log", 1, Len(is)) |-> code]
      /\ l.total = [i \in 1..Times(is, "metrics", 1, Len(is)) |-> I!codeLabel(code, 8)]
  <2>1. code \in C OBVIOUS
  <2> HIDE DEF C
  <2>2. e \in World(X, C) /\ e.total = <<>> /\ e.logs = <<>> BY <1>4
  <2> HIDE DEF l
  <2>3. l = I!Left(side, e, is, code)[Len(is)] BY DEF l
  <2>4. AllLeft(side, e, is, code, l) BY <2>1, <2>2, <2>3, LeftObserves
  <2>5. QED BY <2>4 DEF AllLeft
<1> HIDE DEF l, r
<1>6. \A k : Times(is, k, 1, Len(is)) = I!Cardinality({i \in DOMAIN is : is[i] = k})
  <2>1. DOMAIN is = 1..Len(is) OBVIOUS
  <2>2. \A S : I!Cardinality(S) = Cardinality(S) BY Zenon DEF I!Cardinality, Cardinality
  <2>3. QED BY <2>1, <2>2 DEF Times, PlacesOf
<1>7. Times(is, "metrics", 1, Len(is)) \in Nat
  <2>1. Len(is) \in Int /\ 1 <= Len(is) + 1 OBVIOUS
  <2>2. QED BY <2>1, TimesUp
<1>8. l.inFlight = 0 BY <1>4, <1>5, <1>7
<1>9. QED BY <1>3, <1>4, <1>5, <1>6, <1>8 DEF I!ObservedOnce, r, w

-----------------------------------------------------------------------------
\* Traces across calls.

\* The value a server span takes as its parent when the client's interceptors
\* start from w.
Carried(w) == IF I!At(w.hdr, I!TraceKey) = <<>> THEN ToString(w.spans + 1) ELSE I!At(w.hdr, I!TraceKey)[1]
TracedUpTo(h, n) == \E i \in 1..n : h[i] = "trace"
\* From w to e, n interceptors of h were entered.
TraceSo(w, e, h, n) ==
  IF TracedUpTo(h, n)
    THEN I!At(e.hdr, I!TraceKey) # <<>> /\ I!At(e.hdr, I!TraceKey)[1] = Carried(w)
    ELSE e.spans = w.spans /\ e.hdr = w.hdr

\* Entering one more client interceptor keeps TraceSo.
LEMMA TraceStep ==
  ASSUME NEW X, NEW C, NEW w \in World(X, C), NEW u \in World(X, C), NEW h \in Seq(X), NEW n \in Nat, n + 1 <= Len(h),
         TraceSo(w, u, h, n), NEW t, t = I!Enter("client", u, h[n + 1])
  PROVE  TraceSo(w, t, h, n + 1)
<1> DEFINE k == h[n + 1]
           c == I!At(w.hdr, I!TraceKey)
           d == I!At(u.hdr, I!TraceKey)
           x == ToString(u.spans + 1)
<1>1. k \in X OBVIOUS
<1>2. TracedUpTo(h, n + 1) <=> TracedUpTo(h, n) \/ k = "trace"
  <2>1. 1..(n + 1) = (1..n) \cup {n + 1} OBVIOUS
  <2>2. QED BY <2>1 DEF TracedUpTo
<1>3. Traced("client", u, k, t)
  <2> HIDE DEF k
  <2>1. t = I!Enter("client", u, k) BY DEF k
  <2>2. QED BY <1>1, <2>1, EnterDoes
<1>4. d \in Seq(Spans) /\ x \in Spans
  <2>1. u.hdr \in Md({I!TraceKey}, Spans) /\ u.spans \in Nat BY WorldIs
  <2>2. d \in Seq(Spans) BY <2>1, AtSeq
  <2>3. QED BY <2>1, <2>2 DEF Spans
<1> HIDE DEF k
<1>5. CASE k = "trace"
  <2>1. I!At(t.hdr, I!TraceKey) = d \o <<x>> BY <1>3, <1>5 DEF Traced
  <2> DEFINE v == d \o <<x>>
  <2>2. v # <<>> /\ v[1] = IF d = <<>> THEN x ELSE d[1]
    <3> HIDE DEF d, x
    <3>1. Len(v) = Len(d) + 1 /\ v[1] = IF Len(d) = 0 THEN x ELSE d[1] BY <1>4
    <3>2. d = <<>> <=> Len(d) = 0 BY <1>4
    <3>3. v \in Seq(Spans) /\ Len(d) \in Nat BY <1>4
    <3> HIDE DEF v
    <3>4. v # <<>> BY <3>1, <3>3
    <3>5. QED BY <3>1, <3>2, <3>4
  <2>3. IF d = <<>> THEN x = Carried(w) ELSE d[1] = Carried(w) BY DEF TraceSo, Carried
  <2> HIDE DEF v, d, x
  <2>4. I!At(t.hdr, I!TraceKey) # <<>> /\ I!At(t.hdr, I!TraceKey)[1] = Carried(w) BY <2>1, <2>2, <2>3 DEF v
  <2>5. QED BY <1>2, <1>5, <2>4, Zenon DEF TraceSo
<1>6. CASE k # "trace"
  <2>1. t.spans = u.spans /\ t.hdr = u.hdr BY <1>3, <1>6, Zenon DEF Traced
  <2>2. CASE TracedUpTo(h, n) BY <1>2, <2>1, <2>2, Zenon DEF TraceSo
  <2>3. CASE ~TracedUpTo(h, n) BY <1>2, <1>6, <2>1, <2>3, Zenon DEF TraceSo
  <2>4. QED BY <2>2, <2>3
<1>7. QED BY <1>5, <1>6

\* After the way in the header map carries the span that the server will join.
LEMMA EnteredTraces ==
  ASSUME NEW X, NEW C, NEW w \in World(X, C), NEW h \in Seq(X), NEW e, e = I!Entered("client", w, h)[Len(h)]
  PROVE  e \in World(X, C) /\ TraceSo(w, e, h, Len(h))
<1> DEFINE L == Len(h)
           s == I!Entered("client", w, h)
           Reached == {n \in Nat : n <= L => TraceSo(w, s[n], h, n)}
<1>1. L \in Nat OBVIOUS
<1>2. s \in [0..L -> World(X, C)] /\ s[0] = w /\ \A i \in 1..L : s[i] = I!Enter("client", s[i - 1], h[i])
  BY EnteredIs
<1> HIDE DEF s
<1>3. 0 \in Reached
  <2>1. ~TracedUpTo(h, 0) BY DEF TracedUpTo
  <2>2. TraceSo(w, s[0], h, 0) BY <1>2, <2>1 DEF TraceSo
  <2>3. QED BY <2>2
<1>4. ASSUME NEW n \in Nat, n \in Reached PROVE n + 1 \in Reached
  <2> SUFFICES ASSUME n + 1 <= L PROVE TraceSo(w, s[n + 1], h, n + 1)
    OBVIOUS
  <2>1. TraceSo(w, s[n], h, n) /\ n + 1 \in 1..L /\ n \in 0..L /\ (n + 1) - 1 = n BY <1>1, <1>4
  <2>2. s[n] \in World(X, C) /\ s[n + 1] = I!Enter("client", s[n], h[n + 1]) BY <1>2, <2>1
  <2>3. QED BY <2>1, <2>2, TraceStep
<1> HIDE DEF Reached
<1>5. L \in Reached BY <1>1, <1>3, <1>4, NatSetInduction
<1>6. TraceSo(w, s[L], h, L) BY <1>1, <1>5 DEF Reached
<1>7. s[L] \in World(X, C) BY <1>1, <1>2
<1>8. QED BY <1>6, <1>7 DEF s

\* The way out leaves the header map alone.
LEMMA LeftKeepsTrace ==
  ASSUME NEW X, NEW C, NEW w \in World(X, C), NEW h \in Seq(X), NEW side, NEW code \in C,
         NEW l, l = I!Left(side, w, h, code)[Len(h)]
  PROVE  l \in World(X, C) /\ l.hdr = w.hdr
<1> DEFINE L == Len(h)
           s == I!Left(side, w, h, code)
           Reached == {n \in Nat : n <= L => s[n].hdr = w.hdr}
<1>1. L \in Nat /\ \A i \in 1..L : h[L - i + 1] \in X OBVIOUS
<1>2. /\ s \in [0..L -> World(X, C)] /\ s[0] = w
      /\ \A i \in 1..L : s[i] = I!Leave(side, s[i - 1], h[L - i + 1], code)
  BY LeftIs
<1> HIDE DEF s
<1>3. 0 \in Reached BY <1>2
<1>4. ASSUME NEW n \in Nat, n \in Reached PROVE n + 1 \in Reached
  <2> SUFFICES ASSUME n + 1 <= L PROVE s[n + 1].hdr = w.hdr
    OBVIOUS
  <2> DEFINE u == s[n]
             t == s[n + 1]
             k == h[L - (n + 1) + 1]
  <2>1. u.hdr = w.hdr /\ n + 1 \in 1..L /\ n \in 0..L /\ (n + 1) - 1 = n BY <1>1, <1>4
  <2>2. u \in World(X, C) /\ t = I!Leave(side, u, k, code) /\ k \in X BY <1>1, <1>2, <2>1
  <2> HIDE DEF u, t, k
  <2>3. t.hdr = u.hdr BY <2>2, LeaveDoes
  <2>4. QED BY <2>1, <2>3 DEF u, t
<1> HIDE DEF Reached
<1>5. L \in Reached BY <1>1, <1>3, <1>4, NatSetInduction
<1>6. s[L].hdr = w.hdr BY <1>1, <1>5 DEF Reached
<1>7. s[L] \in World(X, C) BY <1>1, <1>2
<1>8. QED BY <1>6, <1>7 DEF s

\* What a list of calls leaves: the world, the span each call started and the one
\* it joined.
Ledger(X, C) == [world : World(X, C), first : Seq(Spans), joined : Seq(Spans \cup {""})]
\* What one more call adds: the span it starts first and the one it joins.
CallAdds(mode, acc, b) ==
  LET w == acc.world
      own == ToString(w.spans + 1)
      to == IF mode = "shared" THEN Carried(w) ELSE own
  IN /\ b.first = Append(acc.first, own) /\ b.joined = Append(acc.joined, to)
     /\ mode = "shared" =>
          I!At(b.world.hdr, I!TraceKey) # <<>> /\ I!At(b.world.hdr, I!TraceKey)[1] = to

\* One call, client and server side, with the header map the mode names.
LEMMA CallDoes ==
  ASSUME NEW X, NEW C, NEW acc \in Ledger(X, C), NEW is \in Seq(X), NEW code \in C, NEW mode,
         NEW b, b = I!NextCall(mode, is, acc, code)
  PROVE  b \in Ledger(X, C) /\ ("trace" \in I!Range(is) => CallAdds(mode, acc, b))
<1> DEFINE m == acc.world
           w == IF mode = "shared" THEN m ELSE [m EXCEPT !.hdr = I!EmptyMd]
           own == ToString(w.spans + 1)
           t == I!Through("client", w, is, code)
           e == I!Entered("client", w, is)[Len(is)]
           l == I!Left("client", e, is, code)[Len(is)]
           sealed == e.hdr
           p == I!Parent(sealed)
<1>1. m \in World(X, C) /\ acc.first \in Seq(Spans) /\ acc.joined \in Seq(Spans \cup {""}) BY DEF Ledger
<1>2. w \in World(X, C) /\ w.spans = m.spans /\ (mode = "shared" => w = m)
      /\ (mode # "shared" => I!At(w.hdr, I!TraceKey) = <<>>)
  <2> DEFINE none == I!EmptyMd
             v == [m EXCEPT !.hdr = none]
  <2>0. none \in Md({I!TraceKey}, Spans) /\ DOMAIN none = {} BY EmptyIsMd
  <2>1. /\ m.hdr \in Md({I!TraceKey}, Spans) /\ m.spans \in Nat /\ m.total \in Seq(Labels(C))
        /\ m.logs \in Seq(C) /\ m.inFlight \in Int /\ m.entered \in Seq(X)
    BY <1>1, WorldIs
  <2> HIDE DEF none, m
  <2>2. v = [hdr |-> none, spans |-> m.spans, total |-> m.total, logs |-> m.logs, inFlight |-> m.inFlight,
             entered |-> m.entered]
    <3>1. m = [hdr |-> m.hdr, spans |-> m.spans, total |-> m.total, logs |-> m.logs, inFlight |-> m.inFlight,
               entered |-> m.entered]
      BY <1>1, WorldParts
    <3> DEFINE h == m.hdr
               n == m.spans
               to == m.total
               lo == m.logs
               i == m.inFlight
               en == m.entered
    <3>2. m = [hdr |-> h, spans |-> n, total |-> to, logs |-> lo, inFlight |-> i, entered |-> en] BY <3>1
    <3> HIDE DEF h, n, to, lo, i, en
    <3>3. v = [hdr |-> none, spans |-> n, total |-> to, logs |-> lo, inFlight |-> i, entered |-> en] BY <3>2
    <3>4. QED BY <3>3 DEF h, n, to, lo, i, en
  <2> HIDE DEF v
  <2>3. v \in World(X, C) BY <2>0, <2>1, <2>2, WorldMade, Zenon
  <2>4. v.spans = m.spans /\ v.hdr = none BY <2>2
  <2>5. I!At(none, I!TraceKey) = <<>> BY <2>0 DEF I!At
  <2>6. mode = "shared" => w = m OBVIOUS
  <2>7. mode # "shared" => w = v BY DEF none, v
  <2> HIDE DEF w
  <2>8. QED BY <1>1, <2>3, <2>4, <2>5, <2>6, <2>7
<1>3. b = [world |-> t.after, first |-> Append(acc.first, own), joined |-> Append(acc.joined, I!Parent(t.wire))]
  BY Zenon DEF I!NextCall
<1>4. I!chain(is) = is BY ChainIs
<1>5. t.after = l /\ t.wire = e.hdr BY <1>4 DEF I!Through, I!metadataFromKV
<1> HIDE DEF w, t
<1>6. e \in World(X, C) /\ TraceSo(w, e, is, Len(is)) BY <1>2, EnteredTraces
<1> HIDE DEF e
<1>7. l \in World(X, C) /\ l.hdr = e.hdr BY <1>6, LeftKeepsTrace
<1> HIDE DEF l
<1>8. own \in Spans
  <2>1. w.spans \in Nat BY <1>2, WorldIs
  <2>2. QED BY <2>1 DEF Spans
<1>9. p = (IF I!At(sealed, I!TraceKey) = <<>> THEN "" ELSE I!At(sealed, I!TraceKey)[1]) BY DEF I!Parent
<1>10. I!At(sealed, I!TraceKey) \in Seq(Spans)
  <2>1. sealed \in Md({I!TraceKey}, Spans) BY <1>6, WorldIs
  <2>2. QED BY <2>1, AtSeq
<1>11. p \in Spans \cup {""}
  <2> DEFINE d == I!At(sealed, I!TraceKey)
  <2>1. d \in Seq(Spans) /\ p = IF d = <<>> THEN "" ELSE d[1] BY <1>9, <1>10
  <2> HIDE DEF d, p
  <2>2. d # <<>> => d[1] \in Spans BY <2>1
  <2>3. QED BY <2>1, <2>2
<1> HIDE DEF own, p
<1>12. b = [world |-> l, first |-> Append(acc.first, own), joined |-> Append(acc.joined, p)]
  BY <1>3, <1>5 DEF p
<1> HIDE DEF sealed
<1>13. b \in Ledger(X, C)
  <2> DEFINE A1 == Append(acc.first, own)
             A2 == Append(acc.joined, p)
             S1 == Seq(Spans)
             S2 == Seq(Spans \cup {""})
  <2>1. A1 \in S1 /\ A2 \in S2
    <3> DEFINE f == acc.first
               j == acc.joined
               U == Spans \cup {""}
    <3>1. f \in Seq(Spans) /\ j \in Seq(U) /\ p \in U BY <1>1, <1>11
    <3> HIDE DEF f, j, U
    <3>2. Append(f, own) \in Seq(Spans) /\ Append(j, p) \in Seq(U) BY <1>8, <3>1
    <3>3. QED BY <3>2 DEF f, j, U
  <2> HIDE DEF A1, A2, S1, S2
  <2>2. b \in [world : World(X, C), first : S1, joined : S2] BY <1>7, <1>12, <2>1 DEF A1, A2
  <2>3. QED BY <2>2 DEF Ledger, S1, S2
<1>14. ASSUME "trace" \in I!Range(is) PROVE CallAdds(mode, acc, b)
  <2>1. TracedUpTo(is, Len(is))
    <3>1. PICK i \in DOMAIN is : is[i] = "trace" BY <1>14 DEF I!Range
    <3>2. DOMAIN is = 1..Len(is) OBVIOUS
    <3>3. QED BY <3>1, <3>2, Zenon DEF TracedUpTo
  <2>2. I!At(sealed, I!TraceKey) # <<>> /\ I!At(sealed, I!TraceKey)[1] = Carried(w)
    BY <1>6, <2>1, Zenon DEF TraceSo, sealed
  <2>3. p = Carried(w) BY <1>9, <2>2, Zenon
  <2>4. Carried(w) = IF mode = "shared" THEN Carried(m) ELSE ToString(m.spans + 1)
    BY <1>2, Zenon DEF Carried
  <2>5. own = ToString(m.spans + 1) BY <1>2, Zenon DEF own
  <2>6. b.world.hdr = sealed /\ b.first = Append(acc.first, own) /\ b.joined = Append(acc.joined, p)
    BY <1>7, <1>12 DEF sealed
  <2>7. QED BY <2>2, <2>3, <2>4, <2>5, <2>6, Zenon DEF CallAdds, m
<1>15. QED BY <1>13, <1>14

\* The calls of a list of codes, one after the other.
LEMMA MadeIs ==
  ASSUME NEW X, NEW is \in Seq(X), NEW C, NEW codes \in Seq(C), NEW mode
  PROVE  LET s == I!Made(mode, is, codes) IN
         /\ s \in [0..Len(codes) -> Ledger(X, C)]
         /\ s[0] = [world |-> I!NewWorld, first |-> <<>>, joined |-> <<>>]
         /\ \A i \in 1..Len(codes) : s[i] = I!NextCall(mode, is, s[i - 1], codes[i])
<1> DEFINE L == Len(codes)
           S == Ledger(X, C)
           base == [world |-> I!NewWorld, first |-> <<>>, joined |-> <<>>]
           d == [p \in S \X (1..L) |-> I!NextCall(mode, is, p[1], codes[p[2]])]
<1>1. L \in Nat /\ \A i \in 1..L : codes[i] \in C OBVIOUS
<1>2. base \in S
  <2> DEFINE w == I!NewWorld
             S1 == Seq(Spans)
             S2 == Seq(Spans \cup {""})
  <2>1. w \in World(X, C) BY FreshWorld
  <2>2. <<>> \in S1 /\ <<>> \in S2 OBVIOUS
  <2> HIDE DEF w, S1, S2
  <2>3. base \in [world : World(X, C), first : S1, joined : S2] BY <2>1, <2>2 DEF w
  <2>4. QED BY <2>3 DEF Ledger, S1, S2
<1>3. \A s \in S, i \in 1..L : I!NextCall(mode, is, s, codes[i]) \in S BY <1>1, CallDoes
<1> HIDE DEF S, L, base
<1>4. d \in [S \X (1..L) -> S] BY <1>3
<1>5. \A s \in S, i \in 1..L : d[<<s, i>>] = I!NextCall(mode, is, s, codes[i]) OBVIOUS
<1> HIDE DEF d
<1>6. PICK f \in [0..L -> S] : f[0] = base /\ \A i \in 1..L : f[i] = d[<<f[i - 1], i>>]
  <2>1. Steps(S, base, L, d) # {} BY <1>1, <1>2, <1>4, Iterates
  <2>2. QED BY <2>1 DEF Steps
<1>7. \A i \in 1..L : f[i] = I!NextCall(mode, is, f[i - 1], codes[i])
  <2>1. \A i \in 1..L : f[i - 1] \in S BY <1>1, <1>6
  <2>2. QED BY <1>5, <1>6, <2>1
<1> DEFINE Is(g) == g = [n \in 0..L |-> IF n = 0 THEN base ELSE I!NextCall(mode, is, g[n - 1], codes[n])]
<1>8. Is(f)
  <2>1. f = [n \in 0..L |-> f[n]] BY <1>6
  <2>2. \A n \in 0..L : f[n] = IF n = 0 THEN base ELSE I!NextCall(mode, is, f[n - 1], codes[n])
    BY <1>1, <1>6, <1>7
  <2>3. QED BY <2>1, <2>2
<1>9. I!Made(mode, is, codes) = CHOOSE g : Is(g) BY Zenon DEF I!Made, L, base
<1>10. Is(I!Made(mode, is, codes))
  <2> HIDE DEF Is
  <2>1. QED BY <1>8, <1>9, Zenon
<1> DEFINE s == I!Made(mode, is, codes)
<1> HIDE DEF s
<1>11. s = [n \in 0..L |-> IF n = 0 THEN base ELSE I!NextCall(mode, is, s[n - 1], codes[n])] BY <1>10 DEF s
<1>12. s[0] = base /\ \A i \in 1..L : s[i] = I!NextCall(mode, is, s[i - 1], codes[i])
  <2>1. \A n \in 0..L : s[n] = IF n = 0 THEN base ELSE I!NextCall(mode, is, s[n - 1], codes[n]) BY <1>11
  <2>2. 0 \in 0..L /\ \A i \in 1..L : i \in 0..L /\ i # 0 BY <1>1
  <2>3. QED BY <2>1, <2>2
<1>13. s = [n \in 0..L |-> s[n]] BY <1>11
<1> HIDE DEF Is
<1>14. s \in [0..L -> S]
  <2>1. Follows(s, S, base, L, d) BY <1>1, <1>5, <1>12, <1>13 DEF Follows
  <2>2. QED BY <1>1, <1>2, <1>4, <2>1, StaysIn
<1>15. QED BY <1>12, <1>14 DEF L, S, s, base

\* After n calls.
JoinedSo(mode, acc, n) ==
  /\ Len(acc.first) = n /\ Len(acc.joined) = n
  /\ \A i \in 1..n : acc.joined[i] = IF mode = "shared" THEN acc.first[1] ELSE acc.first[i]
  /\ mode = "shared" =>
       IF n = 0 THEN I!At(acc.world.hdr, I!TraceKey) = <<>>
       ELSE I!At(acc.world.hdr, I!TraceKey) # <<>> /\ I!At(acc.world.hdr, I!TraceKey)[1] = acc.first[1]

\* One more call keeps JoinedSo: a fresh map joins its own span, a shared one the
\* span of the first call.
LEMMA JoinedStep ==
  ASSUME NEW X, NEW C, NEW acc \in Ledger(X, C), NEW b \in Ledger(X, C), NEW mode, NEW n \in Nat,
         JoinedSo(mode, acc, n), CallAdds(mode, acc, b)
  PROVE  JoinedSo(mode, b, n + 1)
<1> DEFINE own == ToString(acc.world.spans + 1)
           c == I!At(acc.world.hdr, I!TraceKey)
           to == IF mode = "shared" THEN Carried(acc.world) ELSE own
           f == acc.first
           j == acc.joined
           U == Spans \cup {""}
<1>1. f \in Seq(Spans) /\ j \in Seq(U) BY DEF Ledger
<1>2. /\ b.first = Append(f, own) /\ b.joined = Append(j, to)
      /\ mode = "shared" =>
           I!At(b.world.hdr, I!TraceKey) # <<>> /\ I!At(b.world.hdr, I!TraceKey)[1] = to
  BY Zenon DEF CallAdds
<1>3. /\ Len(f) = n /\ Len(j) = n
      /\ \A i \in 1..n : j[i] = IF mode = "shared" THEN f[1] ELSE f[i]
      /\ mode = "shared" => IF n = 0 THEN c = <<>> ELSE c # <<>> /\ c[1] = f[1]
  BY Zenon DEF JoinedSo
<1>4. to = IF mode = "shared" /\ n # 0 THEN f[1] ELSE own
  <2>1. Carried(acc.world) = IF c = <<>> THEN own ELSE c[1] BY DEF Carried
  <2> HIDE DEF f, c, own
  <2>2. QED BY <1>3, <2>1
<1> HIDE DEF own, c, to, f, j, U
<1> DEFINE f2 == Append(f, own)
           j2 == Append(j, to)
<1>5. /\ Len(f2) = n + 1 /\ \A i \in 1..n : f2[i] = f[i]
      /\ f2[n + 1] = own
  BY <1>1, <1>3
<1>6. /\ Len(j2) = n + 1 /\ \A i \in 1..n : j2[i] = j[i]
      /\ j2[n + 1] = to
  BY <1>1, <1>3
<1> HIDE DEF f2, j2
<1>7. mode = "shared" => to = f2[1]
  <2>1. CASE n = 0 BY <1>4, <1>5, <2>1
  <2>2. CASE n # 0
    <3>1. 1 \in 1..n BY <2>2
    <3>2. QED BY <1>4, <1>5, <2>2, <3>1
  <2>3. QED BY <2>1, <2>2
<1>8. \A i \in 1..(n + 1) : j2[i] = IF mode = "shared" THEN f2[1] ELSE f2[i]
  <2> SUFFICES ASSUME NEW i \in 1..(n + 1) PROVE j2[i] = IF mode = "shared" THEN f2[1] ELSE f2[i]
    OBVIOUS
  <2>1. CASE i = n + 1 BY <1>4, <1>5, <1>6, <1>7, <2>1
  <2>2. CASE i \in 1..n
    <3>1. 1 \in 1..n BY <2>2
    <3>2. QED BY <1>3, <1>5, <1>6, <2>2, <3>1
  <2>3. QED BY <2>1, <2>2
<1>9. n + 1 # 0 OBVIOUS
<1>10. b.first = f2 /\ b.joined = j2 BY <1>2 DEF f2, j2
<1>11. QED BY <1>2, <1>5, <1>6, <1>7, <1>8, <1>9, <1>10, Zenon DEF JoinedSo

\* Server spans join their own call's trace unless the header map is reused, for
\* any chain and any number of calls.
LEMMA TracesJoin ==
  ASSUME NEW X, NEW is \in Seq(X), NEW C, NEW codes \in Seq(C), NEW mode
  PROVE  I!TraceJoins(mode, is, codes)
<1> SUFFICES ASSUME "trace" \in I!Range(is)
             PROVE  \A n \in DOMAIN codes : I!Calls(mode, is, codes).joined[n]
                      = IF mode = "shared" THEN I!Calls(mode, is, codes).first[1] ELSE I!Calls(mode, is, codes).first[n]
  BY Zenon DEF I!TraceJoins
<1> DEFINE L == Len(codes)
           s == I!Made(mode, is, codes)
           Reached == {n \in Nat : n <= L => JoinedSo(mode, s[n], n)}
<1>1. L \in Nat /\ DOMAIN codes = 1..L OBVIOUS
<1>2. /\ s \in [0..L -> Ledger(X, C)] /\ s[0] = [world |-> I!NewWorld, first |-> <<>>, joined |-> <<>>]
      /\ \A i \in 1..L : s[i] = I!NextCall(mode, is, s[i - 1], codes[i])
  BY MadeIs
<1> HIDE DEF s
<1>3. 0 \in Reached
  <2>1. s[0].first = <<>> /\ s[0].joined = <<>> /\ s[0].world = I!NewWorld BY <1>2
  <2>2. I!NewWorld.hdr = I!EmptyMd BY DEF I!NewWorld
  <2>3. I!At(I!EmptyMd, I!TraceKey) = <<>> BY EmptyIsMd DEF I!At
  <2>4. Len(<<>>) = 0 /\ 1..0 = {} OBVIOUS
  <2>5. JoinedSo(mode, s[0], 0) BY <2>1, <2>2, <2>3, <2>4 DEF JoinedSo
  <2>6. QED BY <2>5
<1>4. ASSUME NEW n \in Nat, n \in Reached PROVE n + 1 \in Reached
  <2> SUFFICES ASSUME n + 1 <= L PROVE JoinedSo(mode, s[n + 1], n + 1)
    OBVIOUS
  <2>1. JoinedSo(mode, s[n], n) /\ n + 1 \in 1..L /\ n \in 0..L /\ (n + 1) - 1 = n BY <1>1, <1>4
  <2> DEFINE acc == s[n]
             b == s[n + 1]
             code == codes[n + 1]
  <2>2. acc \in Ledger(X, C) /\ b = I!NextCall(mode, is, acc, code) /\ code \in C BY <1>2, <2>1
  <2>3. JoinedSo(mode, acc, n) BY <2>1
  <2> HIDE DEF acc, b, code
  <2>4. b \in Ledger(X, C) /\ CallAdds(mode, acc, b) BY <2>2, CallDoes
  <2>5. JoinedSo(mode, b, n + 1) BY <2>2, <2>3, <2>4, JoinedStep
  <2>6. QED BY <2>5 DEF b
<1> HIDE DEF Reached
<1>5. L \in Reached BY <1>1, <1>3, <1>4, NatSetInduction
<1>6. JoinedSo(mode, s[L], L) BY <1>1, <1>5 DEF Reached
<1>7. s[L] = I!Calls(mode, is, codes) BY DEF s, I!Calls
<1>8. QED BY <1>1, <1>6, <1>7, Zenon DEF JoinedSo

\* The lists that the run picks are sequences.
LEMMA InSeq ==
  ASSUME NEW S, NEW n \in Nat, NEW x \in UpTo(S, n)
  PROVE  x \in Seq(S)
<1>1. PICK m \in 0..n : x \in [1..m -> S] BY DEF UpTo
<1>2. m \in Nat OBVIOUS
<1>3. QED BY <1>1, <1>2

\* [](CallsObserved): chains of any length observe each call once, outermost
\* first, and the spans of any number of calls join the traces TraceJoins names.
THEOREM CallsAreObserved == EdgeSpec => []CallsObserved
<1>1. EdgeInit => CallsObserved BY DEF EdgeInit, CallsObserved
<1>2. CallsObserved /\ [EdgeNext]_edgeVars => CallsObserved'
  <2> SUFFICES ASSUME CallsObserved, [EdgeNext]_edgeVars PROVE CallsObserved'
    OBVIOUS
  <2>1. CASE UNCHANGED <<kind, input>> BY <2>1 DEF CallsObserved
  <2>2. CASE PickChain /\ kind' = "chain"
    <3>1. PICK side \in {"client", "server"}, is \in UpTo(Kinds, MaxList), code \in {0, 7, -128} :
            input' = <<side, is, code>>
      BY <2>2, Zenon DEF PickChain, Pick
    <3>2. is \in Seq(Kinds) BY EdgeBounds, InSeq
    <3>3. I!ObservedOnce(side, is, code) BY <3>2, EachObserves
    <3>4. input'[1] = side /\ input'[2] = is /\ input'[3] = code BY <3>1
    <3>5. kind' # "calls" BY <2>2
    <3>6. QED BY <3>3, <3>4, <3>5 DEF CallsObserved
  <2>3. CASE PickCalls /\ kind' = "calls"
    <3>1. PICK mode \in {"none", "fresh", "shared"}, is \in UpTo(Kinds, 2), n \in 1..3 :
            input' = <<mode, is, [i \in 1..n |-> 0]>>
      BY <2>3, Zenon DEF PickCalls, Pick
    <3> DEFINE codes == [i \in 1..n |-> 0]
    <3>2. is \in Seq(Kinds) BY InSeq
    <3>3. codes \in Seq({0}) OBVIOUS
    <3>4. I!TraceJoins(mode, is, codes) BY <3>2, <3>3, TracesJoin
    <3>5. input'[1] = mode /\ input'[2] = is /\ input'[3] = codes BY <3>1
    <3>6. kind' # "chain" BY <2>3
    <3> HIDE DEF codes
    <3>7. QED BY <3>4, <3>5, <3>6 DEF CallsObserved
  <2>4. CASE kind' \notin {"chain", "calls"} BY <2>4 DEF CallsObserved
  <2>5. QED BY <2>1, <2>2, <2>3, <2>4, OnePick
<1>3. QED BY <1>1, <1>2, PTL DEF EdgeSpec

-----------------------------------------------------------------------------
\* The frames that the run picks.

\* Everything the run frames in other ways than by a stream is short.
LEMMA Short ==
  ASSUME NEW p \in Seq(Nat), Len(p) <= 20
  PROVE  p \in Framable
<1>1. 20 <= MaxFrameSize BY SMT DEF MaxFrameSize
<1>2. Len(p) \in Nat /\ MaxFrameSize \in Nat BY LenProperties, Limit
<1>3. Len(p) <= MaxFrameSize BY <1>1, <1>2
<1>4. QED BY <1>3 DEF Framable

\* The lists that the run picks are short sequences.
LEMMA UpToSeq ==
  ASSUME NEW S, NEW n \in Nat, NEW s \in UpTo(S, n)
  PROVE  s \in Seq(S) /\ Len(s) <= n
<1>1. PICK m \in 0..n : s \in [1..m -> S] BY DEF UpTo
<1>2. m \in Nat /\ m <= n OBVIOUS
<1>3. QED BY <1>1, <1>2

\* Every stream the run picks.
LEMMA StreamsPass ==
  ASSUME NEW ps \in UpTo(Payloads, MaxList), NEW cut \in 0..(8 * MaxList)
  PROVE  FramesSurvive(ps, cut)
<1>1. Payloads \subseteq Framable
  <2>1. <<>> \in Seq(Nat) /\ Len(<<>>) = 0 /\ <<10>> \in Seq(Nat) /\ Len(<<10>>) = 1 OBVIOUS
  <2>2. <<0, 0, 0, 1>> \in Seq(Nat) /\ Len(<<0, 0, 0, 1>>) = 4 /\ <<18, 0>> \in Seq(Nat) /\ Len(<<18, 0>>) = 2 OBVIOUS
  <2>3. 0 <= 20 /\ 1 <= 20 /\ 4 <= 20 /\ 2 <= 20 OBVIOUS
  <2>4. <<>> \in Framable /\ <<10>> \in Framable /\ <<0, 0, 0, 1>> \in Framable /\ <<18, 0>> \in Framable
    BY <2>1, <2>2, <2>3, Short
  <2>5. QED BY <2>4, Zenon DEF Payloads
<1>2. ps \in Seq(Payloads) BY EdgeBounds, UpToSeq
<1>3. ps \in Seq(Framable) BY <1>1, <1>2, SeqMonotonic
<1>4. cut \in Nat BY EdgeBounds
<1>5. QED BY <1>3, <1>4, StreamsSurvive

\* A header of four bytes is a string of bytes.
LEMMA FourBytes ==
  ASSUME NEW h, NEW a \in Nat, NEW b \in Nat, NEW c \in Nat, NEW d \in Nat, h = <<a, b, c, d>>
  PROVE  h \in Seq(Nat) /\ Len(h) = 4
OBVIOUS

\* Every header the run picks.
LEMMA HeadersPass ==
  ASSUME NEW h \in {0, 1, 63, 64, 128, 255} \X {0, 3, 4, 255} \X {0, 255} \X {0, 1}
  PROVE  OversizeRefused(h)
<1>1. h \in Nat \X Nat \X Nat \X Nat OBVIOUS
<1>2. h = <<h[1], h[2], h[3], h[4]>> /\ h[1] \in Nat /\ h[2] \in Nat /\ h[3] \in Nat /\ h[4] \in Nat BY <1>1
<1>3. h \in Seq(Nat) /\ Len(h) = 4 BY <1>2, FourBytes
<1>4. Len(h) >= 4 BY <1>3
<1>5. QED BY <1>3, <1>4, OversizedRefused

\* A byte put before a string.
LEMMA Headed ==
  ASSUME NEW f \in Nat, NEW r \in Seq(Nat), NEW p, p = <<f>> \o r
  PROVE  p \in Seq(Nat) /\ Len(p) = 1 + Len(r) /\ p[1] = f
<1> DEFINE u == <<f>>
<1>1. u \in Seq(Nat) OBVIOUS
<1>2. Len(u) = 1 /\ u[1] = f OBVIOUS
<1>3. p = u \o r OBVIOUS
<1> HIDE DEF u
<1>4. p \in Seq(Nat) BY <1>1, <1>3, Concat
<1>5. Len(u \o r) = Len(u) + Len(r) BY <1>1, Concat
<1>6. Len(p) = 1 + Len(r) BY <1>2, <1>3, <1>5
<1>7. \A i \in 1..Len(u) : (u \o r)[i] = u[i] BY <1>1, Concat
<1>8. p[1] = u[1] BY <1>2, <1>3, <1>7
<1>9. QED BY <1>2, <1>4, <1>6, <1>8

\* The protobuf messages PickProto chooses from.
Protos == {<<>>} \cup {<<f>> \o r : f \in {10, 18, 26}, r \in UpTo({0, 1, 255}, MaxBytes + 1)}

\* Every protobuf frame the run picks.
LEMMA ProtosPass ==
  ASSUME MaxBytes + 20 <= MaxFrameSize,
         NEW p \in Protos
  PROVE  PrefixTransparent(p)
<1>1. CASE p = <<>>
  <2>0. p \in Seq(Nat) BY <1>1
  <2>1. Len(p) <= 20 BY <1>1
  <2>2. p \in Framable BY <2>0, <2>1, Short, Zenon
  <2>3. QED BY <1>1, <2>2, PrefixesTransparent
<1>2. CASE p # <<>>
  <2>1. PICK f \in {10, 18, 26}, r \in UpTo({0, 1, 255}, MaxBytes + 1) : p = <<f>> \o r BY <1>2 DEF Protos
  <2>2. MaxBytes + 1 \in Nat /\ f \in Nat /\ f # 0 BY EdgeBounds
  <2>3. r \in Seq({0, 1, 255}) /\ Len(r) <= MaxBytes + 1 BY <2>2, UpToSeq
  <2>4. {0, 1, 255} \subseteq Nat OBVIOUS
  <2>5. r \in Seq(Nat) BY <2>3, <2>4, SeqMonotonic
  <2>8. p \in Seq(Nat) /\ Len(p) = 1 + Len(r) /\ p[1] = f BY <2>1, <2>2, <2>5, Headed
  <2>12. Len(r) \in Nat BY <2>5, LenProperties
  <2>14. Len(p) <= MaxFrameSize BY <2>3, <2>12, <2>8, EdgeBounds, Limit
  <2>15. p \in Framable BY <2>8, <2>14 DEF Framable
  <2>16. p[1] # 0 BY <2>2, <2>8
  <2>17. QED BY <2>15, <2>16, PrefixesTransparent
<1>3. QED BY <1>1, <1>2

\* The codec the run uses gives every body an encoding of its own.
LEMMA CodecMarshals == Marshals(Codec)
<1> DEFINE Ks == {"Announce", "Offer", "Answer", "Candidate", "Leave", "Ping", "Future"}
<1>1. DOMAIN Codec = Ks BY DEF Codec
<1>2. /\ Codec["Announce"] = <<10, 1>> /\ Codec["Offer"] = <<18>> /\ Codec["Answer"] = <<26, 0>>
      /\ Codec["Candidate"] = <<34, 2, 3>> /\ Codec["Leave"] = <<42>> /\ Codec["Ping"] = <<50>>
      /\ Codec["Future"] = <<58>>
  <2>1. \A k \in Ks : Codec[k] =
          CASE k = "Announce" -> <<10, 1>> [] k = "Offer" -> <<18>> [] k = "Answer" -> <<26, 0>>
            [] k = "Candidate" -> <<34, 2, 3>> [] k = "Leave" -> <<42>> [] k = "Ping" -> <<50>> [] OTHER -> <<58>>
    BY Zenon DEF Codec
  <2>2. Codec["Announce"] = <<10, 1>> BY <2>1, Zenon
  <2>3. Codec["Offer"] = <<18>> BY <2>1, Zenon
  <2>4. Codec["Answer"] = <<26, 0>> BY <2>1, Zenon
  <2>5. Codec["Candidate"] = <<34, 2, 3>> BY <2>1, Zenon
  <2>6. Codec["Leave"] = <<42>> BY <2>1, Zenon
  <2>7. Codec["Ping"] = <<50>> BY <2>1, Zenon
  <2>8. Codec["Future"] = <<58>> BY <2>1, Zenon
  <2>9. QED BY <2>2, <2>3, <2>4, <2>5, <2>6, <2>7, <2>8, Zenon
<1>3. \A k \in Ks : Codec[k] \in Framable
  <2>1. \A x \in Nat : <<x>> \in Seq(Nat) /\ Len(<<x>>) <= 20 OBVIOUS
  <2>2. \A x, y \in Nat : <<x, y>> \in Seq(Nat) /\ Len(<<x, y>>) <= 20 OBVIOUS
  <2>3. <<34, 2, 3>> \in Seq(Nat) /\ Len(<<34, 2, 3>>) <= 20 OBVIOUS
  <2>4. \A x \in Nat : <<x>> \in Framable BY <2>1, Short
  <2>5. \A x, y \in Nat : <<x, y>> \in Framable BY <2>2, Short
  <2>6. <<34, 2, 3>> \in Framable BY <2>3, Short
  <2>7. 10 \in Nat /\ 1 \in Nat /\ 18 \in Nat /\ 26 \in Nat /\ 0 \in Nat /\ 42 \in Nat /\ 50 \in Nat /\ 58 \in Nat OBVIOUS
  <2>8. Codec["Announce"] \in Framable BY <1>2, <2>5, <2>7
  <2>9. Codec["Offer"] \in Framable BY <1>2, <2>4, <2>7
  <2>10. Codec["Answer"] \in Framable BY <1>2, <2>5, <2>7
  <2>11. Codec["Candidate"] \in Framable BY <1>2, <2>6
  <2>12. Codec["Leave"] \in Framable BY <1>2, <2>4, <2>7
  <2>13. Codec["Ping"] \in Framable BY <1>2, <2>4, <2>7
  <2>14. Codec["Future"] \in Framable BY <1>2, <2>4, <2>7
  <2>15. QED BY <2>8, <2>9, <2>10, <2>11, <2>12, <2>13, <2>14, Zenon
<1>4. \A k \in Ks : Codec[k][1] = CASE k = "Announce" -> 10 [] k = "Offer" -> 18 [] k = "Answer" -> 26
                                    [] k = "Candidate" -> 34 [] k = "Leave" -> 42 [] k = "Ping" -> 50 [] OTHER -> 58
  <2>1. /\ Codec["Announce"][1] = 10 /\ Codec["Offer"][1] = 18 /\ Codec["Answer"][1] = 26 /\ Codec["Candidate"][1] = 34
        /\ Codec["Leave"][1] = 42 /\ Codec["Ping"][1] = 50 /\ Codec["Future"][1] = 58
    BY <1>2
  <2>2. QED BY <2>1, Zenon
<1>5. \A k, l \in Ks : Codec[k] = Codec[l] => k = l
  <2> SUFFICES ASSUME NEW k \in Ks, NEW l \in Ks, Codec[k] = Codec[l] PROVE k = l
    OBVIOUS
  <2>1. Codec[k][1] = Codec[l][1] OBVIOUS
  <2>2. /\ Codec["Announce"][1] = 10 /\ Codec["Offer"][1] = 18 /\ Codec["Answer"][1] = 26 /\ Codec["Candidate"][1] = 34
        /\ Codec["Leave"][1] = 42 /\ Codec["Ping"][1] = 50 /\ Codec["Future"][1] = 58
    BY <1>2
  <2>3. QED BY <2>1, <2>2
<1>6. \A i \in 1..6 : BodyKinds[i] \in Ks BY DEF BodyKinds
<1> HIDE DEF Ks
<1>7. QED BY <1>1, <1>3, <1>5, <1>6 DEF Marshals

\* Every plaintext the run picks.
LEMMA SealedPass ==
  ASSUME MaxBytes + 20 <= MaxFrameSize, NEW a \in 1..2, NEW b \in 1..2, NEW info \in 1..2,
         NEW t \in UpTo({0, 7, 255}, MaxBytes), NEW c \in 0..8
  PROVE  SealedTravels(a, b, info, t, c)
<1>1. t \in Seq({0, 7, 255}) /\ Len(t) <= MaxBytes BY EdgeBounds, UpToSeq
<1>2. {0, 7, 255} \subseteq Bytes BY DEF Bytes
<1>3. t \in Seq(Bytes) BY <1>1, <1>2, SeqMonotonic
<1>4. Len(t) \in Nat BY <1>3, LenProperties
<1>5. Len(t) + 20 <= MaxFrameSize BY <1>1, <1>4, EdgeBounds, Limit
<1>6. a \in Nat /\ b \in Nat /\ info \in Nat /\ c \in 0..18 OBVIOUS
<1>7. QED BY <1>3, <1>5, <1>6, SealsHold

\* [](FramesTravel): all five, on everything the run picks, whatever its bounds,
\* as long as a sealed text still fits a frame.
THEOREM FramesHold == ASSUME MaxBytes + 20 <= MaxFrameSize PROVE EdgeSpec => []FramesTravel
<1>1. EdgeInit => FramesTravel BY DEF EdgeInit, FramesTravel
<1>2. FramesTravel /\ [EdgeNext]_edgeVars => FramesTravel'
  <2> SUFFICES ASSUME FramesTravel, [EdgeNext]_edgeVars PROVE FramesTravel'
    OBVIOUS
  <2>1. CASE UNCHANGED <<kind, input>> BY <2>1 DEF FramesTravel
  <2>2. CASE PickStream /\ kind' = "stream"
    <3>1. PICK ps \in UpTo(Payloads, MaxList), cut \in 0..(8 * MaxList) : input' = <<ps, cut>>
      BY <2>2, Zenon DEF PickStream, Pick
    <3>2. FramesSurvive(ps, cut) BY StreamsPass
    <3>3. input'[1] = ps /\ input'[2] = cut BY <3>1
    <3>4. QED BY <2>2, <3>2, <3>3 DEF FramesTravel
  <2>3. CASE PickHeader /\ kind' = "header"
    <3>1. input' \in {0, 1, 63, 64, 128, 255} \X {0, 3, 4, 255} \X {0, 255} \X {0, 1}
      BY <2>3, Zenon DEF PickHeader, Pick
    <3>2. OversizeRefused(input') BY <3>1, HeadersPass
    <3>3. QED BY <2>3, <3>2 DEF FramesTravel
  <2>4. CASE PickProto /\ kind' = "proto"
    <3>1. PICK p \in Protos : input' = p BY <2>4, SMT DEF PickProto, Pick, Protos
    <3>2. PrefixTransparent(p) BY ProtosPass
    <3>3. PrefixTransparent(input') BY <3>1, <3>2, Zenon
    <3>4. QED BY <2>4, <3>3 DEF FramesTravel
  <2>5. CASE PickBody /\ kind' = "body"
    <3>1. PICK s \in {"", "other"}, b \in SUBSET Range(BodyKinds) : input' = [service |-> s, bodies |-> b]
      BY <2>5, Zenon DEF PickBody, Pick
    <3>3. input'.bodies \subseteq Range(BodyKinds) BY <3>1
    <3>4. BodiesSurvive(Codec, "room", input') BY <3>3, CodecMarshals, BodiesArrive
    <3>5. QED BY <2>5, <3>4 DEF FramesTravel
  <2>6. CASE PickSealed /\ kind' = "sealed"
    <3>1. PICK a \in 1..2, b \in 1..2, info \in 1..2, t \in UpTo({0, 7, 255}, MaxBytes), c \in 0..8 :
            input' = <<a, b, info, t, c>>
      BY <2>6, Zenon DEF PickSealed, Pick
    <3>2. SealedTravels(a, b, info, t, c) BY SealedPass
    <3>3. input'[1] = a /\ input'[2] = b /\ input'[3] = info /\ input'[4] = t /\ input'[5] = c BY <3>1
    <3>4. QED BY <2>6, <3>2, <3>3 DEF FramesTravel
  <2>7. CASE kind' \notin {"stream", "header", "proto", "body", "sealed"} BY <2>7 DEF FramesTravel
  <2>8. QED BY <2>1, <2>2, <2>3, <2>4, <2>5, <2>6, <2>7, OnePick
<1>3. QED BY <1>1, <1>2, PTL DEF EdgeSpec
=============================================================================
