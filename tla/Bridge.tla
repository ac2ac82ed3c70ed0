------------------------------- MODULE Bridge -------------------------------
(***************************************************************************)
(* Package grpcbridge and the bridge command: PeerRPC calls forwarded to a *)
(* Connect service, in process or over HTTP.  An upstream answer has a     *)
(* transport outcome, an HTTP status, headers and a body; an error body is *)
(* the code its JSON carries, 0 for none and Junk for text that is none.   *)
(* Codes are w-bit integers, statuses are codes.                           *)
(***************************************************************************)
EXTENDS Interceptors, FiniteSets

OK == 0
Width == 8                       \* for int32
Junk == -(2^20)

\* connectCodeFromHTTP.
connectCodeFromHTTP(c) ==
  CASE c = 400 -> 3 [] c = 401 -> 16 [] c = 403 -> 7 [] c = 404 -> 5
    [] c = 409 -> 10 [] c = 429 -> 8 [] OTHER -> 13

\* Faulty variant: a JSON body without a code is trusted.
decodeConnectErrorTrusting(http, body, fallback) ==
  IF body = <<>> \/ body[1] = Junk THEN fallback ELSE Truncate(body[1], Width)

\* decodeConnectError and decodeConnectErrorFromStatus differ in the fallback.
\* The code is an int that is cut to 32 bits after it was compared with 0.
decodeConnectError(http, body, fallback) ==
  IF body = <<>> \/ body[1] \in {0, Junk} THEN fallback ELSE Truncate(body[1], Width)

\* HTTPHandlerInvoker.Invoke: no transport to fail.
InvokeHandler(resp) ==
  IF resp.status # 200 THEN [body |-> <<>>, md |-> resp.header,
                             status |-> decodeConnectError(resp.status, resp.body, connectCodeFromHTTP(resp.status))]
  ELSE [body |-> resp.body, md |-> resp.header, status |-> OK]

\* HTTPClientInvoker.Invoke: an upstream error becomes 13 whatever it says.
InvokeClient(resp) ==
  CASE resp.net = "refused" -> [body |-> <<>>, md |-> EmptyMd, status |-> 14]
    [] resp.net = "cut" -> [body |-> <<>>, md |-> resp.header, status |-> 13]
    [] resp.net = "ok" /\ resp.status # 200 -> [body |-> <<>>, md |-> resp.header, status |-> 13]
    [] OTHER -> [body |-> resp.body, md |-> resp.header, status |-> OK]

\* HTTPHandlerInvoker.InvokeStream: the whole answer is one message.
InvokeStreamHandler(resp) ==
  LET r == InvokeHandler(resp)
  IN [sent |-> IF r.status = OK /\ r.body # <<>> THEN <<r.body>> ELSE <<>>, status |-> r.status]

\* The body of a streaming answer: flag, 4-byte length, payload, repeated; the
\* length is its last byte here.  HTTPClientInvoker.InvokeStream reads it.
Message(flag, payload) == <<flag, 0, 0, 0, Len(payload)>> \o payload

\* Faulty variant: a message without payload ends the stream.
StreamLoopStopsAtEmpty(s) ==
  LET loop[n \in 0..Len(s)] ==
        LET b == SubSeq(s, Len(s) - n + 1, Len(s))  size == b[5]  payload == SubSeq(b, 6, 5 + size) IN
        IF n < 5 \/ size = 0 THEN [sent |-> <<>>, status |-> OK]
        ELSE IF n - 5 < size THEN [sent |-> <<>>, status |-> 13]
        ELSE IF b[1] = 1 THEN [sent |-> <<>>, status |-> decodeConnectError(200, payload, 13)]
        ELSE [sent |-> <<payload>> \o loop[n - 5 - size].sent, status |-> loop[n - 5 - size].status]
  IN loop[Len(s)]

\* EOF and ErrUnexpectedEOF in a header both end the stream well.
StreamLoop(s) ==
  LET loop[n \in 0..Len(s)] ==          \* n bytes left
        LET b == SubSeq(s, Len(s) - n + 1, Len(s))  size == b[5]  payload == SubSeq(b, 6, 5 + size) IN
        IF n < 5 THEN [sent |-> <<>>, status |-> OK]
        ELSE IF size = 0 THEN loop[n - 5]
        ELSE IF n - 5 < size THEN [sent |-> <<>>, status |-> 13]
        ELSE IF b[1] = 1 THEN [sent |-> <<>>, status |-> decodeConnectError(200, payload, 13)]
        ELSE [sent |-> <<payload>> \o loop[n - 5 - size].sent, status |-> loop[n - 5 - size].status]
  IN loop[Len(s)]

InvokeStreamClient(resp) ==
  IF resp.net = "refused" THEN [sent |-> <<>>, status |-> 14]
  ELSE IF resp.status # 200 THEN [sent |-> <<>>, status |-> decodeConnectError(resp.status, resp.body, 13)]
  ELSE StreamLoop(resp.body)

\* UnaryHandler over rpc.ServerStream: Recv, the call (r is its result),
\* SetTrailer with the answer's headers, Send.  The headers it passes on are
\* those of Header(), the outgoing holder, which is empty: the client's
\* metadata stays behind.
UnaryHandler(recvOk, sendOk, r) ==
  LET set == IF r.md = EmptyMd THEN <<>> ELSE <<[do |-> "trailer", kv |-> r.md]>>
      m == Metadata(IF recvOk /\ r.status = OK THEN set \o <<[do |-> "send"]>> ELSE <<>>)
  IN [sent |-> IF recvOk /\ sendOk /\ r.status = OK THEN <<r.body>> ELSE <<>>,
      header |-> m.header, trailer |-> m.trailer,
      status |-> IF ~recvOk THEN 13 ELSE IF r.status # OK THEN r.status ELSE IF sendOk THEN OK ELSE 13]

\* ServerStreamingHandler: a Send that fails, from the n-th on, is ignored.
ServerStreamingHandler(recvOk, failFrom, r) ==
  IF recvOk THEN [sent |-> [i \in {j \in DOMAIN r.sent : j < failFrom} |-> r.sent[i]], status |-> r.status]
  ELSE [sent |-> <<>>, status |-> 13]

-----------------------------------------------------------------------------
\* Mounting.  A spec is its tokens; a name that is empty is "".
SplitComma(s) ==
  LET add(acc, t) == IF t = "," THEN Append(acc, "") ELSE Front(acc) \o <<IF t = " " THEN Last(acc) ELSE t>>
  IN FoldLeft(add, <<"">>, s)
\* ParseServiceSpec; methods are trimmed after the check, so they may be "".
ParseServiceSpec(s) ==
  IF Len(s) < 3 \/ s[2] # ":" \/ s[1] = ":" THEN [ok |-> FALSE, name |-> "", methods |-> <<>>]
  ELSE [ok |-> TRUE, name |-> s[1], methods |-> SplitComma(SubSeq(s, 3, Len(s)))]
ParseRole(s) == CASE s = "offerer" -> "RoleClient" [] s = "answerer" -> "RoleServer" [] OTHER -> "error"

\* Faulty variant: a path that is taken is kept and the rest goes on.
RegisterServiceSkips(srv, name, methods) ==
  LET add(acc, m) == IF <<name, m.method>> \in DOMAIN acc.methods THEN acc
                     ELSE [acc EXCEPT !.methods = (<<name, m.method>> :> m.kind) @@ @]
  IN FoldLeft(add, srv, methods)

\* Server.RegisterService, which panics on a path it has.
RegisterService(srv, name, methods) ==
  LET add(acc, m) == IF acc.panic \/ <<name, m.method>> \in DOMAIN acc.methods THEN [acc EXCEPT !.panic = TRUE]
                     ELSE [acc EXCEPT !.methods = (<<name, m.method>> :> m.kind) @@ @]
  IN FoldLeft(add, srv, methods)
MountConnectService(srv, name, methods) ==
  RegisterService(srv, name, [i \in DOMAIN methods |-> [method |-> methods[i], kind |-> "unary"]])
MountConnectServiceWithStreaming(srv, name, methods, streamMethods) ==
  RegisterService(srv, name, [i \in DOMAIN methods |->
    [method |-> methods[i], kind |-> IF methods[i] \in Range(streamMethods) THEN "stream" ELSE "unary"]])

\* runBridge up to Serve: unary specs, streaming specs, then the role.
runBridge(services, streamServices, role) ==
  LET mount(streaming, acc, spec) ==
        LET p == ParseServiceSpec(spec) IN
        IF acc.err \/ acc.srv.panic THEN acc
        ELSE IF ~p.ok THEN [acc EXCEPT !.err = TRUE]
        ELSE [acc EXCEPT !.srv = IF streaming THEN MountConnectServiceWithStreaming(@, p.name, p.methods, p.methods)
                                 ELSE MountConnectService(@, p.name, p.methods)]
      none == [err |-> FALSE, srv |-> [methods |-> EmptyMd, panic |-> FALSE]]
      unary == FoldLeft(LAMBDA a, s : mount(FALSE, a, s), none, services)
      both == FoldLeft(LAMBDA a, s : mount(TRUE, a, s), unary, streamServices)
  IN [both EXCEPT !.err = @ \/ ParseRole(role) = "error"]

-----------------------------------------------------------------------------
(* A unary call succeeds through the bridge exactly when the upstream       *)
(* answered 200 in full and the response could be sent, with two edges: the *)
(* remote invoker turns every error into 13 and loses the code the body     *)
(* carries, and the in-process one returns OK, with an empty response, for  *)
(* an error whose code is 0 in 32 bits, as both streaming ones do.  A handler whose Send fails says so *)
(* in a unary call and reports success in a streaming one.                  *)
BridgeStatus(recvOk, sendOk, resp) ==
  LET c == UnaryHandler(recvOk, sendOk, InvokeClient(resp))
      h == UnaryHandler(recvOk, sendOk, InvokeHandler(resp))
      s == ServerStreamingHandler(recvOk, IF sendOk THEN 2 ELSE 1, InvokeStreamHandler(resp))
      k == ServerStreamingHandler(recvOk, 1, InvokeStreamClient(resp))
      full == resp.net = "ok" /\ resp.status = 200
      wraps == resp.body # <<>> /\ resp.body[1] \notin {0, Junk} /\ resp.body[1] % 2^Width = 0
  IN /\ (c.status = OK) <=> (recvOk /\ sendOk /\ full)
     /\ (h.status = OK) <=> (recvOk /\ sendOk /\ (resp.status = 200 \/ wraps))
     /\ (s.status = OK) <=> (recvOk /\ (resp.status = 200 \/ wraps))
     /\ (k.status = OK) <=> (recvOk /\ resp.net # "refused" /\ (resp.status = 200 \/ wraps))
     /\ c.status = OK => c.sent = <<resp.body>> /\ c.header = resp.header /\ c.trailer = resp.header
     /\ c.status # OK => c.sent = <<>>
     /\ s.sent # <<>> => s.status = OK

(* A streaming answer cut anywhere: what was sent on is a prefix of its     *)
(* data messages, and the status is an error only if the cut is in a        *)
(* payload or an error trailer was read whole.  A cut in a header, or an    *)
(* error trailer without a payload, is reported as success.                 *)
BridgeStream(msgs, cut) ==
  LET full == FlattenSeq([i \in DOMAIN msgs |-> Message(msgs[i].flag, msgs[i].payload)])
      answer == [net |-> "cut", status |-> 200, header |-> EmptyMd, body |-> SubSeq(full, 1, cut)]
      r == ServerStreamingHandler(TRUE, Len(msgs) + 1, InvokeStreamClient(answer))
      start(i) == Len(FlattenSeq([j \in 1..(i - 1) |-> Message(msgs[j].flag, msgs[j].payload)]))
      stop == {i \in DOMAIN msgs : msgs[i].flag = 1 /\ msgs[i].payload # <<>>}
      data == SelectSeq([i \in DOMAIN msgs |-> IF \E j \in stop : j < i THEN [flag |-> 1, payload |-> <<>>] ELSE msgs[i]],
                        LAMBDA m : m.flag = 0 /\ m.payload # <<>>)
      read(i) == start(i) + 5 + Len(msgs[i].payload) <= cut
      split(i) == start(i) + 5 <= cut /\ ~read(i)
  IN cut <= Len(full) =>
       /\ IsPrefix(r.sent, [i \in DOMAIN data |-> data[i].payload])
       /\ cut = Len(full) => Len(r.sent) = Len(data)
       /\ (r.status # OK) <=> \E i \in DOMAIN msgs : /\ \A j \in stop : i <= j
                                                     /\ split(i) \/ (i \in stop /\ read(i))

(* The bridge serves exactly the methods its flags name, streaming where    *)
(* they say so, and panics exactly when a path is named twice.              *)
MountedAsNamed(services, streamServices, role) ==
  LET b == runBridge(services, streamServices, role)
      paths(specs) == FlattenSeq([i \in DOMAIN specs |->
                        LET p == ParseServiceSpec(specs[i])
                        IN [j \in DOMAIN p.methods |-> <<p.name, p.methods[j]>>]])
      all == paths(services) \o paths(streamServices)
  IN (\A s \in Range(services) \cup Range(streamServices) : ParseServiceSpec(s).ok) =>
       /\ b.srv.panic <=> Cardinality(Range(all)) < Len(all)
       /\ ~b.srv.panic => /\ DOMAIN b.srv.methods = Range(all)
                          /\ \A p \in Range(all) : (b.srv.methods[p] = "stream") <=> (p \in Range(paths(streamServices)))
=============================================================================
