----------------------------- MODULE RpcClient -----------------------------
(***************************************************************************)
(* rpc.Client: the sequence allocator, the table of in-flight streams, the *)
(* Attach pump, one invoking goroutine per call and its watchCancel        *)
(* goroutine, and Conn.Close, which stops the pump and closes the channel. *)
(***************************************************************************)
EXTENDS RpcWire

CONSTANTS
  Unary,        \* calls made with InvokeUnary
  Stream,       \* calls made with InvokeClientStreaming / InvokeBidiStreaming;
                \* the remaining calls are made with InvokeServerStreaming
  Inline,       \* calls whose first request rides in Call.inline_data
  Cancellable,  \* calls whose ctx may be canceled or expire
  MaxReq,       \* bound: messages a streaming caller sends
  InboundCap    \* capacity of clientStream.inbound (16 in the code)

ASSUME ClientAssumption ==
  /\ Unary \subseteq Calls /\ Stream \subseteq Calls
  /\ Unary \cap Stream = {}
  /\ Inline \subseteq Calls /\ Cancellable \subseteq Calls
  /\ MaxReq \in Nat
  /\ InboundCap \in Nat \ {0}

VARIABLES
  seqAlloc,      \* Client.seqAlloc modulo SeqSpace
  cstreams,      \* Client.streams: sequence -> stream, None when absent
  seqOf,         \* clientStream.seq, 0 before openStream
  cin,           \* clientStream.inbound
  cend,          \* clientStream.result's code; None while `end` is open
  chdr,          \* Begin's header has been merged into clientStream.header
  chalf,         \* ClientStream.closeSendOnce has run
  ctxDone,       \* the caller's ctx is done
  cpc,           \* where the invoking goroutine is
  sent,          \* request messages handed to sendPayload or sent inline
  got,           \* history: payloads taken off inbound by the caller
  outcome,       \* what the invocation finally reported
  watch,         \* the watchCancel goroutine
  apc, aitem,    \* the Attach pump and the delivery it is blocked on
  attachCancel   \* Conn.Close has canceled the pump's ctx

streamVars == <<cstreams, seqOf, cin, cend, chdr>>
callerVars == <<chalf, ctxDone, cpc, sent, got, outcome>>
attachVars == <<apc, aitem, attachCancel>>
clientVars == <<seqAlloc, streamVars, callerVars, watch, attachVars>>

CallerPcs == {"idle", "call", "payload", "close", "await", "reply", "app", "recv", "done"}
\* Status codes are those of google.rpc: 0 OK, 2 a handler's own error, 4 done
\* ctx, 12 unknown method, 13 duplicate sequence, 14 lost connection.
Outcome == [code : Nat, data : Payload \cup {None}]
Delivery == [to : Calls, item : Payload]

ClientTypeOK ==
  /\ seqAlloc \in Seqs
  /\ cstreams \in [Seqs -> Calls \cup {None}]
  /\ seqOf \in [Calls -> Seqs]
  /\ cin \in [Calls -> Seq(Payload)]
  /\ cend \in [Calls -> Nat \cup {None}]
  /\ chdr \in [Calls -> BOOLEAN]
  /\ chalf \in [Calls -> BOOLEAN]
  /\ ctxDone \in [Calls -> BOOLEAN]
  /\ cpc \in [Calls -> CallerPcs]
  /\ sent \in [Calls -> Nat]
  /\ got \in [Calls -> Seq(Payload)]
  /\ outcome \in [Calls -> Outcome \cup {None}]
  /\ watch \in [Calls -> {"none", "armed", "cancel", "exited"}]
  /\ \A c \in Calls : cpc[c] = "reply" => got[c] # <<>>
  /\ apc \in {"recv", "deliver", "exited"}
  /\ aitem \in Delivery \cup {None}
  /\ (apc = "deliver") => (aitem \in Delivery)
  /\ attachCancel \in BOOLEAN

ClientInit ==
  /\ seqAlloc = 1
  /\ cstreams = [s \in Seqs |-> None]
  /\ seqOf = [c \in Calls |-> 0]
  /\ cin = [c \in Calls |-> <<>>]
  /\ cend = [c \in Calls |-> None]
  /\ chdr = [c \in Calls |-> FALSE]
  /\ chalf = [c \in Calls |-> FALSE]
  /\ ctxDone = [c \in Calls |-> FALSE]
  /\ cpc = [c \in Calls |-> "idle"]
  /\ sent = [c \in Calls |-> 0]
  /\ got = [c \in Calls |-> <<>>]
  /\ outcome = [c \in Calls |-> None]
  /\ watch = [c \in Calls |-> "none"]
  /\ apc = "recv"
  /\ aitem = None
  /\ attachCancel = FALSE

-----------------------------------------------------------------------------
\* Opening a stream and sending its requests.

\* Faulty variant: the counter is not advanced.
nextSeqStuck == 3 % SeqSpace

\* nextSeq: add 2, keep the low 31 bits.
nextSeq == (seqAlloc + 2) % SeqSpace

\* openStream followed by watchCancel: the entry of every Invoke function.
\* A watcher whose ctx is never done only ever waits for `end`: left out.
ClientOpenStream(c) ==
  /\ cpc[c] = "idle"
  /\ seqAlloc' = nextSeq
  /\ seqOf' = [seqOf EXCEPT ![c] = nextSeq]
  /\ cstreams' = [cstreams EXCEPT ![nextSeq] = c]
  /\ watch' = [watch EXCEPT ![c] = IF c \in Cancellable THEN "armed" ELSE "exited"]
  /\ cpc' = [cpc EXCEPT ![c] = "call"]
  /\ UNCHANGED <<cin, cend, chdr, chalf, ctxDone, sent, got, outcome, attachVars, wireVars>>

\* Where an invocation goes once its first request is on the wire.
AfterCall(c) == IF c \in Stream THEN "app" ELSE IF c \in Inline THEN "close" ELSE "payload"

\* The Call frame; its val says whether the first request rides inline.
SendCall(c) ==
  /\ cpc[c] = "call"
  /\ ClientSendFrame(Fr(seqOf[c], "call", c, IF c \in Inline THEN 1 ELSE 0), ctxDone[c])
  /\ sent' = [sent EXCEPT ![c] = IF c \in Inline THEN 1 ELSE 0]
  /\ cpc' = [cpc EXCEPT ![c] = AfterCall(c)]
  /\ UNCHANGED <<seqAlloc, streamVars, chalf, ctxDone, got, outcome, watch, attachVars>>

\* sendPayload, for a message that fits one Data frame.
SendPayload(c) ==
  /\ cpc[c] = "payload"
  /\ ClientSendFrame(Fr(seqOf[c], "data", c, sent[c] + 1), ctxDone[c])
  /\ sent' = [sent EXCEPT ![c] = @ + 1]
  /\ cpc' = [cpc EXCEPT ![c] = IF c \in Stream THEN "app" ELSE "close"]
  /\ UNCHANGED <<seqAlloc, streamVars, chalf, ctxDone, got, outcome, watch, attachVars>>

\* The End{CloseSend} frame.
SendClose(c) ==
  /\ cpc[c] = "close"
  /\ ClientSendFrame(Fr(seqOf[c], "close", c, 0), ctxDone[c])
  /\ cpc' = [cpc EXCEPT ![c] = IF c \in Unary THEN "await" ELSE "app"]
  /\ UNCHANGED <<seqAlloc, streamVars, chalf, ctxDone, sent, got, outcome, watch, attachVars>>

-----------------------------------------------------------------------------
\* Waiting for responses.

\* Take the head of inbound.
TakeInbound(c, pc) ==
  /\ cin[c] # <<>>
  /\ got' = [got EXCEPT ![c] = Append(@, Head(cin[c]))]
  /\ cin' = [cin EXCEPT ![c] = Tail(@)]
  /\ cpc' = [cpc EXCEPT ![c] = pc]
  /\ UNCHANGED <<seqAlloc, cstreams, seqOf, cend, chdr, chalf, ctxDone, sent, outcome, watch, attachVars, wireVars>>

\* The invocation reports (data, code) and is over.
Report(c, data, code) ==
  /\ outcome' = [outcome EXCEPT ![c] = [code |-> code, data |-> data]]
  /\ cpc' = [cpc EXCEPT ![c] = "done"]
  /\ UNCHANGED <<seqAlloc, seqOf, cin, cend, chdr, chalf, ctxDone, sent, got, watch, attachVars, wireVars>>

\* invokeUnary returns: its deferred cleanupStream deletes by sequence.
UnaryReturn(c, data, code) ==
  /\ Report(c, data, code)
  /\ cstreams' = [cstreams EXCEPT ![seqOf[c]] = None]

\* Faulty variant: the select does not watch ctx.
AwaitResponseNoCtx(c) ==
  /\ cpc[c] = "await"
  /\ \/ TakeInbound(c, "reply")
     \/ cend[c] # None /\ UnaryReturn(c, None, cend[c])

\* The outer select of invokeUnary.
AwaitResponse(c) ==
  /\ cpc[c] = "await"
  /\ \/ TakeInbound(c, "reply")
     \/ cend[c] # None /\ UnaryReturn(c, None, cend[c])
     \/ ctxDone[c] /\ UnaryReturn(c, None, 4)

\* The inner select of invokeUnary: a message is in hand, wait for End.
AwaitEnd(c) ==
  /\ cpc[c] = "reply"
  /\ \/ cend[c] # None /\ UnaryReturn(c, Head(got[c]), cend[c])
     \/ ctxDone[c] /\ UnaryReturn(c, None, 4)

\* ClientStream.Recv: the non-blocking check.
StreamRecv(c) ==
  /\ cpc[c] = "app"
  /\ \/ TakeInbound(c, "app")
     \/ /\ cin[c] = <<>>
        /\ cpc' = [cpc EXCEPT ![c] = "recv"]
        /\ UNCHANGED <<seqAlloc, streamVars, chalf, ctxDone, sent, got, outcome, watch, attachVars, wireVars>>

\* ClientStream.Recv: the blocking select.  Code 0 is io.EOF.
StreamRecvSelect(c) ==
  /\ cpc[c] = "recv"
  /\ \/ TakeInbound(c, "app")
     \/ cend[c] # None /\ Report(c, None, cend[c]) /\ UNCHANGED cstreams
     \/ ctxDone[c] /\ Report(c, None, 4) /\ UNCHANGED cstreams

\* The application calls ClientStream.Send, after CloseSend too: nothing in
\* Send looks at closeSendOnce.  SendPayload then runs it.
StreamSend(c) ==
  /\ cpc[c] = "app" /\ c \in Stream
  /\ sent[c] < MaxReq
  /\ cpc' = [cpc EXCEPT ![c] = "payload"]
  /\ UNCHANGED <<seqAlloc, streamVars, chalf, ctxDone, sent, got, outcome, watch, attachVars, wireVars>>

\* The application calls ClientStream.CloseSend; closeSendOnce lets one through.
StreamCloseSend(c) ==
  /\ cpc[c] = "app" /\ c \in Stream
  /\ ~chalf[c]
  /\ chalf' = [chalf EXCEPT ![c] = TRUE]
  /\ cpc' = [cpc EXCEPT ![c] = "close"]
  /\ UNCHANGED <<seqAlloc, streamVars, ctxDone, sent, got, outcome, watch, attachVars, wireVars>>

-----------------------------------------------------------------------------
\* The caller's ctx and the goroutine that watches it.

CtxCancel(c) ==
  /\ c \in Cancellable /\ ~ctxDone[c]
  /\ ctxDone' = [ctxDone EXCEPT ![c] = TRUE]
  /\ UNCHANGED <<seqAlloc, streamVars, chalf, cpc, sent, got, outcome, watch, attachVars, wireVars>>

\* Faulty variant: the goroutine ends with the ctx it watches.
WatchSelectSilent(c) ==
  /\ watch[c] = "armed"
  /\ ctxDone[c] \/ cend[c] # None
  /\ watch' = [watch EXCEPT ![c] = "exited"]
  /\ UNCHANGED <<seqAlloc, streamVars, callerVars, attachVars, wireVars>>

\* watchCancel's select.
WatchSelect(c) ==
  /\ watch[c] = "armed"
  /\ \/ ctxDone[c] /\ watch' = [watch EXCEPT ![c] = "cancel"]
     \/ cend[c] # None /\ watch' = [watch EXCEPT ![c] = "exited"]
  /\ UNCHANGED <<seqAlloc, streamVars, callerVars, attachVars, wireVars>>

\* watchCancel's End{CANCELLED}, sent with a background ctx.
WatchSend(c) ==
  /\ watch[c] = "cancel"
  /\ ClientSendFrame(Fr(seqOf[c], "cancel", c, 1), FALSE)
  /\ watch' = [watch EXCEPT ![c] = "exited"]
  /\ UNCHANGED <<seqAlloc, streamVars, callerVars, attachVars>>

-----------------------------------------------------------------------------
\* The Attach pump.

\* One frame off the channel, routed by dispatch.  A Data frame leaves the
\* pump in deliver; End closes the stream's `end` once and deletes the entry.
AttachRecv ==
  /\ apc = "recv"
  /\ ClientTake
  /\ LET f  == Head(s2c)
         cs == cstreams[f.seq]
     IN \/ /\ cs = None
           /\ UNCHANGED <<streamVars, apc, aitem>>
        \/ /\ cs # None /\ f.type = "begin"
           /\ chdr' = [chdr EXCEPT ![cs] = TRUE]
           /\ UNCHANGED <<cstreams, seqOf, cin, cend, apc, aitem>>
        \/ /\ cs # None /\ f.type = "data"
           /\ apc' = "deliver"
           /\ aitem' = [to |-> cs, item |-> <<f.id, f.val>>]
           /\ UNCHANGED streamVars
        \/ /\ cs # None /\ f.type = "end"
           /\ cend' = [cend EXCEPT ![cs] = IF @ = None THEN f.val ELSE @]
           /\ cstreams' = [cstreams EXCEPT ![f.seq] = None]
           /\ UNCHANGED <<seqOf, cin, chdr, apc, aitem>>
  /\ UNCHANGED <<seqAlloc, callerVars, watch, attachCancel>>

\* Faulty variant: a full inbound drops the payload instead of blocking.
AttachDeliverDropping ==
  /\ apc = "deliver"
  /\ cin' = IF Len(cin[aitem.to]) < InboundCap
            THEN [cin EXCEPT ![aitem.to] = Append(@, aitem.item)] ELSE cin
  /\ apc' = "recv"
  /\ aitem' = None
  /\ UNCHANGED <<seqAlloc, cstreams, seqOf, cend, chdr, callerVars, watch, attachCancel, wireVars>>

\* deliver: push the payload, or drop it if the stream has ended.
AttachDeliver ==
  /\ apc = "deliver"
  /\ \/ /\ Len(cin[aitem.to]) < InboundCap
        /\ cin' = [cin EXCEPT ![aitem.to] = Append(@, aitem.item)]
     \/ /\ cend[aitem.to] # None
        /\ cin' = cin
  /\ apc' = "recv"
  /\ aitem' = None
  /\ UNCHANGED <<seqAlloc, cstreams, seqOf, cend, chdr, callerVars, watch, attachCancel, wireVars>>

\* Faulty variants: failAll forgets the streams without ending them; it ends
\* them with an OK status.
AttachFailSilent ==
  /\ apc = "recv"
  /\ cclosed \/ attachCancel
  /\ cstreams' = [s \in Seqs |-> None]
  /\ apc' = "exited"
  /\ UNCHANGED <<seqAlloc, seqOf, cin, cend, chdr, callerVars, watch, aitem, attachCancel, wireVars>>

AttachFailOk ==
  /\ apc = "recv"
  /\ cclosed \/ attachCancel
  /\ cend' = [c \in Calls |->
       IF cend[c] = None /\ \E s \in Seqs : cstreams[s] = c THEN 0 ELSE cend[c]]
  /\ cstreams' = [s \in Seqs |-> None]
  /\ apc' = "exited"
  /\ UNCHANGED <<seqAlloc, seqOf, cin, chdr, callerVars, watch, aitem, attachCancel, wireVars>>

\* Recv fails: failAll ends every registered stream and the pump returns.
AttachFail ==
  /\ apc = "recv"
  /\ cclosed \/ attachCancel
  /\ cend' = [c \in Calls |->
       IF cend[c] = None /\ \E s \in Seqs : cstreams[s] = c THEN 14 ELSE cend[c]]
  /\ cstreams' = [s \in Seqs |-> None]
  /\ apc' = "exited"
  /\ UNCHANGED <<seqAlloc, seqOf, cin, chdr, callerVars, watch, aitem, attachCancel, wireVars>>

\* Conn.Close: cancel the pump, wait for it, then close the channel.
ConnClose ==
  /\ "conn_close" \in Faults
  /\ ~attachCancel
  /\ attachCancel' = TRUE
  /\ UNCHANGED <<seqAlloc, streamVars, callerVars, watch, apc, aitem, wireVars>>

ConnCloseChannel ==
  /\ attachCancel /\ apc = "exited" /\ ~cclosed
  /\ cclosed' = TRUE
  /\ UNCHANGED <<c2s, s2c, sclosed, clientVars>>

-----------------------------------------------------------------------------
\* The steps of one goroutine, for fairness.
CallerStep(c) ==
  \/ SendCall(c) \/ SendPayload(c) \/ SendClose(c)
  \/ AwaitResponse(c) \/ AwaitEnd(c)
  \/ StreamRecv(c) \/ StreamRecvSelect(c)
  \/ StreamSend(c) \/ StreamCloseSend(c)

WatchStep(c) == WatchSelect(c) \/ WatchSend(c)

AttachStep == AttachRecv \/ AttachDeliver \/ AttachFail
=============================================================================
