----------------------------- MODULE RpcServer -----------------------------
(***************************************************************************)
(* rpc.Server: the Serve loop, the multiplexer's stream table and outbound *)
(* queue, the single writer goroutine and one handler goroutine per stream *)
(* with its ServerStream.  A stream's state is named by the call whose     *)
(* Call frame created it.                                                  *)
(***************************************************************************)
EXTENDS RpcWire

CONSTANTS
  Loop,           \* the Serve goroutine, beside the handlers, as an actor
  UnaryMethods,   \* calls whose handler sends one response before returning OK
  Unimplemented,  \* calls to a method findMethod does not know
  Failing,        \* calls whose handler may return an error of its own
  Deadlined,      \* calls whose Call frame carries a positive deadline_ms
  MaxResp,        \* bound: responses a handler sends
  OutCap,         \* capacity of multiplexer.out (256 in the code)
  SInboundCap     \* capacity of ServerStream.inbound (16 in the code)

ASSUME ServerAssumption ==
  /\ Loop \notin Calls
  /\ UnaryMethods \subseteq Calls /\ Unimplemented \subseteq Calls
  /\ Failing \subseteq Calls /\ Deadlined \subseteq Calls
  /\ MaxResp \in Nat
  /\ OutCap \in Nat \ {0} /\ SInboundCap \in Nat \ {0}

Actors == Calls \cup {Loop}

VARIABLES
  sstreams,     \* multiplexer.streams: sequence -> stream, None when absent
  sseq,         \* ServerStream.seq
  sin,          \* ServerStream.inbound
  halfClose,    \* ServerStream.halfClose is closed
  scancel,      \* the stream's own ctx was canceled or timed out
  headerSent,   \* streamState.headerSent
  pc,           \* where each handler, and the Serve loop, is
  resp,         \* responses the handler has started to send
  eof,          \* the handler's Recv has returned io.EOF
  sgot,         \* history: payloads the handler's Recv returned
  hret,         \* the status the handler returned
  sitem,        \* the frame the Serve loop is handling
  mout,         \* multiplexer.out, with the actor waiting on each frame
  wpc,          \* the writer goroutine
  serveCancel   \* the ctx given to Serve is done

sstreamVars == <<sseq, sin, halfClose, scancel, headerSent>>
handlerVars == <<resp, eof, sgot, hret>>
serverVars == <<sstreams, sstreamVars, pc, handlerVars, sitem, mout, wpc, serveCancel>>

HandlerPcs == {"none", "run", "recv", "qbegin", "qdata", "done"}
EndPcs == {"end", "qebegin", "delete", "qend", "wend"}
LoopPcs == {"serve", "deliver", "exited"}

Out == [frame : Frame, by : Actors]
SItem == [frame : Frame, to : Calls \cup {None}, code : Nat]

\* Control: who may be where, and what must be in hand there.
PcTypeOK ==
  /\ pc \in [Actors -> HandlerPcs \cup EndPcs \cup LoopPcs]
  /\ pc[Loop] \in EndPcs \cup LoopPcs
  /\ \A c \in Calls : pc[c] \in HandlerPcs \cup EndPcs
  /\ \A c \in Calls : pc[c] \in EndPcs \cup {"done"} => hret[c] \in Nat
  /\ pc[Loop] \in EndPcs \cup {"deliver"} => sitem \in SItem
  /\ pc[Loop] = "deliver" => sitem.to \in Calls

ServerTypeOK ==
  /\ PcTypeOK
  /\ sstreams \in [Seqs -> Calls \cup {None}]
  /\ sseq \in [Calls -> Seqs]
  /\ sin \in [Calls -> Seq(Payload)]
  /\ halfClose \in [Calls -> BOOLEAN]
  /\ scancel \in [Calls -> BOOLEAN]
  /\ headerSent \in [Calls -> BOOLEAN]
  /\ resp \in [Calls -> Nat]
  /\ eof \in [Calls -> BOOLEAN]
  /\ sgot \in [Calls -> Seq(Payload)]
  /\ hret \in [Calls -> Nat \cup {None}]
  /\ sitem \in SItem \cup {None}
  /\ mout \in Seq(Out)
  /\ wpc \in {"run", "exited"}
  /\ serveCancel \in BOOLEAN

ServerInit ==
  /\ sstreams = [s \in Seqs |-> None]
  /\ sseq = [c \in Calls |-> 0]
  /\ sin = [c \in Calls |-> <<>>]
  /\ halfClose = [c \in Calls |-> FALSE]
  /\ scancel = [c \in Calls |-> FALSE]
  /\ headerSent = [c \in Calls |-> FALSE]
  /\ pc = [a \in Actors |-> IF a = Loop THEN "serve" ELSE "none"]
  /\ resp = [c \in Calls |-> 0]
  /\ eof = [c \in Calls |-> FALSE]
  /\ sgot = [c \in Calls |-> <<>>]
  /\ hret = [c \in Calls |-> None]
  /\ sitem = None
  /\ mout = <<>>
  /\ wpc = "run"
  /\ serveCancel = FALSE

\* The stream's ctx derives from the ctx given to Serve.
StreamCtxDone(c) == scancel[c] \/ serveCancel

-----------------------------------------------------------------------------
\* multiplexer.queue, used by handlers and by the Serve loop's endStream.

\* Frames of actor a that the writer has not finished with.  While there is
\* one, a is inside the second select of queue: the actor's next step needs
\* the frame written, or Serve's ctx done.  Shutdown does not end the wait.
Pending(a) == \E i \in DOMAIN mout : mout[i].by = a

\* queue has returned, with an error endStream ignores when ctx is done.
Returned(a) == ~Pending(a) \/ serveCancel

\* The first select of queue: enqueue, or fail on shutdown or ctx.  ok and
\* fail are the pc values that follow.
Enqueue(a, frame, ok, fail) ==
  \/ /\ Len(mout) < OutCap
     /\ mout' = Append(mout, [frame |-> frame, by |-> a])
     /\ pc' = [pc EXCEPT ![a] = ok]
  \/ /\ pc[Loop] = "exited" \/ serveCancel
     /\ mout' = mout
     /\ pc' = [pc EXCEPT ![a] = fail]

\* runWriter: put the head of the queue on the channel and release its waiter.
WriterSend ==
  /\ wpc = "run" /\ mout # <<>>
  /\ ServerSendFrame(Head(mout).frame, serveCancel)
  /\ mout' = Tail(mout)
  /\ UNCHANGED <<sstreams, sstreamVars, pc, handlerVars, sitem, wpc, serveCancel>>

WriterExit ==
  /\ wpc = "run"
  /\ pc[Loop] = "exited" \/ serveCancel
  /\ wpc' = "exited"
  /\ UNCHANGED <<sstreams, sstreamVars, pc, handlerVars, sitem, mout, serveCancel, wireVars>>

-----------------------------------------------------------------------------
\* The Serve loop.

ServeExit ==
  /\ pc[Loop] = "serve"
  /\ sclosed \/ serveCancel
  /\ pc' = [pc EXCEPT ![Loop] = "exited"]
  /\ UNCHANGED <<sstreams, sstreamVars, handlerVars, sitem, mout, wpc, serveCancel, wireVars>>

\* openStream for a frame f: unknown methods and duplicate sequences end the
\* sequence from the Serve loop; otherwise register the stream, deliver the
\* inline payload, unless the new stream's ctx is already done (Serve's ctx, or
\* a deadline that has expired by then), and start the handler.
ServerOpenStream(f) ==
  LET c == f.id
      dup == sstreams[f.seq] # None
      refuse(code) ==
        /\ sitem' = [frame |-> f, to |-> None, code |-> code]
        /\ pc' = [pc EXCEPT ![Loop] = "end"]
        /\ UNCHANGED <<sstreams, sseq, sin, scancel>>
  IN \/ c \in Unimplemented /\ refuse(12)
     \/ c \notin Unimplemented /\ dup /\ refuse(13)
     \/ /\ c \notin Unimplemented /\ ~dup
        /\ sstreams' = [sstreams EXCEPT ![f.seq] = c]
        /\ sseq' = [sseq EXCEPT ![c] = f.seq]
        /\ \/ f.val > 0 /\ sin' = [sin EXCEPT ![c] = <<<<c, 1>>>>] /\ UNCHANGED scancel
           \/ f.val = 0 /\ UNCHANGED <<sin, scancel>>
           \/ f.val > 0 /\ serveCancel /\ UNCHANGED <<sin, scancel>>
           \/ /\ f.val > 0 /\ c \in Deadlined
              /\ scancel' = [scancel EXCEPT ![c] = TRUE]
              /\ UNCHANGED sin
        /\ pc' = [pc EXCEPT ![c] = "run"]
        /\ sitem' = None

\* One frame off the channel, routed by handleFrame.
ServeRecv ==
  /\ pc[Loop] = "serve"
  /\ ServerTake
  /\ LET f  == Head(c2s)
         st == sstreams[f.seq]
     IN \/ /\ f.type = "call"
           /\ ServerOpenStream(f)
           /\ UNCHANGED halfClose
        \/ /\ f.type # "call" /\ st = None
           /\ UNCHANGED <<sstreams, sseq, sin, halfClose, scancel, pc, sitem>>
        \/ /\ f.type = "data" /\ st # None
           /\ sitem' = [frame |-> f, to |-> st, code |-> 0]
           /\ pc' = [pc EXCEPT ![Loop] = "deliver"]
           /\ UNCHANGED <<sstreams, sseq, sin, halfClose, scancel>>
        \/ /\ f.type = "close" /\ st # None
           /\ halfClose' = [halfClose EXCEPT ![st] = TRUE]
           /\ UNCHANGED <<sstreams, sseq, sin, scancel, pc, sitem>>
        \/ /\ f.type = "cancel" /\ st # None
           /\ scancel' = [scancel EXCEPT ![st] = TRUE]
           /\ sstreams' = [sstreams EXCEPT ![f.seq] = None]
           /\ UNCHANGED <<sseq, sin, halfClose, pc, sitem>>
  /\ UNCHANGED <<headerSent, handlerVars, mout, wpc, serveCancel>>

\* Faulty variants: a full inbound drops the payload; the select does not
\* watch the stream's ctx.
ServeDeliverDropping ==
  /\ pc[Loop] = "deliver"
  /\ sin' = IF Len(sin[sitem.to]) < SInboundCap
            THEN [sin EXCEPT ![sitem.to] = Append(@, <<sitem.frame.id, sitem.frame.val>>)] ELSE sin
  /\ pc' = [pc EXCEPT ![Loop] = "serve"]
  /\ sitem' = None
  /\ UNCHANGED <<sstreams, sseq, halfClose, scancel, headerSent, handlerVars, mout, wpc, serveCancel, wireVars>>

ServeDeliverNoCtx ==
  /\ pc[Loop] = "deliver"
  /\ Len(sin[sitem.to]) < SInboundCap
  /\ sin' = [sin EXCEPT ![sitem.to] = Append(@, <<sitem.frame.id, sitem.frame.val>>)]
  /\ pc' = [pc EXCEPT ![Loop] = "serve"]
  /\ sitem' = None
  /\ UNCHANGED <<sstreams, sseq, halfClose, scancel, headerSent, handlerVars, mout, wpc, serveCancel, wireVars>>

\* deliverPayload: push the payload, or drop it once the stream's ctx is done.
ServeDeliver ==
  /\ pc[Loop] = "deliver"
  /\ LET st == sitem.to
     IN \/ /\ Len(sin[st]) < SInboundCap
           /\ sin' = [sin EXCEPT ![st] = Append(@, <<sitem.frame.id, sitem.frame.val>>)]
        \/ StreamCtxDone(st) /\ sin' = sin
  /\ pc' = [pc EXCEPT ![Loop] = "serve"]
  /\ sitem' = None
  /\ UNCHANGED <<sstreams, sseq, halfClose, scancel, headerSent, handlerVars, mout, wpc, serveCancel, wireVars>>

-----------------------------------------------------------------------------
\* endStream, run by a handler that returned or by the Serve loop.

EndSeq(a) == IF a = Loop THEN sitem.frame.seq ELSE sseq[a]
EndId(a) == IF a = Loop THEN sitem.frame.id ELSE a

\* Faulty variant: the handler's status is not put in the End frame.
EndCodeLost(a) == IF a = Loop THEN sitem.code ELSE 0

EndCode(a) == IF a = Loop THEN sitem.code ELSE hret[a]

\* Faulty variant: an absent stream gets no End frame.
EndLookupSilent(a) ==
  /\ pc[a] = "end"
  /\ LET st == sstreams[EndSeq(a)]
         owed == st # None /\ ~headerSent[st]
     IN /\ headerSent' = IF owed THEN [headerSent EXCEPT ![st] = TRUE] ELSE headerSent
        /\ pc' = [pc EXCEPT ![a] = IF owed THEN "qebegin" ELSE IF st = None THEN "wend" ELSE "delete"]
  /\ UNCHANGED <<sstreams, sseq, sin, halfClose, scancel, handlerVars, sitem, mout, wpc, serveCancel, wireVars>>

\* Look the sequence up and claim Begin if its stream never sent it.
EndLookup(a) ==
  /\ pc[a] = "end"
  /\ LET st == sstreams[EndSeq(a)]
         owed == st # None /\ ~headerSent[st]
     IN \/ /\ owed
           /\ headerSent' = [headerSent EXCEPT ![st] = TRUE]
           /\ pc' = [pc EXCEPT ![a] = "qebegin"]
        \/ /\ ~owed
           /\ pc' = [pc EXCEPT ![a] = "delete"]
           /\ UNCHANGED headerSent
  /\ UNCHANGED <<sstreams, sseq, sin, halfClose, scancel, handlerVars, sitem, mout, wpc, serveCancel, wireVars>>

EndQueueBegin(a) ==
  /\ pc[a] = "qebegin"
  /\ Enqueue(a, Fr(EndSeq(a), "begin", EndId(a), 0), "delete", "delete")
  /\ UNCHANGED <<sstreams, sstreamVars, handlerVars, sitem, wpc, serveCancel, wireVars>>

\* Faulty variant: the entry is not deleted.
EndDeleteLeak(a) ==
  /\ pc[a] = "delete" /\ Returned(a)
  /\ pc' = [pc EXCEPT ![a] = "qend"]
  /\ UNCHANGED <<sstreams, sstreamVars, handlerVars, sitem, mout, wpc, serveCancel, wireVars>>

\* Begin is out, given up on or was never owed: delete the entry.
EndDelete(a) ==
  /\ pc[a] = "delete" /\ Returned(a)
  /\ pc' = [pc EXCEPT ![a] = "qend"]
  /\ sstreams' = [sstreams EXCEPT ![EndSeq(a)] = None]
  /\ UNCHANGED <<sstreamVars, handlerVars, sitem, mout, wpc, serveCancel, wireVars>>

\* Faulty variant: End is written straight to the channel, past the queue.
EndQueueEndDirect(a) ==
  /\ pc[a] = "qend"
  /\ ServerSendFrame(Fr(EndSeq(a), "end", EndId(a), EndCode(a)), serveCancel)
  /\ pc' = [pc EXCEPT ![a] = "wend"]
  /\ UNCHANGED <<sstreams, sstreamVars, handlerVars, sitem, mout, wpc, serveCancel>>

EndQueueEnd(a) ==
  /\ pc[a] = "qend"
  /\ Enqueue(a, Fr(EndSeq(a), "end", EndId(a), EndCode(a)), "wend", "wend")
  /\ UNCHANGED <<sstreams, sstreamVars, handlerVars, sitem, wpc, serveCancel, wireVars>>

\* The handler goroutine ends (runHandler's deferred cancel); the Serve loop
\* goes on to its next frame.
EndDone(a) ==
  /\ pc[a] = "wend" /\ Returned(a)
  /\ pc' = [pc EXCEPT ![a] = IF a = Loop THEN "serve" ELSE "done"]
  /\ scancel' = IF a = Loop THEN scancel ELSE [scancel EXCEPT ![a] = TRUE]
  /\ sitem' = IF a = Loop THEN None ELSE sitem
  /\ UNCHANGED <<sstreams, sseq, sin, halfClose, headerSent, handlerVars, mout, wpc, serveCancel, wireVars>>

EndStep(a) ==
  EndLookup(a) \/ EndQueueBegin(a) \/ EndDelete(a) \/ EndQueueEnd(a) \/ EndDone(a)

-----------------------------------------------------------------------------
\* The handler: any application that stops after a failed Recv or Send.

\* Take the head of the stream's inbound.
TakeRequest(c) ==
  /\ sin[c] # <<>>
  /\ sgot' = [sgot EXCEPT ![c] = Append(@, Head(sin[c]))]
  /\ sin' = [sin EXCEPT ![c] = Tail(@)]
  /\ pc' = [pc EXCEPT ![c] = "run"]
  /\ UNCHANGED <<eof, hret>>

\* The handler returns with a status; runHandler goes on to endStream.
Return(c, code) ==
  /\ hret' = [hret EXCEPT ![c] = code]
  /\ pc' = [pc EXCEPT ![c] = "end"]

\* Faulty variant: Recv goes straight to the blocking select.
HandlerRecvNoCheck(c) ==
  /\ pc[c] = "run" /\ ~Pending(c) /\ ~eof[c]
  /\ pc' = [pc EXCEPT ![c] = "recv"]
  /\ UNCHANGED <<sstreams, sstreamVars, handlerVars, sitem, mout, wpc, serveCancel, wireVars>>

\* ServerStream.Recv: the non-blocking check.
HandlerRecv(c) ==
  /\ pc[c] = "run" /\ ~Pending(c) /\ ~eof[c]
  /\ \/ TakeRequest(c)
     \/ /\ sin[c] = <<>>
        /\ pc' = [pc EXCEPT ![c] = "recv"]
        /\ UNCHANGED <<sin, sgot, eof, hret>>
  /\ UNCHANGED <<sstreams, sseq, halfClose, scancel, headerSent, resp, sitem, mout, wpc, serveCancel, wireVars>>

\* ServerStream.Recv: the blocking select.
HandlerRecvSelect(c) ==
  /\ pc[c] = "recv"
  /\ \/ TakeRequest(c)
     \/ /\ halfClose[c]
        /\ eof' = [eof EXCEPT ![c] = TRUE]
        /\ pc' = [pc EXCEPT ![c] = "run"]
        /\ UNCHANGED <<sin, sgot, hret>>
     \/ StreamCtxDone(c) /\ Return(c, 2) /\ UNCHANGED <<sin, sgot, eof>>
  /\ UNCHANGED <<sstreams, sseq, halfClose, scancel, headerSent, resp, sitem, mout, wpc, serveCancel, wireVars>>

\* Faulty variant: Send does not flush Begin.
HandlerSendNoBegin(c) ==
  /\ pc[c] = "run" /\ ~Pending(c) /\ resp[c] < MaxResp
  /\ c \in UnaryMethods => resp[c] = 0
  /\ resp' = [resp EXCEPT ![c] = @ + 1]
  /\ pc' = [pc EXCEPT ![c] = "qdata"]
  /\ UNCHANGED <<sstreams, sstreamVars, eof, sgot, hret, sitem, mout, wpc, serveCancel, wireVars>>

\* ServerStream.Send: flushBeginOnce looks the sequence up and claims the
\* Begin frame; an absent stream makes Send fail.
HandlerSend(c) ==
  /\ pc[c] = "run" /\ ~Pending(c) /\ resp[c] < MaxResp
  /\ c \in UnaryMethods => resp[c] = 0
  /\ LET st == sstreams[sseq[c]]
     IN \/ /\ st = None
           /\ Return(c, 2)
           /\ UNCHANGED <<headerSent, resp>>
        \/ /\ st # None
           /\ headerSent' = [headerSent EXCEPT ![st] = TRUE]
           /\ resp' = [resp EXCEPT ![c] = @ + 1]
           /\ pc' = [pc EXCEPT ![c] = IF headerSent[st] THEN "qdata" ELSE "qbegin"]
           /\ UNCHANGED hret
  /\ UNCHANGED <<sstreams, sseq, sin, halfClose, scancel, eof, sgot, sitem, mout, wpc, serveCancel, wireVars>>

SendQueueBegin(c) ==
  /\ pc[c] = "qbegin"
  /\ Enqueue(c, Fr(sseq[c], "begin", c, 0), "qdata", "end")
  /\ hret' = IF pc'[c] = "end" THEN [hret EXCEPT ![c] = 2] ELSE hret
  /\ UNCHANGED <<sstreams, sstreamVars, resp, eof, sgot, sitem, wpc, serveCancel, wireVars>>

SendQueueData(c) ==
  /\ pc[c] = "qdata" /\ ~Pending(c)
  /\ Enqueue(c, Fr(sseq[c], "data", c, resp[c]), "run", "end")
  /\ hret' = IF pc'[c] = "end" THEN [hret EXCEPT ![c] = 2] ELSE hret
  /\ UNCHANGED <<sstreams, sstreamVars, resp, eof, sgot, sitem, wpc, serveCancel, wireVars>>

\* Faulty variant: Send retries the frame the queue has already accepted.
SendGiveUpRetry(c) ==
  /\ pc[c] \in {"qdata", "run"} /\ Pending(c) /\ serveCancel
  /\ pc' = [pc EXCEPT ![c] = "qdata"]
  /\ UNCHANGED <<sstreams, sstreamVars, handlerVars, sitem, mout, wpc, serveCancel, wireVars>>

\* Serve's ctx is done while Send waits for the writer: Send returns its error.
SendGiveUp(c) ==
  /\ pc[c] \in {"qdata", "run"} /\ Pending(c) /\ serveCancel
  /\ Return(c, 2)
  /\ UNCHANGED <<sstreams, sstreamVars, resp, eof, sgot, sitem, mout, wpc, serveCancel, wireVars>>

\* The handler returns OK, a unary one only after its response, or an error.
HandlerReturn(c) ==
  /\ pc[c] = "run" /\ ~Pending(c)
  /\ \/ (c \in UnaryMethods => resp[c] = 1) /\ Return(c, 0)
     \/ c \in Failing /\ Return(c, 2)
  /\ UNCHANGED <<sstreams, sstreamVars, resp, eof, sgot, sitem, mout, wpc, serveCancel, wireVars>>

-----------------------------------------------------------------------------
\* The per-stream timeout openStream derives from deadline_ms.
DeadlineFires(c) ==
  /\ c \in Deadlined /\ pc[c] # "none" /\ ~scancel[c]
  /\ scancel' = [scancel EXCEPT ![c] = TRUE]
  /\ UNCHANGED <<sstreams, sseq, sin, halfClose, headerSent, pc, handlerVars, sitem, mout, wpc, serveCancel, wireVars>>

\* The ctx given to Serve is canceled.
ServeCancel ==
  /\ "serve_cancel" \in Faults
  /\ ~serveCancel
  /\ serveCancel' = TRUE
  /\ UNCHANGED <<sstreams, sstreamVars, pc, handlerVars, sitem, mout, wpc, wireVars>>

\* The steps of one goroutine, for fairness.
WriterStep == WriterSend \/ WriterExit
ServeStep == ServeRecv \/ ServeDeliver \/ ServeExit
SendStep(c) == SendQueueBegin(c) \/ SendQueueData(c) \/ SendGiveUp(c)
HandlerApp(c) == HandlerRecv(c) \/ HandlerRecvSelect(c) \/ HandlerSend(c) \/ HandlerReturn(c)
=============================================================================
