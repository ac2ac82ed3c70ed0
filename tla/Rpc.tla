-------------------------------- MODULE Rpc --------------------------------
(***************************************************************************)
(* One connection: rpc.Client and rpc.Server over one DataChannel, and     *)
(* what the two promise their applications together.                       *)
(***************************************************************************)
EXTENDS RpcClient, RpcServer

vars == <<wireVars, clientVars, serverVars>>

Init == WireInit /\ ClientInit /\ ServerInit

\* A step of one side leaves the other side's memory alone.
AtClient(A) == A /\ UNCHANGED serverVars
AtServer(A) == A /\ UNCHANGED clientVars
OnWire(A) == A /\ UNCHANGED <<clientVars, serverVars>>

Next ==
  \* the callers and their watchers
  \/ \E c \in Calls :
       \/ AtClient(ClientOpenStream(c))
       \/ AtClient(SendCall(c))
       \/ AtClient(SendPayload(c))
       \/ AtClient(SendClose(c))
       \/ AtClient(AwaitResponse(c))
       \/ AtClient(AwaitEnd(c))
       \/ AtClient(StreamRecv(c))
       \/ AtClient(StreamRecvSelect(c))
       \/ AtClient(StreamSend(c))
       \/ AtClient(StreamCloseSend(c))
       \/ AtClient(CtxCancel(c))
       \/ AtClient(WatchSelect(c))
       \/ AtClient(WatchSend(c))
  \* the Attach pump and Conn.Close
  \/ AtClient(AttachRecv)
  \/ AtClient(AttachDeliver)
  \/ AtClient(AttachFail)
  \/ AtClient(ConnClose)
  \/ AtClient(ConnCloseChannel)
  \* the Serve loop, the writer and endStream
  \/ AtServer(ServeRecv)
  \/ AtServer(ServeDeliver)
  \/ AtServer(ServeExit)
  \/ AtServer(ServeCancel)
  \/ AtServer(WriterSend)
  \/ AtServer(WriterExit)
  \/ \E a \in Actors :
       \/ AtServer(EndLookup(a))
       \/ AtServer(EndQueueBegin(a))
       \/ AtServer(EndDelete(a))
       \/ AtServer(EndQueueEnd(a))
       \/ AtServer(EndDone(a))
  \* the handlers
  \/ \E c \in Calls :
       \/ AtServer(HandlerRecv(c))
       \/ AtServer(HandlerRecvSelect(c))
       \/ AtServer(HandlerSend(c))
       \/ AtServer(SendQueueBegin(c))
       \/ AtServer(SendQueueData(c))
       \/ AtServer(SendGiveUp(c))
       \/ AtServer(HandlerReturn(c))
       \/ AtServer(DeadlineFires(c))
  \* the channel
  \/ OnWire(ServerConnClose)
  \/ OnWire(OnClose)

Spec == Init /\ [][Next]_vars

(***************************************************************************)
(* Fairness.  Every goroutine the library starts is scheduled while it can *)
(* run, and the DataChannel reports a close to both ends.  Callers go on   *)
(* with an invocation they have begun, and handlers go on until they       *)
(* return.  Nothing forces a call to be made, a ctx to be canceled or a    *)
(* connection to be closed.                                                *)
(***************************************************************************)
LibraryFairness ==
  /\ WF_vars(AtClient(AttachStep)) /\ WF_vars(AtClient(ConnCloseChannel))
  /\ WF_vars(AtServer(ServeStep)) /\ WF_vars(AtServer(WriterStep))
  /\ WF_vars(OnWire(OnClose))
  /\ \A c \in Calls : WF_vars(AtClient(WatchStep(c))) /\ WF_vars(AtServer(SendStep(c)))
  /\ \A a \in Actors : WF_vars(AtServer(EndStep(a)))

ApplicationFairness ==
  \A c \in Calls : WF_vars(AtClient(CallerStep(c))) /\ WF_vars(AtServer(HandlerApp(c)))

FairSpec == Spec /\ LibraryFairness /\ ApplicationFairness

-----------------------------------------------------------------------------
\* Types of every variable of both sides and of the wire.
TypeOK == WireTypeOK /\ ClientTypeOK /\ ServerTypeOK

\* The payloads of q are c's own, in the order they were sent, from position
\* 1 on, none twice.
Ordered(c, q) ==
  \A i \in DOMAIN q : q[i][1] = c /\ (IF i > 1 THEN q[i - 1][2] ELSE 0) < q[i][2]

\* Moreover none is missing in between.
Contiguous(c, q) == \A i \in DOMAIN q : q[i] = <<c, i>>

(***************************************************************************)
(* A caller sees only the responses of its own handler, in the order the   *)
(* handler sent them, across two queues, the wire and two pumps shared by  *)
(* all calls.  None is skipped, unless Serve's ctx was canceled: then the  *)
(* writer's SendFrame may drop one frame and still send the next.          *)
(***************************************************************************)
ResponsesInOrder ==
  \A c \in Calls : LET q == got[c] \o cin[c]
                   IN Ordered(c, q) /\ (~serveCancel => Contiguous(c, q))

(***************************************************************************)
(* A handler sees only the requests of its own caller, in order.  None is  *)
(* skipped unless the caller's ctx or the stream's ctx is done.            *)
(***************************************************************************)
RequestsInOrder ==
  \A c \in Calls : LET q == sgot[c] \o sin[c]
                   IN /\ Ordered(c, q)
                      /\ (~ctxDone[c] /\ ~StreamCtxDone(c) => Contiguous(c, q))

(***************************************************************************)
(* No message of one call ever reaches the caller or the handler of        *)
(* another, although all calls share two wires, two pumps and one writer,  *)
(* and are told apart only by a number of 31 bits.                         *)
(***************************************************************************)
Owned(c, q) == \A i \in DOMAIN q : q[i][1] = c

Isolation ==
  \A c \in Calls : /\ Owned(c, got[c]) /\ Owned(c, cin[c])
                   /\ Owned(c, sgot[c]) /\ Owned(c, sin[c])

(***************************************************************************)
(* The status a caller is given is the one its own handler returned (0 or  *)
(* the handler's error), or is the library's own for a reason that really  *)
(* occurred: 12 for an unknown method, 4 for a done ctx, 14 for a closed   *)
(* connection; 13, a duplicate sequence, never happens without wrap.       *)
(***************************************************************************)
StatusIsTrue ==
  \A c \in Calls : outcome[c] # None =>
    LET code == outcome[c].code
    IN /\ code \in {0, 2} => hret[c] = code
       /\ code = 12 => c \in Unimplemented
       /\ code = 4 => ctxDone[c]
       /\ code = 14 => cclosed \/ attachCancel
       /\ code # 13

\* stream.go, Recv: "the inline-payload + CloseSend race resolves in favor of
\* delivering data".  A handler that has seen io.EOF has had its inline request,
\* unless the stream's deadline or Serve's ctx ended before the request was in.
InlineBeforeEof ==
  \A c \in Inline :
    eof[c] /\ ~serveCancel /\ ~(c \in Deadlined /\ scancel[c]) => sgot[c] # <<>>

\* End is the last frame of its stream: nothing of the same sequence follows
\* it on the wire or in the multiplexer's queue.
EndIsLast ==
  \A i \in DOMAIN s2c : s2c[i].type = "end" =>
    /\ \A j \in DOMAIN s2c : s2c[j].seq = s2c[i].seq => j <= i
    /\ \A j \in DOMAIN mout : mout[j].frame.seq # s2c[i].seq

\* ClientStream.Header is complete before the first message is visible:
\* Begin has been dispatched before any Data of the stream is queued.
HeaderBeforeData ==
  \A c \in Calls : ~serveCancel /\ (got[c] # <<>> \/ cin[c] # <<>>) => chdr[c]

(***************************************************************************)
(* The two tables name live streams only: an entry of Client.streams has   *)
(* an open `end`, and an entry of multiplexer.streams has a handler that   *)
(* has not reached the end of endStream.  Holds across sequence wrap.      *)
(***************************************************************************)
TablesLive ==
  \A s \in Seqs :
    /\ cstreams[s] # None => cend[cstreams[s]] = None /\ seqOf[cstreams[s]] = s
    /\ sstreams[s] # None => /\ pc[sstreams[s]] \notin {"none", "qend", "wend", "done"}
                             /\ sseq[sstreams[s]] = s

-----------------------------------------------------------------------------
\* The connection or Serve has been told to stop.
Faulted == attachCancel \/ cclosed \/ serveCancel \/ sclosed

\* Every invocation that awaits no further request from its own caller
\* returns while the connection stays up.
CallsReturn ==
  \A c \in Calls \ Stream : (cpc[c] # "idle") ~> (cpc[c] = "done" \/ Faulted)

\* Both tables are empty in the end, unless the connection is told to stop or
\* a ctx ends: no finished call leaves an entry behind.
TablesDrain ==
  <>[](\/ Faulted \/ \E c \in Calls : ctxDone[c]
       \/ \A s \in Seqs : cstreams[s] = None /\ sstreams[s] = None)

\* A call whose ctx has ended returns, whatever happens to the connection and
\* to the peer, wherever the caller is blocked.
DeadlineBoundsCalls ==
  \A c \in Cancellable : (cpc[c] # "idle" /\ ctxDone[c]) ~> (cpc[c] = "done")

(***************************************************************************)
(* client.go, sendFrame: "the caller learns of transport failure via       *)
(* Attach tearing down the in-flight streams".  A call that is in the      *)
(* table when the connection fails returns, deadline or not.               *)
(***************************************************************************)
FailureEndsInFlight ==
  \A c \in Calls :
    ((attachCancel \/ cclosed) /\ apc # "exited" /\ \E s \in Seqs : cstreams[s] = c)
      ~> (cpc[c] = "done")

(***************************************************************************)
(* client.go, watchCancel: a canceled ctx makes the server "stop the       *)
(* in-flight handler".  A handler the server knows when its caller's ctx   *)
(* ends does not stay blocked in Recv, unless the connection ends first.   *)
(***************************************************************************)
CancelStopsHandler ==
  \A c \in Cancellable :
    (ctxDone[c] /\ watch[c] = "armed" /\ cend[c] = None /\ sstreams[sseq[c]] = c)
      ~> (pc[c] # "recv" \/ cclosed \/ sclosed)

\* Serve returns once its ctx is done or its channel is closed, although its
\* loop blocks on full streams and on the writer.
ServeStops == (sclosed \/ serveCancel) ~> (pc[Loop] = "exited")

-----------------------------------------------------------------------------
Contract == INSTANCE CallContract WITH
  Known <- Calls \ Unimplemented,
  made <- [c \in Calls |-> cpc[c] \notin {"idle", "call"}],
  asked <- sent, heard <- sgot, answered <- resp, received <- got,
  verdict <- hret, gone <- ctxDone,
  cut <- [c \in Calls |-> StreamCtxDone(c)],
  stopped <- serveCancel, lost <- (cclosed \/ attachCancel)

(***************************************************************************)
(* The contract both applications rely on: the sequences, queues, pumps    *)
(* and goroutines of the two sides implement CallContract step by step.    *)
(* Every call is made once, its handler hears and answers only while it    *)
(* runs, a message is skipped only once a ctx is done, and the invocation  *)
(* reports once, for a reason that has occurred.                           *)
(***************************************************************************)
KeepsContract == Contract!Spec
=============================================================================
