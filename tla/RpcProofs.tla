----------------------------- MODULE RpcProofs -----------------------------
(***************************************************************************)
(* Proofs about Rpc, for any number of calls and any capacities: types,    *)
(* the isolation of calls as long as the sequence counter has not come     *)
(* around, a bound on the number of calls under which it never does, and   *)
(* what the two tables of streams name.                                    *)
(***************************************************************************)
EXTENDS Rpc, FiniteSetTheorems, TLAPS

\* Every step that leaves one part of the state alone keeps its types.
LEMMA WireUnchanged == WireTypeOK /\ UNCHANGED wireVars => WireTypeOK'
BY DEF WireTypeOK, wireVars

LEMMA ClientUnchanged == ClientTypeOK /\ UNCHANGED clientVars => ClientTypeOK'
BY DEF ClientTypeOK, clientVars, streamVars, callerVars, attachVars

LEMMA ServerUnchanged == ServerTypeOK /\ UNCHANGED serverVars => ServerTypeOK'
BY DEF ServerTypeOK, PcTypeOK, serverVars, sstreamVars, handlerVars

\* A frame record is a Frame.
LEMMA FrType ==
  ASSUME NEW s \in Seqs, NEW t \in FrameTypes, NEW c \in Calls, NEW v \in Nat
  PROVE  Fr(s, t, c, v) \in Frame
BY DEF Fr, Frame

LEMMA ClientSendType ==
  ASSUME NEW f \in Frame, NEW ctx \in BOOLEAN, WireTypeOK, ClientSendFrame(f, ctx)
  PROVE  WireTypeOK'
BY DEF WireTypeOK, ClientSendFrame

LEMMA ServerSendType ==
  ASSUME NEW f \in Frame, NEW ctx \in BOOLEAN, WireTypeOK, ServerSendFrame(f, ctx)
  PROVE  WireTypeOK'
BY DEF WireTypeOK, ServerSendFrame

\* nextSeq stays in the sequence space.
LEMMA NextSeqType == seqAlloc \in Seqs => nextSeq \in Seqs
BY WireAssumption DEF nextSeq, Seqs

\* Taking a message off a caller's inbound, or reporting an outcome, keeps
\* the client's types.
LEMMA TakeInboundType ==
  ASSUME NEW c \in Calls, NEW p \in CallerPcs, ClientTypeOK, TakeInbound(c, p)
  PROVE  ClientTypeOK'
<1>1. Append(got[c], Head(cin[c])) \in Seq(Payload) /\ Append(got[c], Head(cin[c])) # <<>>
  BY DEF ClientTypeOK, TakeInbound
<1>2. Tail(cin[c]) \in Seq(Payload)
  BY DEF ClientTypeOK, TakeInbound
<1>3. got' \in [Calls -> Seq(Payload)] /\ cin' \in [Calls -> Seq(Payload)] /\ cpc' \in [Calls -> CallerPcs]
  BY <1>1, <1>2 DEF ClientTypeOK, TakeInbound
<1>4. \A d \in Calls : cpc'[d] = "reply" => got'[d] # <<>>
  BY <1>1 DEF ClientTypeOK, TakeInbound
<1>5. QED BY <1>3, <1>4 DEF ClientTypeOK, TakeInbound, attachVars

LEMMA ReportType ==
  ASSUME NEW c \in Calls, NEW data \in Payload \cup {None}, NEW code \in Nat,
         ClientTypeOK, Report(c, data, code),
         cstreams' \in [Seqs -> Calls \cup {None}]
  PROVE  ClientTypeOK'
<1>1. [code |-> code, data |-> data] \in Outcome
  BY DEF Outcome
<1>2. QED BY <1>1 DEF ClientTypeOK, Report, CallerPcs, attachVars

LEMMA UnaryReturnType ==
  ASSUME NEW c \in Calls, NEW data \in Payload \cup {None}, NEW code \in Nat,
         ClientTypeOK, UnaryReturn(c, data, code)
  PROVE  ClientTypeOK'
<1>1. cstreams' \in [Seqs -> Calls \cup {None}]
  BY DEF ClientTypeOK, UnaryReturn
<1>2. QED BY <1>1, ReportType DEF UnaryReturn

\* The callers and their watchers keep the types.
LEMMA ClientStepType ==
  ASSUME TypeOK, NEW c \in Calls,
         ClientOpenStream(c) \/ CallerStep(c) \/ CtxCancel(c) \/ WatchStep(c)
  PROVE  WireTypeOK' /\ ClientTypeOK'
<1> USE DEF TypeOK
<1>1. CASE ClientOpenStream(c)
  BY <1>1, NextSeqType, WireUnchanged DEF ClientOpenStream, ClientTypeOK, CallerPcs, attachVars
<1>2. CASE SendCall(c)
  <2>1. Fr(seqOf[c], "call", c, IF c \in Inline THEN 1 ELSE 0) \in Frame
    BY FrType DEF ClientTypeOK, FrameTypes
  <2>2. WireTypeOK'
    BY <1>2, <2>1, ClientSendType DEF SendCall, ClientTypeOK
  <2>3. ClientTypeOK'
    BY <1>2 DEF SendCall, AfterCall, ClientTypeOK, CallerPcs, streamVars, attachVars
  <2>4. QED BY <2>2, <2>3
<1>3. CASE SendPayload(c)
  <2>1. Fr(seqOf[c], "data", c, sent[c] + 1) \in Frame
    BY FrType DEF ClientTypeOK, FrameTypes
  <2>2. WireTypeOK'
    BY <1>3, <2>1, ClientSendType DEF SendPayload, ClientTypeOK
  <2>3. ClientTypeOK'
    BY <1>3 DEF SendPayload, ClientTypeOK, CallerPcs, streamVars, attachVars
  <2>4. QED BY <2>2, <2>3
<1>4. CASE SendClose(c)
  <2>1. Fr(seqOf[c], "close", c, 0) \in Frame
    BY FrType DEF ClientTypeOK, FrameTypes
  <2>2. WireTypeOK'
    BY <1>4, <2>1, ClientSendType DEF SendClose, ClientTypeOK
  <2>3. ClientTypeOK'
    BY <1>4 DEF SendClose, ClientTypeOK, CallerPcs, streamVars, attachVars
  <2>4. QED BY <2>2, <2>3
<1>5. CASE AwaitResponse(c)
  <2>1. CASE TakeInbound(c, "reply")
    BY <2>1, TakeInboundType, WireUnchanged DEF TakeInbound, CallerPcs
  <2>2. ASSUME NEW code \in Nat, UnaryReturn(c, None, code)
        PROVE  WireTypeOK' /\ ClientTypeOK'
    BY <2>2, UnaryReturnType, WireUnchanged DEF UnaryReturn, Report
  <2>3. cend[c] # None => cend[c] \in Nat
    BY DEF ClientTypeOK
  <2>4. QED BY <1>5, <2>1, <2>2, <2>3 DEF AwaitResponse
<1>6. CASE AwaitEnd(c)
  <2>1. CASE cend[c] # None /\ UnaryReturn(c, Head(got[c]), cend[c])
    <3>1. Head(got[c]) \in Payload \cup {None} /\ cend[c] \in Nat
      BY <1>6, <2>1 DEF AwaitEnd, ClientTypeOK
    <3>2. QED BY <2>1, <3>1, UnaryReturnType, WireUnchanged DEF UnaryReturn, Report
  <2>2. CASE ctxDone[c] /\ UnaryReturn(c, None, 4)
    BY <2>2, UnaryReturnType, WireUnchanged DEF UnaryReturn, Report
  <2>3. QED BY <1>6, <2>1, <2>2 DEF AwaitEnd
<1>7. CASE StreamRecv(c)
  <2>1. CASE TakeInbound(c, "app")
    BY <2>1, TakeInboundType, WireUnchanged DEF TakeInbound, CallerPcs
  <2>2. CASE ~TakeInbound(c, "app")
    BY <1>7, <2>2, WireUnchanged DEF StreamRecv, ClientTypeOK, CallerPcs, streamVars, attachVars
  <2>3. QED BY <2>1, <2>2
<1>8. CASE StreamRecvSelect(c)
  <2>1. CASE TakeInbound(c, "app")
    BY <2>1, TakeInboundType, WireUnchanged DEF TakeInbound, CallerPcs
  <2>2. ASSUME NEW code \in Nat, Report(c, None, code), UNCHANGED cstreams
        PROVE  WireTypeOK' /\ ClientTypeOK'
    <3>1. cstreams' \in [Seqs -> Calls \cup {None}]
      BY <2>2 DEF ClientTypeOK
    <3>2. QED BY <2>2, <3>1, ReportType, WireUnchanged DEF Report
  <2>3. cend[c] # None => cend[c] \in Nat
    BY DEF ClientTypeOK
  <2>4. QED BY <1>8, <2>1, <2>2, <2>3 DEF StreamRecvSelect
<1>9. CASE StreamSend(c) \/ StreamCloseSend(c)
  BY <1>9, WireUnchanged DEF StreamSend, StreamCloseSend, ClientTypeOK, CallerPcs, streamVars, attachVars
<1>10. CASE CtxCancel(c) \/ WatchSelect(c)
  BY <1>10, WireUnchanged DEF CtxCancel, WatchSelect, ClientTypeOK, streamVars, callerVars, attachVars
<1>11. CASE WatchSend(c)
  <2>1. Fr(seqOf[c], "cancel", c, 1) \in Frame
    BY FrType DEF ClientTypeOK, FrameTypes
  <2>2. WireTypeOK'
    BY <1>11, <2>1, ClientSendType DEF WatchSend
  <2>3. ClientTypeOK'
    BY <1>11 DEF WatchSend, ClientTypeOK, streamVars, callerVars, attachVars
  <2>4. QED BY <2>2, <2>3
<1>12. QED
  BY <1>1, <1>2, <1>3, <1>4, <1>5, <1>6, <1>7, <1>8, <1>9, <1>10, <1>11
  DEF CallerStep, WatchStep

\* The Attach pump and Conn.Close keep the types.
LEMMA PumpStepType ==
  ASSUME TypeOK, AttachStep \/ ConnClose \/ ConnCloseChannel
  PROVE  WireTypeOK' /\ ClientTypeOK'
<1> USE DEF TypeOK
<1>1. CASE AttachRecv
  <2> DEFINE f == Head(s2c)
             cs == cstreams[f.seq]
  <2>1. WireTypeOK' /\ f \in Frame
    BY <1>1 DEF AttachRecv, ClientTake, WireTypeOK
  <2>2. f.seq \in Seqs /\ <<f.id, f.val>> \in Payload /\ f.val \in Nat
    BY <2>1 DEF Frame, Payload
  <2>3. cs \in Calls \cup {None}
    BY <2>2 DEF ClientTypeOK
  <2>4. UNCHANGED <<seqAlloc, callerVars, watch, attachCancel>>
    BY <1>1 DEF AttachRecv
  <2> HIDE DEF f, cs
  <2>5. CASE UNCHANGED <<streamVars, apc, aitem>>
    BY <2>1, <2>4, <2>5 DEF ClientTypeOK, streamVars, callerVars
  <2>6. CASE /\ cs # None
             /\ chdr' = [chdr EXCEPT ![cs] = TRUE]
             /\ UNCHANGED <<cstreams, seqOf, cin, cend, apc, aitem>>
    BY <2>1, <2>3, <2>4, <2>6 DEF ClientTypeOK, callerVars
  <2>7. CASE /\ cs # None
             /\ apc' = "deliver"
             /\ aitem' = [to |-> cs, item |-> <<f.id, f.val>>]
             /\ UNCHANGED streamVars
    <3>1. aitem' \in Delivery
      BY <2>2, <2>3, <2>7 DEF Delivery
    <3>2. QED BY <2>1, <2>4, <2>7, <3>1 DEF ClientTypeOK, streamVars, callerVars
  <2>8. CASE /\ cs # None
             /\ cend' = [cend EXCEPT ![cs] = IF @ = None THEN f.val ELSE @]
             /\ cstreams' = [cstreams EXCEPT ![f.seq] = None]
             /\ UNCHANGED <<seqOf, cin, chdr, apc, aitem>>
    BY <2>1, <2>2, <2>3, <2>4, <2>8 DEF ClientTypeOK, callerVars
  <2>9. QED BY <1>1, <2>1, <2>5, <2>6, <2>7, <2>8 DEF AttachRecv, f, cs
<1>2. CASE AttachDeliver \/ AttachFail
  <2>1. CASE AttachDeliver
    <3> aitem \in Delivery
      BY <2>1 DEF AttachDeliver, ClientTypeOK
    <3>1. aitem.to \in Calls /\ aitem.item \in Payload
      BY DEF Delivery
    <3>2. Append(cin[aitem.to], aitem.item) \in Seq(Payload) /\ cin \in [Calls -> Seq(Payload)]
      BY <3>1 DEF ClientTypeOK
    <3>3. cin' \in [Calls -> Seq(Payload)]
      BY <2>1, <3>1, <3>2 DEF AttachDeliver
    <3>4. QED BY <2>1, <3>3, WireUnchanged DEF AttachDeliver, ClientTypeOK, callerVars
  <2>2. CASE AttachFail
    BY <2>2, WireUnchanged DEF AttachFail, ClientTypeOK, callerVars
  <2>3. QED BY <1>2, <2>1, <2>2
<1>3. CASE ConnClose \/ ConnCloseChannel
  BY <1>3, WireUnchanged, ClientUnchanged
  DEF ConnClose, ConnCloseChannel, WireTypeOK, ClientTypeOK, streamVars, callerVars
<1>4. QED BY <1>1, <1>2, <1>3 DEF AttachStep

-----------------------------------------------------------------------------
\* Moving one actor, with what it needs in hand, keeps the control types.
LEMMA PcStep ==
  ASSUME PcTypeOK, NEW a \in Actors, NEW p, pc' = [pc EXCEPT ![a] = p],
         a = Loop => /\ p \in EndPcs \cup LoopPcs
                     /\ p \in EndPcs \cup {"deliver"} => sitem' \in SItem
                     /\ p = "deliver" => sitem'.to \in Calls
                     /\ hret' = hret,
         a # Loop => /\ p \in HandlerPcs \cup EndPcs
                     /\ p \in EndPcs \cup {"done"} => hret'[a] \in Nat
                     /\ \A c \in Calls : c # a => hret'[c] = hret[c]
                     /\ sitem' = sitem
  PROVE  PcTypeOK'
<1> USE ServerAssumption
<1>1. CASE a = Loop
  BY <1>1 DEF PcTypeOK, Actors
<1>2. CASE a # Loop
  BY <1>2 DEF PcTypeOK, Actors
<1>3. QED BY <1>1, <1>2

\* Enqueue puts an Out record on the queue or leaves the queue alone, and
\* moves the actor to one of the two given places.
LEMMA EnqueueType ==
  ASSUME NEW a \in Actors, NEW f \in Frame, NEW ok, NEW fail,
         ServerTypeOK, Enqueue(a, f, ok, fail)
  PROVE  /\ mout' \in Seq(Out)
         /\ pc' = [pc EXCEPT ![a] = ok] \/ pc' = [pc EXCEPT ![a] = fail]
<1>1. [frame |-> f, by |-> a] \in Out
  BY DEF Out
<1>2. mout \in Seq(Out)
  BY DEF ServerTypeOK
<1>3. QED BY <1>1, <1>2 DEF Enqueue

\* The frames of endStream.
LEMMA EndFrameType ==
  ASSUME NEW a \in Actors, ServerTypeOK, pc[a] \in EndPcs
  PROVE  /\ EndSeq(a) \in Seqs
         /\ Fr(EndSeq(a), "begin", EndId(a), 0) \in Frame
         /\ Fr(EndSeq(a), "end", EndId(a), EndCode(a)) \in Frame
         /\ a = Loop => sitem \in SItem
         /\ a # Loop => hret[a] \in Nat
<1>1. CASE a = Loop
  <2>1. sitem \in SItem
    BY <1>1 DEF ServerTypeOK, PcTypeOK
  <2>2. sitem.frame \in Frame /\ sitem.code \in Nat
    BY <2>1 DEF SItem
  <2>3. sitem.frame.seq \in Seqs /\ sitem.frame.id \in Calls
    BY <2>2 DEF Frame
  <2>4. QED BY <1>1, <2>1, <2>2, <2>3, FrType DEF EndSeq, EndId, EndCode, FrameTypes
<1>2. CASE a # Loop
  <2>1. a \in Calls
    BY <1>2 DEF Actors
  <2>2. sseq[a] \in Seqs /\ hret[a] \in Nat
    BY <2>1 DEF ServerTypeOK, PcTypeOK
  <2>3. QED BY <1>2, <2>1, <2>2, FrType DEF EndSeq, EndId, EndCode, FrameTypes
<1>3. QED BY <1>1, <1>2

\* endStream keeps the server's types.
LEMMA EndStepType ==
  ASSUME ServerTypeOK, WireTypeOK, NEW a \in Actors, EndStep(a)
  PROVE  WireTypeOK' /\ ServerTypeOK'
<1>1. CASE EndLookup(a)
  <2>1. EndSeq(a) \in Seqs /\ (a = Loop => sitem \in SItem) /\ (a # Loop => hret[a] \in Nat)
    BY <1>1, EndFrameType DEF EndLookup, EndPcs
  <2>2. sstreams[EndSeq(a)] \in Calls \cup {None}
    BY <2>1 DEF ServerTypeOK
  <2>3. /\ headerSent' \in [Calls -> BOOLEAN]
        /\ sstreams' \in [Seqs -> Calls \cup {None}]
    BY <1>1, <2>1, <2>2 DEF EndLookup, ServerTypeOK
  <2>4. ASSUME NEW p \in {"qebegin", "delete"}, pc' = [pc EXCEPT ![a] = p]
        PROVE  PcTypeOK'
    BY <1>1, <2>1, <2>4, PcStep DEF EndLookup, ServerTypeOK, handlerVars, EndPcs
  <2>5. PcTypeOK'
    BY <1>1, <2>4 DEF EndLookup
  <2>6. QED BY <1>1, <2>3, <2>5, WireUnchanged DEF EndLookup, ServerTypeOK, handlerVars
<1>2. CASE EndQueueBegin(a)
  <2>1. Fr(EndSeq(a), "begin", EndId(a), 0) \in Frame /\ (a = Loop => sitem \in SItem) /\ (a # Loop => hret[a] \in Nat)
    BY <1>2, EndFrameType DEF EndQueueBegin, EndPcs
  <2>2. mout' \in Seq(Out) /\ pc' = [pc EXCEPT ![a] = "delete"]
    BY <1>2, <2>1, EnqueueType DEF EndQueueBegin
  <2>3. PcTypeOK'
    BY <1>2, <2>1, <2>2, PcStep DEF EndQueueBegin, ServerTypeOK, handlerVars, EndPcs
  <2>4. QED BY <1>2, <2>2, <2>3, WireUnchanged DEF EndQueueBegin, ServerTypeOK, sstreamVars, handlerVars
<1>3. CASE EndDelete(a)
  <2>1. EndSeq(a) \in Seqs /\ (a = Loop => sitem \in SItem) /\ (a # Loop => hret[a] \in Nat)
    BY <1>3, EndFrameType DEF EndDelete, EndPcs
  <2>2. PcTypeOK'
    BY <1>3, <2>1, PcStep DEF EndDelete, ServerTypeOK, handlerVars, EndPcs
  <2>3. QED BY <1>3, <2>1, <2>2, WireUnchanged DEF EndDelete, ServerTypeOK, sstreamVars, handlerVars
<1>4. CASE EndQueueEnd(a)
  <2>1. Fr(EndSeq(a), "end", EndId(a), EndCode(a)) \in Frame /\ (a = Loop => sitem \in SItem) /\ (a # Loop => hret[a] \in Nat)
    BY <1>4, EndFrameType DEF EndQueueEnd, EndPcs
  <2>2. mout' \in Seq(Out) /\ pc' = [pc EXCEPT ![a] = "wend"]
    BY <1>4, <2>1, EnqueueType DEF EndQueueEnd
  <2>3. PcTypeOK'
    BY <1>4, <2>1, <2>2, PcStep DEF EndQueueEnd, ServerTypeOK, handlerVars, EndPcs
  <2>4. QED BY <1>4, <2>2, <2>3, WireUnchanged DEF EndQueueEnd, ServerTypeOK, sstreamVars, handlerVars
<1>5. CASE EndDone(a)
  <2>1. a # Loop => hret[a] \in Nat
    BY <1>5, EndFrameType DEF EndDone, EndPcs
  <2>2. PcTypeOK'
    <3>1. CASE a = Loop
      BY <1>5, <3>1, PcStep DEF EndDone, ServerTypeOK, handlerVars, EndPcs, LoopPcs
    <3>2. CASE a # Loop
      BY <1>5, <2>1, <3>2, PcStep DEF EndDone, ServerTypeOK, handlerVars, HandlerPcs
    <3>3. QED BY <3>1, <3>2
  <2>3. scancel' \in [Calls -> BOOLEAN] /\ sitem' \in SItem \cup {None}
    BY <1>5 DEF EndDone, ServerTypeOK, Actors
  <2>4. QED BY <1>5, <2>2, <2>3, WireUnchanged DEF EndDone, ServerTypeOK, handlerVars
<1>6. QED BY <1>1, <1>2, <1>3, <1>4, <1>5 DEF EndStep

\* The Serve loop and the writer keep the server's types.
LEMMA ServeStepType ==
  ASSUME ServerTypeOK, WireTypeOK,
         ServeStep \/ WriterStep \/ ServeCancel
  PROVE  WireTypeOK' /\ ServerTypeOK'
<1> Loop \in Actors
  BY DEF Actors
<1>1. CASE ServeRecv
  <2> DEFINE f == Head(c2s)
             st == sstreams[f.seq]
  <2>1. WireTypeOK' /\ f \in Frame
    BY <1>1 DEF ServeRecv, ServerTake, WireTypeOK
  <2>2. f.seq \in Seqs /\ f.id \in Calls /\ f.id \in Actors /\ f.id # Loop
    BY <2>1, ServerAssumption DEF Frame, Actors
  <2>3. st \in Calls \cup {None}
    BY <2>2 DEF ServerTypeOK
  <2>4. UNCHANGED <<headerSent, handlerVars, mout, wpc, serveCancel>>
    BY <1>1 DEF ServeRecv
  <2> HIDE DEF f, st
  <2>5. ASSUME ServerOpenStream(f), UNCHANGED halfClose
        PROVE  ServerTypeOK'
    <3>1. ASSUME NEW code \in Nat, sitem' = [frame |-> f, to |-> None, code |-> code],
                 pc' = [pc EXCEPT ![Loop] = "end"],
                 UNCHANGED <<sstreams, sseq, sin, scancel>>
          PROVE  ServerTypeOK'
      <4>1. sitem' \in SItem
        BY <2>1, <3>1 DEF SItem
      <4>2. PcTypeOK'
        BY <2>4, <3>1, <4>1, PcStep DEF ServerTypeOK, handlerVars, EndPcs
      <4>3. QED BY <2>4, <2>5, <3>1, <4>1, <4>2 DEF ServerTypeOK, handlerVars
    <3>2. ASSUME sstreams' = [sstreams EXCEPT ![f.seq] = f.id],
                 sseq' = [sseq EXCEPT ![f.id] = f.seq],
                 sin' = [sin EXCEPT ![f.id] = <<<<f.id, 1>>>>] \/ sin' = sin,
                 scancel' = [scancel EXCEPT ![f.id] = TRUE] \/ scancel' = scancel,
                 pc' = [pc EXCEPT ![f.id] = "run"], sitem' = None,
                 pc[Loop] = "serve"
          PROVE  ServerTypeOK'
      <4>1. sin' \in [Calls -> Seq(Payload)]
        <5>1. <<<<f.id, 1>>>> \in Seq(Payload)
          BY <2>2 DEF Payload
        <5>2. QED BY <2>2, <3>2, <5>1 DEF ServerTypeOK
      <4>2. PcTypeOK'
        BY <2>2, <2>4, <3>2 DEF ServerTypeOK, PcTypeOK, handlerVars, HandlerPcs, EndPcs, Actors
      <4>3. scancel' \in [Calls -> BOOLEAN]
        BY <2>2, <3>2 DEF ServerTypeOK
      <4>4. QED BY <2>2, <2>4, <2>5, <3>2, <4>1, <4>2, <4>3 DEF ServerTypeOK, handlerVars
    <3>3. QED BY <1>1, <2>5, <3>1, <3>2 DEF ServerOpenStream, ServeRecv
  <2>6. CASE UNCHANGED <<sstreams, sseq, sin, halfClose, scancel, pc, sitem>>
    BY <2>1, <2>4, <2>6 DEF ServerTypeOK, PcTypeOK, handlerVars
  <2>7. ASSUME st # None, sitem' = [frame |-> f, to |-> st, code |-> 0],
               pc' = [pc EXCEPT ![Loop] = "deliver"],
               UNCHANGED <<sstreams, sseq, sin, halfClose, scancel>>
        PROVE  ServerTypeOK'
    <3>1. sitem' \in SItem /\ sitem'.to \in Calls
      BY <2>1, <2>3, <2>7 DEF SItem
    <3>2. PcTypeOK'
      BY <2>4, <2>7, <3>1, PcStep DEF ServerTypeOK, handlerVars, LoopPcs
    <3>3. QED BY <2>4, <2>7, <3>1, <3>2 DEF ServerTypeOK, handlerVars
  <2>8. ASSUME st # None, halfClose' = [halfClose EXCEPT ![st] = TRUE],
               UNCHANGED <<sstreams, sseq, sin, scancel, pc, sitem>>
        PROVE  ServerTypeOK'
    BY <2>3, <2>4, <2>8 DEF ServerTypeOK, PcTypeOK, handlerVars
  <2>9. ASSUME st # None, scancel' = [scancel EXCEPT ![st] = TRUE],
               sstreams' = [sstreams EXCEPT ![f.seq] = None],
               UNCHANGED <<sseq, sin, halfClose, pc, sitem>>
        PROVE  ServerTypeOK'
    BY <2>2, <2>3, <2>4, <2>9 DEF ServerTypeOK, PcTypeOK, handlerVars
  <2>10. QED BY <1>1, <2>1, <2>5, <2>6, <2>7, <2>8, <2>9 DEF ServeRecv, f, st
<1>2. CASE ServeDeliver
  <2> DEFINE item == <<sitem.frame.id, sitem.frame.val>>
  <2>1. sitem \in SItem /\ sitem.to \in Calls
    BY <1>2 DEF ServeDeliver, ServerTypeOK, PcTypeOK
  <2>2. sitem.frame \in Frame
    BY <2>1 DEF SItem
  <2>3. item \in Payload
    BY <2>2 DEF Frame, Payload
  <2> HIDE DEF item
  <2>4. sin \in [Calls -> Seq(Payload)] /\ Append(sin[sitem.to], item) \in Seq(Payload)
    BY <2>1, <2>3 DEF ServerTypeOK
  <2>5. sin' \in [Calls -> Seq(Payload)]
    BY <1>2, <2>1, <2>4 DEF ServeDeliver, item
  <2>6. PcTypeOK'
    BY <1>2, PcStep DEF ServeDeliver, ServerTypeOK, handlerVars, LoopPcs, EndPcs
  <2>7. QED BY <1>2, <2>5, <2>6, WireUnchanged DEF ServeDeliver, ServerTypeOK, handlerVars
<1>3. CASE ServeExit
  <2>1. PcTypeOK'
    BY <1>3, PcStep DEF ServeExit, ServerTypeOK, handlerVars, LoopPcs, EndPcs
  <2>2. QED BY <1>3, <2>1, WireUnchanged DEF ServeExit, ServerTypeOK, sstreamVars, handlerVars
<1>4. CASE WriterSend
  <2>1. Head(mout) \in Out /\ Tail(mout) \in Seq(Out)
    BY <1>4 DEF WriterSend, ServerTypeOK
  <2>2. Head(mout).frame \in Frame
    BY <2>1 DEF Out
  <2>3. WireTypeOK'
    BY <1>4, <2>2, ServerSendType DEF WriterSend, ServerTypeOK
  <2>4. QED BY <1>4, <2>1, <2>3 DEF WriterSend, ServerTypeOK, PcTypeOK, sstreamVars, handlerVars
<1>5. CASE WriterExit \/ ServeCancel
  BY <1>5, WireUnchanged DEF WriterExit, ServeCancel, ServerTypeOK, PcTypeOK, sstreamVars, handlerVars
<1>6. QED BY <1>1, <1>2, <1>3, <1>4, <1>5 DEF ServeStep, WriterStep

\* The handlers keep the server's types.
LEMMA HandlerStepType ==
  ASSUME ServerTypeOK, WireTypeOK, NEW c \in Calls,
         HandlerApp(c) \/ SendStep(c) \/ DeadlineFires(c)
  PROVE  WireTypeOK' /\ ServerTypeOK'
<1> c \in Actors /\ c # Loop
  BY ServerAssumption DEF Actors
<1>1. ASSUME TakeRequest(c), sitem' = sitem
      PROVE  /\ PcTypeOK'
             /\ sgot' \in [Calls -> Seq(Payload)]
             /\ sin' \in [Calls -> Seq(Payload)]
  <2>1. sin[c] \in Seq(Payload) /\ sgot[c] \in Seq(Payload) /\ sin[c] # <<>>
    BY <1>1 DEF TakeRequest, ServerTypeOK
  <2>2. Append(sgot[c], Head(sin[c])) \in Seq(Payload) /\ Tail(sin[c]) \in Seq(Payload)
    BY <2>1
  <2>3. PcTypeOK'
    BY <1>1, PcStep DEF TakeRequest, ServerTypeOK, HandlerPcs, EndPcs
  <2>4. QED BY <1>1, <2>2, <2>3 DEF TakeRequest, ServerTypeOK
<1>2. ASSUME NEW code \in Nat, Return(c, code), sitem' = sitem
      PROVE  PcTypeOK' /\ hret' \in [Calls -> Nat \cup {None}]
  <2>1. hret'[c] \in Nat /\ \A d \in Calls : d # c => hret'[d] = hret[d]
    BY <1>2 DEF Return, ServerTypeOK
  <2>2. PcTypeOK'
    BY <1>2, <2>1, PcStep DEF Return, ServerTypeOK, EndPcs
  <2>3. QED BY <1>2, <2>2 DEF Return, ServerTypeOK
<1>3. CASE HandlerRecv(c)
  <2>1. CASE TakeRequest(c)
    BY <1>1, <1>3, <2>1, WireUnchanged DEF HandlerRecv, ServerTypeOK, TakeRequest
  <2>2. CASE pc' = [pc EXCEPT ![c] = "recv"] /\ UNCHANGED <<sin, sgot, eof, hret>>
    <3>1. PcTypeOK'
      BY <1>3, <2>2, PcStep DEF HandlerRecv, ServerTypeOK, HandlerPcs, EndPcs
    <3>2. QED BY <1>3, <2>2, <3>1, WireUnchanged DEF HandlerRecv, ServerTypeOK
  <2>3. QED BY <1>3, <2>1, <2>2 DEF HandlerRecv
<1>4. CASE HandlerRecvSelect(c)
  <2>1. CASE TakeRequest(c)
    BY <1>1, <1>4, <2>1, WireUnchanged DEF HandlerRecvSelect, ServerTypeOK, TakeRequest
  <2>2. CASE /\ eof' = [eof EXCEPT ![c] = TRUE]
             /\ pc' = [pc EXCEPT ![c] = "run"]
             /\ UNCHANGED <<sin, sgot, hret>>
    <3>1. PcTypeOK'
      BY <1>4, <2>2, PcStep DEF HandlerRecvSelect, ServerTypeOK, HandlerPcs, EndPcs
    <3>2. QED BY <1>4, <2>2, <3>1, WireUnchanged DEF HandlerRecvSelect, ServerTypeOK
  <2>3. CASE Return(c, 2) /\ UNCHANGED <<sin, sgot, eof>>
    BY <1>2, <1>4, <2>3, WireUnchanged DEF HandlerRecvSelect, ServerTypeOK
  <2>4. QED BY <1>4, <2>1, <2>2, <2>3 DEF HandlerRecvSelect
<1>5. CASE HandlerSend(c)
  <2> DEFINE st == sstreams[sseq[c]]
  <2>1. st \in Calls \cup {None}
    BY DEF ServerTypeOK
  <2> HIDE DEF st
  <2>2. CASE Return(c, 2) /\ UNCHANGED <<headerSent, resp>>
    BY <1>2, <1>5, <2>2, WireUnchanged DEF HandlerSend, ServerTypeOK
  <2>3. ASSUME st # None, headerSent' = [headerSent EXCEPT ![st] = TRUE],
               resp' = [resp EXCEPT ![c] = @ + 1],
               pc' = [pc EXCEPT ![c] = IF headerSent[st] THEN "qdata" ELSE "qbegin"],
               UNCHANGED hret
        PROVE  WireTypeOK' /\ ServerTypeOK'
    <3>1. PcTypeOK'
      BY <1>5, <2>3, PcStep DEF HandlerSend, ServerTypeOK, HandlerPcs, EndPcs
    <3>2. headerSent' \in [Calls -> BOOLEAN] /\ resp' \in [Calls -> Nat]
      BY <2>1, <2>3 DEF ServerTypeOK
    <3>3. QED BY <1>5, <2>3, <3>1, <3>2, WireUnchanged DEF HandlerSend, ServerTypeOK
  <2>4. QED BY <1>5, <2>2, <2>3 DEF HandlerSend, st
<1>6. ASSUME NEW f \in Frame, NEW ok \in {"qdata", "run"}, Enqueue(c, f, ok, "end"),
             hret' = IF pc'[c] = "end" THEN [hret EXCEPT ![c] = 2] ELSE hret,
             sitem' = sitem
      PROVE  PcTypeOK' /\ mout' \in Seq(Out) /\ hret' \in [Calls -> Nat \cup {None}]
  <2>1. mout' \in Seq(Out) /\ (pc' = [pc EXCEPT ![c] = ok] \/ pc' = [pc EXCEPT ![c] = "end"])
    BY <1>6, EnqueueType
  <2>2. pc \in [Actors -> HandlerPcs \cup EndPcs \cup LoopPcs] /\ hret \in [Calls -> Nat \cup {None}]
    BY DEF ServerTypeOK, PcTypeOK
  <2>3. CASE pc' = [pc EXCEPT ![c] = ok]
    <3>1. hret' = hret
      BY <1>6, <2>2, <2>3
    <3>2. PcTypeOK'
      BY <1>6, <2>3, <3>1, PcStep DEF ServerTypeOK, HandlerPcs, EndPcs
    <3>3. QED BY <2>1, <2>2, <3>1, <3>2
  <2>4. CASE pc' = [pc EXCEPT ![c] = "end"]
    BY <1>2, <1>6, <2>1, <2>2, <2>4 DEF Return
  <2>5. QED BY <2>1, <2>3, <2>4
<1>7. CASE SendQueueBegin(c)
  <2>1. Fr(sseq[c], "begin", c, 0) \in Frame
    BY FrType DEF ServerTypeOK, FrameTypes
  <2>2. QED BY <1>6, <1>7, <2>1, WireUnchanged DEF SendQueueBegin, ServerTypeOK, sstreamVars
<1>8. CASE SendQueueData(c)
  <2>1. Fr(sseq[c], "data", c, resp[c]) \in Frame
    BY FrType DEF ServerTypeOK, FrameTypes
  <2>2. QED BY <1>6, <1>8, <2>1, WireUnchanged DEF SendQueueData, ServerTypeOK, sstreamVars
<1>9. CASE SendGiveUp(c)
  BY <1>2, <1>9, WireUnchanged DEF SendGiveUp, ServerTypeOK, sstreamVars
<1>10. CASE HandlerReturn(c)
  BY <1>2, <1>10, WireUnchanged DEF HandlerReturn, ServerTypeOK, sstreamVars
<1>11. CASE DeadlineFires(c)
  BY <1>11, WireUnchanged DEF DeadlineFires, ServerTypeOK, PcTypeOK, handlerVars
<1>12. QED
  BY <1>3, <1>4, <1>5, <1>7, <1>8, <1>9, <1>10, <1>11 DEF HandlerApp, SendStep

-----------------------------------------------------------------------------
\* The kinds of step there are.
LEMMA StepKinds ==
  ASSUME Next
  PROVE  \/ /\ UNCHANGED serverVars
            /\ \/ \E c \in Calls : \/ ClientOpenStream(c) \/ CallerStep(c)
                                  \/ CtxCancel(c) \/ WatchStep(c)
               \/ AttachStep \/ ConnClose \/ ConnCloseChannel
         \/ /\ UNCHANGED clientVars
            /\ \/ ServeStep \/ WriterStep \/ ServeCancel
               \/ \E a \in Actors : EndStep(a)
               \/ \E c \in Calls : HandlerApp(c) \/ SendStep(c) \/ DeadlineFires(c)
         \/ (ServerConnClose \/ OnClose) /\ UNCHANGED <<clientVars, serverVars>>
BY DEF Next, AtClient, AtServer, OnWire, CallerStep, WatchStep, AttachStep,
       ServeStep, WriterStep, EndStep, HandlerApp, SendStep

\* Closing an end keeps the wire's types.
LEMMA CloseType ==
  ASSUME WireTypeOK, ServerConnClose \/ OnClose
  PROVE  WireTypeOK'
BY DEF WireTypeOK, ServerConnClose, OnClose

\* TypeOK is inductive.
LEMMA TypeStep == TypeOK /\ [Next]_vars => TypeOK'
<1> SUFFICES ASSUME TypeOK, [Next]_vars PROVE TypeOK'
  OBVIOUS
<1>1. CASE UNCHANGED vars
  BY <1>1, WireUnchanged, ClientUnchanged, ServerUnchanged DEF TypeOK, vars
<1>2. ASSUME UNCHANGED serverVars,
             \/ \E c \in Calls : \/ ClientOpenStream(c) \/ CallerStep(c)
                                \/ CtxCancel(c) \/ WatchStep(c)
             \/ AttachStep \/ ConnClose \/ ConnCloseChannel
      PROVE  TypeOK'
  <2>1. ServerTypeOK'
    BY <1>2, ServerUnchanged DEF TypeOK
  <2>2. ASSUME NEW c \in Calls,
               ClientOpenStream(c) \/ CallerStep(c) \/ CtxCancel(c) \/ WatchStep(c)
        PROVE  WireTypeOK' /\ ClientTypeOK'
    BY <2>2, ClientStepType
  <2>3. CASE AttachStep \/ ConnClose \/ ConnCloseChannel
    BY <2>1, <2>3, PumpStepType DEF TypeOK
  <2>4. QED BY <1>2, <2>1, <2>2, <2>3 DEF TypeOK
<1>3. ASSUME UNCHANGED clientVars,
             \/ ServeStep \/ WriterStep \/ ServeCancel
             \/ \E a \in Actors : EndStep(a)
             \/ \E c \in Calls : HandlerApp(c) \/ SendStep(c) \/ DeadlineFires(c)
      PROVE  TypeOK'
  <2>1. ClientTypeOK'
    BY <1>3, ClientUnchanged DEF TypeOK
  <2>2. CASE ServeStep \/ WriterStep \/ ServeCancel
    BY <2>1, <2>2, ServeStepType DEF TypeOK
  <2>3. ASSUME NEW a \in Actors, EndStep(a) PROVE TypeOK'
    BY <2>1, <2>3, EndStepType DEF TypeOK
  <2>4. ASSUME NEW c \in Calls, HandlerApp(c) \/ SendStep(c) \/ DeadlineFires(c) PROVE TypeOK'
    BY <2>1, <2>4, HandlerStepType DEF TypeOK
  <2>5. QED BY <1>3, <2>2, <2>3, <2>4
<1>4. CASE (ServerConnClose \/ OnClose) /\ UNCHANGED <<clientVars, serverVars>>
  BY <1>4, CloseType, ClientUnchanged, ServerUnchanged DEF TypeOK
<1>5. QED BY <1>1, <1>2, <1>3, <1>4, StepKinds

\* Every variable keeps its type, and every goroutine has in hand what its
\* place in the code needs: a unary call waiting for End has its message, the
\* Serve loop blocked in deliverPayload has a stream, a handler in endStream
\* has a status.
THEOREM TypeCorrect == Spec => []TypeOK
<1>1. Init => TypeOK
  <2> SUFFICES ASSUME Init PROVE TypeOK
    OBVIOUS
  <2>1. WireTypeOK
    <3>1. c2s \in Seq(Frame) /\ s2c \in Seq(Frame)
      BY DEF Init, WireInit
    <3>2. cclosed \in BOOLEAN /\ sclosed \in BOOLEAN
      BY Zenon DEF Init, WireInit
    <3>3. QED BY <3>1, <3>2 DEF WireTypeOK
  <2>2. ClientTypeOK
    <3>1. seqAlloc \in Seqs /\ seqOf \in [Calls -> Seqs] /\ sent \in [Calls -> Nat]
      BY WireAssumption DEF Init, ClientInit, Seqs
    <3>2. cin \in [Calls -> Seq(Payload)] /\ got \in [Calls -> Seq(Payload)]
      BY DEF Init, ClientInit
    <3>3. /\ cstreams \in [Seqs -> Calls \cup {None}]
          /\ cend \in [Calls -> Nat \cup {None}] /\ outcome \in [Calls -> Outcome \cup {None}]
          /\ cpc \in [Calls -> CallerPcs] /\ \A c \in Calls : cpc[c] # "reply"
          /\ watch \in [Calls -> {"none", "armed", "cancel", "exited"}]
          /\ apc \in {"recv", "deliver", "exited"} /\ apc # "deliver" /\ aitem \in Delivery \cup {None}
      BY DEF Init, ClientInit, CallerPcs
    <3>4. /\ chdr \in [Calls -> BOOLEAN] /\ chalf \in [Calls -> BOOLEAN] /\ ctxDone \in [Calls -> BOOLEAN]
          /\ attachCancel \in BOOLEAN
      BY Zenon DEF Init, ClientInit
    <3>5. QED BY <3>1, <3>2, <3>3, <3>4 DEF ClientTypeOK
  <2>3. ServerTypeOK
    <3>1. sseq \in [Calls -> Seqs] /\ resp \in [Calls -> Nat]
      BY WireAssumption DEF Init, ServerInit, Seqs
    <3>2. sin \in [Calls -> Seq(Payload)] /\ sgot \in [Calls -> Seq(Payload)] /\ mout \in Seq(Out)
      BY DEF Init, ServerInit
    <3>3. /\ sstreams \in [Seqs -> Calls \cup {None}]
          /\ hret \in [Calls -> Nat \cup {None}] /\ sitem \in SItem \cup {None}
          /\ wpc \in {"run", "exited"}
      BY DEF Init, ServerInit
    <3>4. /\ halfClose \in [Calls -> BOOLEAN] /\ scancel \in [Calls -> BOOLEAN]
          /\ headerSent \in [Calls -> BOOLEAN] /\ eof \in [Calls -> BOOLEAN]
          /\ serveCancel \in BOOLEAN
      BY Zenon DEF Init, ServerInit
    <3>5. PcTypeOK
      BY ServerAssumption DEF Init, ServerInit, PcTypeOK, Actors, HandlerPcs, EndPcs, LoopPcs
    <3>6. QED BY <3>1, <3>2, <3>3, <3>4, <3>5 DEF ServerTypeOK
  <2>4. QED BY <2>1, <2>2, <2>3 DEF TypeOK
<1>2. QED BY <1>1, TypeStep, PTL DEF Spec

-----------------------------------------------------------------------------
\* Isolation.


\* The next sequence number is greater than every one handed out.
NoWrap == seqAlloc + 2 < SeqSpace

Opened(c) == cpc[c] # "idle"

\* A frame, or a table entry, carries the sequence number of its own call.
FrameOwned(f) == Opened(f.id) /\ f.seq = seqOf[f.id]
EntryOwned(s, c) == Opened(c) /\ seqOf[c] = s

\* Sequence numbers identify calls.
SeqsDistinct ==
  /\ \A c \in Calls : Opened(c) => seqOf[c] <= seqAlloc
  /\ \A c, d \in Calls : Opened(c) /\ Opened(d) /\ seqOf[c] = seqOf[d] => c = d

ClientOwned ==
  /\ \A c \in Calls : watch[c] # "none" => Opened(c)
  /\ \A s \in Seqs : cstreams[s] # None => EntryOwned(s, cstreams[s])
  /\ apc = "deliver" => aitem.item[1] = aitem.to

WireOwned ==
  /\ \A i \in DOMAIN c2s : FrameOwned(c2s[i])
  /\ \A i \in DOMAIN s2c : FrameOwned(s2c[i])

ServerOwned ==
  /\ \A c \in Calls : pc[c] # "none" => EntryOwned(sseq[c], c)
  /\ \A s \in Seqs : sstreams[s] # None => EntryOwned(s, sstreams[s])
  /\ \A i \in DOMAIN mout : FrameOwned(mout[i].frame)
  /\ pc[Loop] \in EndPcs \cup {"deliver"} => FrameOwned(sitem.frame)
  /\ pc[Loop] = "deliver" => sitem.to = sitem.frame.id

ClientIso == \A c \in Calls : Owned(c, got[c]) /\ Owned(c, cin[c])
ServerIso == \A c \in Calls : Owned(c, sgot[c]) /\ Owned(c, sin[c])

IsoInv == SeqsDistinct /\ ClientOwned /\ WireOwned /\ ServerOwned /\ ClientIso /\ ServerIso

-----------------------------------------------------------------------------
\* Appending an own payload to a queue of own payloads, and taking one off.
LEMMA OwnedAppend ==
  ASSUME NEW c, NEW q \in Seq(Payload), Owned(c, q), NEW m \in Payload, m[1] = c
  PROVE  Owned(c, Append(q, m))
BY DEF Owned

LEMMA OwnedTake ==
  ASSUME NEW c, NEW q \in Seq(Payload), q # <<>>, Owned(c, q)
  PROVE  Head(q) \in Payload /\ Head(q)[1] = c /\ Owned(c, Tail(q))
BY DEF Owned

\* Once opened, a call stays open and keeps its number.
Monotone == \A c \in Calls : Opened(c) => Opened(c)' /\ seqOf'[c] = seqOf[c]

\* Every step but ClientOpenStream leaves the allocator alone.
KeepsSeqs ==
  /\ seqAlloc' = seqAlloc /\ seqOf' = seqOf
  /\ \A c \in Calls : Opened(c)' <=> Opened(c)

LEMMA KeepsSeqsMonotone == KeepsSeqs /\ SeqsDistinct => Monotone /\ SeqsDistinct'
BY DEF KeepsSeqs, Monotone, SeqsDistinct, Opened

\* The steps of a caller other than ClientOpenStream keep the numbers.
LEMMA CallerKeeps ==
  ASSUME TypeOK, NEW c \in Calls, CallerStep(c) \/ CtxCancel(c) \/ WatchStep(c)
  PROVE  KeepsSeqs
<1> USE DEF TypeOK, ClientTypeOK, KeepsSeqs, Opened
<1>1. CASE SendCall(c) \/ SendPayload(c) \/ SendClose(c)
  BY <1>1 DEF SendCall, SendPayload, SendClose, AfterCall, streamVars
<1>2. CASE AwaitResponse(c) \/ AwaitEnd(c)
  BY <1>2 DEF AwaitResponse, AwaitEnd, TakeInbound, UnaryReturn, Report
<1>3. CASE StreamRecv(c) \/ StreamRecvSelect(c)
  BY <1>3 DEF StreamRecv, StreamRecvSelect, TakeInbound, Report, streamVars
<1>4. CASE StreamSend(c) \/ StreamCloseSend(c) \/ CtxCancel(c) \/ WatchStep(c)
  BY <1>4 DEF StreamSend, StreamCloseSend, CtxCancel, WatchStep, WatchSelect, WatchSend, streamVars, callerVars
<1>5. QED BY <1>1, <1>2, <1>3, <1>4 DEF CallerStep

LEMMA PumpKeeps ==
  ASSUME AttachStep \/ ConnClose \/ ConnCloseChannel
  PROVE  KeepsSeqs
BY DEF AttachStep, AttachRecv, AttachDeliver, AttachFail, ConnClose, ConnCloseChannel,
       KeepsSeqs, Opened, streamVars, callerVars, clientVars

LEMMA ClientIdleKeeps == UNCHANGED clientVars => KeepsSeqs
BY DEF clientVars, streamVars, callerVars, KeepsSeqs, Opened

\* Ownership, judged after the step, of a frame or an entry seen before it.
FrameOwnedAfter(f) == cpc'[f.id] # "idle" /\ f.seq = seqOf'[f.id]
EntryOwnedAfter(s, c) == cpc'[c] # "idle" /\ seqOf'[c] = s

\* Ownership survives any monotone step.
LEMMA FrameOwnedStable ==
  ASSUME Monotone, NEW f \in Frame, FrameOwned(f)
  PROVE  FrameOwnedAfter(f)
BY DEF Monotone, FrameOwned, FrameOwnedAfter, Frame, Opened

LEMMA EntryOwnedStable ==
  ASSUME Monotone, NEW s, NEW c \in Calls, EntryOwned(s, c)
  PROVE  EntryOwnedAfter(s, c)
BY DEF Monotone, EntryOwned, EntryOwnedAfter, Opened

\* The wires keep owned frames: untouched, with one more, or with one less.
LEMMA WireSame ==
  ASSUME WireTypeOK, WireOwned, Monotone, UNCHANGED <<c2s, s2c>>
  PROVE  WireOwned'
<1>1. \A i \in DOMAIN c2s : c2s[i] \in Frame /\ FrameOwnedAfter(c2s[i])
  BY FrameOwnedStable DEF WireTypeOK, WireOwned
<1>2. \A i \in DOMAIN s2c : s2c[i] \in Frame /\ FrameOwnedAfter(s2c[i])
  BY FrameOwnedStable DEF WireTypeOK, WireOwned
<1>3. QED BY <1>1, <1>2 DEF WireOwned, FrameOwned, FrameOwnedAfter, Opened

LEMMA ClientSendOwned ==
  ASSUME WireTypeOK, WireOwned, Monotone, NEW f \in Frame, FrameOwned(f),
         NEW ctx \in BOOLEAN, ClientSendFrame(f, ctx)
  PROVE  WireOwned'
<1>1. \A i \in DOMAIN c2s : c2s[i] \in Frame /\ FrameOwnedAfter(c2s[i])
  BY FrameOwnedStable DEF WireTypeOK, WireOwned
<1>2. \A i \in DOMAIN s2c : s2c[i] \in Frame /\ FrameOwnedAfter(s2c[i])
  BY FrameOwnedStable DEF WireTypeOK, WireOwned
<1>3. FrameOwnedAfter(f) BY FrameOwnedStable
<1>4. s2c' = s2c /\ (c2s' = c2s \/ c2s' = Append(c2s, f)) BY DEF ClientSendFrame
<1>5. \A i \in DOMAIN c2s' : (i \in DOMAIN c2s /\ c2s'[i] = c2s[i]) \/ c2s'[i] = f
  BY <1>4 DEF WireTypeOK
<1>6. \A i \in DOMAIN c2s' : FrameOwnedAfter(c2s'[i])
  BY <1>1, <1>3, <1>5
<1>7. QED BY <1>2, <1>4, <1>6 DEF WireOwned, FrameOwned, FrameOwnedAfter, Opened

LEMMA ServerSendOwned ==
  ASSUME WireTypeOK, WireOwned, Monotone, NEW f \in Frame, FrameOwned(f),
         NEW ctx \in BOOLEAN, ServerSendFrame(f, ctx)
  PROVE  WireOwned'
<1>1. \A i \in DOMAIN c2s : c2s[i] \in Frame /\ FrameOwnedAfter(c2s[i])
  BY FrameOwnedStable DEF WireTypeOK, WireOwned
<1>2. \A i \in DOMAIN s2c : s2c[i] \in Frame /\ FrameOwnedAfter(s2c[i])
  BY FrameOwnedStable DEF WireTypeOK, WireOwned
<1>3. FrameOwnedAfter(f) BY FrameOwnedStable
<1>4. c2s' = c2s /\ (s2c' = s2c \/ s2c' = Append(s2c, f)) BY DEF ServerSendFrame
<1>5. \A i \in DOMAIN s2c' : (i \in DOMAIN s2c /\ s2c'[i] = s2c[i]) \/ s2c'[i] = f
  BY <1>4 DEF WireTypeOK
<1>6. \A i \in DOMAIN s2c' : FrameOwnedAfter(s2c'[i])
  BY <1>2, <1>3, <1>5
<1>7. QED BY <1>1, <1>4, <1>6 DEF WireOwned, FrameOwned, FrameOwnedAfter, Opened

\* Taking a frame off a wire: the frame taken is owned, and so is the rest.
LEMMA TakeOwned ==
  ASSUME WireTypeOK, WireOwned, Monotone, ClientTake \/ ServerTake
  PROVE  /\ WireOwned'
         /\ ClientTake => Head(s2c) \in Frame /\ FrameOwned(Head(s2c))
         /\ ServerTake => Head(c2s) \in Frame /\ FrameOwned(Head(c2s))
<1>1. \A i \in DOMAIN c2s : c2s[i] \in Frame /\ FrameOwnedAfter(c2s[i])
  BY FrameOwnedStable DEF WireTypeOK, WireOwned
<1>2. \A i \in DOMAIN s2c : s2c[i] \in Frame /\ FrameOwnedAfter(s2c[i])
  BY FrameOwnedStable DEF WireTypeOK, WireOwned
<1>3. c2s \in Seq(Frame) /\ s2c \in Seq(Frame) BY DEF WireTypeOK
<1>4. /\ c2s' = c2s \/ (c2s # <<>> /\ c2s' = Tail(c2s))
      /\ s2c' = s2c \/ (s2c # <<>> /\ s2c' = Tail(s2c))
  BY DEF ClientTake, ServerTake
<1>5. \A i \in DOMAIN c2s' : \E j \in DOMAIN c2s : c2s'[i] = c2s[j]
  <2>1. CASE c2s' = c2s BY <2>1
  <2>2. CASE c2s # <<>> /\ c2s' = Tail(c2s)
    <3>1. \A i \in DOMAIN Tail(c2s) : i + 1 \in DOMAIN c2s /\ Tail(c2s)[i] = c2s[i + 1]
      BY <1>3, <2>2
    <3>2. QED BY <3>1, <2>2
  <2>3. QED BY <2>1, <2>2, <1>4
<1>6. \A i \in DOMAIN s2c' : \E j \in DOMAIN s2c : s2c'[i] = s2c[j]
  <2>1. CASE s2c' = s2c BY <2>1
  <2>2. CASE s2c # <<>> /\ s2c' = Tail(s2c)
    <3>1. \A i \in DOMAIN Tail(s2c) : i + 1 \in DOMAIN s2c /\ Tail(s2c)[i] = s2c[i + 1]
      BY <1>3, <2>2
    <3>2. QED BY <3>1, <2>2
  <2>3. QED BY <2>1, <2>2, <1>4
<1>7. WireOwned'
  BY <1>1, <1>2, <1>5, <1>6 DEF WireOwned, FrameOwned, FrameOwnedAfter, Opened
<1>8. ASSUME ClientTake PROVE Head(s2c) \in Frame /\ FrameOwned(Head(s2c))
  <2>1. 1 \in DOMAIN s2c /\ Head(s2c) = s2c[1] BY <1>3, <1>8 DEF ClientTake
  <2>2. QED BY <2>1, <1>2 DEF WireOwned
<1>9. ASSUME ServerTake PROVE Head(c2s) \in Frame /\ FrameOwned(Head(c2s))
  <2>1. 1 \in DOMAIN c2s /\ Head(c2s) = c2s[1] BY <1>3, <1>9 DEF ServerTake
  <2>2. QED BY <2>1, <1>1 DEF WireOwned
<1>10. QED BY <1>7, <1>8, <1>9

-----------------------------------------------------------------------------
\* A side that a step leaves alone keeps its part of the invariant.
LEMMA ServerSame ==
  ASSUME ServerTypeOK, ServerOwned, Monotone, UNCHANGED serverVars
  PROVE  ServerOwned'
<1>1. /\ pc' = pc /\ sseq' = sseq /\ sstreams' = sstreams /\ mout' = mout /\ sitem' = sitem
  BY DEF serverVars, sstreamVars
<1>2. \A c \in Calls : pc[c] # "none" => EntryOwnedAfter(sseq[c], c)
  BY EntryOwnedStable DEF ServerOwned
<1>3. \A s \in Seqs : sstreams[s] # None => EntryOwnedAfter(s, sstreams[s])
  BY EntryOwnedStable DEF ServerOwned, ServerTypeOK
<1>4. \A i \in DOMAIN mout : FrameOwnedAfter(mout[i].frame)
  <2>1. \A i \in DOMAIN mout : mout[i] \in Out BY DEF ServerTypeOK
  <2>2. \A i \in DOMAIN mout : mout[i].frame \in Frame BY <2>1 DEF Out
  <2>3. QED BY <2>2, FrameOwnedStable DEF ServerOwned
<1>5. pc[Loop] \in EndPcs \cup {"deliver"} => FrameOwnedAfter(sitem.frame)
  <2>1. pc[Loop] \in EndPcs \cup {"deliver"} => sitem.frame \in Frame
    BY DEF ServerTypeOK, PcTypeOK, SItem
  <2>2. QED BY <2>1, FrameOwnedStable DEF ServerOwned
<1>6. QED BY <1>1, <1>2, <1>3, <1>4, <1>5 DEF ServerOwned, EntryOwned, FrameOwned, EntryOwnedAfter, FrameOwnedAfter, Opened

LEMMA ClientSame ==
  ASSUME ClientOwned, UNCHANGED clientVars
  PROVE  ClientOwned'
BY DEF ClientOwned, EntryOwned, Opened, clientVars, streamVars, callerVars, attachVars

LEMMA IsoSame ==
  /\ ClientIso /\ UNCHANGED <<got, cin>> => ClientIso'
  /\ ServerIso /\ UNCHANGED <<sgot, sin>> => ServerIso'
BY DEF ClientIso, ServerIso, Owned

-----------------------------------------------------------------------------
\* The client's steps.

\* A step that only removes entries and leaves the pump alone.
LEMMA ClientShrinks ==
  ASSUME ClientTypeOK, ClientOwned, KeepsSeqs, UNCHANGED <<apc, aitem>>,
         \A s \in Seqs : cstreams'[s] \in {cstreams[s], None},
         \A c \in Calls : watch'[c] # "none" => watch[c] # "none"
  PROVE  ClientOwned'
BY DEF ClientOwned, ClientTypeOK, KeepsSeqs, EntryOwned, Opened

LEMMA TakeInboundIso ==
  ASSUME ClientTypeOK, ClientIso, NEW c \in Calls, NEW p, TakeInbound(c, p)
  PROVE  ClientIso'
<1>1. cin[c] \in Seq(Payload) /\ got[c] \in Seq(Payload) /\ cin[c] # <<>>
  BY DEF ClientTypeOK, TakeInbound
<1>2. Head(cin[c]) \in Payload /\ Head(cin[c])[1] = c /\ Owned(c, Tail(cin[c]))
  BY <1>1, OwnedTake DEF ClientIso
<1>3. Owned(c, Append(got[c], Head(cin[c])))
  BY <1>1, <1>2, OwnedAppend DEF ClientIso
<1>4. \A d \in Calls : /\ got'[d] = IF d = c THEN Append(got[c], Head(cin[c])) ELSE got[d]
                       /\ cin'[d] = IF d = c THEN Tail(cin[c]) ELSE cin[d]
  BY DEF TakeInbound, ClientTypeOK
<1>5. \A d \in Calls : Owned(d, got'[d]) /\ Owned(d, cin'[d])
  BY <1>2, <1>3, <1>4 DEF ClientIso
<1>6. QED BY <1>5 DEF ClientIso, Owned

\* A step that puts a frame of an open call c on the wire.
LEMMA ClientSendIso ==
  ASSUME TypeOK, IsoInv, Monotone, NEW c \in Calls, Opened(c),
         NEW t \in FrameTypes, NEW v \in Nat, NEW ctx \in BOOLEAN,
         ClientSendFrame(Fr(seqOf[c], t, c, v), ctx)
  PROVE  WireOwned'
<1>1. Fr(seqOf[c], t, c, v) \in Frame BY FrType DEF TypeOK, ClientTypeOK
<1>2. FrameOwned(Fr(seqOf[c], t, c, v)) BY DEF FrameOwned, Fr
<1>3. QED BY <1>1, <1>2, ClientSendOwned DEF TypeOK, IsoInv

LEMMA CallerIso ==
  ASSUME TypeOK, IsoInv, NEW c \in Calls, CallerStep(c) \/ CtxCancel(c) \/ WatchStep(c)
  PROVE  ClientOwned' /\ WireOwned' /\ ClientIso'
<1> USE DEF TypeOK, IsoInv
<1>0. KeepsSeqs /\ Monotone BY CallerKeeps, KeepsSeqsMonotone
<1>1. CASE SendCall(c)
  <2>1. Opened(c) BY <1>1 DEF SendCall, Opened
  <2>2. WireOwned'
    BY <1>0, <1>1, <2>1, ClientSendIso DEF SendCall, FrameTypes, ClientTypeOK
  <2>3. QED BY <1>0, <1>1, <2>2, ClientShrinks, IsoSame DEF SendCall, streamVars, attachVars
<1>2. CASE SendPayload(c)
  <2>1. Opened(c) BY <1>2 DEF SendPayload, Opened
  <2>2. WireOwned'
    BY <1>0, <1>2, <2>1, ClientSendIso DEF SendPayload, FrameTypes, ClientTypeOK
  <2>3. QED BY <1>0, <1>2, <2>2, ClientShrinks, IsoSame DEF SendPayload, streamVars, attachVars
<1>3. CASE SendClose(c)
  <2>1. Opened(c) BY <1>3 DEF SendClose, Opened
  <2>2. WireOwned'
    BY <1>0, <1>3, <2>1, ClientSendIso DEF SendClose, FrameTypes, ClientTypeOK
  <2>3. QED BY <1>0, <1>3, <2>2, ClientShrinks, IsoSame DEF SendClose, streamVars, attachVars
<1>4. CASE WatchSend(c)
  <2>1. Opened(c) BY <1>4 DEF WatchSend, ClientOwned
  <2>2. WireOwned'
    BY <1>0, <1>4, <2>1, ClientSendIso DEF WatchSend, FrameTypes, ClientTypeOK
  <2>3. \A d \in Calls : watch'[d] # "none" => watch[d] # "none"
    BY <1>4 DEF WatchSend, ClientTypeOK
  <2>4. QED BY <1>0, <1>4, <2>2, <2>3, ClientShrinks, IsoSame DEF WatchSend, streamVars, callerVars, attachVars
<1>5. ASSUME NEW p, TakeInbound(c, p) PROVE ClientOwned' /\ WireOwned' /\ ClientIso'
  BY <1>0, <1>5, TakeInboundIso, WireSame, ClientShrinks DEF TakeInbound, attachVars, wireVars
<1>6. ASSUME NEW d, NEW code, Report(c, d, code), \A s \in Seqs : cstreams'[s] \in {cstreams[s], None}
      PROVE  ClientOwned' /\ WireOwned' /\ ClientIso'
  BY <1>0, <1>6, IsoSame, WireSame, ClientShrinks DEF Report, attachVars, wireVars
<1>7. ASSUME NEW d, NEW code, UnaryReturn(c, d, code)
      PROVE  ClientOwned' /\ WireOwned' /\ ClientIso'
  <2>1. \A s \in Seqs : cstreams'[s] \in {cstreams[s], None}
    BY <1>7 DEF UnaryReturn, ClientTypeOK
  <2>2. QED BY <1>6, <1>7, <2>1 DEF UnaryReturn
<1>8. CASE AwaitResponse(c) \/ AwaitEnd(c)
  BY <1>5, <1>7, <1>8 DEF AwaitResponse, AwaitEnd
<1>9. CASE StreamRecv(c) \/ StreamRecvSelect(c) \/ StreamSend(c) \/ StreamCloseSend(c) \/ CtxCancel(c)
  <2>1. CASE TakeInbound(c, "app") BY <1>5, <2>1
  <2>2. CASE StreamRecvSelect(c) BY <1>5, <1>6, <2>2 DEF StreamRecvSelect
  <2>3. CASE ~TakeInbound(c, "app") /\ (StreamRecv(c) \/ StreamSend(c) \/ StreamCloseSend(c) \/ CtxCancel(c))
    BY <1>0, <2>3, IsoSame, WireSame, ClientShrinks
       DEF StreamRecv, StreamSend, StreamCloseSend, CtxCancel, streamVars, attachVars, wireVars
  <2>4. QED BY <1>9, <2>1, <2>2, <2>3
<1>10. CASE WatchSelect(c)
  <2>1. \A d \in Calls : watch'[d] # "none" => watch[d] # "none"
    BY <1>10 DEF WatchSelect, ClientTypeOK
  <2>2. QED BY <1>0, <1>10, <2>1, IsoSame, WireSame, ClientShrinks
           DEF WatchSelect, streamVars, callerVars, attachVars, wireVars
<1>11. QED BY <1>1, <1>2, <1>3, <1>4, <1>8, <1>9, <1>10 DEF CallerStep, WatchStep

\* The mask does nothing to a number below the wrap.
LEMMA ModSmall ==
  ASSUME NEW n \in Nat \ {0}, NEW x \in Nat, x < n
  PROVE  x % n = x
<1>1. x = n * (x \div n) + (x % n) /\ x % n \in 0 .. (n - 1) /\ x \div n \in Int
  BY Z3
<1>2. QED BY <1>1, Z3

\* Without wrap, openStream hands out a number greater than every other.
LEMMA OpenIso ==
  ASSUME TypeOK, IsoInv, NoWrap, NEW c \in Calls, ClientOpenStream(c)
  PROVE  Monotone /\ SeqsDistinct' /\ ClientOwned' /\ WireOwned' /\ ClientIso'
<1> USE DEF TypeOK, IsoInv
<1>1. nextSeq = seqAlloc + 2 /\ nextSeq \in Seqs
  <2>1. seqAlloc + 2 \in Nat /\ SeqSpace \in Nat \ {0}
    BY WireAssumption DEF ClientTypeOK, Seqs
  <2>2. nextSeq = seqAlloc + 2 BY <2>1, ModSmall DEF NoWrap, nextSeq
  <2>3. QED BY <2>2, NextSeqType DEF ClientTypeOK
<1>2. /\ \A d \in Calls : d # c => seqOf'[d] = seqOf[d] /\ (Opened(d)' <=> Opened(d))
      /\ seqOf'[c] = nextSeq /\ Opened(c)' /\ ~Opened(c) /\ seqAlloc' = nextSeq
  <2>1. \A d \in Calls : seqOf'[d] = IF d = c THEN nextSeq ELSE seqOf[d]
    BY DEF ClientOpenStream, ClientTypeOK
  <2>2. \A d \in Calls : cpc'[d] = IF d = c THEN "call" ELSE cpc[d]
    BY DEF ClientOpenStream, ClientTypeOK
  <2>3. cpc[c] = "idle" /\ seqAlloc' = nextSeq BY DEF ClientOpenStream
  <2>4. QED BY <2>1, <2>2, <2>3 DEF Opened
<1>3. Monotone BY <1>2 DEF Monotone, Opened
<1>4. SeqsDistinct'
  <2>1. \A d \in Calls : seqOf[d] \in Int BY DEF ClientTypeOK, Seqs
  <2>2. seqAlloc \in Int BY DEF ClientTypeOK, Seqs
  <2>3. \A d \in Calls : Opened(d) => seqOf[d] < nextSeq
    BY <1>1, <2>1, <2>2 DEF SeqsDistinct
  <2>4. \A d \in Calls : Opened(d)' => seqOf'[d] <= seqAlloc'
    BY <1>1, <1>2, <2>1, <2>2, <2>3
  <2>5. \A d, e \in Calls : Opened(d)' /\ Opened(e)' /\ seqOf'[d] = seqOf'[e] => d = e
    BY <1>1, <1>2, <2>1, <2>2, <2>3 DEF SeqsDistinct
  <2>6. QED BY <2>4, <2>5 DEF SeqsDistinct
<1>5. ClientOwned'
  <2>1. \A d \in Calls : watch'[d] # "none" => Opened(d)'
    BY <1>2 DEF ClientOwned, ClientOpenStream, ClientTypeOK
  <2>2. \A s \in Seqs : cstreams'[s] = IF s = nextSeq THEN c ELSE cstreams[s]
    BY <1>1 DEF ClientOpenStream, ClientTypeOK
  <2>3. \A s \in Seqs : cstreams[s] # None => EntryOwnedAfter(s, cstreams[s])
    BY <1>3, EntryOwnedStable DEF ClientOwned, ClientTypeOK
  <2>4. EntryOwnedAfter(nextSeq, c) BY <1>2 DEF EntryOwnedAfter, Opened
  <2>5. \A s \in Seqs : cstreams'[s] # None => EntryOwnedAfter(s, cstreams'[s])
    BY <2>2, <2>3, <2>4
  <2>6. UNCHANGED <<apc, aitem>> BY DEF ClientOpenStream, attachVars
  <2>7. QED BY <2>1, <2>5, <2>6 DEF ClientOwned, EntryOwned, EntryOwnedAfter, Opened
<1>6. WireOwned' BY <1>3, WireSame DEF ClientOpenStream, wireVars
<1>7. ClientIso' BY IsoSame DEF ClientOpenStream
<1>8. QED BY <1>3, <1>4, <1>5, <1>6, <1>7

\* dispatch gives a frame to the stream of the call that sent it.
LEMMA EntryIsOwner ==
  ASSUME SeqsDistinct, NEW f \in Frame, FrameOwned(f), NEW c \in Calls, EntryOwned(f.seq, c)
  PROVE  c = f.id
BY DEF SeqsDistinct, FrameOwned, EntryOwned, Frame

\* The pump's steps, and Conn.Close.
LEMMA PumpIso ==
  ASSUME TypeOK, IsoInv, AttachStep \/ ConnClose \/ ConnCloseChannel
  PROVE  ClientOwned' /\ WireOwned' /\ ClientIso'
<1> USE DEF TypeOK, IsoInv
<1>0. KeepsSeqs /\ Monotone BY PumpKeeps, KeepsSeqsMonotone
<1>1. CASE AttachRecv
  <2> DEFINE f == Head(s2c)
             cs == cstreams[f.seq]
  <2>1. ClientTake BY <1>1 DEF AttachRecv
  <2>2. f \in Frame /\ FrameOwned(f) /\ WireOwned' BY <1>0, <2>1, TakeOwned
  <2>3. f.seq \in Seqs /\ f.id \in Calls BY <2>2 DEF Frame
  <2>4. cs # None => cs \in Calls /\ cs = f.id
    BY <2>2, <2>3, EntryIsOwner DEF ClientOwned, ClientTypeOK
  <2>5. UNCHANGED <<got, cin, watch>>
    BY <1>1 DEF AttachRecv, streamVars, callerVars
  <2>6. \A s \in Seqs : cstreams'[s] \in {cstreams[s], None}
    BY <1>1, <2>3 DEF AttachRecv, streamVars, ClientTypeOK
  <2>7. CASE UNCHANGED <<apc, aitem>>
    BY <1>0, <2>2, <2>5, <2>6, <2>7, ClientShrinks, IsoSame
  <2>8. CASE cs # None /\ apc' = "deliver" /\ aitem' = [to |-> cs, item |-> <<f.id, f.val>>]
    <3>1. aitem'.item[1] = aitem'.to BY <2>4, <2>8
    <3>2. QED BY <1>0, <2>2, <2>5, <2>6, <3>1, IsoSame
             DEF ClientOwned, ClientTypeOK, KeepsSeqs, EntryOwned, Opened
  <2>9. QED BY <1>1, <2>7, <2>8 DEF AttachRecv
<1>2. CASE AttachDeliver
  <2>1. aitem \in Delivery /\ aitem.item[1] = aitem.to
    BY <1>2 DEF AttachDeliver, ClientTypeOK, ClientOwned
  <2> DEFINE c == aitem.to
  <2>2. c \in Calls /\ aitem.item \in Payload BY <2>1 DEF Delivery
  <2>3. cin[c] \in Seq(Payload) BY <2>2 DEF ClientTypeOK
  <2>4. Owned(c, Append(cin[c], aitem.item))
    BY <2>1, <2>2, <2>3, OwnedAppend DEF ClientIso
  <2>5. \A d \in Calls : cin'[d] = cin[d] \/ (d = c /\ cin'[d] = Append(cin[c], aitem.item))
    BY <1>2, <2>2 DEF AttachDeliver, ClientTypeOK
  <2>6. \A d \in Calls : Owned(d, cin'[d]) /\ Owned(d, got[d])
    BY <2>4, <2>5 DEF ClientIso
  <2>7. ClientIso' BY <1>2, <2>6 DEF AttachDeliver, callerVars, ClientIso, Owned
  <2>8. WireOwned' BY <1>0, <1>2, WireSame DEF AttachDeliver, wireVars
  <2>9. ClientOwned'
    <3>1. UNCHANGED <<watch, cstreams, seqOf, cpc>> /\ apc' = "recv"
      BY <1>2 DEF AttachDeliver, callerVars
    <3>2. QED BY <3>1 DEF ClientOwned, EntryOwned, Opened
  <2>10. QED BY <2>7, <2>8, <2>9
<1>3. CASE AttachFail
  <2>1. \A s \in Seqs : cstreams'[s] = None BY <1>3 DEF AttachFail
  <2>2. ClientOwned'
    BY <1>0, <1>3, <2>1 DEF AttachFail, ClientOwned, KeepsSeqs, Opened
  <2>3. QED BY <1>0, <1>3, <2>2, IsoSame, WireSame DEF AttachFail, callerVars, wireVars
<1>4. CASE ConnClose
  BY <1>0, <1>4, ClientShrinks, IsoSame, WireSame DEF ConnClose, streamVars, callerVars, wireVars
<1>5. CASE ConnCloseChannel
  BY <1>0, <1>5, ClientSame, IsoSame, WireSame DEF ConnCloseChannel, clientVars, streamVars, callerVars
<1>6. QED BY <1>1, <1>2, <1>3, <1>4, <1>5 DEF AttachStep

-----------------------------------------------------------------------------
\* The server's steps: none of them touches the client.

MoutOwned == \A i \in DOMAIN mout : FrameOwned(mout[i].frame)

\* A step that starts no handler, adds no entry and reads no frame.
LEMMA ServerQuiet ==
  ASSUME ServerTypeOK, ServerOwned, UNCHANGED <<clientVars, sseq>>, MoutOwned',
         \A s \in Seqs : sstreams'[s] \in {sstreams[s], None},
         \A c \in Calls : pc'[c] # "none" => pc[c] # "none",
         pc'[Loop] \in EndPcs \cup {"deliver"} =>
           sitem' = sitem /\ pc[Loop] \in EndPcs \cup {"deliver"},
         pc'[Loop] = "deliver" => pc[Loop] = "deliver"
  PROVE  ServerOwned'
<1>1. UNCHANGED <<cpc, seqOf>> BY DEF clientVars, streamVars, callerVars
<1>2. \A c \in Calls : pc'[c] # "none" => EntryOwnedAfter(sseq'[c], c)
  BY <1>1 DEF ServerOwned, EntryOwned, EntryOwnedAfter, Opened
<1>3. \A s \in Seqs : sstreams'[s] # None => EntryOwnedAfter(s, sstreams'[s])
  BY <1>1 DEF ServerOwned, EntryOwned, EntryOwnedAfter, Opened
<1>4. pc'[Loop] \in EndPcs \cup {"deliver"} => FrameOwnedAfter(sitem'.frame)
  BY <1>1 DEF ServerOwned, FrameOwned, FrameOwnedAfter, Opened
<1>5. pc'[Loop] = "deliver" => sitem'.to = sitem'.frame.id
  BY DEF ServerOwned
<1>6. QED BY <1>2, <1>3, <1>4, <1>5
         DEF ServerOwned, MoutOwned, EntryOwned, FrameOwned, EntryOwnedAfter, FrameOwnedAfter, Opened

LEMMA MoutSame ==
  ASSUME ServerOwned, UNCHANGED clientVars, mout' = mout
  PROVE  MoutOwned'
BY DEF ServerOwned, MoutOwned, FrameOwned, Opened, clientVars, streamVars, callerVars

LEMMA EnqueueOwned ==
  ASSUME ServerTypeOK, ServerOwned, UNCHANGED clientVars,
         NEW a, NEW f, FrameOwned(f), NEW ok, NEW fail, Enqueue(a, f, ok, fail)
  PROVE  MoutOwned'
<1>1. CASE mout' = mout BY <1>1, MoutSame
<1>2. CASE mout' = Append(mout, [frame |-> f, by |-> a])
  <2>1. mout \in Seq(Out) BY DEF ServerTypeOK
  <2>2. \A i \in DOMAIN mout' : mout'[i].frame = f \/ (i \in DOMAIN mout /\ mout'[i] = mout[i])
    BY <1>2, <2>1
  <2>3. \A i \in DOMAIN mout' : FrameOwned(mout'[i].frame)
    BY <2>2 DEF ServerOwned
  <2>4. QED BY <2>3 DEF MoutOwned, FrameOwned, Opened, clientVars, streamVars, callerVars
<1>3. QED BY <1>1, <1>2 DEF Enqueue

\* The frames endStream emits carry the sequence number of their call.
LEMMA EndFrameOwned ==
  ASSUME ServerTypeOK, ServerOwned, NEW a \in Actors, pc[a] \in EndPcs, NEW t, NEW v
  PROVE  FrameOwned(Fr(EndSeq(a), t, EndId(a), v))
<1>1. CASE a = Loop
  BY <1>1 DEF ServerOwned, FrameOwned, Fr, EndSeq, EndId
<1>2. CASE a # Loop
  <2>1. a \in Calls /\ pc[a] # "none" BY <1>2 DEF Actors, EndPcs
  <2>2. EntryOwned(sseq[a], a) BY <2>1 DEF ServerOwned
  <2>3. QED BY <1>2, <2>2 DEF EntryOwned, FrameOwned, Fr, EndSeq, EndId
<1>3. QED BY <1>1, <1>2

LEMMA EndIso ==
  ASSUME TypeOK, IsoInv, UNCHANGED clientVars, NEW a \in Actors, EndStep(a)
  PROVE  ServerOwned' /\ WireOwned' /\ ServerIso'
<1> USE DEF TypeOK, IsoInv
<1>0. Monotone BY ClientIdleKeeps, KeepsSeqsMonotone
<1>1. /\ pc[a] \in EndPcs /\ UNCHANGED <<sseq, sin, sgot, c2s, s2c>>
      /\ \E p \in EndPcs \cup {"serve", "done"} : pc' = [pc EXCEPT ![a] = p]
  BY DEF EndStep, EndLookup, EndQueueBegin, EndDelete, EndQueueEnd, EndDone, Enqueue, EndPcs,
         sstreamVars, handlerVars, wireVars
<1>2. MoutOwned'
  BY <1>1, EndFrameOwned, EnqueueOwned, MoutSame
     DEF EndStep, EndLookup, EndQueueBegin, EndDelete, EndQueueEnd, EndDone
<1>3. \A s \in Seqs : sstreams'[s] \in {sstreams[s], None}
  BY DEF EndStep, EndLookup, EndQueueBegin, EndDelete, EndQueueEnd, EndDone, ServerTypeOK
<1>4. sitem' = sitem \/ (a = Loop /\ pc' = [pc EXCEPT ![a] = "serve"])
  BY DEF EndStep, EndLookup, EndQueueBegin, EndDelete, EndQueueEnd, EndDone
<1>5. ServerOwned'
  <2>1. PICK p \in EndPcs \cup {"serve", "done"} : pc' = [pc EXCEPT ![a] = p] BY <1>1
  <2>2. \A b \in Actors : pc'[b] = IF b = a THEN p ELSE pc[b]
    BY <2>1 DEF ServerTypeOK, PcTypeOK
  <2>3. \A c \in Calls : pc'[c] # "none" => pc[c] # "none"
    BY <1>1, <2>2 DEF Actors, EndPcs
  <2>4. pc'[Loop] \in EndPcs \cup {"deliver"} => sitem' = sitem /\ pc[Loop] \in EndPcs \cup {"deliver"}
    BY <1>1, <1>4, <2>2 DEF Actors, EndPcs, ServerTypeOK, PcTypeOK
  <2>5. pc'[Loop] = "deliver" => pc[Loop] = "deliver"
    BY <2>2 DEF Actors, EndPcs
  <2>6. QED BY <1>1, <1>2, <1>3, <2>3, <2>4, <2>5, ServerQuiet
<1>6. QED BY <1>0, <1>1, <1>5, WireSame, IsoSame

\* The writer, and the Serve loop between frames.
LEMMA WriterIso ==
  ASSUME TypeOK, IsoInv, UNCHANGED clientVars, WriterStep \/ ServeExit \/ ServeCancel
  PROVE  ServerOwned' /\ WireOwned' /\ ServerIso'
<1> USE DEF TypeOK, IsoInv
<1>0. Monotone BY ClientIdleKeeps, KeepsSeqsMonotone
<1>1. CASE WriterSend
  <2>1. mout \in Seq(Out) /\ mout # <<>> BY <1>1 DEF WriterSend, ServerTypeOK
  <2>2. 1 \in DOMAIN mout /\ Head(mout) = mout[1] /\ Head(mout) \in Out BY <2>1
  <2>3. Head(mout).frame \in Frame /\ FrameOwned(Head(mout).frame) BY <2>2 DEF Out, ServerOwned
  <2>4. WireOwned' BY <1>0, <1>1, <2>3, ServerSendOwned DEF WriterSend, ServerTypeOK
  <2>5. \A i \in DOMAIN Tail(mout) : i + 1 \in DOMAIN mout /\ Tail(mout)[i] = mout[i + 1] BY <2>1
  <2>6. \A i \in DOMAIN mout' : FrameOwned(mout'[i].frame) BY <1>1, <2>5 DEF WriterSend, ServerOwned
  <2>7. MoutOwned' BY <2>6 DEF MoutOwned, FrameOwned, Opened, clientVars, streamVars, callerVars
  <2>8. ServerOwned' BY <1>1, <2>7, ServerQuiet DEF WriterSend, sstreamVars
  <2>9. QED BY <1>1, <2>4, <2>8, IsoSame DEF WriterSend, sstreamVars, handlerVars
<1>2. CASE WriterExit \/ ServeCancel
  BY <1>0, <1>2, MoutSame, ServerQuiet, WireSame, IsoSame
     DEF WriterExit, ServeCancel, sstreamVars, handlerVars, wireVars
<1>3. CASE ServeExit
  <2>1. \A b \in Actors : pc'[b] = IF b = Loop THEN "exited" ELSE pc[b]
    BY <1>3 DEF ServeExit, ServerTypeOK, PcTypeOK
  <2>2. (\A c \in Calls : pc'[c] = pc[c]) /\ pc'[Loop] = "exited"
    BY <2>1, ServerAssumption DEF Actors
  <2>3. ServerOwned' BY <1>3, <2>2, MoutSame, ServerQuiet DEF ServeExit, sstreamVars, EndPcs
  <2>4. QED BY <1>0, <1>3, <2>3, WireSame, IsoSame DEF ServeExit, sstreamVars, handlerVars, wireVars
<1>4. QED BY <1>1, <1>2, <1>3 DEF WriterStep

\* Every payload the Serve loop queues belongs to the stream it queues it on.
LEMMA ServeDeliverIso ==
  ASSUME TypeOK, IsoInv, UNCHANGED clientVars, ServeDeliver
  PROVE  ServerOwned' /\ WireOwned' /\ ServerIso'
<1> USE DEF TypeOK, IsoInv
<1> DEFINE st == sitem.to
           m == <<sitem.frame.id, sitem.frame.val>>
<1>0. Monotone BY ClientIdleKeeps, KeepsSeqsMonotone
<1>1. pc[Loop] = "deliver" BY DEF ServeDeliver
<1>2. sitem \in SItem /\ st \in Calls /\ st = sitem.frame.id
  BY <1>1 DEF ServerTypeOK, PcTypeOK, ServerOwned
<1>3. m \in Payload /\ m[1] = st BY <1>2 DEF SItem, Frame, Payload
<1>4. sin[st] \in Seq(Payload) BY <1>2 DEF ServerTypeOK
<1> HIDE DEF m
<1>5. Owned(st, Append(sin[st], m)) BY <1>2, <1>3, <1>4, OwnedAppend DEF ServerIso
<1>6. \A d \in Calls : sin'[d] = sin[d] \/ (d = st /\ sin'[d] = Append(sin[st], m))
  BY <1>2 DEF ServeDeliver, ServerTypeOK, m
<1>7. \A d \in Calls : Owned(d, sin'[d]) /\ Owned(d, sgot[d]) BY <1>5, <1>6 DEF ServerIso
<1>8. ServerIso' BY <1>7 DEF ServeDeliver, handlerVars, ServerIso, Owned
<1>9. \A b \in Actors : pc'[b] = IF b = Loop THEN "serve" ELSE pc[b]
  BY DEF ServeDeliver, ServerTypeOK, PcTypeOK
<1>10. (\A c \in Calls : pc'[c] = pc[c]) /\ pc'[Loop] = "serve"
  BY <1>9, ServerAssumption DEF Actors
<1>11. ServerOwned' BY <1>10, MoutSame, ServerQuiet DEF ServeDeliver, EndPcs
<1>12. QED BY <1>0, <1>8, <1>11, WireSame DEF ServeDeliver, wireVars

\* An empty queue holds no stranger's payload.
LEMMA OwnedEmpty == ASSUME NEW c PROVE Owned(c, <<>>)
<1>1. \A i \in DOMAIN <<>> : FALSE OBVIOUS
<1>2. QED BY <1>1, Zenon DEF Owned

\* A one-element queue holding an own payload.
LEMMA OwnedOne == ASSUME NEW c \in Calls PROVE Owned(c, << <<c, 1>> >>)
BY DEF Owned

LEMMA ServeRecvIso ==
  ASSUME TypeOK, IsoInv, UNCHANGED clientVars, ServeRecv
  PROVE  ServerOwned' /\ WireOwned' /\ ServerIso'
<1> USE DEF TypeOK, IsoInv
<1> DEFINE f == Head(c2s)
           st == sstreams[f.seq]
<1>0. Monotone BY ClientIdleKeeps, KeepsSeqsMonotone
<1>1. ServerTake BY DEF ServeRecv
<1>2. f \in Frame /\ FrameOwned(f) /\ WireOwned' BY <1>0, <1>1, TakeOwned
<1>3. f.seq \in Seqs /\ f.id \in Calls BY <1>2 DEF Frame
<1>4. st # None => st \in Calls /\ st = f.id
  BY <1>2, <1>3, EntryIsOwner DEF ServerOwned, ServerTypeOK
<1>5. MoutOwned' /\ UNCHANGED <<cpc, seqOf, sgot>>
  BY MoutSame DEF ServeRecv, clientVars, streamVars, callerVars, handlerVars
<1>6. EntryOwnedAfter(f.seq, f.id) /\ FrameOwnedAfter(f)
  BY <1>2, <1>5 DEF FrameOwned, EntryOwnedAfter, FrameOwnedAfter, Opened
<1>7. pc[Loop] = "serve" BY DEF ServeRecv
<1> HIDE DEF f, st
<1>8. CASE UNCHANGED <<sseq, sin, pc>> /\ \A s \in Seqs : sstreams'[s] \in {sstreams[s], None}
  BY <1>2, <1>5, <1>7, <1>8, ServerQuiet, IsoSame DEF EndPcs
<1>9. CASE /\ UNCHANGED <<sstreams, sseq, sin>>
           /\ \/ pc' = [pc EXCEPT ![Loop] = "end"] /\ sitem'.frame = f
              \/ /\ pc' = [pc EXCEPT ![Loop] = "deliver"]
                 /\ sitem'.frame = f /\ sitem'.to = f.id
  <2>1. /\ \A c \in Calls : pc'[c] = pc[c]
        /\ pc'[Loop] \in EndPcs \cup {"deliver"} => FrameOwnedAfter(sitem'.frame)
        /\ pc'[Loop] = "deliver" => sitem'.to = sitem'.frame.id
    BY <1>6, <1>9, ServerAssumption DEF ServerTypeOK, PcTypeOK, Actors
  <2>2. \A c \in Calls : pc'[c] # "none" => EntryOwnedAfter(sseq'[c], c)
    BY <1>5, <1>9, <2>1 DEF ServerOwned, EntryOwned, EntryOwnedAfter, Opened
  <2>3. \A s \in Seqs : sstreams'[s] # None => EntryOwnedAfter(s, sstreams'[s])
    BY <1>5, <1>9 DEF ServerOwned, EntryOwned, EntryOwnedAfter, Opened
  <2>4. ServerOwned'
    BY <1>5, <2>1, <2>2, <2>3
       DEF ServerOwned, MoutOwned, EntryOwned, FrameOwned, EntryOwnedAfter, FrameOwnedAfter, Opened
  <2>5. QED BY <1>2, <1>5, <1>9, <2>4, IsoSame
<1>10. CASE /\ sstreams' = [sstreams EXCEPT ![f.seq] = f.id]
            /\ sseq' = [sseq EXCEPT ![f.id] = f.seq]
            /\ sin' = [sin EXCEPT ![f.id] = << <<f.id, 1>> >>] \/ sin' = sin
            /\ pc' = [pc EXCEPT ![f.id] = "run"]
  <2>1. \A b \in Actors : pc'[b] = IF b = f.id THEN "run" ELSE pc[b]
    BY <1>10 DEF ServerTypeOK, PcTypeOK
  <2>2. pc'[Loop] = "serve" /\ \A c \in Calls : c # f.id => pc'[c] = pc[c]
    BY <1>3, <1>7, <2>1, ServerAssumption DEF Actors
  <2>3. \A c \in Calls : sseq'[c] = IF c = f.id THEN f.seq ELSE sseq[c]
    BY <1>10 DEF ServerTypeOK
  <2>4. \A c \in Calls : pc'[c] # "none" => EntryOwnedAfter(sseq'[c], c)
    BY <1>5, <1>6, <2>2, <2>3 DEF ServerOwned, EntryOwned, EntryOwnedAfter, Opened
  <2>5. \A s \in Seqs : sstreams'[s] = IF s = f.seq THEN f.id ELSE sstreams[s]
    BY <1>10 DEF ServerTypeOK
  <2>6. \A s \in Seqs : sstreams'[s] # None => EntryOwnedAfter(s, sstreams'[s])
    BY <1>5, <1>6, <2>5 DEF ServerOwned, EntryOwned, EntryOwnedAfter, Opened
  <2>7. ServerOwned'
    BY <1>5, <2>2, <2>4, <2>6 DEF ServerOwned, MoutOwned, EntryOwned, EntryOwnedAfter, Opened, EndPcs
  <2>8. \A c \in Calls : sin'[c] = sin[c] \/ (c = f.id /\ sin'[c] = << <<c, 1>> >>)
    BY <1>3, <1>10 DEF ServerTypeOK
  <2>9. \A c \in Calls : Owned(c, sin'[c]) /\ Owned(c, sgot[c])
    BY <2>8, OwnedOne DEF ServerIso
  <2>10. ServerIso' BY <1>5, <2>9 DEF ServerIso, Owned
  <2>11. QED BY <1>2, <2>7, <2>10
<1>11. QED
  BY <1>3, <1>4, <1>8, <1>9, <1>10 DEF ServeRecv, ServerOpenStream, ServerTypeOK, f, st

\* The handlers and their deadlines.
LEMMA HandlerIso ==
  ASSUME TypeOK, IsoInv, UNCHANGED clientVars, NEW c \in Calls,
         HandlerApp(c) \/ SendStep(c) \/ DeadlineFires(c)
  PROVE  ServerOwned' /\ WireOwned' /\ ServerIso'
<1> USE DEF TypeOK, IsoInv
<1>0. Monotone BY ClientIdleKeeps, KeepsSeqsMonotone
<1>1. UNCHANGED <<c2s, s2c, sstreams, sseq, sitem>>
  BY DEF HandlerApp, HandlerRecv, HandlerRecvSelect, HandlerSend, HandlerReturn, SendStep,
         SendQueueBegin, SendQueueData, SendGiveUp, DeadlineFires, sstreamVars, wireVars
<1>2. WireOwned' BY <1>0, <1>1, WireSame
<1>3. pc' = pc \/ (pc[c] # "none" /\ \E p : pc' = [pc EXCEPT ![c] = p])
  BY DEF HandlerApp, HandlerRecv, HandlerRecvSelect, HandlerSend, HandlerReturn, SendStep, TakeRequest,
         SendQueueBegin, SendQueueData, SendGiveUp, DeadlineFires, Return, Enqueue
<1>4. pc'[Loop] = pc[Loop] /\ \A d \in Calls : pc'[d] # "none" => pc[d] # "none"
  BY <1>3, ServerAssumption DEF ServerTypeOK, PcTypeOK, Actors
<1>5. MoutOwned'
  <2>1. CASE mout' = mout BY <2>1, MoutSame
  <2>2. ASSUME NEW t, NEW v, NEW ok, NEW fail, pc[c] # "none", Enqueue(c, Fr(sseq[c], t, c, v), ok, fail)
        PROVE  MoutOwned'
    <3>1. FrameOwned(Fr(sseq[c], t, c, v)) BY <2>2 DEF ServerOwned, EntryOwned, FrameOwned, Fr
    <3>2. QED BY <2>2, <3>1, EnqueueOwned
  <2>3. CASE SendQueueBegin(c) BY <2>2, <2>3 DEF SendQueueBegin
  <2>4. CASE SendQueueData(c) BY <2>2, <2>4 DEF SendQueueData
  <2>5. QED BY <2>1, <2>3, <2>4
    DEF HandlerApp, HandlerRecv, HandlerRecvSelect, HandlerSend, HandlerReturn, SendStep, SendGiveUp, DeadlineFires
<1>6. ServerOwned' BY <1>1, <1>4, <1>5, ServerQuiet
<1>7. CASE UNCHANGED <<sin, sgot>> BY <1>2, <1>6, <1>7, IsoSame
<1>8. CASE TakeRequest(c)
  <2>1. sin[c] \in Seq(Payload) /\ sgot[c] \in Seq(Payload) /\ sin[c] # <<>>
    BY <1>8 DEF ServerTypeOK, TakeRequest
  <2>2. Head(sin[c]) \in Payload /\ Head(sin[c])[1] = c /\ Owned(c, Tail(sin[c]))
    BY <2>1, OwnedTake DEF ServerIso
  <2>3. Owned(c, Append(sgot[c], Head(sin[c]))) BY <2>1, <2>2, OwnedAppend DEF ServerIso
  <2>4. \A d \in Calls : /\ sgot'[d] = IF d = c THEN Append(sgot[c], Head(sin[c])) ELSE sgot[d]
                         /\ sin'[d] = IF d = c THEN Tail(sin[c]) ELSE sin[d]
    BY <1>8 DEF TakeRequest, ServerTypeOK
  <2>5. \A d \in Calls : Owned(d, sgot'[d]) /\ Owned(d, sin'[d]) BY <2>2, <2>3, <2>4 DEF ServerIso
  <2>6. QED BY <1>2, <1>6, <2>5 DEF ServerIso, Owned
<1>9. QED BY <1>7, <1>8
  DEF HandlerApp, HandlerRecv, HandlerRecvSelect, HandlerSend, HandlerReturn, SendStep,
      SendQueueBegin, SendQueueData, SendGiveUp, DeadlineFires, sstreamVars, handlerVars

-----------------------------------------------------------------------------
LEMMA IsoStep == TypeOK /\ IsoInv /\ NoWrap /\ [Next]_vars => IsoInv'
<1> SUFFICES ASSUME TypeOK, IsoInv, NoWrap, [Next]_vars PROVE IsoInv'
  OBVIOUS
<1> USE DEF TypeOK, IsoInv
<1>1. ASSUME UNCHANGED serverVars, Monotone, SeqsDistinct', ClientOwned', WireOwned', ClientIso'
      PROVE  IsoInv'
  <2>1. ServerOwned' BY <1>1, ServerSame
  <2>2. ServerIso' BY <1>1, IsoSame DEF serverVars, sstreamVars, handlerVars
  <2>3. QED BY <1>1, <2>1, <2>2
<1>2. ASSUME UNCHANGED serverVars, KeepsSeqs, ClientOwned', WireOwned', ClientIso'
      PROVE  IsoInv'
  BY <1>1, <1>2, KeepsSeqsMonotone
<1>3. ASSUME UNCHANGED clientVars, ServerOwned', WireOwned', ServerIso'
      PROVE  IsoInv'
  <2>1. SeqsDistinct' BY <1>3, ClientIdleKeeps, KeepsSeqsMonotone
  <2>2. ClientOwned' BY <1>3, ClientSame
  <2>3. ClientIso' BY <1>3, IsoSame DEF clientVars, streamVars, callerVars
  <2>4. QED BY <1>3, <2>1, <2>2, <2>3
<1>4. ASSUME UNCHANGED <<clientVars, serverVars, c2s, s2c>> PROVE IsoInv'
  <2>1. Monotone BY <1>4, ClientIdleKeeps, KeepsSeqsMonotone
  <2>2. WireOwned' BY <1>4, <2>1, WireSame
  <2>3. ServerOwned' BY <1>4, <2>1, ServerSame
  <2>4. ServerIso' BY <1>4, IsoSame DEF serverVars, sstreamVars, handlerVars
  <2>5. QED BY <1>3, <1>4, <2>2, <2>3, <2>4
<1>5. CASE UNCHANGED vars BY <1>4, <1>5 DEF vars, wireVars
<1>6. ASSUME UNCHANGED serverVars,
             \/ \E c \in Calls : \/ ClientOpenStream(c) \/ CallerStep(c)
                                 \/ CtxCancel(c) \/ WatchStep(c)
             \/ AttachStep \/ ConnClose \/ ConnCloseChannel
      PROVE  IsoInv'
  <2>1. ASSUME NEW c \in Calls, ClientOpenStream(c) PROVE IsoInv'
    BY <1>1, <1>6, <2>1, OpenIso
  <2>2. ASSUME NEW c \in Calls, CallerStep(c) \/ CtxCancel(c) \/ WatchStep(c) PROVE IsoInv'
    BY <1>2, <1>6, <2>2, CallerKeeps, CallerIso
  <2>3. CASE AttachStep \/ ConnClose \/ ConnCloseChannel
    BY <1>2, <1>6, <2>3, PumpKeeps, PumpIso
  <2>4. QED BY <1>6, <2>1, <2>2, <2>3
<1>7. ASSUME UNCHANGED clientVars,
             \/ ServeStep \/ WriterStep \/ ServeCancel
             \/ \E a \in Actors : EndStep(a)
             \/ \E c \in Calls : HandlerApp(c) \/ SendStep(c) \/ DeadlineFires(c)
      PROVE  IsoInv'
  <2>1. CASE ServeStep \/ WriterStep \/ ServeCancel
    BY <1>3, <1>7, <2>1, WriterIso, ServeDeliverIso, ServeRecvIso DEF ServeStep
  <2>2. ASSUME NEW a \in Actors, EndStep(a) PROVE IsoInv'
    BY <1>3, <1>7, <2>2, EndIso
  <2>3. ASSUME NEW c \in Calls, HandlerApp(c) \/ SendStep(c) \/ DeadlineFires(c) PROVE IsoInv'
    BY <1>3, <1>7, <2>3, HandlerIso
  <2>4. QED BY <1>7, <2>1, <2>2, <2>3
<1>8. CASE (ServerConnClose \/ OnClose) /\ UNCHANGED <<clientVars, serverVars>>
  BY <1>4, <1>8 DEF ServerConnClose, OnClose
<1>9. QED BY <1>5, <1>6, <1>7, <1>8, StepKinds

LEMMA IsoInit == Init => IsoInv
<1> SUFFICES ASSUME Init PROVE IsoInv
  OBVIOUS
<1>1. \A c \in Calls : ~Opened(c) /\ watch[c] = "none" BY DEF Init, ClientInit, Opened
<1>2. SeqsDistinct BY <1>1 DEF SeqsDistinct
<1>3. ClientOwned BY <1>1 DEF ClientOwned, Init, ClientInit
<1>4. WireOwned BY DEF WireOwned, Init, WireInit
<1>5. ServerOwned
  <2>1. pc[Loop] = "serve" /\ \A c \in Calls : pc[c] = "none"
    BY ServerAssumption DEF Init, ServerInit, Actors
  <2>2. QED BY <2>1 DEF ServerOwned, Init, ServerInit, EndPcs
<1>6. ClientIso
  <2>1. \A c \in Calls : got[c] = <<>> /\ cin[c] = <<>> BY DEF Init, ClientInit
  <2>2. QED BY <2>1, OwnedEmpty DEF ClientIso
<1>7. ServerIso
  <2>1. \A c \in Calls : sgot[c] = <<>> /\ sin[c] = <<>> BY DEF Init, ServerInit
  <2>2. QED BY <2>1, OwnedEmpty DEF ServerIso
<1>8. QED BY <1>2, <1>3, <1>4, <1>5, <1>6, <1>7 DEF IsoInv

LEMMA IsoHolds == Spec /\ []NoWrap => []IsoInv
BY IsoInit, IsoStep, TypeCorrect, PTL DEF Spec

\* As long as the 31-bit counter has not come around, no message of one call
\* reaches another: for any number of calls, any capacities, any faults.
THEOREM IsolationHolds == Spec /\ []NoWrap => []Isolation
<1>1. IsoInv => Isolation BY DEF IsoInv, Isolation, ClientIso, ServerIso
<1>2. QED BY <1>1, IsoHolds, PTL
-----------------------------------------------------------------------------
\* How many calls a connection may make before the counter comes around: in the
\* code, about 2^30.
FewCalls == IsFiniteSet(Calls) /\ 2 * Cardinality(Calls) + 3 < SeqSpace

OpenedCalls == {c \in Calls : Opened(c)}

\* The allocator counts the calls made.
Counted == seqAlloc = 2 * Cardinality(OpenedCalls) + 1

LEMMA CountedNoWrap == FewCalls /\ Counted => NoWrap
<1> SUFFICES ASSUME FewCalls, Counted PROVE NoWrap
  OBVIOUS
<1>1. IsFiniteSet(Calls) /\ OpenedCalls \in SUBSET Calls BY DEF FewCalls, OpenedCalls
<1>2. IsFiniteSet(OpenedCalls) /\ Cardinality(OpenedCalls) <= Cardinality(Calls) BY <1>1, FS_Subset
<1>3. Cardinality(OpenedCalls) \in Nat /\ Cardinality(Calls) \in Nat BY <1>1, <1>2, FS_CardinalityType
<1>4. QED BY <1>2, <1>3, WireAssumption DEF FewCalls, Counted, NoWrap

LEMMA CountedStep ==
  ASSUME FewCalls, TypeOK, Counted, [Next]_vars
  PROVE  Counted'
<1>1. ASSUME KeepsSeqs PROVE Counted'
  <2>1. OpenedCalls' = OpenedCalls BY <1>1 DEF KeepsSeqs, OpenedCalls
  <2>2. QED BY <1>1, <2>1 DEF KeepsSeqs, Counted
<1>2. ASSUME NEW c \in Calls, ClientOpenStream(c) PROVE Counted'
  <2>1. cpc[c] = "idle" /\ \A d \in Calls : cpc'[d] = IF d = c THEN "call" ELSE cpc[d]
    BY <1>2 DEF ClientOpenStream, TypeOK, ClientTypeOK
  <2>2. OpenedCalls' = OpenedCalls \cup {c} /\ c \notin OpenedCalls BY <2>1 DEF OpenedCalls, Opened
  <2>3. IsFiniteSet(OpenedCalls)
    <3>1. IsFiniteSet(Calls) /\ OpenedCalls \in SUBSET Calls BY DEF FewCalls, OpenedCalls
    <3>2. QED BY <3>1, FS_Subset
  <2>4. Cardinality(OpenedCalls) \in Nat BY <2>3, FS_CardinalityType
  <2>5. Cardinality(OpenedCalls \cup {c}) = Cardinality(OpenedCalls) + 1 BY <2>2, <2>3, FS_AddElement
  <2>6. seqAlloc + 2 < SeqSpace /\ seqAlloc + 2 \in Nat /\ SeqSpace \in Nat \ {0}
    BY CountedNoWrap, WireAssumption DEF NoWrap, TypeOK, ClientTypeOK, Seqs
  <2>7. seqAlloc' = seqAlloc + 2 BY <1>2, <2>6, ModSmall DEF ClientOpenStream, nextSeq
  <2>8. QED BY <2>2, <2>4, <2>5, <2>7 DEF Counted
<1>3. CASE UNCHANGED vars BY <1>1, <1>3, ClientIdleKeeps DEF vars
<1>4. CASE Next BY <1>1, <1>2, <1>4, StepKinds, CallerKeeps, PumpKeeps, ClientIdleKeeps
<1>5. QED BY <1>3, <1>4

\* A connection that makes fewer calls than half the sequence numbers never
\* hands out a number twice.
THEOREM NeverWraps ==
  ASSUME FewCalls
  PROVE  Spec => []NoWrap
<1>1. Init => Counted
  <2> SUFFICES ASSUME Init PROVE Counted
    OBVIOUS
  <2>1. OpenedCalls = {} /\ seqAlloc = 1 BY DEF Init, ClientInit, OpenedCalls, Opened
  <2>2. QED BY <2>1, FS_EmptySet DEF Counted
<1>2. TypeOK /\ Counted /\ [Next]_vars => Counted' BY CountedStep
<1>3. Counted => NoWrap BY CountedNoWrap
<1>4. QED BY <1>1, <1>2, <1>3, TypeCorrect, PTL DEF Spec

-----------------------------------------------------------------------------
\* The life of a call's stream at both ends.


\* The caller is past the Call frame: sent, or given up on.
Called(c) == cpc[c] \notin {"idle", "call"}

\* No Call frame of c is, or will be, on its way.
CallGone(c) == Called(c) /\ \A i \in DOMAIN c2s : ~(c2s[i].type = "call" /\ c2s[i].id = c)

\* Client.streams: a stream is registered under its own sequence, and open.
ClientTable ==
  /\ \A c \in Calls : ~Opened(c) => cend[c] = None
  /\ \A s \in Seqs : cstreams[s] # None => EntryOwned(s, cstreams[s]) /\ cend[cstreams[s]] = None

\* There is at most one Call frame of a call, and none once a handler runs.
CallOnce ==
  \A i \in DOMAIN c2s : c2s[i].type = "call" =>
    /\ Called(c2s[i].id) /\ pc[c2s[i].id] = "none"
    /\ \A j \in DOMAIN c2s : c2s[j].type = "call" /\ c2s[j].id = c2s[i].id => j = i

Started == \A c \in Calls : pc[c] # "none" => Called(c)

\* Where the handler of a registered stream is.
Served == {"run", "recv", "qbegin", "qdata", "end", "qebegin", "delete"}

ServerTable ==
  \A s \in Seqs : sstreams[s] # None => pc[sstreams[s]] \in Served /\ sseq[sstreams[s]] = s

\* A call the Serve loop itself ends has no handler and gets none.
Refused == pc[Loop] \in EndPcs => pc[sitem.frame.id] = "none" /\ CallGone(sitem.frame.id)

LifeInv == ClientTable /\ CallOnce /\ Started /\ ServerTable /\ Refused

-----------------------------------------------------------------------------
\* A queue that loses its head, and one that gains a frame.
LEMMA TailIs ==
  ASSUME NEW S, NEW q \in Seq(S), q # <<>>
  PROVE  /\ Tail(q) \in Seq(S) /\ Head(q) \in S /\ Head(q) = q[1] /\ 1 \in DOMAIN q
         /\ \A i \in DOMAIN Tail(q) : i \in Nat \ {0} /\ i + 1 \in DOMAIN q /\ Tail(q)[i] = q[i + 1]
         /\ \A i \in DOMAIN q : i \in Nat \ {0} /\ (i # 1 => i - 1 \in DOMAIN Tail(q) /\ Tail(q)[i - 1] = q[i])
OBVIOUS

LEMMA AppendIs ==
  ASSUME NEW S, NEW q \in Seq(S), NEW f \in S
  PROVE  /\ Append(q, f) \in Seq(S)
         /\ \A i \in DOMAIN q : i \in 1 .. Len(q) /\ i \in DOMAIN Append(q, f) /\ Append(q, f)[i] = q[i]
         /\ Len(q) \in Nat /\ Len(q) + 1 \in DOMAIN Append(q, f) /\ Append(q, f)[Len(q) + 1] = f
         /\ \A i \in DOMAIN Append(q, f) : i \in DOMAIN q \/ i = Len(q) + 1
OBVIOUS

-----------------------------------------------------------------------------
\* The two sides' steps, as StepKinds sorts them.
ClientKind ==
  \/ \E c \in Calls : \/ ClientOpenStream(c) \/ CallerStep(c)
                      \/ CtxCancel(c) \/ WatchStep(c)
  \/ AttachStep \/ ConnClose \/ ConnCloseChannel

ServerKind ==
  \/ ServeStep \/ WriterStep \/ ServeCancel
  \/ \E a \in Actors : EndStep(a)
  \/ \E c \in Calls : HandlerApp(c) \/ SendStep(c) \/ DeadlineFires(c)

LEMMA Kinds ==
  ASSUME Next
  PROVE  \/ UNCHANGED serverVars /\ ClientKind
         \/ UNCHANGED clientVars /\ ServerKind
         \/ (ServerConnClose \/ OnClose) /\ UNCHANGED <<clientVars, serverVars>>
BY StepKinds DEF ClientKind, ServerKind

\* The Call frame of c.
CallOf(c) == Fr(seqOf[c], "call", c, IF c \in Inline THEN 1 ELSE 0)

\* Callers go forward, and only SendCall puts a Call frame on the wire.
LEMMA ClientMoves ==
  ASSUME TypeOK, ClientKind
  PROVE  /\ \A c \in Calls : Called(c) => Called(c)'
         /\ \/ c2s' = c2s
            \/ \E c \in Calls : /\ cpc[c] = "call" /\ Called(c)'
                                /\ CallOf(c) \in Frame /\ c2s' = Append(c2s, CallOf(c))
            \/ \E f \in Frame : f.type \in {"data", "close", "cancel"} /\ c2s' = Append(c2s, f)
<1> USE DEF TypeOK, ClientTypeOK
<1>1. ASSUME NEW c \in Calls, ClientOpenStream(c) \/ CtxCancel(c) \/ WatchSelect(c)
      PROVE  c2s' = c2s /\ \A d \in Calls : Called(d) => Called(d)'
  BY <1>1 DEF ClientOpenStream, CtxCancel, WatchSelect, Called, wireVars, callerVars
<1>2. ASSUME NEW c \in Calls, SendCall(c)
      PROVE  /\ \A d \in Calls : Called(d) => Called(d)'
             /\ cpc[c] = "call" /\ Called(c)' /\ CallOf(c) \in Frame
             /\ c2s' = c2s \/ c2s' = Append(c2s, CallOf(c))
  <2>1. CallOf(c) \in Frame BY FrType DEF CallOf, FrameTypes
  <2>2. \A d \in Calls : cpc'[d] = IF d = c THEN AfterCall(c) ELSE cpc[d] BY <1>2 DEF SendCall
  <2>3. AfterCall(c) \notin {"idle", "call"} BY DEF AfterCall
  <2>4. c2s' = c2s \/ c2s' = Append(c2s, CallOf(c))
    BY <1>2 DEF SendCall, ClientSendFrame, CallOf
  <2>5. QED BY <1>2, <2>1, <2>2, <2>3, <2>4 DEF SendCall, Called
<1>3. ASSUME NEW c \in Calls, SendPayload(c) \/ SendClose(c) \/ WatchSend(c)
      PROVE  /\ \A d \in Calls : Called(d) => Called(d)'
             /\ \/ c2s' = c2s
                \/ \E f \in Frame : f.type \in {"data", "close", "cancel"} /\ c2s' = Append(c2s, f)
  <2>1. \A d \in Calls : Called(d) => Called(d)'
    BY <1>3 DEF SendPayload, SendClose, WatchSend, Called, callerVars
  <2>2. /\ Fr(seqOf[c], "data", c, sent[c] + 1) \in Frame
        /\ Fr(seqOf[c], "close", c, 0) \in Frame
        /\ Fr(seqOf[c], "cancel", c, 1) \in Frame
    BY FrType DEF FrameTypes
  <2>3. /\ Fr(seqOf[c], "data", c, sent[c] + 1).type = "data"
        /\ Fr(seqOf[c], "close", c, 0).type = "close"
        /\ Fr(seqOf[c], "cancel", c, 1).type = "cancel"
    BY DEF Fr
  <2>4. \/ c2s' = c2s
        \/ c2s' = Append(c2s, Fr(seqOf[c], "data", c, sent[c] + 1))
        \/ c2s' = Append(c2s, Fr(seqOf[c], "close", c, 0))
        \/ c2s' = Append(c2s, Fr(seqOf[c], "cancel", c, 1))
    BY <1>3, Zenon DEF SendPayload, SendClose, WatchSend, ClientSendFrame
  <2>5. QED BY <2>1, <2>2, <2>3, <2>4
<1>4. ASSUME NEW c \in Calls, AwaitResponse(c) \/ AwaitEnd(c)
      PROVE  c2s' = c2s /\ \A d \in Calls : Called(d) => Called(d)'
  BY <1>4 DEF AwaitResponse, AwaitEnd, TakeInbound, UnaryReturn, Report, Called, wireVars
<1>5. ASSUME NEW c \in Calls, StreamRecv(c) \/ StreamRecvSelect(c) \/ StreamSend(c) \/ StreamCloseSend(c)
      PROVE  c2s' = c2s /\ \A d \in Calls : Called(d) => Called(d)'
  BY <1>5 DEF StreamRecv, StreamRecvSelect, StreamSend, StreamCloseSend, TakeInbound, Report, Called, wireVars
<1>6. ASSUME AttachStep \/ ConnClose \/ ConnCloseChannel
      PROVE  c2s' = c2s /\ \A d \in Calls : Called(d) => Called(d)'
  BY <1>6 DEF AttachStep, AttachRecv, ClientTake, AttachDeliver, AttachFail, ConnClose, ConnCloseChannel,
              Called, wireVars, callerVars, clientVars
<1>7. QED BY <1>1, <1>2, <1>3, <1>4, <1>5, <1>6 DEF ClientKind, CallerStep, WatchStep

\* What the server's steps other than ServeRecv do to the tables: a handler
\* leaves Served only by EndDelete, which deletes its entry.
ServerQuietly ==
  /\ UNCHANGED <<c2s, sseq>>
  /\ \A c \in Calls : pc'[c] = "none" <=> pc[c] = "none"
  /\ pc'[Loop] \in EndPcs => pc[Loop] \in EndPcs /\ sitem' = sitem
  /\ \A s \in Seqs : sstreams'[s] \in {sstreams[s], None}
  /\ \A c \in Calls : pc[c] \in Served => pc'[c] \in Served \/ sstreams'[sseq[c]] = None

LEMMA LoopApart == \A c \in Calls : c \in Actors /\ c # Loop
BY ServerAssumption DEF Actors

LEMMA ServerMoves ==
  ASSUME TypeOK, ServerKind
  PROVE  ServeRecv \/ ServerQuietly
<1> USE DEF TypeOK, ServerTypeOK, PcTypeOK
<1>0. Loop \in Actors BY DEF Actors
<1>1. ASSUME ServeDeliver \/ ServeExit PROVE ServerQuietly
  <2>1. \A c \in Calls : pc'[c] = pc[c]
    BY <1>1, LoopApart DEF ServeDeliver, ServeExit
  <2>2. pc'[Loop] \notin EndPcs BY <1>0, <1>1 DEF ServeDeliver, ServeExit, EndPcs
  <2>3. QED BY <1>1, <2>1, <2>2 DEF ServeDeliver, ServeExit, ServerQuietly, sstreamVars, wireVars
<1>2. ASSUME WriterStep \/ ServeCancel PROVE ServerQuietly
  BY <1>2 DEF WriterStep, WriterSend, WriterExit, ServerSendFrame, ServeCancel, ServerQuietly, sstreamVars, wireVars
<1>3. ASSUME NEW a \in Actors, EndStep(a) PROVE ServerQuietly
  <2>1. /\ pc[a] \in EndPcs
        /\ \E p \in EndPcs \cup {"serve", "done"} : pc' = [pc EXCEPT ![a] = p]
    BY <1>3 DEF EndStep, EndLookup, EndQueueBegin, EndDelete, EndQueueEnd, EndDone, Enqueue, EndPcs
  <2>2. UNCHANGED <<c2s, sseq>>
    BY <1>3 DEF EndStep, EndLookup, EndQueueBegin, EndDelete, EndQueueEnd, EndDone, sstreamVars, wireVars
  <2>3. \A s \in Seqs : sstreams'[s] \in {sstreams[s], None}
    BY <1>3 DEF EndStep, EndLookup, EndQueueBegin, EndDelete, EndQueueEnd, EndDone
  <2>4. \A b \in Actors : b # a => pc'[b] = pc[b] BY <2>1
  <2>5. \A c \in Calls : pc'[c] = "none" <=> pc[c] = "none"
    BY <2>1, <2>4, LoopApart DEF EndPcs
  <2>6. pc'[Loop] \in EndPcs => pc[Loop] \in EndPcs /\ sitem' = sitem
    <3>1. sitem' = sitem \/ (a = Loop /\ pc' = [pc EXCEPT ![Loop] = "serve"])
      BY <1>3 DEF EndStep, EndLookup, EndQueueBegin, EndDelete, EndQueueEnd, EndDone
    <3>2. CASE sitem' = sitem BY <1>0, <2>1, <2>4, <3>2
    <3>3. CASE a = Loop /\ pc' = [pc EXCEPT ![Loop] = "serve"] BY <1>0, <3>3 DEF EndPcs
    <3>4. QED BY <3>1, <3>2, <3>3
  <2>7. ASSUME NEW c \in Calls, pc[c] \in Served PROVE pc'[c] \in Served \/ sstreams'[sseq[c]] = None
    <3>1. CASE c # a BY <2>4, <2>7, <3>1, LoopApart
    <3>2. CASE c = a
      <4>1. CASE EndDelete(a)
        <5>1. EndSeq(c) = sseq[c] BY LoopApart DEF EndSeq
        <5>2. QED BY <3>2, <4>1, <5>1 DEF EndDelete
      <4>2. CASE EndLookup(a) \/ EndQueueBegin(a)
        BY <3>2, <4>2 DEF EndLookup, EndQueueBegin, Enqueue, Served
      <4>3. CASE EndQueueEnd(a) \/ EndDone(a)
        BY <2>7, <3>2, <4>3 DEF EndQueueEnd, EndDone, Served
      <4>4. QED BY <1>3, <4>1, <4>2, <4>3 DEF EndStep
    <3>3. QED BY <3>1, <3>2
  <2>8. QED BY <2>2, <2>3, <2>5, <2>6, <2>7 DEF ServerQuietly
<1>4. ASSUME NEW c \in Calls, HandlerApp(c) \/ SendStep(c) \/ DeadlineFires(c) PROVE ServerQuietly
  <2>1. UNCHANGED <<c2s, sseq, sstreams, sitem>>
    BY <1>4 DEF HandlerApp, HandlerRecv, HandlerRecvSelect, HandlerSend, HandlerReturn, SendStep,
                SendQueueBegin, SendQueueData, SendGiveUp, DeadlineFires, sstreamVars, wireVars
  <2>2. pc' = pc \/ (pc[c] \in Served /\ \E p \in Served : pc' = [pc EXCEPT ![c] = p])
    <3>1. CASE HandlerRecv(c) \/ HandlerRecvSelect(c)
      BY <3>1 DEF HandlerRecv, HandlerRecvSelect, TakeRequest, Return, Served
    <3>2. CASE HandlerSend(c) \/ HandlerReturn(c) \/ SendGiveUp(c)
      BY <3>2 DEF HandlerSend, HandlerReturn, SendGiveUp, Return, Served
    <3>3. CASE SendQueueBegin(c) \/ SendQueueData(c)
      BY <3>3 DEF SendQueueBegin, SendQueueData, Enqueue, Served
    <3>4. CASE DeadlineFires(c) BY <3>4 DEF DeadlineFires
    <3>5. QED BY <1>4, <3>1, <3>2, <3>3, <3>4 DEF HandlerApp, SendStep
  <2>3. pc'[Loop] = pc[Loop] /\ \A d \in Calls : d # c => pc'[d] = pc[d]
    BY <2>2, LoopApart DEF Actors
  <2>4. pc'[c] = pc[c] \/ (pc[c] \in Served /\ pc'[c] \in Served) BY <2>2, LoopApart
  <2>5. \A d \in Calls : pc'[d] = pc[d] \/ (pc[d] \in Served /\ pc'[d] \in Served) BY <2>3, <2>4
  <2>6. "none" \notin Served BY DEF Served
  <2>7. QED BY <2>1, <2>3, <2>5, <2>6 DEF ServerQuietly
<1>5. QED BY <1>1, <1>2, <1>3, <1>4 DEF ServerKind, ServeStep

-----------------------------------------------------------------------------
\* The tables.

LEMMA ClientTableStep ==
  ASSUME TypeOK, ClientTable, ClientKind
  PROVE  ClientTable'
<1> USE DEF TypeOK, ClientTypeOK
<1>1. ASSUME NEW c \in Calls, ClientOpenStream(c) PROVE ClientTable'
  <2>1. nextSeq \in Seqs BY NextSeqType
  <2>2. /\ \A d \in Calls : cpc'[d] = IF d = c THEN "call" ELSE cpc[d]
        /\ \A d \in Calls : seqOf'[d] = IF d = c THEN nextSeq ELSE seqOf[d]
        /\ \A s \in Seqs : cstreams'[s] = IF s = nextSeq THEN c ELSE cstreams[s]
        /\ cend' = cend /\ cpc[c] = "idle"
    BY <1>1, <2>1 DEF ClientOpenStream
  <2>3. \A s \in Seqs : cstreams[s] # None => cstreams[s] \in Calls /\ cstreams[s] # c
    BY <2>2 DEF ClientTable, EntryOwned, Opened
  <2>4. cend[c] = None BY <2>2 DEF ClientTable, Opened
  <2>5. \A d \in Calls : ~Opened(d)' => cend'[d] = None BY <2>2 DEF ClientTable, Opened
  <2>6. ASSUME NEW s \in Seqs, cstreams'[s] # None
        PROVE  EntryOwnedAfter(s, cstreams'[s]) /\ cend'[cstreams'[s]] = None
    <3>1. CASE s = nextSeq BY <2>2, <2>4, <3>1 DEF EntryOwnedAfter
    <3>2. CASE s # nextSeq
      <4>1. cstreams'[s] = cstreams[s] /\ cstreams[s] \in Calls /\ cstreams[s] # c BY <2>2, <2>3, <2>6, <3>2
      <4>2. EntryOwned(s, cstreams[s]) /\ cend[cstreams[s]] = None BY <2>6, <4>1 DEF ClientTable
      <4>3. QED BY <2>2, <4>1, <4>2 DEF EntryOwned, EntryOwnedAfter, Opened
    <3>3. QED BY <3>1, <3>2
  <2>7. QED BY <2>5, <2>6 DEF ClientTable, EntryOwned, EntryOwnedAfter, Opened
<1>2. ASSUME KeepsSeqs, cend' = cend, \A s \in Seqs : cstreams'[s] \in {cstreams[s], None}
      PROVE  ClientTable'
  BY <1>2 DEF KeepsSeqs, ClientTable, EntryOwned, Opened
<1>3. ASSUME NEW c \in Calls, CallerStep(c) \/ CtxCancel(c) \/ WatchStep(c)
      PROVE  ClientTable'
  <2>1. KeepsSeqs BY <1>3, CallerKeeps
  <2>2. CASE SendCall(c) \/ SendPayload(c) \/ SendClose(c) \/ StreamSend(c) \/ StreamCloseSend(c)
    BY <1>2, <2>1, <2>2 DEF SendCall, SendPayload, SendClose, StreamSend, StreamCloseSend, streamVars
  <2>3. CASE AwaitResponse(c) \/ AwaitEnd(c)
    BY <1>2, <2>1, <2>3 DEF AwaitResponse, AwaitEnd, TakeInbound, UnaryReturn, Report
  <2>4. CASE StreamRecv(c) \/ StreamRecvSelect(c)
    BY <1>2, <2>1, <2>4 DEF StreamRecv, StreamRecvSelect, TakeInbound, Report, streamVars
  <2>5. CASE CtxCancel(c) \/ WatchStep(c)
    BY <1>2, <2>1, <2>5 DEF CtxCancel, WatchStep, WatchSelect, WatchSend, streamVars
  <2>6. QED BY <1>3, <2>2, <2>3, <2>4, <2>5 DEF CallerStep
<1>4. CASE AttachRecv
  <2> DEFINE f == Head(s2c)
             cs == cstreams[f.seq]
  <2>1. KeepsSeqs BY <1>4, PumpKeeps DEF AttachStep
  <2>2. f \in Frame BY <1>4 DEF AttachRecv, ClientTake, WireTypeOK
  <2>3. f.seq \in Seqs /\ f.val \in Nat BY <2>2 DEF Frame
  <2>4. CASE UNCHANGED <<cstreams, cend>> BY <1>2, <2>1, <2>4
  <2>5. CASE /\ cs # None
             /\ cend' = [cend EXCEPT ![cs] = IF @ = None THEN f.val ELSE @]
             /\ cstreams' = [cstreams EXCEPT ![f.seq] = None]
    <3>1. cs \in Calls /\ Opened(cs) /\ seqOf[cs] = f.seq
      BY <2>3, <2>5 DEF ClientTable, EntryOwned
    <3> HIDE DEF f, cs
    <3>2. \A c \in Calls : c # cs => cend'[c] = cend[c] BY <2>5
    <3>3. \A s \in Seqs : s # f.seq => cstreams'[s] = cstreams[s] BY <2>5
    <3>4. cstreams'[f.seq] = None BY <2>3, <2>5
    <3>5. \A s \in Seqs : cstreams'[s] # None => cstreams'[s] = cstreams[s] /\ cstreams[s] # cs
      BY <3>1, <3>3, <3>4 DEF ClientTable, EntryOwned
    <3>6. QED BY <2>1, <3>1, <3>2, <3>5 DEF ClientTable, KeepsSeqs, EntryOwned, Opened
  <2>6. QED BY <1>4, <2>4, <2>5 DEF AttachRecv, streamVars
<1>5. CASE AttachFail
  <2>1. KeepsSeqs BY <1>5, PumpKeeps DEF AttachStep
  <2>2. \A s \in Seqs : cstreams'[s] = None BY <1>5 DEF AttachFail
  <2>3. \A c \in Calls : ~Opened(c) => cend'[c] = None
    BY <1>5, WireAssumption DEF AttachFail, ClientTable, EntryOwned
  <2>4. QED BY <2>1, <2>2, <2>3 DEF ClientTable, KeepsSeqs, Opened
<1>6. CASE AttachDeliver \/ ConnClose \/ ConnCloseChannel
  <2>1. KeepsSeqs BY <1>6, PumpKeeps DEF AttachStep
  <2>2. QED BY <1>2, <1>6, <2>1 DEF AttachDeliver, ConnClose, ConnCloseChannel, streamVars, clientVars
<1>7. QED BY <1>1, <1>3, <1>4, <1>5, <1>6 DEF ClientKind, AttachStep

\* The Call frames and the handlers they start.
CallLife == CallOnce /\ Started /\ Refused

CalledStays == \A c \in Calls : Called(c) => Called(c)'

\* A step that neither sends nor takes a Call frame.
LEMMA CallLifeQuiet ==
  ASSUME TypeOK, CallLife, CalledStays,
         c2s' = c2s \/ \E f \in Frame : f.type # "call" /\ c2s' = Append(c2s, f),
         \A c \in Calls : pc'[c] = "none" <=> pc[c] = "none",
         pc'[Loop] \in EndPcs => pc[Loop] \in EndPcs /\ sitem' = sitem
  PROVE  CallLife'
<1>1. c2s \in Seq(Frame) BY DEF TypeOK, WireTypeOK
<1>2. /\ \A i \in DOMAIN c2s : c2s[i] \in Frame /\ c2s[i].id \in Calls
      /\ \A i \in DOMAIN c2s' : c2s'[i].type = "call" => i \in DOMAIN c2s /\ c2s'[i] = c2s[i]
  <2>1. \A i \in DOMAIN c2s : c2s[i] \in Frame BY <1>1
  <2>2. CASE c2s' = c2s BY <2>1, <2>2 DEF Frame
  <2>3. ASSUME NEW f \in Frame, f.type # "call", c2s' = Append(c2s, f)
        PROVE  \A i \in DOMAIN c2s' : c2s'[i].type = "call" => i \in DOMAIN c2s /\ c2s'[i] = c2s[i]
    BY <1>1, <2>3, AppendIs
  <2>4. QED BY <2>1, <2>2, <2>3 DEF Frame
<1>3. \A i \in DOMAIN c2s' : c2s'[i].type = "call" =>
        /\ cpc'[c2s'[i].id] \notin {"idle", "call"} /\ pc'[c2s'[i].id] = "none"
        /\ \A j \in DOMAIN c2s' : c2s'[j].type = "call" /\ c2s'[j].id = c2s'[i].id => j = i
  BY <1>2 DEF CallLife, CallOnce, CalledStays, Called
<1>4. CallOnce' BY <1>3 DEF CallOnce, Called
<1>5. Started' BY DEF CallLife, Started, CalledStays, Called
<1>6. Refused'
  <2> SUFFICES ASSUME pc'[Loop] \in EndPcs
               PROVE  /\ pc'[sitem'.frame.id] = "none" /\ cpc'[sitem'.frame.id] \notin {"idle", "call"}
                      /\ \A i \in DOMAIN c2s' : ~(c2s'[i].type = "call" /\ c2s'[i].id = sitem'.frame.id)
    BY DEF Refused, CallGone, Called
  <2>1. pc[Loop] \in EndPcs /\ sitem' = sitem OBVIOUS
  <2>2. sitem.frame.id \in Calls
    BY <2>1 DEF TypeOK, ServerTypeOK, PcTypeOK, SItem, Frame
  <2>3. PICK c \in Calls : c = sitem.frame.id BY <2>2
  <2>4. pc[c] = "none" /\ CallGone(c) BY <2>1, <2>3 DEF CallLife, Refused
  <2>5. /\ pc'[c] = "none" /\ cpc'[c] \notin {"idle", "call"}
        /\ \A i \in DOMAIN c2s' : ~(c2s'[i].type = "call" /\ c2s'[i].id = c)
    BY <1>2, <2>4 DEF CallGone, CalledStays, Called
  <2>6. QED BY <2>1, <2>3, <2>5
<1>7. QED BY <1>4, <1>5, <1>6 DEF CallLife

\* SendCall: the first and only Call frame of c.
LEMMA CallLifeSend ==
  ASSUME TypeOK, CallLife, CalledStays, UNCHANGED serverVars,
         NEW c \in Calls, cpc[c] = "call", Called(c)',
         CallOf(c) \in Frame, c2s' = Append(c2s, CallOf(c))
  PROVE  CallLife'
<1>1. c2s \in Seq(Frame) BY DEF TypeOK, WireTypeOK
<1>2. PICK f \in Frame : f = CallOf(c) OBVIOUS
<1>3. f.id = c /\ c2s' = Append(c2s, f) BY <1>2 DEF CallOf, Fr
<1>4. pc' = pc /\ sitem' = sitem BY DEF serverVars
<1>5. \A i \in DOMAIN c2s : c2s[i].id \in Calls
  <2>1. \A i \in DOMAIN c2s : c2s[i] \in Frame BY <1>1
  <2>2. QED BY <2>1 DEF Frame
<1>6. /\ \A i \in DOMAIN c2s : c2s[i].type = "call" => c2s[i].id # c
      /\ pc[c] = "none"
  BY DEF CallLife, CallOnce, Started, Called
<1>7. \A i \in DOMAIN c2s' : \/ i = Len(c2s) + 1 /\ c2s'[i] = f
                             \/ i \in DOMAIN c2s /\ c2s'[i] = c2s[i] /\ i # Len(c2s) + 1
  BY <1>1, <1>3, AppendIs
<1>8. \A i \in DOMAIN c2s' : c2s'[i].type = "call" =>
        /\ cpc'[c2s'[i].id] \notin {"idle", "call"} /\ pc'[c2s'[i].id] = "none"
        /\ \A j \in DOMAIN c2s' : c2s'[j].type = "call" /\ c2s'[j].id = c2s'[i].id => j = i
  <2> SUFFICES ASSUME NEW i \in DOMAIN c2s', c2s'[i].type = "call"
               PROVE  /\ cpc'[c2s'[i].id] \notin {"idle", "call"} /\ pc'[c2s'[i].id] = "none"
                      /\ \A j \in DOMAIN c2s' : c2s'[j].type = "call" /\ c2s'[j].id = c2s'[i].id => j = i
    OBVIOUS
  <2>1. CASE i = Len(c2s) + 1 /\ c2s'[i] = f
    BY <1>3, <1>4, <1>6, <1>7, <2>1 DEF Called
  <2>2. CASE i \in DOMAIN c2s /\ c2s'[i] = c2s[i]
    BY <1>3, <1>4, <1>5, <1>6, <1>7, <2>2 DEF CallLife, CallOnce, CalledStays, Called
  <2>3. QED BY <1>7, <2>1, <2>2
<1>9. CallOnce' BY <1>8 DEF CallOnce, Called
<1>10. Started' BY <1>4 DEF CallLife, Started, CalledStays, Called
<1>11. Refused'
  <2> SUFFICES ASSUME pc'[Loop] \in EndPcs
               PROVE  /\ pc'[sitem'.frame.id] = "none" /\ cpc'[sitem'.frame.id] \notin {"idle", "call"}
                      /\ \A i \in DOMAIN c2s' : ~(c2s'[i].type = "call" /\ c2s'[i].id = sitem'.frame.id)
    BY DEF Refused, CallGone, Called
  <2>1. sitem.frame.id \in Calls
    BY <1>4 DEF TypeOK, ServerTypeOK, PcTypeOK, SItem, Frame
  <2>2. PICK d \in Calls : d = sitem.frame.id BY <2>1
  <2>3. pc[d] = "none" /\ CallGone(d) BY <1>4, <2>2 DEF CallLife, Refused
  <2>4. d # c BY <2>3 DEF CallGone, Called
  <2>5. /\ cpc'[d] \notin {"idle", "call"}
        /\ \A i \in DOMAIN c2s' : ~(c2s'[i].type = "call" /\ c2s'[i].id = d)
    BY <1>3, <1>7, <2>3, <2>4 DEF CallGone, CalledStays, Called
  <2>6. QED BY <1>4, <2>2, <2>3, <2>5
<1>12. QED BY <1>9, <1>10, <1>11 DEF CallLife

\* ServeRecv: a Call frame starts its handler, or is refused; it is the last.
LEMMA ServeRecvIs ==
  ASSUME TypeOK, ServeRecv
  PROVE  LET f == Head(c2s)
         IN /\ c2s # <<>> /\ c2s' = Tail(c2s) /\ f \in Frame /\ f.seq \in Seqs /\ f.id \in Calls
            /\ \/ /\ UNCHANGED <<pc, sseq>> /\ f.type # "call"
                  /\ \A s \in Seqs : sstreams'[s] \in {sstreams[s], None}
               \/ /\ UNCHANGED <<sstreams, sseq>> /\ pc' = [pc EXCEPT ![Loop] = "deliver"]
                  /\ f.type = "data"
               \/ /\ UNCHANGED <<sstreams, sseq>> /\ pc' = [pc EXCEPT ![Loop] = "end"]
                  /\ f.type = "call" /\ sitem'.frame = f
                  /\ \/ f.id \in Unimplemented /\ sitem'.code = 12
                     \/ sstreams[f.seq] # None /\ sitem'.code = 13
               \/ /\ sstreams' = [sstreams EXCEPT ![f.seq] = f.id]
                  /\ sseq' = [sseq EXCEPT ![f.id] = f.seq]
                  /\ pc' = [pc EXCEPT ![f.id] = "run"]
                  /\ f.type = "call" /\ f.id \notin Unimplemented
<1> DEFINE f == Head(c2s)
           st == sstreams[f.seq]
<1>1. c2s \in Seq(Frame) /\ c2s # <<>> /\ c2s' = Tail(c2s) /\ pc[Loop] = "serve"
  BY DEF TypeOK, WireTypeOK, ServeRecv, ServerTake
<1>2. f \in Frame /\ f.seq \in Seqs /\ f.id \in Calls
  <2>1. f \in Frame BY <1>1
  <2>2. QED BY <2>1 DEF Frame
<1>3. \/ f.type = "call" /\ ServerOpenStream(f)
      \/ f.type # "call" /\ UNCHANGED <<sstreams, sseq, pc>>
      \/ f.type = "data" /\ UNCHANGED <<sstreams, sseq>> /\ pc' = [pc EXCEPT ![Loop] = "deliver"]
      \/ f.type # "call" /\ UNCHANGED <<sseq, pc>> /\ sstreams' = [sstreams EXCEPT ![f.seq] = None]
  BY DEF ServeRecv
<1> HIDE DEF f
<1>4. ASSUME ServerOpenStream(f), f.type = "call"
      PROVE  \/ /\ UNCHANGED <<sstreams, sseq>> /\ pc' = [pc EXCEPT ![Loop] = "end"]
                /\ f.type = "call" /\ sitem'.frame = f
                /\ \/ f.id \in Unimplemented /\ sitem'.code = 12
                   \/ sstreams[f.seq] # None /\ sitem'.code = 13
             \/ /\ sstreams' = [sstreams EXCEPT ![f.seq] = f.id]
                /\ sseq' = [sseq EXCEPT ![f.id] = f.seq]
                /\ pc' = [pc EXCEPT ![f.id] = "run"]
                /\ f.type = "call" /\ f.id \notin Unimplemented
  BY <1>4 DEF ServerOpenStream
<1>5. ASSUME sstreams' = [sstreams EXCEPT ![f.seq] = None] PROVE \A s \in Seqs : sstreams'[s] \in {sstreams[s], None}
  BY <1>5 DEF TypeOK, ServerTypeOK
<1>6. QED BY <1>1, <1>2, <1>3, <1>4, <1>5 DEF f

LEMMA CallLifeServe ==
  ASSUME TypeOK, CallLife, UNCHANGED clientVars, ServeRecv
  PROVE  CallLife'
<1> DEFINE f == Head(c2s)
<1>1. c2s \in Seq(Frame) BY DEF TypeOK, WireTypeOK
<1>2. c2s # <<>> /\ c2s' = Tail(c2s) /\ f.id \in Calls /\ f \in Frame BY ServeRecvIs
<1>3. cpc' = cpc BY DEF clientVars, callerVars
<1>4. \/ f.type # "call" /\ \A c \in Calls : pc'[c] = pc[c]
      \/ f.type = "call" /\ \A c \in Calls : c # f.id => pc'[c] = pc[c]
  BY ServeRecvIs, LoopApart DEF TypeOK, ServerTypeOK, PcTypeOK
<1>5. pc'[Loop] \in EndPcs =>
        f.type = "call" /\ sitem'.frame = f /\ \A c \in Calls : pc'[c] = pc[c]
  <2>1. pc[Loop] = "serve" /\ Loop \in Actors BY DEF ServeRecv, Actors
  <2>2. QED BY <2>1, ServeRecvIs, LoopApart DEF TypeOK, ServerTypeOK, PcTypeOK, EndPcs
<1> HIDE DEF f
<1>6. /\ 1 \in DOMAIN c2s /\ f = c2s[1]
      /\ \A i \in DOMAIN c2s' : i \in Nat \ {0} /\ i + 1 \in DOMAIN c2s /\ c2s'[i] = c2s[i + 1]
  BY <1>1, <1>2, TailIs DEF f
<1>7. \A i \in DOMAIN c2s : c2s[i].id \in Calls
  <2>1. \A i \in DOMAIN c2s : c2s[i] \in Frame BY <1>1
  <2>2. QED BY <2>1 DEF Frame
<1>8. ASSUME f.type = "call"
      PROVE  /\ Called(f.id) /\ pc[f.id] = "none"
             /\ \A i \in DOMAIN c2s' : ~(c2s'[i].type = "call" /\ c2s'[i].id = f.id)
  <2>1. \A i \in DOMAIN c2s : c2s[i].type = "call" /\ c2s[i].id = f.id => i = 1
    BY <1>6, <1>8 DEF CallLife, CallOnce
  <2>2. QED BY <1>6, <1>8, <2>1 DEF CallLife, CallOnce
<1>9. CallOnce'
  <2>1. ASSUME NEW i \in DOMAIN c2s', c2s'[i].type = "call"
        PROVE  /\ cpc'[c2s'[i].id] \notin {"idle", "call"} /\ pc'[c2s'[i].id] = "none"
               /\ \A j \in DOMAIN c2s' : c2s'[j].type = "call" /\ c2s'[j].id = c2s'[i].id => j = i
    <3>1. i \in Nat /\ i + 1 \in DOMAIN c2s /\ c2s'[i] = c2s[i + 1] BY <1>6
    <3>2. Called(c2s[i + 1].id) /\ pc[c2s[i + 1].id] = "none" BY <2>1, <3>1 DEF CallLife, CallOnce
    <3>3. c2s[i + 1].id \in Calls BY <1>7, <3>1
    <3>4. f.type = "call" => c2s[i + 1].id # f.id BY <1>8, <2>1, <3>1
    <3>5. pc'[c2s[i + 1].id] = "none" BY <1>4, <3>2, <3>3, <3>4
    <3>6. ASSUME NEW j \in DOMAIN c2s', c2s'[j].type = "call", c2s'[j].id = c2s'[i].id PROVE j = i
      <4>1. j \in Nat /\ j + 1 \in DOMAIN c2s /\ c2s'[j] = c2s[j + 1] BY <1>6
      <4>2. j + 1 = i + 1 BY <2>1, <3>1, <3>6, <4>1 DEF CallLife, CallOnce
      <4>3. QED BY <3>1, <4>1, <4>2
    <3>7. QED BY <1>3, <3>1, <3>2, <3>5, <3>6 DEF Called
  <2>2. QED BY <2>1 DEF CallOnce, Called
<1>10. Started'
  <2>1. \A c \in Calls : pc'[c] # "none" => Called(c)
    BY <1>4, <1>8 DEF CallLife, Started
  <2>2. QED BY <1>3, <2>1 DEF Started, Called
<1>11. Refused'
  <2> SUFFICES ASSUME pc'[Loop] \in EndPcs
               PROVE  /\ pc'[sitem'.frame.id] = "none" /\ cpc'[sitem'.frame.id] \notin {"idle", "call"}
                      /\ \A i \in DOMAIN c2s' : ~(c2s'[i].type = "call" /\ c2s'[i].id = sitem'.frame.id)
    BY DEF Refused, CallGone, Called
  <2>1. QED BY <1>2, <1>3, <1>5, <1>8 DEF Called
<1>12. QED BY <1>9, <1>10, <1>11 DEF CallLife

LEMMA ServerTableStep ==
  ASSUME TypeOK, CallLife, ServerTable, ServerKind
  PROVE  ServerTable'
<1> USE DEF TypeOK, ServerTypeOK, PcTypeOK
<1>1. \A s \in Seqs : sstreams[s] # None => /\ sstreams[s] \in Calls /\ pc[sstreams[s]] \in Served
                                            /\ sseq[sstreams[s]] = s
  BY DEF ServerTable
<1>2. CASE ServerQuietly
  BY <1>1, <1>2 DEF ServerTable, ServerQuietly
<1>3. CASE ServeRecv
  <2> DEFINE f == Head(c2s)
  <2>1. f.seq \in Seqs /\ f.id \in Calls /\ 1 \in DOMAIN c2s /\ f = c2s[1]
    BY <1>3, ServeRecvIs, TailIs DEF WireTypeOK
  <2>2. CASE UNCHANGED sseq /\ (\A c \in Calls : pc'[c] = pc[c]) /\ \A s \in Seqs : sstreams'[s] \in {sstreams[s], None}
    BY <1>1, <2>2 DEF ServerTable
  <2>3. CASE /\ sstreams' = [sstreams EXCEPT ![f.seq] = f.id]
             /\ sseq' = [sseq EXCEPT ![f.id] = f.seq]
             /\ pc' = [pc EXCEPT ![f.id] = "run"] /\ f.type = "call"
    <3>1. pc[f.id] = "none" BY <2>1, <2>3 DEF CallLife, CallOnce
    <3> HIDE DEF f
    <3>2. /\ \A s \in Seqs : sstreams'[s] = IF s = f.seq THEN f.id ELSE sstreams[s]
          /\ \A c \in Calls : sseq'[c] = IF c = f.id THEN f.seq ELSE sseq[c]
          /\ \A c \in Calls : pc'[c] = IF c = f.id THEN "run" ELSE pc[c]
      BY <2>1, <2>3, LoopApart
    <3>3. \A s \in Seqs : sstreams[s] # None => sstreams[s] # f.id
      BY <1>1, <3>1 DEF Served
    <3>4. ASSUME NEW s \in Seqs, sstreams'[s] # None
          PROVE  pc'[sstreams'[s]] \in Served /\ sseq'[sstreams'[s]] = s
      <4>1. CASE s = f.seq BY <2>1, <3>2, <4>1 DEF Served
      <4>2. CASE s # f.seq BY <1>1, <3>2, <3>3, <3>4, <4>2
      <4>3. QED BY <4>1, <4>2
    <3>5. QED BY <3>4 DEF ServerTable
  <2>4. QED BY <1>3, <2>2, <2>3, ServeRecvIs, LoopApart
<1>4. QED BY <1>2, <1>3, ServerMoves

LEMMA LifeStep == TypeOK /\ LifeInv /\ [Next]_vars => LifeInv'
<1> SUFFICES ASSUME TypeOK, LifeInv, [Next]_vars PROVE LifeInv'
  OBVIOUS
<1>0. ClientTable /\ CallLife /\ ServerTable BY DEF LifeInv, CallLife
<1>1. ASSUME UNCHANGED clientVars PROVE ClientTable'
  BY <1>0, <1>1 DEF ClientTable, EntryOwned, Opened, clientVars, streamVars, callerVars
<1>2. ASSUME UNCHANGED serverVars PROVE ServerTable'
  BY <1>0, <1>2 DEF ServerTable, serverVars, sstreamVars
<1>3. ASSUME UNCHANGED <<clientVars, serverVars, c2s>> PROVE LifeInv'
  <2>1. CalledStays BY <1>3 DEF CalledStays, Called, clientVars, callerVars
  <2>2. pc' = pc /\ sitem' = sitem BY <1>3 DEF serverVars
  <2>3. CallLife' BY <1>0, <1>3, <2>1, <2>2, CallLifeQuiet
  <2>4. QED BY <1>1, <1>2, <1>3, <2>3 DEF LifeInv, CallLife
<1>4. CASE UNCHANGED vars BY <1>3, <1>4 DEF vars, wireVars
<1>5. CASE UNCHANGED serverVars /\ ClientKind
  <2>1. ClientTable' /\ ServerTable' BY <1>0, <1>2, <1>5, ClientTableStep
  <2>2. CalledStays BY <1>5, ClientMoves DEF CalledStays
  <2>3. pc' = pc /\ sitem' = sitem BY <1>5 DEF serverVars
  <2>4. CASE \E c \in Calls : /\ cpc[c] = "call" /\ Called(c)'
                              /\ CallOf(c) \in Frame /\ c2s' = Append(c2s, CallOf(c))
    BY <1>0, <1>5, <2>1, <2>2, <2>4, CallLifeSend DEF LifeInv, CallLife
  <2>5. CASE c2s' = c2s \/ \E f \in Frame : f.type \in {"data", "close", "cancel"} /\ c2s' = Append(c2s, f)
    <3>1. c2s' = c2s \/ \E f \in Frame : f.type # "call" /\ c2s' = Append(c2s, f) BY <2>5
    <3>2. CallLife' BY <1>0, <2>2, <2>3, <3>1, CallLifeQuiet
    <3>3. QED BY <2>1, <3>2 DEF LifeInv, CallLife
  <2>6. QED BY <1>5, <2>4, <2>5, ClientMoves
<1>6. CASE UNCHANGED clientVars /\ ServerKind
  <2>1. ClientTable' /\ ServerTable' BY <1>0, <1>1, <1>6, ServerTableStep
  <2>2. CASE ServeRecv BY <1>0, <1>6, <2>1, <2>2, CallLifeServe DEF LifeInv, CallLife
  <2>3. CASE ServerQuietly
    <3>1. CalledStays BY <1>6 DEF CalledStays, Called, clientVars, callerVars
    <3>2. CallLife' BY <1>0, <2>3, <3>1, CallLifeQuiet DEF ServerQuietly
    <3>3. QED BY <2>1, <3>2 DEF LifeInv, CallLife
  <2>4. QED BY <1>6, <2>2, <2>3, ServerMoves
<1>7. CASE (ServerConnClose \/ OnClose) /\ UNCHANGED <<clientVars, serverVars>>
  BY <1>3, <1>7 DEF ServerConnClose, OnClose
<1>8. QED BY <1>4, <1>5, <1>6, <1>7, Kinds

LEMMA LifeInit == Init => LifeInv
<1> SUFFICES ASSUME Init PROVE LifeInv
  OBVIOUS
<1>1. ClientTable BY DEF Init, ClientInit, ClientTable
<1>2. pc[Loop] = "serve" /\ \A c \in Calls : pc[c] = "none"
  BY LoopApart DEF Init, ServerInit, Actors
<1>3. CallOnce /\ Started /\ ServerTable /\ Refused
  BY <1>2 DEF Init, WireInit, ServerInit, CallOnce, Started, ServerTable, Refused, EndPcs
<1>4. QED BY <1>1, <1>3 DEF LifeInv

LEMMA LifeHolds == Spec => []LifeInv
BY LifeInit, LifeStep, TypeCorrect, PTL DEF Spec

(***************************************************************************)
(* Both tables name live streams only, under their own sequence numbers,   *)
(* for any number of calls and across wraps of the counter: nothing of     *)
(* Client.streams has ended, and every entry of multiplexer.streams has a  *)
(* handler that has not left endStream's critical section.                 *)
(***************************************************************************)
THEOREM TablesStayLive == Spec => []TablesLive
<1>1. TypeOK /\ LifeInv => TablesLive
  <2> SUFFICES ASSUME TypeOK, LifeInv PROVE TablesLive
    OBVIOUS
  <2>1. \A s \in Seqs : cstreams[s] # None => cend[cstreams[s]] = None /\ seqOf[cstreams[s]] = s
    BY DEF LifeInv, ClientTable, EntryOwned
  <2>2. \A s \in Seqs : sstreams[s] # None => /\ pc[sstreams[s]] \notin {"none", "qend", "wend", "done"}
                                              /\ sseq[sstreams[s]] = s
    BY DEF LifeInv, ServerTable, Served
  <2>3. QED BY <2>1, <2>2 DEF TablesLive
<1>2. QED BY <1>1, LifeHolds, TypeCorrect, PTL
=============================================================================
