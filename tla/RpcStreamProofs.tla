-------------------------- MODULE RpcStreamProofs --------------------------
(***************************************************************************)
(* What travels on one call's stream, for any number of calls and any      *)
(* capacities: a status is true, End is last, Begin precedes data, and     *)
(* messages keep their order; and, from all of it, that client and server  *)
(* together implement CallContract.                                        *)
(***************************************************************************)
EXTENDS RpcProofs, WellFoundedInduction

-----------------------------------------------------------------------------
\* The server's outbound side.

\* The frames an actor hands to queue, and where it is before and after.
Emits(a, f) ==
  \/ pc[a] = "qend" /\ f = Fr(EndSeq(a), "end", EndId(a), EndCode(a)) /\ pc' = [pc EXCEPT ![a] = "wend"]
  \/ pc[a] = "qebegin" /\ f = Fr(EndSeq(a), "begin", EndId(a), 0) /\ pc' = [pc EXCEPT ![a] = "delete"]
  \/ /\ a \in Calls
     /\ \/ pc[a] = "qbegin" /\ f = Fr(sseq[a], "begin", a, 0) /\ pc' = [pc EXCEPT ![a] = "qdata"]
        \/ pc[a] = "qdata" /\ f = Fr(sseq[a], "data", a, resp[a]) /\ pc' = [pc EXCEPT ![a] = "run"]

Queued(a, f) ==
  mout' = Append(mout, [frame |-> f, by |-> a]) /\ Emits(a, f)
    /\ UNCHANGED <<sstreams, sseq, headerSent, resp, hret, sitem, serveCancel>>

LEMMA ServerQueues ==
  ASSUME TypeOK, ServerKind
  PROVE  \/ WriterSend
         \/ UNCHANGED <<s2c, sclosed, cclosed>> /\ (mout' = mout \/ \E a \in Actors, f \in Frame : Queued(a, f))
<1> USE DEF TypeOK
<1>1. CASE ServeStep \/ WriterExit \/ ServeCancel
  BY <1>1 DEF ServeStep, ServeRecv, ServerTake, ServeDeliver, ServeExit, WriterExit, ServeCancel, wireVars
<1>2. ASSUME NEW a \in Actors, EndStep(a)
      PROVE  UNCHANGED <<s2c, sclosed, cclosed>> /\ (mout' = mout \/ \E f \in Frame : Queued(a, f))
  <2>1. UNCHANGED <<s2c, sclosed, cclosed>>
    BY <1>2 DEF EndStep, EndLookup, EndQueueBegin, EndDelete, EndQueueEnd, EndDone, wireVars
  <2>2. CASE EndLookup(a) \/ EndDelete(a) \/ EndDone(a)
    BY <2>1, <2>2 DEF EndLookup, EndDelete, EndDone
  <2>3. CASE EndQueueBegin(a)
    <3> DEFINE f == Fr(EndSeq(a), "begin", EndId(a), 0)
    <3>1. f \in Frame BY <2>3, EndFrameType DEF EndQueueBegin, EndPcs
    <3>2. mout' = mout \/ Queued(a, f)
      BY <2>3, Zenon DEF EndQueueBegin, Enqueue, Queued, Emits, sstreamVars, handlerVars
    <3>3. QED BY <2>1, <3>1, <3>2
  <2>4. CASE EndQueueEnd(a)
    <3> DEFINE f == Fr(EndSeq(a), "end", EndId(a), EndCode(a))
    <3>1. f \in Frame BY <2>4, EndFrameType DEF EndQueueEnd, EndPcs
    <3>2. mout' = mout \/ Queued(a, f)
      BY <2>4, Zenon DEF EndQueueEnd, Enqueue, Queued, Emits, sstreamVars, handlerVars
    <3>3. QED BY <2>1, <3>1, <3>2
  <2>5. QED BY <1>2, <2>2, <2>3, <2>4 DEF EndStep
<1>3. ASSUME NEW c \in Calls, HandlerApp(c) \/ SendStep(c) \/ DeadlineFires(c)
      PROVE  UNCHANGED <<s2c, sclosed, cclosed>> /\ (mout' = mout \/ \E f \in Frame : Queued(c, f))
  <2>1. UNCHANGED <<s2c, sclosed, cclosed>>
    BY <1>3 DEF HandlerApp, HandlerRecv, HandlerRecvSelect, HandlerSend, HandlerReturn, SendStep,
                SendQueueBegin, SendQueueData, SendGiveUp, DeadlineFires, wireVars
  <2>2. CASE HandlerApp(c) \/ SendGiveUp(c) \/ DeadlineFires(c)
    BY <2>1, <2>2 DEF HandlerApp, HandlerRecv, HandlerRecvSelect, HandlerSend, HandlerReturn, SendGiveUp, DeadlineFires
  <2>3. c \in Actors /\ c # Loop BY LoopApart
  <2>4. CASE SendQueueBegin(c)
    <3> DEFINE f == Fr(sseq[c], "begin", c, 0)
    <3>1. f \in Frame BY FrType DEF FrameTypes, ServerTypeOK
    <3>2. CASE mout' = mout BY <2>1, <3>2
    <3>3. CASE mout' = Append(mout, [frame |-> f, by |-> c]) /\ pc' = [pc EXCEPT ![c] = "qdata"]
      <4>1. pc'[c] = "qdata" BY <2>3, <3>3 DEF ServerTypeOK, PcTypeOK
      <4>2. hret' = hret BY <2>4, <4>1 DEF SendQueueBegin
      <4>3. Queued(c, f) BY <2>4, <3>3, <4>2, Zenon DEF SendQueueBegin, Queued, Emits, sstreamVars
      <4>4. QED BY <2>1, <3>1, <4>3
    <3>4. QED BY <2>4, <3>2, <3>3 DEF SendQueueBegin, Enqueue
  <2>5. CASE SendQueueData(c)
    <3> DEFINE f == Fr(sseq[c], "data", c, resp[c])
    <3>1. f \in Frame BY FrType DEF FrameTypes, ServerTypeOK
    <3>2. CASE mout' = mout BY <2>1, <3>2
    <3>3. CASE mout' = Append(mout, [frame |-> f, by |-> c]) /\ pc' = [pc EXCEPT ![c] = "run"]
      <4>1. pc'[c] = "run" BY <2>3, <3>3 DEF ServerTypeOK, PcTypeOK
      <4>2. hret' = hret BY <2>5, <4>1 DEF SendQueueData
      <4>3. Queued(c, f) BY <2>5, <3>3, <4>2, Zenon DEF SendQueueData, Queued, Emits, sstreamVars
      <4>4. QED BY <2>1, <3>1, <4>3
    <3>4. QED BY <2>5, <3>2, <3>3 DEF SendQueueData, Enqueue
  <2>6. QED BY <1>3, <2>2, <2>4, <2>5 DEF SendStep
<1>4. QED BY <1>1, <1>2, <1>3, LoopApart DEF ServerKind, WriterStep

\* The writer moves the head of the queue to the wire; it drops it only when
\* this end is closed or Serve's ctx is done.
LEMMA WriterIs ==
  ASSUME TypeOK, WriterSend
  PROVE  /\ mout \in Seq(Out) /\ mout # <<>> /\ mout' = Tail(mout) /\ mout' \in Seq(Out)
         /\ s2c \in Seq(Frame) /\ Head(mout).frame \in Frame /\ Head(mout) = mout[1] /\ 1 \in DOMAIN mout
         /\ \A i \in DOMAIN mout' : i \in Nat \ {0} /\ i + 1 \in DOMAIN mout /\ mout'[i] = mout[i + 1]
         /\ \A i \in DOMAIN mout : i \in Nat \ {0} /\ (i # 1 => i - 1 \in DOMAIN mout' /\ mout'[i - 1] = mout[i])
         /\ \/ s2c' = Append(s2c, Head(mout).frame) /\ ~sclosed
            \/ s2c' = s2c /\ (sclosed \/ serveCancel)
         /\ UNCHANGED <<c2s, cclosed, sclosed, pc, sitem, hret, sstreams, sseq, headerSent, resp, serveCancel>>
<1>1. mout \in Seq(Out) /\ mout # <<>> /\ mout' = Tail(mout) /\ s2c \in Seq(Frame)
  BY DEF TypeOK, ServerTypeOK, WireTypeOK, WriterSend
<1>2. /\ Tail(mout) \in Seq(Out) /\ Head(mout) \in Out /\ Head(mout) = mout[1] /\ 1 \in DOMAIN mout
      /\ \A i \in DOMAIN Tail(mout) : i \in Nat \ {0} /\ i + 1 \in DOMAIN mout /\ Tail(mout)[i] = mout[i + 1]
      /\ \A i \in DOMAIN mout : i \in Nat \ {0} /\ (i # 1 => i - 1 \in DOMAIN Tail(mout) /\ Tail(mout)[i - 1] = mout[i])
  BY <1>1, TailIs
<1>3. Head(mout).frame \in Frame BY <1>2 DEF Out
<1>4. /\ \/ s2c' = Append(s2c, Head(mout).frame) /\ ~sclosed
         \/ s2c' = s2c /\ (sclosed \/ serveCancel)
      /\ UNCHANGED <<c2s, cclosed, sclosed, pc, sitem, hret, sstreams, sseq, headerSent, resp, serveCancel>>
  BY Zenon DEF WriterSend, ServerSendFrame, sstreamVars, handlerVars
<1>5. QED BY <1>1, <1>2, <1>3, <1>4

\* What queue adds, by position.
LEMMA QueuedIs ==
  ASSUME TypeOK, NEW a \in Actors, NEW f \in Frame, Queued(a, f)
  PROVE  /\ mout' \in Seq(Out) /\ Len(mout) \in Nat /\ Len(mout) + 1 \in DOMAIN mout'
         /\ mout'[Len(mout) + 1].frame = f /\ Len(mout') = Len(mout) + 1
         /\ \A i \in DOMAIN mout : i \in 1 .. Len(mout) /\ i \in DOMAIN mout' /\ mout'[i] = mout[i]
         /\ \A i \in DOMAIN mout' : i \in DOMAIN mout \/ i = Len(mout) + 1
<1> DEFINE o == [frame |-> f, by |-> a]
<1>1. o \in Out /\ o.frame = f BY DEF Out
<1>2. mout \in Seq(Out) /\ mout' = Append(mout, o) BY DEF Queued, TypeOK, ServerTypeOK
<1> HIDE DEF o
<1>3. /\ Append(mout, o) \in Seq(Out)
      /\ \A i \in DOMAIN mout : i \in 1 .. Len(mout) /\ i \in DOMAIN Append(mout, o) /\ Append(mout, o)[i] = mout[i]
      /\ Len(mout) \in Nat /\ Len(mout) + 1 \in DOMAIN Append(mout, o) /\ Append(mout, o)[Len(mout) + 1] = o
      /\ \A i \in DOMAIN Append(mout, o) : i \in DOMAIN mout \/ i = Len(mout) + 1
  BY <1>1, <1>2, AppendIs
<1>4. Len(mout') = Len(mout) + 1 BY <1>1, <1>2
<1>5. QED BY <1>1, <1>2, <1>3, <1>4

\* Where a step of Emits leaves the actors.
LEMMA EmitsPc ==
  ASSUME TypeOK, NEW a \in Actors, NEW f, Emits(a, f)
  PROVE  /\ \A b \in Actors : b # a => pc'[b] = pc[b]
         /\ pc'[a] = IF pc[a] = "qend" THEN "wend" ELSE IF pc[a] = "qebegin" THEN "delete"
                     ELSE IF pc[a] = "qbegin" THEN "qdata" ELSE "run"
         /\ pc[a] \in {"qend", "qebegin", "qbegin", "qdata"}
BY DEF TypeOK, ServerTypeOK, PcTypeOK, Emits

-----------------------------------------------------------------------------
\* Statuses.

\* The handler of c has returned.
Over(c) == pc[c] \in EndPcs \cup {"done"}

\* A status the server may give for c: its handler's, or that it has none.
Verdict(c, code) ==
  \/ code \in {0, 2} /\ hret[c] = code /\ Over(c)
  \/ code = 12 /\ c \in Unimplemented

EndTrue(f) == f.type = "end" => Verdict(f.id, f.val)

Settled == \A c \in Calls : Over(c) => hret[c] \in {0, 2}

\* The Serve loop ends calls to unknown methods only.
Unknown == pc[Loop] \in EndPcs => sitem.code = 12 /\ sitem.frame.id \in Unimplemented

EndsTrue ==
  /\ \A i \in DOMAIN s2c : EndTrue(s2c[i])
  /\ \A i \in DOMAIN mout : EndTrue(mout[i].frame)

Lost == cclosed \/ attachCancel

EndedTrue ==
  \A c \in Calls : cend[c] # None => Verdict(c, cend[c]) \/ (cend[c] = 14 /\ Lost)

OutcomeTrue ==
  \A c \in Calls : outcome[c] # None => \/ Verdict(c, outcome[c].code)
                                        \/ outcome[c].code = 14 /\ Lost
                                        \/ outcome[c].code = 4 /\ ctxDone[c]

StatusInv == Settled /\ Unknown /\ EndsTrue /\ EndedTrue /\ OutcomeTrue

\* A handler that has returned keeps its status.
OverStays == \A c \in Calls : Over(c) => Over(c)' /\ hret'[c] = hret[c]

VerdictAfter(c, code) ==
  \/ code \in {0, 2} /\ hret'[c] = code /\ pc'[c] \in EndPcs \cup {"done"}
  \/ code = 12 /\ c \in Unimplemented

LEMMA VerdictStays ==
  ASSUME OverStays, NEW c \in Calls, NEW code, Verdict(c, code)
  PROVE  VerdictAfter(c, code)
BY DEF OverStays, Verdict, VerdictAfter, Over

LEMMA OverMoves ==
  ASSUME TypeOK, CallLife, Settled, ServerKind
  PROVE  OverStays /\ Settled'
<1> USE DEF TypeOK, ServerTypeOK, PcTypeOK
<1>1. ASSUME hret' = hret, \A c \in Calls : Over(c)' <=> Over(c) PROVE OverStays /\ Settled'
  BY <1>1 DEF OverStays, Settled, Over
<1>2. CASE ServeRecv
  <2> DEFINE f == Head(c2s)
  <2>1. hret' = hret BY <1>2 DEF ServeRecv, handlerVars
  <2>2. f.id \in Calls /\ f = c2s[1] /\ 1 \in DOMAIN c2s
    BY <1>2, ServeRecvIs, TailIs DEF WireTypeOK
  <2>3. CASE \A c \in Calls : pc'[c] = pc[c] BY <1>1, <2>1, <2>3 DEF Over
  <2>4. CASE f.type = "call" /\ pc' = [pc EXCEPT ![f.id] = "run"]
    <3>1. pc[f.id] = "none" BY <2>2, <2>4 DEF CallLife, CallOnce
    <3> HIDE DEF f
    <3>2. \A c \in Calls : pc'[c] = IF c = f.id THEN "run" ELSE pc[c] BY <2>4, LoopApart
    <3>3. \A c \in Calls : Over(c)' <=> Over(c) BY <3>1, <3>2 DEF Over, EndPcs
    <3>4. QED BY <1>1, <2>1, <3>3
  <2>5. QED BY <1>2, <2>3, <2>4, ServeRecvIs, LoopApart
<1>3. CASE ServeDeliver \/ ServeExit \/ WriterStep \/ ServeCancel
  <2>1. hret' = hret /\ \A c \in Calls : pc'[c] = pc[c]
    BY <1>3, LoopApart DEF ServeDeliver, ServeExit, WriterStep, WriterSend, WriterExit, ServeCancel, handlerVars
  <2>2. QED BY <1>1, <2>1 DEF Over
<1>4. ASSUME NEW a \in Actors, EndStep(a) PROVE OverStays /\ Settled'
  <2>1. /\ pc[a] \in EndPcs /\ hret' = hret
        /\ \E p \in EndPcs \cup {"serve", "done"} : pc' = [pc EXCEPT ![a] = p] /\ (p = "serve" => a = Loop)
    BY <1>4 DEF EndStep, EndLookup, EndQueueBegin, EndDelete, EndQueueEnd, EndDone, Enqueue, EndPcs, handlerVars
  <2>2. \A c \in Calls : Over(c)' <=> Over(c) BY <2>1, LoopApart DEF Over
  <2>3. QED BY <1>1, <2>1, <2>2
<1>5. ASSUME NEW c \in Calls, HandlerApp(c) \/ SendStep(c) \/ DeadlineFires(c) PROVE OverStays /\ Settled'
  <2>1. c \in Actors BY LoopApart
  <2>2. CASE DeadlineFires(c) BY <1>1, <2>2 DEF DeadlineFires, handlerVars, Over
  <2>3. ASSUME pc[c] \in {"run", "recv", "qbegin", "qdata"},
               \/ hret' = hret /\ \E p \in {"run", "recv", "qbegin", "qdata"} : pc' = [pc EXCEPT ![c] = p]
               \/ \E code \in {0, 2} : hret' = [hret EXCEPT ![c] = code] /\ pc' = [pc EXCEPT ![c] = "end"]
        PROVE  OverStays /\ Settled'
    <3>1. ~Over(c) BY <2>3 DEF Over, EndPcs
    <3>2. \A d \in Calls : d # c => pc'[d] = pc[d] /\ hret'[d] = hret[d] BY <2>3, LoopApart
    <3>3. Over(c)' => hret'[c] \in {0, 2} BY <2>1, <2>3 DEF Over, EndPcs
    <3>4. QED BY <3>1, <3>2, <3>3 DEF OverStays, Settled, Over
  <2>4. CASE HandlerRecv(c) \/ HandlerRecvSelect(c)
    BY <2>3, <2>4 DEF HandlerRecv, HandlerRecvSelect, TakeRequest, Return
  <2>5. CASE HandlerSend(c) \/ HandlerReturn(c) \/ SendGiveUp(c)
    BY <2>3, <2>5 DEF HandlerSend, HandlerReturn, SendGiveUp, Return
  <2>6. CASE SendQueueBegin(c) \/ SendQueueData(c)
    <3>1. PICK p \in {"qdata", "run", "end"} : pc' = [pc EXCEPT ![c] = p]
      BY <2>6 DEF SendQueueBegin, SendQueueData, Enqueue
    <3>2. pc'[c] = p BY <2>1, <3>1
    <3>3. hret' = IF p = "end" THEN [hret EXCEPT ![c] = 2] ELSE hret
      BY <2>6, <3>2 DEF SendQueueBegin, SendQueueData
    <3>4. pc[c] \in {"run", "recv", "qbegin", "qdata"} BY <2>6 DEF SendQueueBegin, SendQueueData
    <3>5. QED BY <2>3, <3>1, <3>3, <3>4
  <2>7. QED BY <1>5, <2>2, <2>4, <2>5, <2>6 DEF HandlerApp, SendStep
<1>6. QED BY <1>2, <1>3, <1>4, <1>5 DEF ServerKind, ServeStep

\* A Call frame finds no entry of its sequence: no duplicate is reported.
LEMMA NoDuplicate ==
  ASSUME TypeOK, IsoInv, LifeInv, ServeRecv, Head(c2s).type = "call"
  PROVE  sstreams[Head(c2s).seq] = None
<1> DEFINE f == Head(c2s)
<1>1. f \in Frame /\ f.seq \in Seqs /\ f.id \in Calls /\ f = c2s[1] /\ 1 \in DOMAIN c2s
  BY ServeRecvIs, TailIs DEF TypeOK, WireTypeOK
<1>2. pc[f.id] = "none" /\ FrameOwned(f) BY <1>1 DEF LifeInv, CallOnce, IsoInv, WireOwned
<1> HIDE DEF f
<1>3. SUFFICES ASSUME sstreams[f.seq] # None PROVE FALSE BY DEF f
<1>4. PICK d \in Calls : d = sstreams[f.seq] BY <1>1, <1>3 DEF TypeOK, ServerTypeOK
<1>5. EntryOwned(f.seq, d) BY <1>1, <1>3, <1>4 DEF IsoInv, ServerOwned
<1>6. d = f.id BY <1>1, <1>2, <1>5, EntryIsOwner DEF IsoInv
<1>7. pc[d] \in Served BY <1>1, <1>3, <1>4 DEF LifeInv, ServerTable
<1>8. QED BY <1>2, <1>6, <1>7 DEF Served

LEMMA UnknownStep ==
  ASSUME TypeOK, IsoInv, LifeInv, Unknown, ServerKind
  PROVE  Unknown'
<1>1. CASE ServerQuietly BY <1>1 DEF ServerQuietly, Unknown
<1>2. CASE ServeRecv
  <2> DEFINE f == Head(c2s)
  <2>1. pc[Loop] = "serve" /\ Loop \in Actors BY <1>2 DEF ServeRecv, Actors
  <2>2. f.type = "call" => sstreams[f.seq] = None BY <1>2, NoDuplicate
  <2>3. QED BY <1>2, <2>1, <2>2, ServeRecvIs, LoopApart DEF Unknown, TypeOK, ServerTypeOK, PcTypeOK, EndPcs
<1>3. QED BY <1>1, <1>2, ServerMoves

LEMMA FramesTyped ==
  ASSUME TypeOK
  PROVE  /\ \A i \in DOMAIN c2s : c2s[i] \in Frame /\ c2s[i].id \in Calls
         /\ \A i \in DOMAIN s2c : s2c[i] \in Frame /\ s2c[i].id \in Calls
         /\ \A i \in DOMAIN mout : mout[i].frame \in Frame /\ mout[i].frame.id \in Calls
<1>1. c2s \in Seq(Frame) /\ s2c \in Seq(Frame) /\ mout \in Seq(Out) BY DEF TypeOK, WireTypeOK, ServerTypeOK
<1>2. \A i \in DOMAIN c2s : c2s[i] \in Frame BY <1>1
<1>3. \A i \in DOMAIN s2c : s2c[i] \in Frame BY <1>1
<1>4. \A i \in DOMAIN mout : mout[i] \in Out BY <1>1
<1>5. \A i \in DOMAIN mout : mout[i].frame \in Frame BY <1>4 DEF Out
<1>6. QED BY <1>2, <1>3, <1>5 DEF Frame

\* Every End frame of the server carries a true status.
LEMMA EndsTrueStep ==
  ASSUME TypeOK, LifeInv, StatusInv, ServerKind
  PROVE  EndsTrue'
<1> DEFINE EndTrueAfter(f) == f.type = "end" => VerdictAfter(f.id, f.val)
<1>1. OverStays BY OverMoves DEF LifeInv, CallLife, StatusInv
<1>2. ASSUME NEW f, f.id \in Calls, EndTrue(f) PROVE EndTrueAfter(f)
  BY <1>1, <1>2, VerdictStays DEF EndTrue
<1>3. \A i \in DOMAIN s2c : EndTrueAfter(s2c[i])
  BY <1>2, FramesTyped DEF StatusInv, EndsTrue
<1>4. \A i \in DOMAIN mout : EndTrueAfter(mout[i].frame)
  BY <1>2, FramesTyped DEF StatusInv, EndsTrue
<1>5. SUFFICES /\ \A i \in DOMAIN s2c' : EndTrueAfter(s2c'[i])
               /\ \A i \in DOMAIN mout' : EndTrueAfter(mout'[i].frame)
  BY DEF EndsTrue, EndTrue, Verdict, VerdictAfter, Over
<1> HIDE DEF EndTrueAfter
<1>6. CASE s2c' = s2c /\ mout' = mout BY <1>3, <1>4, <1>6
<1>7. CASE WriterSend
  <2> DEFINE h == Head(mout).frame
  <2>1. EndTrueAfter(h) BY <1>4, <1>7, WriterIs
  <2>2. s2c \in Seq(Frame) /\ h \in Frame BY <1>7, WriterIs
  <2>3. s2c' = s2c \/ s2c' = Append(s2c, h) BY <1>7, WriterIs
  <2> HIDE DEF h
  <2>4. \A i \in DOMAIN s2c' : s2c'[i] = h \/ (i \in DOMAIN s2c /\ s2c'[i] = s2c[i])
    BY <2>2, <2>3, AppendIs
  <2>5. \A i \in DOMAIN mout' : i + 1 \in DOMAIN mout /\ mout'[i] = mout[i + 1] BY <1>7, WriterIs
  <2>6. QED BY <1>3, <1>4, <2>1, <2>4, <2>5
<1>8. ASSUME NEW a \in Actors, NEW f \in Frame, Queued(a, f), s2c' = s2c
      PROVE  \A i \in DOMAIN mout' : EndTrueAfter(mout'[i].frame)
  <2>1. EndTrueAfter(f)
    <3>1. CASE pc[a] = "qend" /\ f = Fr(EndSeq(a), "end", EndId(a), EndCode(a))
      <4>1. f.id = EndId(a) /\ f.val = EndCode(a) BY <3>1 DEF Fr
      <4>2. CASE a = Loop
        BY <3>1, <4>1, <4>2 DEF EndId, EndCode, StatusInv, Unknown, EndPcs, EndTrueAfter, VerdictAfter
      <4>3. CASE a # Loop
        <5>1. a \in Calls /\ Over(a) BY <3>1, <4>3 DEF Actors, Over, EndPcs
        <5>2. hret[a] \in {0, 2} /\ Verdict(a, hret[a]) BY <5>1 DEF StatusInv, Settled, Verdict
        <5>3. QED BY <1>1, <4>1, <4>3, <5>1, <5>2, VerdictStays DEF EndId, EndCode, EndTrueAfter
      <4>4. QED BY <4>2, <4>3
    <3>2. CASE f.type # "end" BY <3>2 DEF EndTrueAfter
    <3>3. QED BY <1>8, <3>1, <3>2 DEF Queued, Emits, Fr
  <2>2. QED BY <1>4, <1>8, <2>1, QueuedIs
<1>9. QED BY <1>3, <1>6, <1>7, <1>8, ServerQueues

\* The client keeps what it is told.
LEMMA StatusClient ==
  ASSUME TypeOK, IsoInv, StatusInv, UNCHANGED serverVars, ClientKind
  PROVE  StatusInv'
<1> USE DEF TypeOK, ClientTypeOK
<1>0. UNCHANGED <<pc, hret, sitem, mout>> BY DEF serverVars, handlerVars
<1>1. Settled' /\ Unknown' BY <1>0 DEF StatusInv, Settled, Unknown, Over
<1>2. ASSUME s2c' = s2c PROVE EndsTrue'
  BY <1>0, <1>2 DEF StatusInv, EndsTrue, EndTrue, Verdict, Over
<1>3. ASSUME UNCHANGED <<s2c, cend, outcome>>, Lost => Lost', \A c \in Calls : ctxDone[c] => ctxDone'[c]
      PROVE  StatusInv'
  BY <1>0, <1>1, <1>2, <1>3 DEF StatusInv, EndedTrue, OutcomeTrue, Verdict, Over
<1>4. ASSUME NEW c \in Calls, ClientOpenStream(c) \/ CtxCancel(c) \/ WatchStep(c)
      PROVE  StatusInv'
  <2>1. UNCHANGED <<s2c, cend, outcome, cclosed, attachCancel>>
    BY <1>4, Zenon DEF ClientOpenStream, CtxCancel, WatchStep, WatchSelect, WatchSend, ClientSendFrame,
              wireVars, streamVars, callerVars, attachVars
  <2>2. \A d \in Calls : ctxDone[d] => ctxDone'[d]
    BY <1>4, Zenon DEF ClientOpenStream, CtxCancel, WatchStep, WatchSelect, WatchSend, callerVars
  <2>3. QED BY <1>3, <2>1, <2>2 DEF Lost
<1>5. ASSUME NEW c \in Calls,
             SendCall(c) \/ SendPayload(c) \/ SendClose(c) \/ StreamSend(c) \/ StreamCloseSend(c)
      PROVE  StatusInv'
  <2>1. UNCHANGED <<s2c, cend, outcome, cclosed, attachCancel, ctxDone>>
    BY <1>5, Zenon DEF SendCall, SendPayload, SendClose, StreamSend, StreamCloseSend, ClientSendFrame,
              wireVars, streamVars, attachVars
  <2>2. QED BY <1>3, <2>1 DEF Lost
<1>6. ASSUME NEW c \in Calls, NEW p, TakeInbound(c, p) PROVE StatusInv'
  BY <1>3, <1>6 DEF TakeInbound, attachVars, wireVars, Lost
<1>7. ASSUME NEW c \in Calls, NEW d, NEW code, Report(c, d, code),
             (cend[c] # None /\ code = cend[c]) \/ (ctxDone[c] /\ code = 4)
      PROVE  StatusInv'
  <2>1. UNCHANGED <<s2c, cend, cclosed, attachCancel, ctxDone>> BY <1>7 DEF Report, attachVars, wireVars
  <2>2. outcome'[c].code = code /\ \A e \in Calls : e # c => outcome'[e] = outcome[e] BY <1>7 DEF Report
  <2>3. Verdict(c, code) \/ (code = 14 /\ Lost) \/ (code = 4 /\ ctxDone[c])
    BY <1>7 DEF StatusInv, EndedTrue
  <2>4. OutcomeTrue'
    BY <1>0, <2>1, <2>2, <2>3 DEF StatusInv, OutcomeTrue, Verdict, Over, Lost
  <2>5. EndedTrue' BY <1>0, <2>1 DEF StatusInv, EndedTrue, Verdict, Over, Lost
  <2>6. QED BY <1>1, <1>2, <2>1, <2>4, <2>5 DEF StatusInv
<1>8. ASSUME NEW c \in Calls, AwaitResponse(c) \/ AwaitEnd(c) \/ StreamRecvSelect(c) PROVE StatusInv'
  BY <1>6, <1>7, <1>8 DEF AwaitResponse, AwaitEnd, StreamRecvSelect, UnaryReturn
<1>9. ASSUME NEW c \in Calls, StreamRecv(c) PROVE StatusInv'
  BY <1>3, <1>6, <1>9 DEF StreamRecv, streamVars, attachVars, wireVars, Lost
<1>10. CASE AttachDeliver \/ ConnClose \/ ConnCloseChannel
  <2>1. UNCHANGED <<s2c, cend, outcome, ctxDone>>
    BY <1>10 DEF AttachDeliver, ConnClose, ConnCloseChannel, wireVars, streamVars, callerVars, clientVars
  <2>2. Lost => Lost'
    BY <1>10 DEF AttachDeliver, ConnClose, ConnCloseChannel, wireVars, clientVars, attachVars, Lost
  <2>3. QED BY <1>3, <2>1, <2>2
<1>11. CASE AttachFail
  <2>1. UNCHANGED <<s2c, outcome, ctxDone, cclosed, attachCancel>> /\ Lost
    BY <1>11 DEF AttachFail, callerVars, wireVars, Lost
  <2>2. \A c \in Calls : cend'[c] = 14 \/ cend'[c] = cend[c] BY <1>11 DEF AttachFail
  <2>3. EndedTrue' BY <1>0, <2>1, <2>2 DEF StatusInv, EndedTrue, Verdict, Over, Lost
  <2>4. OutcomeTrue' BY <1>0, <2>1 DEF StatusInv, OutcomeTrue, Verdict, Over, Lost
  <2>5. QED BY <1>1, <1>2, <2>1, <2>3, <2>4 DEF StatusInv
<1>12. CASE AttachRecv
  <2> DEFINE f == Head(s2c)
             cs == cstreams[f.seq]
  <2>1. s2c \in Seq(Frame) /\ s2c # <<>> /\ s2c' = Tail(s2c) BY <1>12 DEF AttachRecv, ClientTake, WireTypeOK
  <2>2. /\ f \in Frame /\ f = s2c[1] /\ 1 \in DOMAIN s2c
        /\ \A i \in DOMAIN s2c' : i + 1 \in DOMAIN s2c /\ s2c'[i] = s2c[i + 1]
    BY <2>1, TailIs
  <2>3. UNCHANGED <<outcome, ctxDone, cclosed, attachCancel>>
    BY <1>12 DEF AttachRecv, ClientTake, callerVars
  <2>4. EndTrue(f) /\ FrameOwned(f) BY <2>2 DEF StatusInv, EndsTrue, IsoInv, WireOwned
  <2>5. EndsTrue'
    <3>1. \A i \in DOMAIN s2c' : EndTrue(s2c'[i]) BY <2>2 DEF StatusInv, EndsTrue
    <3>2. QED BY <1>0, <3>1 DEF StatusInv, EndsTrue, EndTrue, Verdict, Over
  <2>6. f.seq \in Seqs /\ f.id \in Calls BY <2>2 DEF Frame
  <2>7. cs # None => cs = f.id
    <3>1. ASSUME cs # None PROVE cs = f.id
      <4>1. cs \in Calls BY <2>6, <3>1
      <4>2. EntryOwned(f.seq, cs) BY <2>6, <3>1 DEF IsoInv, ClientOwned
      <4>3. QED BY <2>2, <2>4, <4>1, <4>2, EntryIsOwner DEF IsoInv
    <3>2. QED BY <3>1
  <2>8. \/ cend' = cend
        \/ cs # None /\ f.type = "end" /\ cend' = [cend EXCEPT ![cs] = IF @ = None THEN f.val ELSE @]
    BY <1>12 DEF AttachRecv, streamVars
  <2> HIDE DEF f, cs
  <2>9. \A c \in Calls : cend'[c] = cend[c] \/ (f.type = "end" /\ c = f.id /\ cend'[c] = f.val)
    BY <2>6, <2>7, <2>8
  <2>10. EndedTrue'
    BY <1>0, <2>3, <2>4, <2>9 DEF StatusInv, EndedTrue, EndTrue, Verdict, Over, Lost
  <2>11. OutcomeTrue' BY <1>0, <2>3 DEF StatusInv, OutcomeTrue, Verdict, Over, Lost
  <2>12. QED BY <1>1, <2>5, <2>10, <2>11 DEF StatusInv
<1>13. QED BY <1>4, <1>5, <1>8, <1>9, <1>10, <1>11, <1>12 DEF ClientKind, CallerStep, AttachStep

LEMMA StatusStep == TypeOK /\ IsoInv /\ LifeInv /\ StatusInv /\ [Next]_vars => StatusInv'
<1> SUFFICES ASSUME TypeOK, IsoInv, LifeInv, StatusInv, [Next]_vars PROVE StatusInv'
  OBVIOUS
<1>1. ASSUME UNCHANGED <<clientVars, serverVars, s2c>>, cclosed => cclosed' PROVE StatusInv'
  <2>1. UNCHANGED <<pc, hret, sitem, mout, cend, outcome, attachCancel, ctxDone>>
    BY <1>1 DEF serverVars, handlerVars, clientVars, streamVars, callerVars, attachVars
  <2>2. Settled' /\ Unknown' BY <2>1 DEF StatusInv, Settled, Unknown, Over
  <2>3. EndsTrue' BY <1>1, <2>1 DEF StatusInv, EndsTrue, EndTrue, Verdict, Over
  <2>4. EndedTrue' /\ OutcomeTrue' BY <1>1, <2>1 DEF StatusInv, EndedTrue, OutcomeTrue, Verdict, Over, Lost
  <2>5. QED BY <2>2, <2>3, <2>4 DEF StatusInv
<1>2. CASE UNCHANGED vars BY <1>1, <1>2 DEF vars, wireVars
<1>3. CASE UNCHANGED serverVars /\ ClientKind BY <1>3, StatusClient
<1>4. CASE UNCHANGED clientVars /\ ServerKind
  <2>1. OverStays /\ Settled' BY <1>4, OverMoves DEF LifeInv, CallLife, StatusInv
  <2>2. EndsTrue' BY <1>4, EndsTrueStep
  <2>3. Unknown' BY <1>4, UnknownStep DEF StatusInv
  <2>4. UNCHANGED <<cend, outcome, attachCancel, ctxDone>>
    BY <1>4 DEF clientVars, streamVars, callerVars, attachVars
  <2>5. cclosed' = cclosed BY <1>4, ServerQueues, WriterIs
  <2>6. EndedTrue'
    <3>1. \A c \in Calls : cend[c] # None => VerdictAfter(c, cend[c]) \/ (cend[c] = 14 /\ Lost)
      BY <2>1, VerdictStays DEF StatusInv, EndedTrue
    <3>2. QED BY <2>4, <2>5, <3>1 DEF EndedTrue, Verdict, VerdictAfter, Over, Lost
  <2>7. OutcomeTrue'
    <3>1. \A c \in Calls : outcome[c] # None => \/ VerdictAfter(c, outcome[c].code)
                                                \/ (outcome[c].code = 14 /\ Lost)
                                                \/ (outcome[c].code = 4 /\ ctxDone[c])
      BY <2>1, VerdictStays DEF StatusInv, OutcomeTrue
    <3>2. QED BY <2>4, <2>5, <3>1 DEF OutcomeTrue, Verdict, VerdictAfter, Over, Lost
  <2>8. QED BY <2>1, <2>2, <2>3, <2>6, <2>7 DEF StatusInv
<1>5. CASE (ServerConnClose \/ OnClose) /\ UNCHANGED <<clientVars, serverVars>>
  BY <1>1, <1>5 DEF ServerConnClose, OnClose
<1>6. QED BY <1>2, <1>3, <1>4, <1>5, Kinds

LEMMA StatusInit == Init => StatusInv
<1> SUFFICES ASSUME Init PROVE StatusInv
  OBVIOUS
<1>1. pc[Loop] = "serve" /\ \A c \in Calls : pc[c] = "none"
  BY LoopApart DEF Init, ServerInit, Actors
<1>2. Settled /\ Unknown BY <1>1 DEF Settled, Unknown, Over, EndPcs
<1>3. s2c = <<>> /\ mout = <<>> /\ \A c \in Calls : cend[c] = None /\ outcome[c] = None
  BY DEF Init, WireInit, ServerInit, ClientInit
<1>4. QED BY <1>2, <1>3 DEF StatusInv, EndsTrue, EndedTrue, OutcomeTrue

(***************************************************************************)
(* As long as the counter has not come around, a caller's status is the    *)
(* one its own handler returned, or the library's for a cause that really  *)
(* occurred; a duplicate sequence is never reported.  For any calls,       *)
(* capacities, cancellations and closes.                                   *)
(***************************************************************************)
THEOREM StatusesAreTrue == Spec /\ []NoWrap => []StatusIsTrue
<1>1. StatusInv => StatusIsTrue
  BY DEF StatusInv, OutcomeTrue, Verdict, Lost, StatusIsTrue
<1>2. QED BY <1>1, StatusInit, StatusStep, IsoHolds, LifeHolds, TypeCorrect, PTL DEF Spec

-----------------------------------------------------------------------------
\* End is last.

\* endStream before its End frame is queued.
Ending == {"end", "qebegin", "delete", "qend"}

\* Nobody will queue another frame of c.
Finished(c) ==
  \/ pc[c] \in {"wend", "done"}
  \/ /\ pc[c] = "none" /\ CallGone(c)
     /\ ~(pc[Loop] \in Ending /\ sitem.frame.id = c)

\* An End frame is its call's last, on the wire and in the queue behind it.
LastInv ==
  /\ \A i \in DOMAIN s2c : s2c[i].type = "end" =>
       /\ Finished(s2c[i].id)
       /\ \A j \in DOMAIN s2c : s2c[j].id = s2c[i].id => j <= i
       /\ \A j \in DOMAIN mout : mout[j].frame.id # s2c[i].id
  /\ \A i \in DOMAIN mout : mout[i].frame.type = "end" =>
       /\ Finished(mout[i].frame.id)
       /\ \A j \in DOMAIN mout : mout[j].frame.id = mout[i].frame.id => j <= i

FinishedAfter(c) ==
  \/ pc'[c] \in {"wend", "done"}
  \/ /\ pc'[c] = "none" /\ cpc'[c] \notin {"idle", "call"}
     /\ \A i \in DOMAIN c2s' : ~(c2s'[i].type = "call" /\ c2s'[i].id = c)
     /\ ~(pc'[Loop] \in Ending /\ sitem'.frame.id = c)

\* The ends of endStream, beside ServerQuietly.
LEMMA EndingMoves ==
  ASSUME TypeOK, ServerKind
  PROVE  \/ ServeRecv
         \/ /\ pc'[Loop] \in Ending => pc[Loop] \in Ending /\ sitem' = sitem
            /\ \A c \in Calls : pc[c] \in {"wend", "done"} => pc'[c] \in {"wend", "done"}
<1> USE DEF TypeOK, ServerTypeOK, PcTypeOK
<1>0. Loop \in Actors BY DEF Actors
<1>1. CASE ServeDeliver \/ ServeExit
  BY <1>0, <1>1, LoopApart DEF ServeDeliver, ServeExit, Ending
<1>2. CASE WriterStep \/ ServeCancel
  BY <1>2 DEF WriterStep, WriterSend, WriterExit, ServeCancel
<1>3. ASSUME NEW a \in Actors, EndStep(a)
      PROVE  /\ pc'[Loop] \in Ending => pc[Loop] \in Ending /\ sitem' = sitem
             /\ \A c \in Calls : pc[c] \in {"wend", "done"} => pc'[c] \in {"wend", "done"}
  <2>1. CASE EndLookup(a) \/ EndQueueBegin(a) \/ EndDelete(a)
    <3>1. PICK p \in Ending : pc' = [pc EXCEPT ![a] = p] /\ pc[a] \in Ending /\ sitem' = sitem
      BY <2>1 DEF EndLookup, EndQueueBegin, EndDelete, Enqueue, Ending
    <3>2. QED BY <1>0, <3>1, LoopApart DEF Ending
  <2>2. CASE EndQueueEnd(a)
    <3>1. pc' = [pc EXCEPT ![a] = "wend"] /\ pc[a] = "qend" /\ sitem' = sitem
      BY <2>2 DEF EndQueueEnd, Enqueue
    <3>2. QED BY <1>0, <3>1, LoopApart DEF Ending
  <2>3. CASE EndDone(a)
    <3>1. /\ pc' = [pc EXCEPT ![a] = IF a = Loop THEN "serve" ELSE "done"]
          /\ sitem' = IF a = Loop THEN None ELSE sitem
      BY <2>3 DEF EndDone
    <3>2. QED BY <1>0, <3>1, LoopApart DEF Ending
  <2>4. QED BY <1>3, <2>1, <2>2, <2>3 DEF EndStep
<1>4. ASSUME NEW c \in Calls, HandlerApp(c) \/ SendStep(c) \/ DeadlineFires(c)
      PROVE  /\ pc'[Loop] \in Ending => pc[Loop] \in Ending /\ sitem' = sitem
             /\ \A d \in Calls : pc[d] \in {"wend", "done"} => pc'[d] \in {"wend", "done"}
  <2>1. sitem' = sitem /\ (pc' = pc \/ (pc[c] \notin {"wend", "done"} /\ \E p : pc' = [pc EXCEPT ![c] = p]))
    BY <1>4 DEF HandlerApp, HandlerRecv, HandlerRecvSelect, HandlerSend, HandlerReturn, SendStep, TakeRequest,
                SendQueueBegin, SendQueueData, SendGiveUp, DeadlineFires, Return, Enqueue
  <2>2. QED BY <1>0, <2>1, LoopApart
<1>5. QED BY <1>1, <1>2, <1>3, <1>4 DEF ServerKind, ServeStep

LEMMA FinishedStays ==
  ASSUME TypeOK, LifeInv, NEW c \in Calls, Finished(c),
         \/ UNCHANGED serverVars /\ ClientKind
         \/ UNCHANGED clientVars /\ ServerKind
         \/ UNCHANGED <<clientVars, serverVars, c2s>>
  PROVE  FinishedAfter(c)
<1>1. CASE UNCHANGED <<clientVars, serverVars, c2s>>
  <2>1. UNCHANGED <<pc, sitem, cpc, c2s>> BY <1>1 DEF clientVars, callerVars, serverVars
  <2>2. QED BY <2>1 DEF Finished, FinishedAfter, CallGone, Called
<1>2. CASE UNCHANGED serverVars /\ ClientKind
  <2>1. UNCHANGED <<pc, sitem>> BY <1>2 DEF serverVars
  <2>2. CASE pc[c] \in {"wend", "done"} BY <2>1, <2>2 DEF FinishedAfter
  <2>3. CASE CallGone(c) /\ pc[c] = "none" /\ ~(pc[Loop] \in Ending /\ sitem.frame.id = c)
    <3>1. cpc'[c] \notin {"idle", "call"} BY <1>2, <2>3, ClientMoves DEF CallGone, Called
    <3>2. c2s \in Seq(Frame) BY DEF TypeOK, WireTypeOK
    <3>3. \A i \in DOMAIN c2s' : ~(c2s'[i].type = "call" /\ c2s'[i].id = c)
      <4>1. CASE c2s' = c2s BY <2>3, <4>1 DEF CallGone
      <4>2. ASSUME NEW f \in Frame, f.type # "call" \/ f.id # c, c2s' = Append(c2s, f)
            PROVE  \A i \in DOMAIN c2s' : ~(c2s'[i].type = "call" /\ c2s'[i].id = c)
        BY <2>3, <3>2, <4>2, AppendIs DEF CallGone
      <4>3. ASSUME NEW d \in Calls, cpc[d] = "call", CallOf(d) \in Frame
            PROVE  CallOf(d).id # c
        BY <2>3, <4>3 DEF CallGone, Called, CallOf, Fr
      <4>4. QED BY <1>2, <4>1, <4>2, <4>3, ClientMoves
    <3>4. QED BY <2>1, <2>3, <3>1, <3>3 DEF FinishedAfter
  <2>4. QED BY <2>2, <2>3 DEF Finished
<1>3. CASE UNCHANGED clientVars /\ ServerKind
  <2>1. cpc' = cpc BY <1>3 DEF clientVars, callerVars
  <2>2. CASE ServerQuietly /\ ~ServeRecv
    BY <1>3, <2>1, <2>2, EndingMoves DEF ServerQuietly, Finished, FinishedAfter, CallGone, Called
  <2>3. CASE ServeRecv
    <3> DEFINE f == Head(c2s)
    <3>1. /\ c2s \in Seq(Frame) /\ c2s # <<>> /\ c2s' = Tail(c2s) /\ f.id \in Calls
          /\ pc[Loop] = "serve" /\ Loop \in Actors
      BY <2>3, ServeRecvIs DEF TypeOK, WireTypeOK, ServeRecv, Actors
    <3>2. /\ 1 \in DOMAIN c2s /\ f = c2s[1]
          /\ \A i \in DOMAIN c2s' : i + 1 \in DOMAIN c2s /\ c2s'[i] = c2s[i + 1]
      BY <3>1, TailIs
    <3>3. pc[c] \in {"wend", "done"} \/ CallGone(c) => ~(f.type = "call" /\ f.id = c)
      BY <3>2 DEF CallGone, LifeInv, CallOnce
    <3>4. pc'[c] = pc[c]
      <4>1. \/ pc' = pc \/ pc' = [pc EXCEPT ![Loop] = "deliver"] \/ pc' = [pc EXCEPT ![Loop] = "end"]
            \/ pc' = [pc EXCEPT ![f.id] = "run"] /\ f.type = "call"
        BY <2>3, ServeRecvIs
      <4>2. QED BY <3>3, <4>1, LoopApart DEF Finished, TypeOK, ServerTypeOK, PcTypeOK
    <3>5. pc'[Loop] \in Ending => f.type = "call" /\ sitem'.frame = f
      BY <2>3, <3>1, ServeRecvIs, LoopApart DEF TypeOK, ServerTypeOK, PcTypeOK, Ending
    <3> HIDE DEF f
    <3>6. QED BY <2>1, <3>2, <3>3, <3>4, <3>5 DEF Finished, FinishedAfter, CallGone, Called
  <2>4. QED BY <1>3, <2>2, <2>3, ServerMoves
<1>4. QED BY <1>1, <1>2, <1>3

\* Whose frame an actor queues, and that its call is not finished yet.
LEMMA EmitsUnfinished ==
  ASSUME TypeOK, LifeInv, NEW a \in Actors, NEW f \in Frame, Emits(a, f)
  PROVE  /\ f.id \in Calls /\ ~Finished(f.id)
         /\ a # Loop => f.id = a
         /\ a = Loop => f.id = sitem.frame.id /\ pc[Loop] \in {"qend", "qebegin"} /\ pc[f.id] = "none" /\ CallGone(f.id)
         /\ f.type = "end" <=> pc[a] = "qend"
<1>1. f.id \in Calls BY DEF Frame
<1>2. f.type = "end" <=> pc[a] = "qend" BY DEF Emits, Fr
<1>3. CASE a = Loop
  <2>1. f.id = sitem.frame.id /\ pc[Loop] \in {"qend", "qebegin"}
    BY <1>3, LoopApart DEF Emits, EndId, Fr
  <2>2. pc[f.id] = "none" /\ CallGone(f.id) BY <2>1 DEF LifeInv, Refused, EndPcs
  <2>3. QED BY <1>1, <1>2, <1>3, <2>1, <2>2 DEF Finished, Ending
<1>4. CASE a # Loop
  <2>1. f.id = a /\ pc[a] \in {"qend", "qebegin", "qbegin", "qdata"} BY <1>4 DEF Emits, EndId, Fr
  <2>2. QED BY <1>1, <1>2, <1>4, <2>1 DEF Finished
<1>5. QED BY <1>3, <1>4

\* LastInv in terms of the state after a step.
LastAfter ==
  /\ \A i \in DOMAIN s2c' : s2c'[i].type = "end" =>
       /\ FinishedAfter(s2c'[i].id)
       /\ \A j \in DOMAIN s2c' : s2c'[j].id = s2c'[i].id => j <= i
       /\ \A j \in DOMAIN mout' : mout'[j].frame.id # s2c'[i].id
  /\ \A i \in DOMAIN mout' : mout'[i].frame.type = "end" =>
       /\ FinishedAfter(mout'[i].frame.id)
       /\ \A j \in DOMAIN mout' : mout'[j].frame.id = mout'[i].frame.id => j <= i

LEMMA LastStep == TypeOK /\ LifeInv /\ LastInv /\ [Next]_vars => LastInv'
<1> SUFFICES ASSUME TypeOK, LifeInv, LastInv, [Next]_vars PROVE LastAfter
  BY DEF LastInv, LastAfter, Finished, FinishedAfter, CallGone, Called
<1>1. \/ UNCHANGED serverVars /\ ClientKind
      \/ UNCHANGED clientVars /\ ServerKind
      \/ UNCHANGED <<clientVars, serverVars, c2s, s2c>>
  BY Kinds DEF vars, wireVars, ServerConnClose, OnClose
<1>2. \A c \in Calls : Finished(c) => FinishedAfter(c) BY <1>1, FinishedStays
<1>3. /\ \A i \in DOMAIN s2c : s2c[i].type = "end" => FinishedAfter(s2c[i].id)
      /\ \A i \in DOMAIN mout : mout[i].frame.type = "end" => FinishedAfter(mout[i].frame.id)
  BY <1>2, FramesTyped DEF LastInv
<1>4. s2c \in Seq(Frame) /\ mout \in Seq(Out) BY DEF TypeOK, WireTypeOK, ServerTypeOK
<1>5. CASE UNCHANGED <<s2c, mout>> BY <1>3, <1>5 DEF LastInv, LastAfter
<1>6. CASE UNCHANGED <<clientVars, serverVars, c2s, s2c>> BY <1>5, <1>6 DEF serverVars
<1>7. CASE UNCHANGED serverVars /\ ClientKind
  <2>1. mout' = mout BY <1>7 DEF serverVars
  <2>2. s2c' = s2c \/ AttachRecv
    BY <1>7, Zenon DEF ClientKind, ClientOpenStream, CallerStep, SendCall, SendPayload, SendClose, ClientSendFrame,
        AwaitResponse, AwaitEnd, StreamRecv, StreamRecvSelect, StreamSend, StreamCloseSend, TakeInbound,
        UnaryReturn, Report, CtxCancel, WatchStep, WatchSelect, WatchSend, AttachStep, AttachDeliver, AttachFail,
        ConnClose, ConnCloseChannel, wireVars
  <2>3. CASE s2c' = s2c BY <1>5, <2>1, <2>3
  <2>4. CASE AttachRecv
    <3>1. s2c # <<>> /\ s2c' = Tail(s2c) BY <2>4 DEF AttachRecv, ClientTake
    <3>2. \A i \in DOMAIN s2c' : i \in Nat /\ i + 1 \in DOMAIN s2c /\ s2c'[i] = s2c[i + 1]
      BY <1>4, <3>1, TailIs
    <3>3. ASSUME NEW i \in DOMAIN s2c', s2c'[i].type = "end"
          PROVE  /\ FinishedAfter(s2c'[i].id)
                 /\ \A j \in DOMAIN s2c' : s2c'[j].id = s2c'[i].id => j <= i
                 /\ \A j \in DOMAIN mout' : mout'[j].frame.id # s2c'[i].id
      <4>1. i \in Nat /\ i + 1 \in DOMAIN s2c /\ s2c'[i] = s2c[i + 1] BY <3>2
      <4>2. \A j \in DOMAIN s2c : s2c[j].id = s2c[i + 1].id => j <= i + 1 BY <3>3, <4>1 DEF LastInv
      <4>3. \A j \in DOMAIN s2c' : s2c'[j].id = s2c'[i].id => j <= i BY <3>2, <4>1, <4>2
      <4>4. QED BY <1>3, <2>1, <3>3, <4>1, <4>3 DEF LastInv
    <3>4. QED BY <1>3, <2>1, <3>3 DEF LastInv, LastAfter
  <2>5. QED BY <2>2, <2>3, <2>4
<1>8. CASE WriterSend
  <2> DEFINE h == Head(mout).frame
  <2>1. /\ mout[1].frame = h /\ 1 \in DOMAIN mout /\ h \in Frame
        /\ \A i \in DOMAIN mout' : i \in Nat \ {0} /\ i + 1 \in DOMAIN mout /\ mout'[i] = mout[i + 1]
        /\ s2c' = s2c \/ s2c' = Append(s2c, h)
    BY <1>8, WriterIs
  <2> HIDE DEF h
  <2>2. ASSUME NEW i \in DOMAIN mout', mout'[i].frame.type = "end"
        PROVE  /\ FinishedAfter(mout'[i].frame.id)
               /\ \A j \in DOMAIN mout' : mout'[j].frame.id = mout'[i].frame.id => j <= i
    <3>1. i \in Nat /\ i + 1 \in DOMAIN mout /\ mout'[i] = mout[i + 1] BY <2>1
    <3>2. \A j \in DOMAIN mout : mout[j].frame.id = mout[i + 1].frame.id => j <= i + 1 BY <2>2, <3>1 DEF LastInv
    <3>3. \A j \in DOMAIN mout' : mout'[j].frame.id = mout'[i].frame.id => j <= i BY <2>1, <3>1, <3>2
    <3>4. QED BY <1>3, <2>2, <3>1, <3>3
  <2>3. CASE s2c' = s2c BY <1>3, <2>1, <2>2, <2>3 DEF LastInv, LastAfter
  <2>4. CASE s2c' = Append(s2c, h)
    <3>1. /\ Len(s2c) \in Nat
          /\ \A i \in DOMAIN s2c' : \/ i \in DOMAIN s2c /\ i \in 1 .. Len(s2c) /\ s2c'[i] = s2c[i]
                                    \/ i = Len(s2c) + 1 /\ s2c'[i] = h
      BY <1>4, <2>1, <2>4, AppendIs
    <3>2. \A i \in DOMAIN s2c : s2c[i].type = "end" => h.id # s2c[i].id BY <2>1 DEF LastInv
    <3>3. h.type = "end" => \A j \in DOMAIN mout' : mout'[j].frame.id # h.id
      <4>1. ASSUME h.type = "end", NEW j \in DOMAIN mout' PROVE mout'[j].frame.id # h.id
        <5>1. j \in Nat \ {0} /\ j + 1 \in DOMAIN mout /\ mout'[j] = mout[j + 1] BY <2>1
        <5>2. mout[j + 1].frame.id = h.id => j + 1 <= 1 BY <2>1, <4>1, <5>1 DEF LastInv
        <5>3. QED BY <5>1, <5>2
      <4>2. QED BY <4>1
    <3>4. ASSUME NEW i \in DOMAIN s2c', s2c'[i].type = "end"
          PROVE  /\ FinishedAfter(s2c'[i].id)
                 /\ \A j \in DOMAIN s2c' : s2c'[j].id = s2c'[i].id => j <= i
                 /\ \A j \in DOMAIN mout' : mout'[j].frame.id # s2c'[i].id
      <4>1. CASE i \in DOMAIN s2c /\ i \in 1 .. Len(s2c) /\ s2c'[i] = s2c[i]
        <5>1. \A j \in DOMAIN mout : mout[j].frame.id # s2c[i].id BY <3>4, <4>1 DEF LastInv
        <5>2. \A j \in DOMAIN mout' : mout'[j].frame.id # s2c'[i].id BY <2>1, <4>1, <5>1
        <5>3. \A j \in DOMAIN s2c' : s2c'[j].id = s2c'[i].id => j <= i
          BY <3>1, <3>2, <3>4, <4>1 DEF LastInv
        <5>4. QED BY <1>3, <3>4, <4>1, <5>2, <5>3
      <4>2. CASE i = Len(s2c) + 1 /\ s2c'[i] = h
        BY <1>3, <2>1, <3>1, <3>3, <3>4, <4>2
      <4>3. QED BY <3>1, <4>1, <4>2
    <3>5. QED BY <2>2, <3>4 DEF LastAfter
  <2>5. QED BY <2>1, <2>3, <2>4
<1>9. ASSUME UNCHANGED clientVars, s2c' = s2c, NEW a \in Actors, NEW f \in Frame, Queued(a, f)
      PROVE  LastAfter
  <2>1. Emits(a, f) /\ sitem' = sitem BY <1>9 DEF Queued
  <2>2. f.id \in Calls /\ ~Finished(f.id) BY <2>1, EmitsUnfinished
  <2>3. /\ \A i \in DOMAIN s2c : s2c[i].type = "end" => s2c[i].id # f.id
        /\ \A i \in DOMAIN mout : mout[i].frame.type = "end" => mout[i].frame.id # f.id
    BY <2>2 DEF LastInv
  <2>4. f.type = "end" => FinishedAfter(f.id)
    <3> SUFFICES ASSUME f.type = "end" PROVE FinishedAfter(f.id)
      OBVIOUS
    <3>1. pc[a] = "qend" /\ pc'[a] = "wend" BY <2>1, EmitsUnfinished, EmitsPc
    <3>2. CASE a # Loop BY <2>1, <3>1, <3>2, EmitsUnfinished DEF FinishedAfter
    <3>3. CASE a = Loop
      <4>1. pc[f.id] = "none" /\ CallGone(f.id) BY <2>1, <3>3, EmitsUnfinished
      <4>2. pc'[f.id] = pc[f.id] BY <2>1, <2>2, <3>3, EmitsPc, LoopApart
      <4>3. c2s' = c2s /\ cpc' = cpc
        <5>1. Len(mout') = Len(mout) + 1 /\ Len(mout) \in Nat BY <1>9, QueuedIs
        <5>2. pc[Loop] # "serve" BY <3>1, <3>3
        <5>3. ServerKind
          BY <1>1, <5>1, <1>9 DEF serverVars
        <5>4. QED BY <1>9, <5>2, <5>3, ServerMoves DEF ServeRecv, ServerQuietly, clientVars, callerVars
      <4>4. QED BY <3>1, <3>3, <4>1, <4>2, <4>3 DEF FinishedAfter, CallGone, Called, Ending
    <3>4. QED BY <3>2, <3>3
  <2>5. /\ Len(mout) \in Nat
        /\ \A i \in DOMAIN mout' : \/ i \in DOMAIN mout /\ i \in 1 .. Len(mout) /\ mout'[i] = mout[i]
                                   \/ i = Len(mout) + 1 /\ mout'[i].frame = f
    BY <1>9, QueuedIs
  <2>6. \A i \in DOMAIN s2c' : s2c'[i].type = "end" => \A j \in DOMAIN mout' : mout'[j].frame.id # s2c'[i].id
    BY <1>9, <2>3, <2>5 DEF LastInv
  <2>7. ASSUME NEW i \in DOMAIN mout', mout'[i].frame.type = "end"
        PROVE  /\ FinishedAfter(mout'[i].frame.id)
               /\ \A j \in DOMAIN mout' : mout'[j].frame.id = mout'[i].frame.id => j <= i
    <3>1. CASE i \in DOMAIN mout /\ i \in 1 .. Len(mout) /\ mout'[i] = mout[i]
      BY <1>3, <2>3, <2>5, <2>7, <3>1 DEF LastInv
    <3>2. CASE i = Len(mout) + 1 /\ mout'[i].frame = f BY <2>4, <2>5, <2>7, <3>2
    <3>3. QED BY <2>5, <3>1, <3>2
  <2>8. QED BY <1>3, <1>9, <2>6, <2>7 DEF LastInv, LastAfter
<1>10. CASE UNCHANGED clientVars /\ ServerKind
  BY <1>5, <1>8, <1>9, <1>10, ServerQueues
<1>11. QED BY <1>1, <1>6, <1>7, <1>10

(***************************************************************************)
(* As long as the counter has not come around, nothing of a sequence       *)
(* follows its End, on the wire or in the multiplexer's queue, whichever   *)
(* of the handler and the Serve loop ended it.                             *)
(***************************************************************************)
THEOREM EndStaysLast == Spec /\ []NoWrap => []EndIsLast
<1>1. Init => LastInv BY DEF Init, WireInit, ServerInit, LastInv
<1>2. TypeOK /\ IsoInv /\ LastInv => EndIsLast
  <2> SUFFICES ASSUME TypeOK, IsoInv, LastInv, NEW i \in DOMAIN s2c, s2c[i].type = "end"
               PROVE  /\ \A j \in DOMAIN s2c : s2c[j].seq = s2c[i].seq => j <= i
                      /\ \A j \in DOMAIN mout : mout[j].frame.seq # s2c[i].seq
    BY DEF EndIsLast
  <2>1. \A f, g \in Frame : FrameOwned(f) /\ FrameOwned(g) /\ f.seq = g.seq => f.id = g.id
    BY DEF IsoInv, SeqsDistinct, FrameOwned, Frame
  <2>2. s2c[i] \in Frame /\ FrameOwned(s2c[i]) BY FramesTyped DEF IsoInv, WireOwned
  <2>3. \A j \in DOMAIN s2c : s2c[j].seq = s2c[i].seq => s2c[j].id = s2c[i].id
    BY <2>1, <2>2, FramesTyped DEF IsoInv, WireOwned
  <2>4. \A j \in DOMAIN mout : mout[j].frame.seq = s2c[i].seq => mout[j].frame.id = s2c[i].id
    BY <2>1, <2>2, FramesTyped DEF IsoInv, ServerOwned
  <2>5. QED BY <2>3, <2>4 DEF LastInv
<1>3. QED BY <1>1, <1>2, LastStep, IsoHolds, LifeHolds, TypeCorrect, PTL DEF Spec

-----------------------------------------------------------------------------
\* The inline request.

\* The stream's deadline passed or Serve's ctx ended: the request may be lost.
Excused(c) == serveCancel \/ (c \in Deadlined /\ scancel[c])

\* A Call frame says whether its request rides inline.
CallsInline ==
  \A i \in DOMAIN c2s : c2s[i].type = "call" /\ c2s[i].id \in Inline => c2s[i].val > 0

\* A handler that waits, or has seen io.EOF, has had its inline request; before
\* that the request is in its queue.
Supplied ==
  \A c \in Calls : /\ pc[c] = "none" => ~eof[c]
                   /\ c \in Inline /\ pc[c] # "none" /\ ~Excused(c) =>
                        /\ sgot[c] # <<>> \/ sin[c] # <<>>
                        /\ (pc[c] = "recv" \/ eof[c]) => sgot[c] # <<>>

InlineInv == CallsInline /\ Supplied

LEMMA CallsInlineStep ==
  ASSUME TypeOK, CallsInline,
         \/ c2s' = c2s
         \/ c2s # <<>> /\ c2s' = Tail(c2s)
         \/ \E f \in Frame : c2s' = Append(c2s, f) /\ (f.type = "call" /\ f.id \in Inline => f.val > 0)
  PROVE  CallsInline'
<1>1. c2s \in Seq(Frame) BY DEF TypeOK, WireTypeOK
<1>2. CASE c2s' = c2s BY <1>2 DEF CallsInline
<1>3. CASE c2s # <<>> /\ c2s' = Tail(c2s)
  <2>1. \A i \in DOMAIN c2s' : i + 1 \in DOMAIN c2s /\ c2s'[i] = c2s[i + 1] BY <1>1, <1>3, TailIs
  <2>2. QED BY <2>1 DEF CallsInline
<1>4. ASSUME NEW f \in Frame, c2s' = Append(c2s, f), f.type = "call" /\ f.id \in Inline => f.val > 0
      PROVE  CallsInline'
  <2>1. \A i \in DOMAIN c2s' : (i \in DOMAIN c2s /\ c2s'[i] = c2s[i]) \/ c2s'[i] = f
    BY <1>1, <1>4, AppendIs
  <2>2. QED BY <1>4, <2>1 DEF CallsInline
<1>5. QED BY <1>2, <1>3, <1>4

LEMMA NotEmpty ==
  /\ \A S : \A q \in Seq(S), m \in S : Append(q, m) # <<>>
  /\ \A m : <<m>> # <<>>
<1>1. ASSUME NEW S, NEW q \in Seq(S), NEW m \in S PROVE Append(q, m) # <<>>
  <2>1. Len(Append(q, m)) = Len(q) + 1 /\ Len(q) \in Nat BY <1>1
  <2>2. Len(<<>>) = 0 OBVIOUS
  <2>3. QED BY <2>1, <2>2
<1>2. ASSUME NEW m PROVE <<m>> # <<>>
  <2>1. Len(<<m>>) = 1 /\ Len(<<>>) = 0 OBVIOUS
  <2>2. QED BY <2>1
<1>3. QED BY <1>1, <1>2

\* A step that takes nothing from the queues and starts no Recv.
InlineQuietly ==
  /\ UNCHANGED <<eof, sgot>>
  /\ \A c \in Calls : /\ sin'[c] = sin[c] \/ sin'[c] # <<>>
                      /\ pc'[c] = "recv" => pc[c] = "recv"
                      /\ pc'[c] = "none" <=> pc[c] = "none"
                      /\ Excused(c) => serveCancel' \/ (c \in Deadlined /\ scancel'[c])

LEMMA SuppliedQuietly == Supplied /\ InlineQuietly => Supplied'
BY DEF Supplied, InlineQuietly, Excused

LEMMA InlineMoves ==
  ASSUME TypeOK, ServerKind
  PROVE  ServeRecv \/ InlineQuietly \/ \E c \in Calls : HandlerRecv(c) \/ HandlerRecvSelect(c)
<1> USE DEF TypeOK, ServerTypeOK, PcTypeOK
<1>1. CASE ServeDeliver
  <2>1. UNCHANGED <<eof, sgot, scancel, serveCancel>> BY <1>1 DEF ServeDeliver, handlerVars
  <2>2. \A c \in Calls : pc'[c] = pc[c] BY <1>1, LoopApart DEF ServeDeliver
  <2>3. PICK st \in Calls, m \in Payload : sin' = sin \/ sin' = [sin EXCEPT ![st] = Append(@, m)]
    <3>1. sitem \in SItem /\ sitem.to \in Calls BY <1>1 DEF ServeDeliver
    <3>2. sitem.frame \in Frame BY <3>1 DEF SItem
    <3>3. <<sitem.frame.id, sitem.frame.val>> \in Payload BY <3>2 DEF Frame, Payload
    <3>4. QED BY <1>1, <3>1, <3>3 DEF ServeDeliver
  <2>4. \A c \in Calls : sin'[c] = sin[c] \/ sin'[c] # <<>>
    <3>1. sin[st] \in Seq(Payload) BY <2>3
    <3>2. Append(sin[st], m) # <<>> BY <2>3, <3>1, NotEmpty
    <3>3. QED BY <2>3, <3>2
  <2>5. QED BY <2>1, <2>2, <2>4 DEF InlineQuietly, Excused
<1>2. CASE ServeExit \/ WriterStep \/ ServeCancel
  <2>1. UNCHANGED <<eof, sgot, sin, scancel>> /\ (serveCancel => serveCancel')
    BY <1>2, Zenon DEF ServeExit, WriterStep, WriterSend, WriterExit, ServeCancel, handlerVars, sstreamVars
  <2>2. \A c \in Calls : pc'[c] = pc[c]
    BY <1>2, LoopApart DEF ServeExit, WriterStep, WriterSend, WriterExit, ServeCancel
  <2>3. QED BY <2>1, <2>2 DEF InlineQuietly, Excused
<1>3. ASSUME NEW a \in Actors, EndStep(a) PROVE InlineQuietly
  <2>1. UNCHANGED <<eof, sgot, sin, serveCancel>>
    BY <1>3, Zenon DEF EndStep, EndLookup, EndQueueBegin, EndDelete, EndQueueEnd, EndDone, handlerVars, sstreamVars
  <2>2. \A c \in Calls : scancel[c] => scancel'[c]
    BY <1>3 DEF EndStep, EndLookup, EndQueueBegin, EndDelete, EndQueueEnd, EndDone, sstreamVars
  <2>3. /\ pc[a] \in EndPcs
        /\ \E p \in EndPcs \cup {"serve", "done"} : pc' = [pc EXCEPT ![a] = p]
    BY <1>3 DEF EndStep, EndLookup, EndQueueBegin, EndDelete, EndQueueEnd, EndDone, Enqueue, EndPcs
  <2>4. \A c \in Calls : (pc'[c] = "recv" => pc[c] = "recv") /\ (pc'[c] = "none" <=> pc[c] = "none")
    BY <2>3, LoopApart DEF EndPcs
  <2>5. QED BY <2>1, <2>2, <2>4 DEF InlineQuietly, Excused
<1>4. ASSUME NEW c \in Calls, HandlerSend(c) \/ HandlerReturn(c) \/ SendStep(c) \/ DeadlineFires(c)
      PROVE  InlineQuietly
  <2>1. UNCHANGED <<eof, sgot, sin, serveCancel>>
    BY <1>4, Zenon DEF HandlerSend, HandlerReturn, SendStep, SendQueueBegin, SendQueueData, SendGiveUp,
                       DeadlineFires, handlerVars, sstreamVars
  <2>2. \A d \in Calls : scancel[d] => scancel'[d]
    BY <1>4 DEF HandlerSend, HandlerReturn, SendStep, SendQueueBegin, SendQueueData, SendGiveUp,
                DeadlineFires, sstreamVars
  <2>3. \/ pc' = pc
        \/ pc[c] # "none" /\ \E p \in {"run", "qbegin", "qdata", "end"} : pc' = [pc EXCEPT ![c] = p]
    <3>1. CASE HandlerSend(c) \/ HandlerReturn(c) \/ SendGiveUp(c)
      BY <3>1 DEF HandlerSend, HandlerReturn, SendGiveUp, Return
    <3>2. CASE SendQueueBegin(c) \/ SendQueueData(c)
      BY <3>2 DEF SendQueueBegin, SendQueueData, Enqueue
    <3>3. CASE DeadlineFires(c) BY <3>3 DEF DeadlineFires
    <3>4. QED BY <1>4, <3>1, <3>2, <3>3 DEF SendStep
  <2>4. \A d \in Calls : (pc'[d] = "recv" => pc[d] = "recv") /\ (pc'[d] = "none" <=> pc[d] = "none")
    BY <2>3, LoopApart
  <2>5. QED BY <2>1, <2>2, <2>4 DEF InlineQuietly, Excused
<1>5. QED BY <1>1, <1>2, <1>3, <1>4 DEF ServerKind, ServeStep, HandlerApp

\* Recv keeps what it takes, and waits only when the queue is empty.
LEMMA SuppliedRecv ==
  ASSUME TypeOK, Supplied, NEW c \in Calls, HandlerRecv(c) \/ HandlerRecvSelect(c)
  PROVE  Supplied'
<1> USE DEF TypeOK, ServerTypeOK, PcTypeOK
<1>1. UNCHANGED <<scancel, serveCancel>> /\ pc[c] \in {"run", "recv"} /\ c \in Actors
  BY LoopApart DEF HandlerRecv, HandlerRecvSelect
<1>2. \A d \in Calls : d # c => pc'[d] = pc[d] /\ eof'[d] = eof[d] /\ sgot'[d] = sgot[d] /\ sin'[d] = sin[d]
  BY LoopApart DEF HandlerRecv, HandlerRecvSelect, TakeRequest, Return
<1>3. pc'[c] # "none"
  BY <1>1 DEF HandlerRecv, HandlerRecvSelect, TakeRequest, Return
<1>4. CASE TakeRequest(c)
  <2>1. Head(sin[c]) \in Payload /\ sgot[c] \in Seq(Payload) BY <1>4 DEF TakeRequest
  <2>2. Append(sgot[c], Head(sin[c])) # <<>> BY <2>1, NotEmpty
  <2>3. sgot'[c] # <<>> BY <1>4, <2>2 DEF TakeRequest
  <2>4. QED BY <1>1, <1>2, <1>3, <2>3 DEF Supplied, Excused
<1>5. CASE HandlerRecv(c) /\ ~TakeRequest(c)
  <2>1. sin[c] = <<>> /\ UNCHANGED <<sin, sgot, eof>> BY <1>5 DEF HandlerRecv
  <2>2. QED BY <1>1, <1>2, <1>3, <2>1 DEF Supplied, Excused
<1>6. CASE HandlerRecvSelect(c) /\ ~TakeRequest(c)
  <2>1. UNCHANGED <<sin, sgot>> /\ pc[c] = "recv" BY <1>6 DEF HandlerRecvSelect
  <2>2. QED BY <1>1, <1>2, <1>3, <2>1 DEF Supplied, Excused
<1>7. QED BY <1>4, <1>5, <1>6

\* openStream queues the inline request before the handler starts.
LEMMA SuppliedServe ==
  ASSUME TypeOK, CallLife, InlineInv, ServeRecv
  PROVE  Supplied'
<1> USE DEF TypeOK, ServerTypeOK, PcTypeOK
<1> DEFINE f == Head(c2s)
<1>1. f \in Frame /\ f.id \in Calls /\ f.val \in Nat /\ f = c2s[1] /\ 1 \in DOMAIN c2s
  <2>1. f \in Frame /\ f = c2s[1] /\ 1 \in DOMAIN c2s BY ServeRecvIs, TailIs DEF WireTypeOK
  <2>2. QED BY <2>1 DEF Frame
<1>2. f.type = "call" => pc[f.id] = "none" /\ (f.id \in Inline => f.val > 0)
  BY <1>1 DEF CallLife, CallOnce, InlineInv, CallsInline
<1>3. UNCHANGED <<eof, sgot, serveCancel>> BY DEF ServeRecv, handlerVars
<1>4. CASE f.type # "call"
  <2>1. \A c \in Calls : pc'[c] = pc[c] BY <1>4, ServeRecvIs, LoopApart
  <2>2. sin' = sin /\ \A c \in Calls : scancel[c] => scancel'[c] BY <1>4 DEF ServeRecv
  <2>3. InlineQuietly BY <1>3, <2>1, <2>2 DEF InlineQuietly, Excused
  <2>4. QED BY <2>3, SuppliedQuietly DEF InlineInv
<1>5. CASE f.type = "call" /\ UNCHANGED <<sin, scancel>> /\ pc' = [pc EXCEPT ![Loop] = "end"]
  <2>1. \A c \in Calls : pc'[c] = pc[c] BY <1>5, LoopApart
  <2>2. InlineQuietly BY <1>3, <1>5, <2>1 DEF InlineQuietly, Excused
  <2>3. QED BY <2>2, SuppliedQuietly DEF InlineInv
<1>6. CASE /\ f.type = "call" /\ pc' = [pc EXCEPT ![f.id] = "run"]
           /\ \/ f.val > 0 /\ sin' = [sin EXCEPT ![f.id] = <<<<f.id, 1>>>>] /\ UNCHANGED scancel
              \/ f.val = 0 /\ UNCHANGED <<sin, scancel>>
              \/ f.val > 0 /\ serveCancel /\ UNCHANGED <<sin, scancel>>
              \/ /\ f.val > 0 /\ f.id \in Deadlined
                 /\ scancel' = [scancel EXCEPT ![f.id] = TRUE]
                 /\ UNCHANGED sin
  <2>1. PICK c \in Calls : c = f.id BY <1>1
  <2>2. ~eof[c] BY <1>2, <1>6, <2>1 DEF InlineInv, Supplied
  <2>3. pc'[c] = "run" /\ \A d \in Calls : d # c => pc'[d] = pc[d] /\ sin'[d] = sin[d] /\ scancel'[d] = scancel[d]
    BY <1>6, <2>1, LoopApart
  <2>4. <<<<c, 1>>>> # <<>> BY NotEmpty
  <2>5. c \in Inline => sin'[c] # <<>> \/ serveCancel \/ (c \in Deadlined /\ scancel'[c])
    <3>1. c \in Inline => f.val # 0 BY <1>1, <1>2, <1>6, <2>1
    <3> HIDE DEF f
    <3>2. \/ sin'[c] = <<<<c, 1>>>>
          \/ f.val = 0 \/ serveCancel
          \/ c \in Deadlined /\ scancel'[c]
      BY <1>6, <2>1
    <3>3. QED BY <2>4, <3>1, <3>2, Zenon
  <2> HIDE DEF f
  <2>6. QED BY <1>3, <2>2, <2>3, <2>5 DEF InlineInv, Supplied, Excused
<1>7. QED BY <1>4, <1>5, <1>6 DEF ServeRecv, ServerOpenStream

LEMMA InlineStep == TypeOK /\ LifeInv /\ InlineInv /\ [Next]_vars => InlineInv'
<1> SUFFICES ASSUME TypeOK, LifeInv, InlineInv, [Next]_vars PROVE InlineInv'
  OBVIOUS
<1>1. ASSUME UNCHANGED serverVars PROVE Supplied'
  BY <1>1 DEF InlineInv, Supplied, Excused, serverVars, sstreamVars, handlerVars
<1>2. ASSUME UNCHANGED <<serverVars, c2s>> PROVE InlineInv'
  BY <1>1, <1>2, CallsInlineStep DEF InlineInv
<1>3. CASE UNCHANGED vars BY <1>2, <1>3 DEF vars, wireVars
<1>4. CASE (ServerConnClose \/ OnClose) /\ UNCHANGED <<clientVars, serverVars>>
  BY <1>2, <1>4 DEF ServerConnClose, OnClose
<1>5. CASE UNCHANGED serverVars /\ ClientKind
  <2>1. ASSUME NEW c \in Calls PROVE CallOf(c).type = "call" /\ CallOf(c).id \in Inline => CallOf(c).val > 0
    BY DEF CallOf, Fr
  <2>2. c2s' = c2s \/ \E f \in Frame : c2s' = Append(c2s, f) /\ (f.type = "call" /\ f.id \in Inline => f.val > 0)
    BY <1>5, <2>1, ClientMoves
  <2>3. CallsInline' BY <2>2, CallsInlineStep DEF InlineInv
  <2>4. QED BY <1>1, <1>5, <2>3 DEF InlineInv
<1>6. CASE UNCHANGED clientVars /\ ServerKind
  <2>1. c2s' = c2s \/ (c2s # <<>> /\ c2s' = Tail(c2s))
    BY <1>6, ServerMoves, ServeRecvIs DEF ServerQuietly
  <2>2. CallsInline' BY <2>1, CallsInlineStep DEF InlineInv
  <2>3. CASE ServeRecv BY <2>2, <2>3, SuppliedServe DEF LifeInv, CallLife, InlineInv
  <2>4. CASE InlineQuietly BY <2>2, <2>4, SuppliedQuietly DEF InlineInv
  <2>5. CASE \E c \in Calls : HandlerRecv(c) \/ HandlerRecvSelect(c)
    BY <2>2, <2>5, SuppliedRecv DEF InlineInv
  <2>6. QED BY <1>6, <2>3, <2>4, <2>5, InlineMoves
<1>7. QED BY <1>3, <1>4, <1>5, <1>6, Kinds

(***************************************************************************)
(* Recv prefers the inline request to the half-close, for every schedule   *)
(* and across wraps of the counter: a handler that has seen io.EOF has had *)
(* it, unless its deadline or Serve's ctx ended before.                    *)
(***************************************************************************)
THEOREM InlinePrecedesEof == Spec => []InlineBeforeEof
<1>1. Init => InlineInv
  BY LoopApart DEF Init, WireInit, ServerInit, InlineInv, CallsInline, Supplied
<1>2. InlineInv => InlineBeforeEof
  BY ClientAssumption DEF InlineInv, Supplied, InlineBeforeEof, Excused
<1>3. QED BY <1>1, <1>2, InlineStep, LifeHolds, TypeCorrect, PTL DEF Spec

-----------------------------------------------------------------------------
\* The way of a response: what each side's steps do to it.

\* The client has forgotten the stream: dispatch ignores what still comes.
Gone(c) == Opened(c) /\ cstreams[seqOf[c]] # c

GoneAfter(c) == cpc'[c] # "idle" /\ cstreams'[seqOf'[c]] # c

\* Entries disappear, except by openStream, which uses a number of its own.
LEMMA ClientEntries ==
  ASSUME TypeOK, ClientKind
  PROVE  \/ \E c \in Calls : ClientOpenStream(c)
         \/ KeepsSeqs /\ \A s \in Seqs : cstreams'[s] \in {cstreams[s], None}
<1> USE DEF TypeOK, ClientTypeOK
<1>1. ASSUME NEW c \in Calls, CallerStep(c) \/ CtxCancel(c) \/ WatchStep(c)
      PROVE  KeepsSeqs /\ \A s \in Seqs : cstreams'[s] \in {cstreams[s], None}
  <2>1. KeepsSeqs BY <1>1, CallerKeeps
  <2>2. CASE SendCall(c) \/ SendPayload(c) \/ SendClose(c) \/ StreamSend(c) \/ StreamCloseSend(c)
    BY <2>1, <2>2 DEF SendCall, SendPayload, SendClose, StreamSend, StreamCloseSend, streamVars
  <2>3. CASE AwaitResponse(c) \/ AwaitEnd(c)
    BY <2>1, <2>3 DEF AwaitResponse, AwaitEnd, TakeInbound, UnaryReturn
  <2>4. CASE StreamRecv(c) \/ StreamRecvSelect(c)
    BY <2>1, <2>4 DEF StreamRecv, StreamRecvSelect, TakeInbound, streamVars
  <2>5. CASE CtxCancel(c) \/ WatchStep(c)
    BY <2>1, <2>5 DEF CtxCancel, WatchStep, WatchSelect, WatchSend, streamVars
  <2>6. QED BY <1>1, <2>2, <2>3, <2>4, <2>5 DEF CallerStep
<1>2. ASSUME AttachStep \/ ConnClose \/ ConnCloseChannel
      PROVE  KeepsSeqs /\ \A s \in Seqs : cstreams'[s] \in {cstreams[s], None}
  <2>1. KeepsSeqs BY <1>2, PumpKeeps
  <2>2. \A s \in Seqs : cstreams'[s] \in {cstreams[s], None}
    BY <1>2 DEF AttachStep, AttachRecv, AttachDeliver, AttachFail, ConnClose, ConnCloseChannel, streamVars, clientVars
  <2>3. QED BY <2>1, <2>2
<1>3. QED BY <1>1, <1>2 DEF ClientKind

LEMMA GoneStays ==
  ASSUME TypeOK, ClientKind, NEW c \in Calls, Gone(c)
  PROVE  GoneAfter(c)
<1>1. ASSUME NEW d \in Calls, ClientOpenStream(d) PROVE GoneAfter(c)
  <2>1. d # c /\ cpc'[c] = cpc[c] /\ seqOf'[c] = seqOf[c] /\ seqOf[c] \in Seqs
    BY <1>1 DEF ClientOpenStream, Gone, Opened, TypeOK, ClientTypeOK
  <2>2. cstreams'[seqOf[c]] \in {d, cstreams[seqOf[c]]}
    BY <1>1, <2>1 DEF ClientOpenStream, TypeOK, ClientTypeOK
  <2>3. QED BY <2>1, <2>2 DEF Gone, GoneAfter, Opened
<1>2. CASE KeepsSeqs /\ \A s \in Seqs : cstreams'[s] \in {cstreams[s], None}
  BY <1>2, WireAssumption DEF KeepsSeqs, Gone, GoneAfter, Opened, TypeOK, ClientTypeOK
<1>3. QED BY <1>1, <1>2, ClientEntries

\* A client step that is none of the three that move a response.
ClientQuietly ==
  /\ UNCHANGED <<s2c, cin, got, chdr>>
  /\ apc' = "deliver" <=> apc = "deliver"
  /\ apc = "deliver" => aitem' = aitem /\ cend' = cend

LEMMA ReplyKinds ==
  ASSUME TypeOK, ClientKind
  PROVE  /\ UNCHANGED sclosed
         /\ \/ AttachRecv \/ AttachDeliver \/ ClientQuietly
            \/ \E c \in Calls : \E p : TakeInbound(c, p)
<1>1. ASSUME NEW c \in Calls, ClientOpenStream(c) \/ CtxCancel(c) \/ WatchStep(c)
      PROVE  ClientQuietly /\ UNCHANGED sclosed
  BY <1>1, Zenon DEF ClientOpenStream, CtxCancel, WatchStep, WatchSelect, WatchSend, ClientSendFrame,
              ClientQuietly, wireVars, streamVars, callerVars, attachVars
<1>2. ASSUME NEW c \in Calls,
             SendCall(c) \/ SendPayload(c) \/ SendClose(c) \/ StreamSend(c) \/ StreamCloseSend(c)
      PROVE  ClientQuietly /\ UNCHANGED sclosed
  BY <1>2, Zenon DEF SendCall, SendPayload, SendClose, StreamSend, StreamCloseSend, ClientSendFrame,
              ClientQuietly, wireVars, streamVars, attachVars
<1>3. ASSUME NEW c \in Calls, NEW d, NEW code, Report(c, d, code)
      PROVE  ClientQuietly /\ UNCHANGED sclosed
  BY <1>3, Zenon DEF Report, ClientQuietly, wireVars, attachVars
<1>4. ASSUME NEW c \in Calls, NEW p, TakeInbound(c, p) PROVE UNCHANGED sclosed
  BY <1>4 DEF TakeInbound, wireVars
<1>5. ASSUME NEW c \in Calls, AwaitResponse(c) \/ AwaitEnd(c) \/ StreamRecvSelect(c)
      PROVE  UNCHANGED sclosed /\ (ClientQuietly \/ \E p : TakeInbound(c, p))
  BY <1>3, <1>4, <1>5 DEF AwaitResponse, AwaitEnd, StreamRecvSelect, UnaryReturn
<1>6. ASSUME NEW c \in Calls, StreamRecv(c)
      PROVE  UNCHANGED sclosed /\ (ClientQuietly \/ \E p : TakeInbound(c, p))
  BY <1>4, <1>6 DEF StreamRecv, ClientQuietly, streamVars, attachVars, wireVars
<1>7. ASSUME AttachRecv \/ AttachDeliver PROVE UNCHANGED sclosed
  BY <1>7 DEF AttachRecv, ClientTake, AttachDeliver, wireVars
<1>8. ASSUME AttachFail \/ ConnClose \/ ConnCloseChannel PROVE ClientQuietly /\ UNCHANGED sclosed
  BY <1>8 DEF AttachFail, ConnClose, ConnCloseChannel, ClientQuietly,
              wireVars, clientVars, streamVars, callerVars, attachVars
<1>9. QED BY <1>1, <1>2, <1>5, <1>6, <1>7, <1>8 DEF ClientKind, CallerStep, AttachStep

\* A handler that may still send.
Live == {"run", "recv", "qbegin", "qdata"}

\* What a server step that queues and writes nothing does for the stream of c:
\* nothing, it starts the handler, or the handler begins a Send.
Replies(c) ==
  \/ /\ resp'[c] = resp[c] /\ headerSent'[c] = headerSent[c]
     /\ pc'[c] = pc[c] \/ (pc[c] \in {"none", "run", "recv"} /\ pc'[c] \in {"run", "recv"})
  \/ /\ pc[c] = "run" /\ resp'[c] = resp[c] + 1 /\ headerSent'[c] = TRUE
     /\ pc'[c] = IF headerSent[c] THEN "qdata" ELSE "qbegin"
  \/ pc'[c] \notin Live \cup {"none"} /\ resp'[c] = resp[c]

ServerSilent ==
  /\ UNCHANGED <<s2c, sclosed, mout>>
  /\ serveCancel => serveCancel'
  /\ \A c \in Calls : Replies(c)

\* Under a number of its own a handler finds its own stream, and the Serve
\* loop, which ends a call it refused, finds none.
LEMMA OwnEntry ==
  ASSUME TypeOK, IsoInv, LifeInv
  PROVE  /\ \A c \in Calls : pc[c] # "none" => sstreams[sseq[c]] \in {c, None}
         /\ pc[Loop] \in EndPcs => sstreams[sitem.frame.seq] = None
<1> USE DEF TypeOK, ServerTypeOK, PcTypeOK
<1>1. ASSUME NEW c \in Calls, pc[c] # "none", sstreams[sseq[c]] # None PROVE sstreams[sseq[c]] = c
  <2>1. PICK d \in Calls : d = sstreams[sseq[c]] BY <1>1
  <2>2. sseq[c] \in Seqs /\ EntryOwned(sseq[c], c) BY <1>1 DEF IsoInv, ServerOwned
  <2>3. EntryOwned(sseq[c], d) BY <1>1, <2>1, <2>2 DEF IsoInv, ServerOwned
  <2>4. QED BY <2>1, <2>2, <2>3 DEF IsoInv, SeqsDistinct, EntryOwned
<1>2. ASSUME pc[Loop] \in EndPcs, sstreams[sitem.frame.seq] # None PROVE FALSE
  <2>1. sitem.frame \in Frame /\ FrameOwned(sitem.frame) BY <1>2 DEF SItem, IsoInv, ServerOwned
  <2>2. PICK f \in Frame : f = sitem.frame BY <2>1
  <2>3. f.seq \in Seqs /\ f.id \in Calls BY DEF Frame
  <2>4. PICK d \in Calls : d = sstreams[f.seq] BY <1>2, <2>2, <2>3
  <2>5. EntryOwned(f.seq, d) BY <1>2, <2>2, <2>3, <2>4 DEF IsoInv, ServerOwned
  <2>6. d = f.id BY <2>1, <2>2, <2>5, EntryIsOwner DEF IsoInv
  <2>7. pc[d] \in Served BY <1>2, <2>2, <2>3, <2>4 DEF LifeInv, ServerTable
  <2>8. pc[d] = "none" BY <1>2, <2>2, <2>6 DEF LifeInv, Refused
  <2>9. QED BY <2>7, <2>8 DEF Served
<1>3. QED BY <1>1, <1>2

LEMMA ServerReplies ==
  ASSUME TypeOK, IsoInv, LifeInv, ServerKind
  PROVE  \/ WriterSend \/ ServerSilent
         \/ UNCHANGED <<s2c, sclosed>> /\ \E a \in Actors, f \in Frame : Queued(a, f)
<1> USE DEF TypeOK, ServerTypeOK, PcTypeOK
<1>1. SUFFICES ASSUME mout' = mout, UNCHANGED <<s2c, sclosed>>, ~WriterSend PROVE ServerSilent
  BY ServerQueues
<1>2. serveCancel => serveCancel'
  BY Zenon DEF ServerKind, ServeStep, ServeRecv, ServeDeliver, ServeExit, WriterStep, WriterSend, WriterExit,
     ServeCancel, EndStep, EndLookup, EndQueueBegin, EndDelete, EndQueueEnd, EndDone, HandlerApp, HandlerRecv,
     HandlerRecvSelect, HandlerSend, HandlerReturn, SendStep, SendQueueBegin, SendQueueData, SendGiveUp, DeadlineFires
<1>3. ASSUME UNCHANGED <<resp, headerSent>>, \A c \in Calls : pc'[c] = pc[c] PROVE ServerSilent
  BY <1>1, <1>2, <1>3 DEF ServerSilent, Replies
<1>4. CASE ServeRecv
  <2> DEFINE f == Head(c2s)
  <2>1. UNCHANGED <<resp, headerSent>> BY <1>4 DEF ServeRecv, handlerVars
  <2>2. CASE \A c \in Calls : pc'[c] = pc[c] BY <1>3, <2>1, <2>2
  <2>3. CASE f.type = "call" /\ pc' = [pc EXCEPT ![f.id] = "run"]
    <3>1. PICK c \in Calls : c = f.id BY <1>4, ServeRecvIs
    <3>2. pc[c] = "none"
      <4>1. f = c2s[1] /\ 1 \in DOMAIN c2s BY <1>4, ServeRecvIs, TailIs DEF WireTypeOK
      <4>2. QED BY <2>3, <3>1, <4>1 DEF LifeInv, CallOnce
    <3>3. pc'[c] = "run" /\ \A d \in Calls : d # c => pc'[d] = pc[d] BY <2>3, <3>1, LoopApart
    <3>4. \A d \in Calls : Replies(d) BY <2>1, <3>2, <3>3 DEF Replies, Live
    <3>5. QED BY <1>1, <1>2, <3>4 DEF ServerSilent
  <2>4. QED BY <1>4, <2>2, <2>3, ServeRecvIs, LoopApart
<1>5. CASE ServeDeliver \/ ServeExit \/ WriterExit \/ ServeCancel
  <2>1. UNCHANGED <<resp, headerSent>> /\ \A c \in Calls : pc'[c] = pc[c]
    BY <1>5, LoopApart DEF ServeDeliver, ServeExit, WriterExit, ServeCancel, handlerVars, sstreamVars
  <2>2. QED BY <1>3, <2>1
<1>6. ASSUME NEW a \in Actors, EndStep(a) PROVE ServerSilent
  <2>1. resp' = resp
    BY <1>6, Zenon DEF EndStep, EndLookup, EndQueueBegin, EndDelete, EndQueueEnd, EndDone, handlerVars
  <2>2. /\ pc[a] \in EndPcs
        /\ \E p \in EndPcs \cup {"serve", "done"} : pc' = [pc EXCEPT ![a] = p]
    BY <1>6 DEF EndStep, EndLookup, EndQueueBegin, EndDelete, EndQueueEnd, EndDone, Enqueue, EndPcs
  <2>3. \A c \in Calls : c # a => pc'[c] = pc[c] /\ headerSent'[c] = headerSent[c]
    <3>1. CASE headerSent' = headerSent BY <2>2, <3>1, LoopApart
    <3>2. CASE EndLookup(a) /\ headerSent' # headerSent
      <4> DEFINE st == sstreams[EndSeq(a)]
      <4>1. st # None /\ headerSent' = [headerSent EXCEPT ![st] = TRUE] BY <3>2 DEF EndLookup
      <4>2. a # Loop BY <2>2, <4>1, OwnEntry DEF EndSeq
      <4>3. st = a BY <2>2, <4>1, <4>2, OwnEntry DEF EndSeq, Actors, EndPcs
      <4>4. QED BY <2>2, <4>1, <4>3, LoopApart
    <3>3. QED BY <1>6, <3>1, <3>2 DEF EndStep, EndQueueBegin, EndDelete, EndQueueEnd, EndDone, sstreamVars
  <2>4. a \in Calls => pc'[a] \notin Live \cup {"none"}
    BY <1>6 DEF EndStep, EndLookup, EndQueueBegin, EndDelete, EndQueueEnd, EndDone, Enqueue, Live, Actors
  <2>5. \A c \in Calls : Replies(c)
    BY <2>1, <2>3, <2>4 DEF Replies, Live
  <2>6. QED BY <1>1, <1>2, <2>5 DEF ServerSilent
<1>7. ASSUME NEW c \in Calls, HandlerApp(c) \/ SendStep(c) \/ DeadlineFires(c) PROVE ServerSilent
  <2>0. c \in Actors BY LoopApart
  <2>1. CASE DeadlineFires(c) BY <1>3, <2>1 DEF DeadlineFires, handlerVars
  <2>2. ASSUME Replies(c), \A d \in Calls : d # c => pc'[d] = pc[d] /\ resp'[d] = resp[d] /\ headerSent'[d] = headerSent[d]
        PROVE  ServerSilent
    <3>1. \A d \in Calls : d # c => Replies(d) BY <2>2 DEF Replies, Live
    <3>2. QED BY <1>1, <1>2, <2>2, <3>1 DEF ServerSilent
  <2>3. CASE HandlerRecv(c) \/ HandlerRecvSelect(c) \/ HandlerReturn(c) \/ SendGiveUp(c)
    <3>1. UNCHANGED <<resp, headerSent>>
      BY <2>3, Zenon DEF HandlerRecv, HandlerRecvSelect, HandlerReturn, SendGiveUp, sstreamVars
    <3>2. PICK p \in {"run", "recv", "end"} : pc' = [pc EXCEPT ![c] = p] /\ (p # "end" => pc[c] \in {"run", "recv"})
      BY <2>3 DEF HandlerRecv, HandlerRecvSelect, HandlerReturn, SendGiveUp, TakeRequest, Return
    <3>3. QED BY <2>0, <2>2, <3>1, <3>2, LoopApart DEF Replies, Live
  <2>4. CASE HandlerSend(c)
    <3> DEFINE st == sstreams[sseq[c]]
    <3>1. pc[c] = "run" BY <2>4 DEF HandlerSend
    <3>2. st \in {c, None} BY <3>1, OwnEntry
    <3>3. CASE st = None
      <4>1. pc' = [pc EXCEPT ![c] = "end"] /\ UNCHANGED <<headerSent, resp>>
        BY <2>4, <3>3 DEF HandlerSend, Return
      <4>2. QED BY <2>0, <2>2, <4>1, LoopApart DEF Replies, Live
    <3>4. CASE st = c /\ st # None
      <4>1. /\ headerSent' = [headerSent EXCEPT ![c] = TRUE] /\ resp' = [resp EXCEPT ![c] = @ + 1]
            /\ pc' = [pc EXCEPT ![c] = IF headerSent[c] THEN "qdata" ELSE "qbegin"]
        BY <2>4, <3>4 DEF HandlerSend
      <4>2. /\ headerSent'[c] = TRUE /\ resp'[c] = resp[c] + 1
            /\ pc'[c] = IF headerSent[c] THEN "qdata" ELSE "qbegin"
        BY <2>0, <4>1
      <4>3. \A d \in Calls : d # c => pc'[d] = pc[d] /\ resp'[d] = resp[d] /\ headerSent'[d] = headerSent[d]
        BY <4>1, LoopApart
      <4>4. Replies(c) BY <3>1, <4>2 DEF Replies
      <4>5. QED BY <2>2, <4>3, <4>4
    <3>5. QED BY <3>2, <3>3, <3>4
  <2>5. CASE SendQueueBegin(c) \/ SendQueueData(c)
    <3>1. UNCHANGED <<resp, headerSent>>
      BY <2>5, Zenon DEF SendQueueBegin, SendQueueData, sstreamVars
    <3>2. \A o \in Out : mout # Append(mout, o)
      <4>1. ASSUME NEW o \in Out PROVE Len(Append(mout, o)) # Len(mout) OBVIOUS
      <4>2. QED BY <4>1
    <3>3. \A f \in Frame : [frame |-> f, by |-> c] \in Out BY <2>0 DEF Out
    <3>4. /\ Fr(sseq[c], "begin", c, 0) \in Frame /\ Fr(sseq[c], "data", c, resp[c]) \in Frame
      BY FrType DEF FrameTypes
    <3>5. pc' = [pc EXCEPT ![c] = "end"]
      BY <1>1, <2>5, <3>2, <3>3, <3>4 DEF SendQueueBegin, SendQueueData, Enqueue
    <3>6. QED BY <2>0, <2>2, <3>1, <3>5, LoopApart DEF Replies, Live
  <2>6. QED BY <1>7, <2>1, <2>3, <2>4, <2>5 DEF HandlerApp, SendStep
<1>8. QED BY <1>1, <1>4, <1>5, <1>6, <1>7 DEF ServerKind, ServeStep, WriterStep

-----------------------------------------------------------------------------
\* Begin before data.

Begins(f, c) == f.type = "begin" /\ f.id = c

\* The client has the header of c, or no longer wants it.
Heard(c) == chdr[c] \/ Gone(c)

\* Begin of c has been written, or nothing of c will be.
Announced(c) == Heard(c) \/ sclosed \/ \E i \in DOMAIN s2c : Begins(s2c[i], c)

NotBegun == \A c \in Calls : pc[c] = "none" => headerSent[c] = FALSE /\ resp[c] = 0

HeadWire ==
  \A i \in DOMAIN s2c : s2c[i].type = "data" =>
    Heard(s2c[i].id) \/ \E j \in DOMAIN s2c : j < i /\ Begins(s2c[j], s2c[i].id)

HeadQueue ==
  \A i \in DOMAIN mout : mout[i].frame.type = "data" =>
    Announced(mout[i].frame.id) \/ \E j \in DOMAIN mout : j < i /\ Begins(mout[j].frame, mout[i].frame.id)

HeadSend ==
  \A c \in Calls : pc[c] = "qdata" \/ (pc[c] \in {"run", "recv"} /\ headerSent[c]) =>
    Announced(c) \/ \E j \in DOMAIN mout : Begins(mout[j].frame, c)

HeadIn ==
  /\ apc = "deliver" => chdr[aitem.to]
  /\ \A c \in Calls : got[c] # <<>> \/ cin[c] # <<>> => chdr[c]

HeadInv == NotBegun /\ (~serveCancel => HeadWire /\ HeadQueue /\ HeadSend /\ HeadIn)

HeardAfter(c) == chdr'[c] \/ GoneAfter(c)
AnnouncedAfter(c) == HeardAfter(c) \/ sclosed' \/ \E i \in DOMAIN s2c' : Begins(s2c'[i], c)

\* The invariant after a step, in terms of what the step announced.
HeadWireAfter ==
  \A i \in DOMAIN s2c' : s2c'[i].type = "data" =>
    HeardAfter(s2c'[i].id) \/ \E j \in DOMAIN s2c' : j < i /\ Begins(s2c'[j], s2c'[i].id)

HeadQueueAfter ==
  \A i \in DOMAIN mout' : mout'[i].frame.type = "data" =>
    AnnouncedAfter(mout'[i].frame.id) \/ \E j \in DOMAIN mout' : j < i /\ Begins(mout'[j].frame, mout'[i].frame.id)

HeadSendAfter ==
  \A c \in Calls : pc'[c] = "qdata" \/ (pc'[c] \in {"run", "recv"} /\ headerSent'[c]) =>
    AnnouncedAfter(c) \/ \E j \in DOMAIN mout' : Begins(mout'[j].frame, c)

LEMMA HeadPrimed ==
  ASSUME NotBegun', ~serveCancel' => HeadWireAfter /\ HeadQueueAfter /\ HeadSendAfter /\ HeadIn'
  PROVE  HeadInv'
<1>1. HeadWireAfter => HeadWire'
  BY DEF HeadWireAfter, HeadWire, HeardAfter, Heard, GoneAfter, Gone, Opened
<1>2. HeadQueueAfter => HeadQueue'
  BY DEF HeadQueueAfter, HeadQueue, AnnouncedAfter, Announced, HeardAfter, Heard, GoneAfter, Gone, Opened
<1>3. HeadSendAfter => HeadSend'
  BY DEF HeadSendAfter, HeadSend, AnnouncedAfter, Announced, HeardAfter, Heard, GoneAfter, Gone, Opened
<1>4. QED BY <1>1, <1>2, <1>3 DEF HeadInv

LEMMA HeadClient ==
  ASSUME TypeOK, IsoInv, HeadInv, UNCHANGED serverVars, ClientKind
  PROVE  HeadInv'
<1> USE DEF TypeOK, ClientTypeOK
<1>0. UNCHANGED <<pc, headerSent, mout, resp, serveCancel>> BY DEF serverVars, sstreamVars, handlerVars
<1>1. NotBegun' BY <1>0 DEF HeadInv, NotBegun
<1>2. SUFFICES ASSUME ~serveCancel, HeadWire, HeadQueue, HeadSend, HeadIn
               PROVE  HeadWireAfter /\ HeadQueueAfter /\ HeadSendAfter /\ HeadIn'
  BY <1>0, <1>1, HeadPrimed DEF HeadInv
<1>3. \A c \in Calls : Gone(c) => GoneAfter(c) BY GoneStays
<1>4. UNCHANGED sclosed BY ReplyKinds
<1>5. ASSUME \A c \in Calls : Announced(c) => AnnouncedAfter(c) PROVE HeadQueueAfter /\ HeadSendAfter
  BY <1>0, <1>2, <1>5, FramesTyped DEF HeadQueue, HeadQueueAfter, HeadSend, HeadSendAfter
<1>6. ASSUME UNCHANGED <<s2c, chdr>> PROVE HeadWireAfter /\ HeadQueueAfter /\ HeadSendAfter
  <2>1. \A c \in Calls : Heard(c) => HeardAfter(c) BY <1>3, <1>6 DEF Heard, HeardAfter
  <2>2. \A c \in Calls : Announced(c) => AnnouncedAfter(c) BY <1>4, <1>6, <2>1 DEF Announced, AnnouncedAfter
  <2>3. HeadWireAfter BY <1>2, <1>6, <2>1, FramesTyped DEF HeadWire, HeadWireAfter
  <2>4. QED BY <1>5, <2>2, <2>3
<1>7. CASE ClientQuietly
  <2>1. HeadIn' BY <1>2, <1>7 DEF ClientQuietly, HeadIn
  <2>2. QED BY <1>6, <1>7, <2>1 DEF ClientQuietly
<1>8. ASSUME NEW c \in Calls, NEW p, TakeInbound(c, p)
      PROVE  HeadWireAfter /\ HeadQueueAfter /\ HeadSendAfter /\ HeadIn'
  <2>1. /\ UNCHANGED <<s2c, chdr, apc, aitem>> /\ cin[c] # <<>>
        /\ \A d \in Calls : d # c => got'[d] = got[d] /\ cin'[d] = cin[d]
    BY <1>8 DEF TakeInbound, wireVars, attachVars
  <2>2. HeadIn' BY <1>2, <2>1 DEF HeadIn
  <2>3. QED BY <1>6, <2>1, <2>2
<1>9. CASE AttachDeliver
  <2>1. UNCHANGED <<s2c, chdr, got>> /\ apc' # "deliver" /\ apc = "deliver"
    BY <1>9 DEF AttachDeliver, wireVars, callerVars
  <2>2. PICK c \in Calls : c = aitem.to BY <2>1 DEF Delivery
  <2>3. chdr[c] /\ \A d \in Calls : d # c => cin'[d] = cin[d]
    BY <1>2, <1>9, <2>1, <2>2 DEF AttachDeliver, HeadIn
  <2>4. HeadIn' BY <1>2, <2>1, <2>3 DEF HeadIn
  <2>5. QED BY <1>6, <2>1, <2>4
<1>10. CASE AttachRecv
  <2> DEFINE f == Head(s2c)
             cs == cstreams[f.seq]
  <2>1. s2c \in Seq(Frame) /\ s2c # <<>> /\ s2c' = Tail(s2c) /\ UNCHANGED <<got, cin>>
    BY <1>10 DEF AttachRecv, ClientTake, WireTypeOK, streamVars, callerVars
  <2>2. /\ f \in Frame /\ f = s2c[1] /\ 1 \in DOMAIN s2c
        /\ \A i \in DOMAIN s2c' : i \in Nat \ {0} /\ i + 1 \in DOMAIN s2c /\ s2c'[i] = s2c[i + 1]
        /\ \A i \in DOMAIN s2c : i \in Nat \ {0} /\ (i # 1 => i - 1 \in DOMAIN s2c' /\ s2c'[i - 1] = s2c[i])
    BY <2>1, TailIs
  <2>3. f.seq \in Seqs /\ FrameOwned(f) BY <2>2 DEF Frame, IsoInv, WireOwned
  <2>4. PICK c \in Calls : c = f.id BY <2>2 DEF Frame
  <2>5. Opened(c) /\ f.seq = seqOf[c] BY <2>3, <2>4 DEF FrameOwned
  <2>6. cs \in {c, None}
    <3>1. ASSUME cs # None PROVE cs = f.id
      <4>1. cs \in Calls BY <2>3, <3>1
      <4>2. EntryOwned(f.seq, cs) BY <2>3, <3>1 DEF IsoInv, ClientOwned
      <4>3. QED BY <2>2, <2>3, <4>1, <4>2, EntryIsOwner DEF IsoInv
    <3>2. QED BY <2>4, <3>1
  <2>7. cs = None => Gone(c) BY <2>5, WireAssumption DEF Gone
  <2>8. /\ chdr' = chdr \/ chdr' = [chdr EXCEPT ![cs] = TRUE]
        /\ f.type = "begin" /\ cs # None => chdr' = [chdr EXCEPT ![cs] = TRUE]
        /\ \/ UNCHANGED <<apc, aitem>>
           \/ f.type = "data" /\ cs # None /\ aitem'.to = cs
    BY <1>10 DEF AttachRecv, streamVars
  <2>9. apc = "recv" BY <1>10 DEF AttachRecv
  <2> HIDE DEF f, cs
  <2>10. \A d \in Calls : Heard(d) => HeardAfter(d) BY <1>3, <2>6, <2>8 DEF Heard, HeardAfter
  <2>11. f.type = "begin" => HeardAfter(c)
    BY <1>3, <2>6, <2>7, <2>8 DEF HeardAfter
  <2>12. ASSUME NEW i \in DOMAIN s2c, NEW d \in Calls, Begins(s2c[i], d)
         PROVE  HeardAfter(d) \/ (i # 1 /\ Begins(s2c'[i - 1], d))
    BY <2>2, <2>4, <2>11, <2>12 DEF Begins
  <2>13. \A d \in Calls : Announced(d) => AnnouncedAfter(d)
    <3> SUFFICES ASSUME NEW d \in Calls, Announced(d) PROVE AnnouncedAfter(d)
      OBVIOUS
    <3>1. CASE Heard(d) \/ sclosed BY <1>4, <2>10, <3>1 DEF AnnouncedAfter
    <3>2. ASSUME NEW i \in DOMAIN s2c, Begins(s2c[i], d) PROVE AnnouncedAfter(d)
      BY <2>2, <2>12, <3>2 DEF AnnouncedAfter
    <3>3. QED BY <3>1, <3>2 DEF Announced
  <2>14. HeadWireAfter
    <3> SUFFICES ASSUME NEW i \in DOMAIN s2c', s2c'[i].type = "data"
                 PROVE  HeardAfter(s2c'[i].id) \/ \E j \in DOMAIN s2c' : j < i /\ Begins(s2c'[j], s2c'[i].id)
      BY DEF HeadWireAfter
    <3>1. i \in Nat /\ i + 1 \in DOMAIN s2c /\ s2c'[i] = s2c[i + 1] BY <2>2
    <3>2. PICK d \in Calls : d = s2c[i + 1].id BY <3>1, FramesTyped
    <3>3. CASE Heard(d) BY <2>10, <3>1, <3>2, <3>3
    <3>4. ASSUME NEW j \in DOMAIN s2c, j < i + 1, Begins(s2c[j], d)
          PROVE  HeardAfter(s2c'[i].id) \/ \E k \in DOMAIN s2c' : k < i /\ Begins(s2c'[k], s2c'[i].id)
      <4>1. CASE j # 1 /\ Begins(s2c'[j - 1], d)
        <5>1. j - 1 \in DOMAIN s2c' /\ j - 1 < i BY <2>2, <3>1, <3>4, <4>1
        <5>2. QED BY <3>1, <3>2, <4>1, <5>1
      <4>2. QED BY <2>12, <3>1, <3>2, <3>4, <4>1
    <3>5. QED BY <1>2, <3>1, <3>2, <3>3, <3>4 DEF HeadWire
  <2>15. HeadIn'
    <3>1. \A d \in Calls : chdr[d] => chdr'[d] BY <2>6, <2>8
    <3>2. \A d \in Calls : got'[d] # <<>> \/ cin'[d] # <<>> => chdr'[d] BY <1>2, <2>1, <3>1 DEF HeadIn
    <3>3. ASSUME f.type = "data", cs # None, aitem'.to = cs PROVE chdr'[aitem'.to]
      <4>1. Heard(c)
        <5>1. \A j \in DOMAIN s2c : ~(j < 1) BY <2>2
        <5>2. QED BY <1>2, <2>2, <2>4, <3>3, <5>1 DEF HeadWire
      <4>2. cstreams[seqOf[c]] = c BY <2>5, <2>6, <3>3 DEF cs
      <4>3. QED BY <2>6, <3>1, <3>3, <4>1, <4>2 DEF Heard, Gone
    <3>4. QED BY <2>8, <2>9, <3>2, <3>3 DEF HeadIn
  <2>16. QED BY <1>5, <2>13, <2>14, <2>15
<1>11. QED BY <1>7, <1>8, <1>9, <1>10, ReplyKinds

LEMMA HeadServer ==
  ASSUME TypeOK, IsoInv, LifeInv, HeadInv, UNCHANGED clientVars, ServerKind
  PROVE  HeadInv'
<1> USE DEF TypeOK, ServerTypeOK, PcTypeOK
<1>0. \A c \in Calls : Heard(c) <=> HeardAfter(c)
  BY DEF Heard, HeardAfter, Gone, GoneAfter, Opened, clientVars, streamVars, callerVars
<1>1. HeadIn => HeadIn' BY DEF HeadIn, clientVars, streamVars, callerVars, attachVars
<1>2. CASE ServerSilent
  <2>1. NotBegun' BY <1>2 DEF HeadInv, NotBegun, ServerSilent, Replies, Live
  <2>2. SUFFICES ASSUME ~serveCancel, HeadWire, HeadQueue, HeadSend, HeadIn
                 PROVE  HeadWireAfter /\ HeadQueueAfter /\ HeadSendAfter
    BY <1>1, <1>2, <2>1, HeadPrimed DEF HeadInv, ServerSilent
  <2>3. UNCHANGED <<s2c, sclosed, mout>> BY <1>2 DEF ServerSilent
  <2>4. \A c \in Calls : Announced(c) => AnnouncedAfter(c) BY <1>0, <2>3 DEF Announced, AnnouncedAfter
  <2>5. HeadWireAfter /\ HeadQueueAfter
    BY <1>0, <2>2, <2>3, <2>4, FramesTyped DEF HeadWire, HeadWireAfter, HeadQueue, HeadQueueAfter
  <2>6. ASSUME NEW c \in Calls, pc'[c] = "qdata" \/ (pc'[c] \in {"run", "recv"} /\ headerSent'[c])
        PROVE  pc[c] = "qdata" \/ (pc[c] \in {"run", "recv"} /\ headerSent[c])
    BY <1>2, <2>6 DEF ServerSilent, Replies, Live, HeadInv, NotBegun
  <2>7. HeadSendAfter BY <2>2, <2>3, <2>4, <2>6 DEF HeadSend, HeadSendAfter
  <2>8. QED BY <2>5, <2>7
<1>3. CASE WriterSend
  <2> DEFINE h == Head(mout).frame
  <2>1. /\ mout[1].frame = h /\ 1 \in DOMAIN mout /\ h \in Frame /\ h.id \in Calls
        /\ \A i \in DOMAIN mout' : i \in Nat \ {0} /\ i + 1 \in DOMAIN mout /\ mout'[i] = mout[i + 1]
        /\ \A i \in DOMAIN mout : i \in Nat \ {0} /\ (i # 1 => i - 1 \in DOMAIN mout' /\ mout'[i - 1] = mout[i])
        /\ \/ s2c' = Append(s2c, h) /\ ~sclosed
           \/ s2c' = s2c /\ (sclosed \/ serveCancel)
        /\ UNCHANGED <<sclosed, pc, headerSent, resp, serveCancel>> /\ s2c \in Seq(Frame)
    BY <1>3, WriterIs DEF Frame
  <2> HIDE DEF h
  <2>2. NotBegun' BY <2>1 DEF HeadInv, NotBegun
  <2>3. SUFFICES ASSUME ~serveCancel, HeadWire, HeadQueue, HeadSend, HeadIn
                 PROVE  HeadWireAfter /\ HeadQueueAfter /\ HeadSendAfter
    BY <1>1, <2>1, <2>2, HeadPrimed DEF HeadInv
  <2>4. /\ \A i \in DOMAIN s2c : i \in DOMAIN s2c' /\ s2c'[i] = s2c[i]
        /\ s2c' = Append(s2c, h) => /\ Len(s2c) \in Nat /\ Len(s2c) + 1 \in DOMAIN s2c' /\ s2c'[Len(s2c) + 1] = h
                                    /\ \A i \in DOMAIN s2c : i \in 1 .. Len(s2c)
                                    /\ \A i \in DOMAIN s2c' : i \in DOMAIN s2c \/ i = Len(s2c) + 1
    BY <2>1, AppendIs
  <2>5. \A c \in Calls : Announced(c) => AnnouncedAfter(c)
    BY <1>0, <2>1, <2>4 DEF Announced, AnnouncedAfter
  <2>6. \A c \in Calls : Begins(h, c) => AnnouncedAfter(c)
    BY <2>1, <2>3, <2>4 DEF AnnouncedAfter
  <2>7. HeadWireAfter
    <3>1. ASSUME NEW i \in DOMAIN s2c, s2c[i].type = "data"
          PROVE  HeardAfter(s2c'[i].id) \/ \E j \in DOMAIN s2c' : j < i /\ Begins(s2c'[j], s2c'[i].id)
      BY <1>0, <2>3, <2>4, <3>1, FramesTyped DEF HeadWire
    <3>2. CASE s2c' = s2c BY <3>1, <3>2 DEF HeadWireAfter
    <3>3. CASE s2c' = Append(s2c, h) /\ ~sclosed
      <4>1. ASSUME h.type = "data"
            PROVE  HeardAfter(h.id) \/ \E j \in DOMAIN s2c' : j < Len(s2c) + 1 /\ Begins(s2c'[j], h.id)
        <5>1. \A j \in DOMAIN mout : ~(j < 1) BY <2>1
        <5>2. Announced(h.id) BY <2>1, <2>3, <4>1, <5>1 DEF HeadQueue
        <5>3. Heard(h.id) \/ \E j \in DOMAIN s2c : Begins(s2c[j], h.id) BY <3>3, <5>2 DEF Announced
        <5>4. \A j \in DOMAIN s2c : j < Len(s2c) + 1 BY <2>4, <3>3
        <5>5. QED BY <1>0, <2>1, <2>4, <5>3, <5>4
      <4>2. QED BY <2>4, <3>1, <3>3, <4>1 DEF HeadWireAfter
    <3>4. QED BY <2>1, <3>2, <3>3
  <2>8. HeadQueueAfter
    <3> SUFFICES ASSUME NEW i \in DOMAIN mout', mout'[i].frame.type = "data"
                 PROVE  \/ AnnouncedAfter(mout'[i].frame.id)
                        \/ \E j \in DOMAIN mout' : j < i /\ Begins(mout'[j].frame, mout'[i].frame.id)
      BY DEF HeadQueueAfter
    <3>1. i \in Nat /\ i + 1 \in DOMAIN mout /\ mout'[i] = mout[i + 1] BY <2>1
    <3>2. PICK d \in Calls : d = mout[i + 1].frame.id BY <3>1, FramesTyped
    <3>3. CASE Announced(d) BY <2>5, <3>1, <3>2, <3>3
    <3>4. ASSUME NEW j \in DOMAIN mout, j < i + 1, Begins(mout[j].frame, d)
          PROVE  \/ AnnouncedAfter(mout'[i].frame.id)
                 \/ \E k \in DOMAIN mout' : k < i /\ Begins(mout'[k].frame, mout'[i].frame.id)
      <4>1. CASE j = 1 BY <2>1, <2>6, <3>1, <3>2, <3>4, <4>1
      <4>2. CASE j # 1
        <5>1. j - 1 \in DOMAIN mout' /\ mout'[j - 1] = mout[j] /\ j - 1 < i BY <2>1, <3>1, <3>4, <4>2
        <5>2. QED BY <3>1, <3>2, <3>4, <5>1
      <4>3. QED BY <4>1, <4>2
    <3>5. QED BY <2>3, <3>1, <3>2, <3>3, <3>4 DEF HeadQueue
  <2>9. HeadSendAfter
    <3> SUFFICES ASSUME NEW c \in Calls, pc[c] = "qdata" \/ (pc[c] \in {"run", "recv"} /\ headerSent[c])
                 PROVE  AnnouncedAfter(c) \/ \E j \in DOMAIN mout' : Begins(mout'[j].frame, c)
      BY <2>1 DEF HeadSendAfter
    <3>1. CASE Announced(c) BY <2>5, <3>1
    <3>2. ASSUME NEW j \in DOMAIN mout, Begins(mout[j].frame, c)
          PROVE  AnnouncedAfter(c) \/ \E k \in DOMAIN mout' : Begins(mout'[k].frame, c)
      BY <2>1, <2>6, <3>2
    <3>3. QED BY <2>3, <3>1, <3>2 DEF HeadSend
  <2>10. QED BY <2>7, <2>8, <2>9
<1>4. ASSUME UNCHANGED <<s2c, sclosed>>, NEW a \in Actors, NEW f \in Frame, Queued(a, f)
      PROVE  HeadInv'
  <2>1. Emits(a, f) /\ UNCHANGED <<headerSent, resp, serveCancel>> BY <1>4 DEF Queued
  <2>2. /\ \A b \in Actors : b # a => pc'[b] = pc[b]
        /\ pc'[a] = IF pc[a] = "qend" THEN "wend" ELSE IF pc[a] = "qebegin" THEN "delete"
                    ELSE IF pc[a] = "qbegin" THEN "qdata" ELSE "run"
        /\ pc[a] \in {"qend", "qebegin", "qbegin", "qdata"}
    BY <2>1, EmitsPc
  <2>3. NotBegun' BY <2>1, <2>2, LoopApart DEF HeadInv, NotBegun
  <2>4. SUFFICES ASSUME ~serveCancel, HeadWire, HeadQueue, HeadSend, HeadIn
                 PROVE  HeadWireAfter /\ HeadQueueAfter /\ HeadSendAfter
    BY <1>1, <2>1, <2>3, HeadPrimed DEF HeadInv
  <2>5. \A c \in Calls : Announced(c) => AnnouncedAfter(c) BY <1>0, <1>4 DEF Announced, AnnouncedAfter
  <2>6. HeadWireAfter BY <1>0, <1>4, <2>4, FramesTyped DEF HeadWire, HeadWireAfter
  <2>7. /\ Len(mout) \in Nat /\ Len(mout) + 1 \in DOMAIN mout' /\ mout'[Len(mout) + 1].frame = f
        /\ \A i \in DOMAIN mout : i \in 1 .. Len(mout) /\ i \in DOMAIN mout' /\ mout'[i] = mout[i]
        /\ \A i \in DOMAIN mout' : i \in DOMAIN mout \/ i = Len(mout) + 1
    BY <1>4, QueuedIs
  <2>8. pc[a] = "qbegin" => a \in Calls /\ Begins(f, a) BY <2>1 DEF Emits, Fr, Begins
  <2>9. f.type = "data" => a \in Calls /\ f.id = a /\ pc[a] = "qdata" BY <2>1 DEF Emits, Fr
  <2>10. HeadQueueAfter
    <3>1. ASSUME NEW i \in DOMAIN mout, mout[i].frame.type = "data"
          PROVE  \/ AnnouncedAfter(mout[i].frame.id)
                 \/ \E j \in DOMAIN mout' : j < i /\ Begins(mout'[j].frame, mout[i].frame.id)
      BY <2>4, <2>5, <2>7, <3>1, FramesTyped DEF HeadQueue
    <3>2. ASSUME f.type = "data"
          PROVE  \/ AnnouncedAfter(f.id)
                 \/ \E j \in DOMAIN mout' : j < Len(mout) + 1 /\ Begins(mout'[j].frame, f.id)
      <4>1. Announced(a) \/ \E j \in DOMAIN mout : Begins(mout[j].frame, a) BY <2>4, <2>9, <3>2 DEF HeadSend
      <4>2. \A j \in DOMAIN mout : j < Len(mout) + 1 BY <2>7
      <4>3. QED BY <2>5, <2>7, <2>9, <3>2, <4>1, <4>2
    <3>3. QED BY <2>7, <3>1, <3>2 DEF HeadQueueAfter
  <2>11. HeadSendAfter
    <3> SUFFICES ASSUME NEW c \in Calls, pc'[c] = "qdata" \/ (pc'[c] \in {"run", "recv"} /\ headerSent[c])
                 PROVE  AnnouncedAfter(c) \/ \E j \in DOMAIN mout' : Begins(mout'[j].frame, c)
      BY <2>1 DEF HeadSendAfter
    <3>1. CASE c = a /\ pc[a] = "qbegin" BY <2>7, <2>8, <3>1
    <3>2. CASE ~(c = a /\ pc[a] = "qbegin")
      <4>1. pc[c] = "qdata" \/ (pc[c] \in {"run", "recv"} /\ headerSent[c]) BY <2>2, <3>2, LoopApart
      <4>2. Announced(c) \/ \E j \in DOMAIN mout : Begins(mout[j].frame, c) BY <2>4, <4>1 DEF HeadSend
      <4>3. QED BY <2>5, <2>7, <4>2
    <3>3. QED BY <3>1, <3>2
  <2>12. QED BY <2>6, <2>10, <2>11
<1>5. QED BY <1>2, <1>3, <1>4, ServerReplies

LEMMA HeadStep == TypeOK /\ IsoInv /\ LifeInv /\ HeadInv /\ [Next]_vars => HeadInv'
<1> SUFFICES ASSUME TypeOK, IsoInv, LifeInv, HeadInv, [Next]_vars PROVE HeadInv'
  OBVIOUS
<1>1. ASSUME UNCHANGED <<clientVars, serverVars, s2c>>, sclosed => sclosed' PROVE HeadInv'
  <2>1. UNCHANGED <<pc, headerSent, mout, resp, serveCancel, cstreams, seqOf, cpc, chdr, got, cin, apc, aitem>>
    BY <1>1 DEF serverVars, sstreamVars, handlerVars, clientVars, streamVars, callerVars, attachVars
  <2>2. NotBegun' /\ (HeadIn => HeadIn') BY <2>1 DEF HeadInv, NotBegun, HeadIn
  <2>3. \A c : Heard(c) <=> HeardAfter(c) BY <2>1 DEF Heard, HeardAfter, Gone, GoneAfter, Opened
  <2>4. \A c : Announced(c) => AnnouncedAfter(c) BY <1>1, <2>3 DEF Announced, AnnouncedAfter
  <2>5. HeadWire => HeadWireAfter BY <1>1, <2>3 DEF HeadWire, HeadWireAfter
  <2>6. HeadQueue => HeadQueueAfter BY <2>1, <2>4 DEF HeadQueue, HeadQueueAfter
  <2>7. HeadSend => HeadSendAfter BY <2>1, <2>4 DEF HeadSend, HeadSendAfter
  <2>8. QED BY <2>1, <2>2, <2>5, <2>6, <2>7, HeadPrimed DEF HeadInv
<1>2. CASE UNCHANGED vars BY <1>1, <1>2 DEF vars, wireVars
<1>3. CASE (ServerConnClose \/ OnClose) /\ UNCHANGED <<clientVars, serverVars>>
  BY <1>1, <1>3 DEF ServerConnClose, OnClose
<1>4. QED BY <1>2, <1>3, Kinds, HeadClient, HeadServer

(***************************************************************************)
(* As long as the counter has not come around, Begin has been dispatched   *)
(* before any Data of the stream is queued for its caller, so that the     *)
(* header is complete when the first message is visible, unless Serve's    *)
(* ctx was canceled while Begin waited for the writer.                     *)
(***************************************************************************)
THEOREM HeaderIsFirst == Spec /\ []NoWrap => []HeaderBeforeData
<1>1. Init => HeadInv
  <2> SUFFICES ASSUME Init PROVE HeadInv
    OBVIOUS
  <2>1. NotBegun BY DEF Init, ServerInit, NotBegun
  <2>2. HeadWire /\ HeadQueue BY DEF Init, WireInit, ServerInit, HeadWire, HeadQueue
  <2>3. HeadSend BY LoopApart DEF Init, ServerInit, HeadSend
  <2>4. HeadIn BY DEF Init, ClientInit, HeadIn
  <2>5. QED BY <2>1, <2>2, <2>3, <2>4 DEF HeadInv
<1>2. HeadInv => HeaderBeforeData BY DEF HeadInv, HeadIn, HeaderBeforeData
<1>3. QED BY <1>1, <1>2, HeadStep, IsoHolds, LifeHolds, TypeCorrect, PTL DEF Spec

-----------------------------------------------------------------------------
\* Frames of one call in a queue of frames: the notions the order of responses
\* and the order of requests share.

IsData(f, c) == f.type = "data" /\ f.id = c

\* Positions grow along w.
Rising(w, c) ==
  \A i, j \in DOMAIN w : i < j /\ IsData(w[i], c) /\ IsData(w[j], c) => w[i].val < w[j].val

Above(w, c, n) == \A i \in DOMAIN w : IsData(w[i], c) => n < w[i].val
Below(w, c, n) == \A i \in DOMAIN w : IsData(w[i], c) => w[i].val < n

Holds(w, c, m) == \E i \in DOMAIN w : IsData(w[i], c) /\ w[i].val = m

\* From n on, no position is missing before one that is in w.
Filled(w, c, n) ==
  \A i \in DOMAIN w : IsData(w[i], c) =>
    \A m \in (n + 1) .. (w[i].val - 1) : \E j \in DOMAIN w : j < i /\ IsData(w[j], c) /\ w[j].val = m

\* The last position of a queue of payloads.
LastOf(q) == IF q = <<>> THEN 0 ELSE q[Len(q)][2]

LEMMA DataTyped ==
  ASSUME NEW w \in Seq(Frame)
  PROVE  /\ Len(w) \in Nat /\ DOMAIN w = 1 .. Len(w)
         /\ \A i \in DOMAIN w : i \in Nat \ {0} /\ w[i] \in Frame /\ w[i].val \in Nat
<1>1. \A i \in DOMAIN w : w[i] \in Frame OBVIOUS
<1>2. QED BY <1>1 DEF Frame

\* What is left when frames are taken out of a queue, wherever they were: g
\* tells where each frame of v was in w.
LEMMA Thinned ==
  ASSUME NEW c, NEW w \in Seq(Frame), NEW v \in Seq(Frame), NEW g \in [DOMAIN v -> DOMAIN w],
         \A i \in DOMAIN v : v[i] = w[g[i]],
         \A i, j \in DOMAIN v : i < j => g[i] < g[j]
  PROVE  /\ Rising(w, c) => Rising(v, c)
         /\ \A n : Above(w, c, n) => Above(v, c, n)
         /\ \A n : Below(w, c, n) => Below(v, c, n)
<1>1. \A i \in DOMAIN v : g[i] \in DOMAIN w OBVIOUS
<1>2. Rising(w, c) => Rising(v, c) BY <1>1 DEF Rising
<1>3. QED BY <1>1, <1>2 DEF Above, Below

LEMMA ThinnedTail ==
  ASSUME NEW c, NEW w \in Seq(Frame), w # <<>>
  PROVE  /\ Rising(w, c) => Rising(Tail(w), c)
         /\ \A n : Above(w, c, n) => Above(Tail(w), c, n)
         /\ \A n : Below(w, c, n) => Below(Tail(w), c, n)
<1>1. /\ Tail(w) \in Seq(Frame)
      /\ \A i \in DOMAIN Tail(w) : i \in Nat \ {0} /\ i + 1 \in DOMAIN w /\ Tail(w)[i] = w[i + 1]
  BY TailIs
<1> DEFINE g == [i \in DOMAIN Tail(w) |-> i + 1]
<1>2. g \in [DOMAIN Tail(w) -> DOMAIN w] BY <1>1
<1>3. \A i \in DOMAIN Tail(w) : Tail(w)[i] = w[g[i]] BY <1>1
<1>4. \A i, j \in DOMAIN Tail(w) : i < j => g[i] < g[j] BY <1>1
<1> HIDE DEF g
<1>5. QED BY <1>1, <1>2, <1>3, <1>4, Thinned

\* A frame is added at the end.
LEMMA Extended ==
  ASSUME NEW c, NEW w \in Seq(Frame), NEW f \in Frame
  PROVE  /\ Rising(w, c) /\ (IsData(f, c) => Below(w, c, f.val)) => Rising(Append(w, f), c)
         /\ \A n : Above(w, c, n) /\ (IsData(f, c) => n < f.val) => Above(Append(w, f), c, n)
         /\ \A n : Below(w, c, n) /\ (IsData(f, c) => f.val < n) => Below(Append(w, f), c, n)
<1> DEFINE v == Append(w, f)
           k == Len(w)
<1>1. /\ k \in Nat /\ v[k + 1] = f
      /\ \A i \in DOMAIN v : \/ i \in DOMAIN w /\ i \in 1 .. k /\ v[i] = w[i]
                             \/ i = k + 1
  BY AppendIs
<1> HIDE DEF v, k
<1>2. ASSUME Rising(w, c), IsData(f, c) => Below(w, c, f.val) PROVE Rising(v, c)
  <2> SUFFICES ASSUME NEW i \in DOMAIN v, NEW j \in DOMAIN v, i < j, IsData(v[i], c), IsData(v[j], c)
               PROVE  v[i].val < v[j].val
    BY DEF Rising
  <2>1. i \in DOMAIN w /\ v[i] = w[i] BY <1>1
  <2>2. CASE j \in DOMAIN w /\ v[j] = w[j] BY <1>2, <2>1, <2>2 DEF Rising
  <2>3. CASE j = k + 1 BY <1>1, <1>2, <2>1, <2>3 DEF Below
  <2>4. QED BY <1>1, <2>2, <2>3
<1>3. ASSUME NEW n, Above(w, c, n), IsData(f, c) => n < f.val PROVE Above(v, c, n)
  BY <1>1, <1>3 DEF Above
<1>4. ASSUME NEW n, Below(w, c, n), IsData(f, c) => f.val < n PROVE Below(v, c, n)
  BY <1>1, <1>4 DEF Below
<1>5. QED BY <1>2, <1>3, <1>4 DEF v

\* The head of a filled queue is the next position, and the rest is filled.
LEMMA FilledTail ==
  ASSUME NEW c, NEW n \in Nat, NEW w \in Seq(Frame), w # <<>>, Filled(w, c, n)
  PROVE  /\ ~IsData(Head(w), c) => Filled(Tail(w), c, n)
         /\ IsData(Head(w), c) => Head(w).val <= n + 1
         /\ IsData(Head(w), c) /\ Head(w).val = n + 1 => Filled(Tail(w), c, n + 1)
<1> DEFINE v == Tail(w)
           h == Head(w)
<1>1. /\ h = w[1] /\ 1 \in DOMAIN w /\ h \in Frame
      /\ \A i \in DOMAIN v : i \in Nat \ {0} /\ i + 1 \in DOMAIN w /\ v[i] = w[i + 1]
      /\ \A i \in DOMAIN w : i \in Nat \ {0} /\ (i # 1 => i - 1 \in DOMAIN v /\ v[i - 1] = w[i])
  BY TailIs
<1>2. h.val \in Nat /\ \A i \in DOMAIN w : w[i].val \in Nat BY <1>1, DataTyped
<1> HIDE DEF v, h
<1>3. ASSUME IsData(h, c) PROVE h.val <= n + 1
  <2>1. \A j \in DOMAIN w : ~(j < 1) BY <1>1
  <2>2. \A m \in (n + 1) .. (h.val - 1) : FALSE BY <1>1, <1>3, <2>1 DEF Filled
  <2>3. QED BY <1>2, <2>2
<1>4. ASSUME NEW p \in Nat, p >= n, IsData(h, c) => h.val <= p PROVE Filled(v, c, p)
  <2> SUFFICES ASSUME NEW i \in DOMAIN v, IsData(v[i], c), NEW m \in (p + 1) .. (v[i].val - 1)
               PROVE  \E j \in DOMAIN v : j < i /\ IsData(v[j], c) /\ v[j].val = m
    BY DEF Filled
  <2>1. i \in Nat /\ i + 1 \in DOMAIN w /\ v[i] = w[i + 1] /\ v[i].val \in Nat BY <1>1, <1>2
  <2>2. m \in (n + 1) .. (w[i + 1].val - 1) /\ m > p BY <1>4, <2>1
  <2>3. PICK j \in DOMAIN w : j < i + 1 /\ IsData(w[j], c) /\ w[j].val = m BY <2>1, <2>2 DEF Filled
  <2>4. j # 1 BY <1>1, <1>2, <1>4, <2>2, <2>3
  <2>5. j - 1 \in DOMAIN v /\ v[j - 1] = w[j] /\ j - 1 < i BY <1>1, <2>1, <2>3, <2>4
  <2>6. QED BY <2>3, <2>5
<1>5. QED BY <1>3, <1>4 DEF v, h

LEMMA FilledAppend ==
  ASSUME NEW c, NEW n \in Nat, NEW w \in Seq(Frame), NEW f \in Frame, Filled(w, c, n),
         IsData(f, c) => \A m \in (n + 1) .. (f.val - 1) : Holds(w, c, m)
  PROVE  Filled(Append(w, f), c, n)
<1> DEFINE v == Append(w, f)
           k == Len(w)
<1>1. /\ k \in Nat /\ v[k + 1] = f
      /\ \A i \in DOMAIN w : i \in 1 .. k /\ i \in DOMAIN v /\ v[i] = w[i]
      /\ \A i \in DOMAIN v : i \in DOMAIN w \/ i = k + 1
  BY AppendIs
<1> HIDE DEF v, k
<1>2. SUFFICES Filled(v, c, n) BY DEF v
<1>3. SUFFICES ASSUME NEW i \in DOMAIN v, IsData(v[i], c), NEW m \in (n + 1) .. (v[i].val - 1)
               PROVE  \E j \in DOMAIN v : j < i /\ IsData(v[j], c) /\ v[j].val = m
  BY DEF Filled
<1>4. CASE i \in DOMAIN w
  <2>1. PICK j \in DOMAIN w : j < i /\ IsData(w[j], c) /\ w[j].val = m BY <1>1, <1>3, <1>4 DEF Filled
  <2>2. QED BY <1>1, <2>1
<1>5. CASE i = k + 1
  <2>1. PICK j \in DOMAIN w : IsData(w[j], c) /\ w[j].val = m BY <1>1, <1>3, <1>5 DEF Holds
  <2>2. j < i BY <1>1, <1>5, <2>1
  <2>3. QED BY <1>1, <2>1, <2>2
<1>6. QED BY <1>1, <1>3, <1>4, <1>5

\* What is in a queue stays in it: a longer one holds it, and a tail does,
\* unless it was the head.
LEMMA HoldsStays ==
  ASSUME NEW c, NEW m, NEW w \in Seq(Frame), Holds(w, c, m)
  PROVE  /\ \A f \in Frame : Holds(Append(w, f), c, m)
         /\ w # <<>> /\ ~(IsData(Head(w), c) /\ Head(w).val = m) => Holds(Tail(w), c, m)
<1>1. PICK i \in DOMAIN w : IsData(w[i], c) /\ w[i].val = m BY DEF Holds
<1>2. ASSUME NEW f \in Frame PROVE Holds(Append(w, f), c, m)
  BY <1>1, <1>2, AppendIs DEF Holds
<1>3. ASSUME w # <<>>, ~(IsData(Head(w), c) /\ Head(w).val = m) PROVE Holds(Tail(w), c, m)
  <2>1. Head(w) = w[1] /\ (i # 1 => i - 1 \in DOMAIN Tail(w) /\ Tail(w)[i - 1] = w[i]) BY <1>1, <1>3, TailIs
  <2>2. QED BY <1>1, <1>3, <2>1 DEF Holds
<1>4. QED BY <1>2, <1>3

\* The head's position is below all that follow.
LEMMA RisingTail ==
  ASSUME NEW c, NEW w \in Seq(Frame), w # <<>>, Rising(w, c), IsData(Head(w), c)
  PROVE  Above(Tail(w), c, Head(w).val)
<1>1. /\ Head(w) = w[1] /\ 1 \in DOMAIN w
      /\ \A i \in DOMAIN Tail(w) : i \in Nat \ {0} /\ i + 1 \in DOMAIN w /\ Tail(w)[i] = w[i + 1]
  BY TailIs
<1>2. \A i \in DOMAIN Tail(w) : 1 < i + 1 BY <1>1
<1>3. QED BY <1>1, <1>2 DEF Above, Rising

LEMMA FilledPrefix ==
  ASSUME NEW c, NEW n, NEW w \in Seq(Frame), NEW v \in Seq(Frame), Filled(w, c, n),
         \A i \in DOMAIN v : i \in DOMAIN w /\ v[i] = w[i]
  PROVE  Filled(v, c, n)
<1> SUFFICES ASSUME NEW i \in DOMAIN v, IsData(v[i], c), NEW m \in (n + 1) .. (v[i].val - 1)
             PROVE  \E j \in DOMAIN v : j < i /\ IsData(v[j], c) /\ v[j].val = m
  BY DEF Filled
<1>1. PICK j \in DOMAIN w : j < i /\ IsData(w[j], c) /\ w[j].val = m BY DEF Filled
<1>2. j \in DOMAIN v BY <1>1
<1>3. QED BY <1>1, <1>2

\* A wire and the queue of frames that wait for it, as one queue.
Joined(p, q) == [i \in 1 .. (Len(p) + Len(q)) |-> IF i <= Len(p) THEN p[i] ELSE q[i - Len(p)].frame]

LEMMA JoinedIs ==
  ASSUME NEW p \in Seq(Frame), NEW q \in Seq(Out)
  PROVE  /\ Joined(p, q) \in Seq(Frame) /\ Len(Joined(p, q)) = Len(p) + Len(q)
         /\ \A i \in DOMAIN p : i \in DOMAIN Joined(p, q) /\ Joined(p, q)[i] = p[i]
<1>1. Len(p) \in Nat /\ Len(q) \in Nat OBVIOUS
<1>2. ASSUME NEW i \in 1 .. (Len(p) + Len(q)) PROVE Joined(p, q)[i] \in Frame
  <2>1. CASE i <= Len(p) BY <1>1, <1>2, <2>1 DEF Joined
  <2>2. CASE ~(i <= Len(p))
    <3>1. i - Len(p) \in 1 .. Len(q) BY <1>1, <1>2, <2>2
    <3>2. q[i - Len(p)] \in Out BY <3>1
    <3>3. QED BY <1>2, <2>2, <3>2 DEF Joined, Out
  <2>3. QED BY <2>1, <2>2
<1>3. Joined(p, q) \in [1 .. (Len(p) + Len(q)) -> Frame] BY <1>2 DEF Joined
<1>4. Joined(p, q) \in Seq(Frame) /\ Len(Joined(p, q)) = Len(p) + Len(q)
  <2>1. Len(p) + Len(q) \in Nat BY <1>1
  <2>2. QED BY <1>3, <2>1
<1>5. \A i \in DOMAIN p : i \in 1 .. (Len(p) + Len(q)) /\ i <= Len(p) BY <1>1
<1>6. QED BY <1>4, <1>5 DEF Joined

LEMMA SameSeq ==
  ASSUME NEW S, NEW v \in Seq(S), NEW w \in Seq(S), Len(v) = Len(w), \A i \in 1 .. Len(w) : v[i] = w[i]
  PROVE  v = w
OBVIOUS

\* The pump takes the head of the wire; an actor adds to the queue; the writer
\* moves a frame from the queue to the wire, or drops it.
LEMMA JoinedTail ==
  ASSUME NEW p \in Seq(Frame), NEW q \in Seq(Out), p # <<>>
  PROVE  /\ Joined(p, q) # <<>> /\ Head(Joined(p, q)) = Head(p)
         /\ Joined(Tail(p), q) = Tail(Joined(p, q))
<1> DEFINE w == Joined(p, q)
           v == Joined(Tail(p), q)
           k == Len(p)
           l == Len(q)
<1>1. k \in Nat \ {0} /\ l \in Nat /\ Tail(p) \in Seq(Frame) /\ Len(Tail(p)) = k - 1 OBVIOUS
<1>2. w \in Seq(Frame) /\ Len(w) = k + l /\ v \in Seq(Frame) /\ Len(v) = k - 1 + l BY <1>1, JoinedIs
<1>3. ASSUME NEW i \in 1 .. (k - 1 + l) PROVE v[i] = w[i + 1]
  <2>1. v[i] = IF i <= k - 1 THEN Tail(p)[i] ELSE q[i - (k - 1)].frame BY <1>1, <1>3 DEF Joined
  <2>2. w[i + 1] = IF i + 1 <= k THEN p[i + 1] ELSE q[i + 1 - k].frame BY <1>1, <1>3 DEF Joined
  <2>3. i <= k - 1 => Tail(p)[i] = p[i + 1] BY <1>1, <1>3
  <2>4. i - (k - 1) = i + 1 - k /\ (i <= k - 1 <=> i + 1 <= k) BY <1>1, <1>3
  <2>5. QED BY <2>1, <2>2, <2>3, <2>4
<1>4. w[1] = p[1] BY <1>1 DEF Joined
<1> HIDE DEF w, v
<1>5. w # <<>> BY <1>1, <1>2
<1>6. Tail(w) \in Seq(Frame) /\ Len(Tail(w)) = k - 1 + l /\ Head(w) = w[1] BY <1>1, <1>2, <1>5
<1>7. \A i \in 1 .. (k - 1 + l) : Tail(w)[i] = w[i + 1] BY <1>1, <1>2, <1>5
<1>8. v = Tail(w) BY <1>2, <1>3, <1>6, <1>7, SameSeq
<1>9. QED BY <1>4, <1>5, <1>6, <1>8 DEF w, v

LEMMA JoinedAppend ==
  ASSUME NEW p \in Seq(Frame), NEW q \in Seq(Out), NEW o \in Out
  PROVE  Joined(p, Append(q, o)) = Append(Joined(p, q), o.frame)
<1> DEFINE w == Joined(p, q)
           v == Joined(p, Append(q, o))
           k == Len(p)
           l == Len(q)
           r == Append(w, o.frame)
<1>0. o.frame \in Frame BY DEF Out
<1>1. k \in Nat /\ l \in Nat /\ Append(q, o) \in Seq(Out) /\ Len(Append(q, o)) = l + 1 OBVIOUS
<1>2. w \in Seq(Frame) /\ Len(w) = k + l /\ v \in Seq(Frame) /\ Len(v) = k + l + 1
  <2>1. w \in Seq(Frame) /\ Len(w) = k + l BY JoinedIs
  <2>2. v \in Seq(Frame) /\ Len(v) = k + Len(Append(q, o)) BY <1>1, JoinedIs
  <2>3. QED BY <1>1, <2>1, <2>2
<1>3. r \in Seq(Frame) /\ Len(r) = k + l + 1 BY <1>0, <1>2
<1>4. ASSUME NEW i \in 1 .. (k + l + 1) PROVE v[i] = r[i]
  <2>1. v[i] = IF i <= k THEN p[i] ELSE Append(q, o)[i - k].frame BY <1>1, <1>4 DEF Joined
  <2>2. i <= k + l => r[i] = w[i] BY <1>0, <1>1, <1>2, <1>4
  <2>3. i = k + l + 1 => r[i] = o.frame BY <1>0, <1>1, <1>2, <1>4
  <2>4. i <= k + l => w[i] = IF i <= k THEN p[i] ELSE q[i - k].frame BY <1>1, <1>4 DEF Joined
  <2>5. i <= k + l /\ ~(i <= k) => Append(q, o)[i - k] = q[i - k] BY <1>1, <1>4
  <2>6. i = k + l + 1 => Append(q, o)[i - k] = o /\ ~(i <= k) BY <1>1, <1>4
  <2>7. i <= k + l \/ i = k + l + 1 BY <1>1, <1>4
  <2>8. CASE i <= k + l BY <2>1, <2>2, <2>4, <2>5, <2>8
  <2>9. CASE i = k + l + 1 BY <2>1, <2>3, <2>6, <2>9
  <2>10. QED BY <2>7, <2>8, <2>9
<1> HIDE DEF w, v, r
<1>5. v = r BY <1>2, <1>3, <1>4, SameSeq
<1>6. QED BY <1>5 DEF w, v, r

LEMMA JoinedMove ==
  ASSUME NEW p \in Seq(Frame), NEW q \in Seq(Out), q # <<>>
  PROVE  Joined(Append(p, Head(q).frame), Tail(q)) = Joined(p, q)
<1> DEFINE w == Joined(p, q)
           h == Head(q).frame
           a == Append(p, h)
           v == Joined(a, Tail(q))
           k == Len(p)
           l == Len(q)
<1>1. Head(q) \in Out /\ Head(q) = q[1] BY TailIs
<1>2. h \in Frame BY <1>1 DEF Out
<1>3. /\ k \in Nat /\ l \in Nat \ {0} /\ Tail(q) \in Seq(Out) /\ Len(Tail(q)) = l - 1
      /\ a \in Seq(Frame) /\ Len(a) = k + 1
  BY <1>2
<1>4. w \in Seq(Frame) /\ Len(w) = k + l /\ v \in Seq(Frame) /\ Len(v) = k + l
  <2>1. w \in Seq(Frame) /\ Len(w) = k + l BY JoinedIs
  <2>2. v \in Seq(Frame) /\ Len(v) = Len(a) + Len(Tail(q)) BY <1>3, JoinedIs
  <2>3. QED BY <1>3, <2>1, <2>2
<1>5. ASSUME NEW i \in 1 .. (k + l) PROVE v[i] = w[i]
  <2>1. v[i] = IF i <= k + 1 THEN a[i] ELSE Tail(q)[i - (k + 1)].frame BY <1>3, <1>5 DEF Joined
  <2>2. w[i] = IF i <= k THEN p[i] ELSE q[i - k].frame BY <1>3, <1>5 DEF Joined
  <2>3. i <= k => a[i] = p[i] BY <1>2, <1>3, <1>5
  <2>4. i = k + 1 => a[i] = h /\ i - k = 1 BY <1>2, <1>3, <1>5
  <2>5. i > k + 1 => Tail(q)[i - (k + 1)] = q[i - k]
    <3>1. \A j \in 1 .. (l - 1) : Tail(q)[j] = q[j + 1] BY <1>3
    <3>2. i > k + 1 => i - (k + 1) \in 1 .. (l - 1) /\ i - (k + 1) + 1 = i - k BY <1>3, <1>5
    <3>3. QED BY <3>1, <3>2
  <2>6. QED BY <1>1, <1>3, <1>5, <2>1, <2>2, <2>3, <2>4, <2>5
<1> HIDE DEF w, v, h, a
<1>6. v = w BY <1>4, <1>5, SameSeq
<1>7. QED BY <1>6 DEF w, v, h, a

LEMMA JoinedDrop ==
  ASSUME NEW c, NEW p \in Seq(Frame), NEW q \in Seq(Out), q # <<>>
  PROVE  /\ Rising(Joined(p, q), c) => Rising(Joined(p, Tail(q)), c)
         /\ \A n : Above(Joined(p, q), c, n) => Above(Joined(p, Tail(q)), c, n)
         /\ \A n : Below(Joined(p, q), c, n) => Below(Joined(p, Tail(q)), c, n)
<1> DEFINE w == Joined(p, q)
           v == Joined(p, Tail(q))
           k == Len(p)
           l == Len(q)
           g == [i \in DOMAIN v |-> IF i <= k THEN i ELSE i + 1]
<1>1. k \in Nat /\ l \in Nat \ {0} /\ Tail(q) \in Seq(Out) /\ Len(Tail(q)) = l - 1 OBVIOUS
<1>2. w \in Seq(Frame) /\ Len(w) = k + l /\ v \in Seq(Frame) /\ Len(v) = k + (l - 1) BY <1>1, JoinedIs
<1>3. DOMAIN v = 1 .. (k + (l - 1)) /\ DOMAIN w = 1 .. (k + l) BY <1>2
<1>4. ASSUME NEW i \in 1 .. (k + (l - 1)) PROVE v[i] = w[IF i <= k THEN i ELSE i + 1]
  <2>1. v[i] = IF i <= k THEN p[i] ELSE Tail(q)[i - k].frame BY <1>1, <1>4 DEF Joined
  <2>2. i <= k => w[i] = p[i] BY <1>1, <1>4 DEF Joined
  <2>3. ~(i <= k) => w[i + 1] = q[i + 1 - k].frame BY <1>1, <1>4 DEF Joined
  <2>4. ~(i <= k) => Tail(q)[i - k] = q[i + 1 - k]
    <3>1. \A j \in 1 .. (l - 1) : Tail(q)[j] = q[j + 1] BY <1>1
    <3>2. ~(i <= k) => i - k \in 1 .. (l - 1) /\ i - k + 1 = i + 1 - k BY <1>1, <1>4
    <3>3. QED BY <3>1, <3>2
  <2>5. QED BY <2>1, <2>2, <2>3, <2>4
<1> HIDE DEF w, v
<1>5. g \in [DOMAIN v -> DOMAIN w] BY <1>1, <1>3
<1>6. \A i \in DOMAIN v : v[i] = w[g[i]] BY <1>3, <1>4
<1>7. \A i, j \in DOMAIN v : i < j => g[i] < g[j] BY <1>1, <1>3
<1> HIDE DEF g
<1>8. QED BY <1>2, <1>5, <1>6, <1>7, Thinned DEF w, v

\* Moving the head of one queue of payloads to the end of another, and adding
\* a payload to the second.
LEMMA TakeKeeps ==
  ASSUME NEW S, NEW p \in Seq(S), NEW q \in Seq(S), q # <<>>
  PROVE  Append(p, Head(q)) \o Tail(q) = p \o q
<1>1. Head(q) \in S /\ Tail(q) \in Seq(S) /\ Len(Tail(q)) = Len(q) - 1 /\ Len(q) \in Nat /\ Len(p) \in Nat
  OBVIOUS
<1> DEFINE l == Append(p, Head(q)) \o Tail(q)
           r == p \o q
<1>2. l \in Seq(S) /\ r \in Seq(S) /\ Len(l) = Len(r) BY <1>1
<1>3. ASSUME NEW i \in 1 .. Len(r) PROVE l[i] = r[i]
  <2>1. CASE i <= Len(p) BY <1>1, <1>3, <2>1
  <2>2. CASE i = Len(p) + 1 BY <1>1, <1>3, <2>2
  <2>3. CASE i > Len(p) + 1 BY <1>1, <1>3, <2>3
  <2>4. QED BY <1>1, <1>2, <1>3, <2>1, <2>2, <2>3
<1>4. QED BY <1>2, <1>3

LEMMA AddedLast ==
  ASSUME NEW S, NEW p \in Seq(S), NEW q \in Seq(S), NEW m \in S
  PROVE  p \o Append(q, m) = Append(p \o q, m)
OBVIOUS

\* A payload at the end of an ordered queue.
LEMMA OrderedAppend ==
  ASSUME NEW c \in Calls, NEW q \in Seq(Payload), NEW v \in Nat, Ordered(c, q), LastOf(q) < v
  PROVE  /\ Ordered(c, Append(q, <<c, v>>)) /\ LastOf(Append(q, <<c, v>>)) = v
         /\ Contiguous(c, q) /\ v = Len(q) + 1 => Contiguous(c, Append(q, <<c, v>>))
<1> DEFINE m == <<c, v>>
           r == Append(q, m)
           k == Len(q)
<1>1. m \in Payload /\ m[1] = c /\ m[2] = v BY DEF Payload
<1>2. /\ k \in Nat /\ r[k + 1] = m /\ Len(r) = k + 1
      /\ \A i \in DOMAIN q : i \in 1 .. k /\ r[i] = q[i]
      /\ \A i \in DOMAIN r : i \in 1 .. k + 1 /\ (i # k + 1 => i \in DOMAIN q)
      /\ q # <<>> => k \in DOMAIN q
      /\ q = <<>> => k = 0
  BY <1>1, AppendIs
<1>3. r # <<>> BY <1>1, NotEmpty
<1>4. LastOf(r) = v BY <1>1, <1>2, <1>3 DEF LastOf
<1>5. q # <<>> => q[k][2] < v BY DEF LastOf
<1> HIDE DEF m, r, k
<1>6. Ordered(c, r)
  <2> SUFFICES ASSUME NEW i \in DOMAIN r
               PROVE  r[i][1] = c /\ (IF i > 1 THEN r[i - 1][2] ELSE 0) < r[i][2]
    BY DEF Ordered
  <2>1. CASE i # k + 1
    <3>1. i \in DOMAIN q /\ r[i] = q[i] BY <1>2, <2>1
    <3>2. i > 1 => i - 1 \in DOMAIN q /\ r[i - 1] = q[i - 1]
      <4>1. \A j \in DOMAIN q : j > 1 => j - 1 \in DOMAIN q OBVIOUS
      <4>2. QED BY <1>2, <3>1, <4>1
    <3>3. QED BY <3>1, <3>2 DEF Ordered
  <2>2. CASE i = k + 1
    <3>1. i > 1 => q # <<>> BY <1>2, <2>2
    <3>2. i > 1 => r[i - 1][2] < v BY <1>2, <1>5, <2>2, <3>1
    <3>3. ~(i > 1) => q = <<>> BY <1>2, <2>2
    <3>4. ~(i > 1) => 0 < v BY <3>3 DEF LastOf
    <3>5. QED BY <1>1, <1>2, <2>2, <3>2, <3>4
  <2>3. QED BY <2>1, <2>2
<1>7. ASSUME Contiguous(c, q), v = k + 1 PROVE Contiguous(c, r)
  BY <1>2, <1>7 DEF Contiguous, m
<1>8. QED BY <1>4, <1>6, <1>7 DEF r, m, k

\* The last position of a queue without gaps is its length.
LEMMA LastContiguous ==
  ASSUME NEW c \in Calls, NEW q \in Seq(Payload)
  PROVE  LastOf(q) \in Nat /\ (Contiguous(c, q) => LastOf(q) = Len(q))
<1>1. CASE q = <<>> BY <1>1 DEF LastOf
<1>2. CASE q # <<>>
  <2>1. Len(q) \in DOMAIN q /\ q[Len(q)] \in Payload BY <1>2
  <2>2. Contiguous(c, q) => q[Len(q)] = <<c, Len(q)>> BY <2>1 DEF Contiguous
  <2>3. QED BY <1>2, <2>1, <2>2 DEF LastOf, Payload
<1>3. QED BY <1>1, <1>2

-----------------------------------------------------------------------------
\* The order of responses.

Reached(c) == got[c] \o cin[c]
InHand(c) == apc = "deliver" /\ aitem.to = c

\* The last response of c the pump has taken off the wire.
Last(c) == IF InHand(c) THEN aitem.item[2] ELSE LastOf(Reached(c))

\* The response of c that is queued next.
Coming(c) == IF pc[c] \in {"qbegin", "qdata"} THEN resp[c] ELSE resp[c] + 1

\* The frames between the handlers and the pump.
Way == Joined(s2c, mout)

ReplyOrder(c) ==
  /\ Ordered(c, Reached(c))
  /\ InHand(c) => LastOf(Reached(c)) < aitem.item[2]
  /\ Last(c) < Coming(c)
  /\ Rising(Way, c) /\ Above(Way, c, Last(c)) /\ Below(Way, c, Coming(c))

\* While Serve's ctx lives nothing is lost before the pump; while this end is
\* open nothing is lost before the wire.
ReplyWhole(c) ==
  ~serveCancel =>
    /\ Contiguous(c, Reached(c))
    /\ InHand(c) => aitem.item[2] = Len(Reached(c)) + 1
    /\ ~Gone(c) =>
         /\ Filled(s2c, c, Last(c))
         /\ ~sclosed => /\ Filled(Way, c, Last(c))
                        /\ pc[c] \in Live \cup {"none"} =>
                             \A m \in (Last(c) + 1) .. (Coming(c) - 1) : Holds(Way, c, m)

\* The pump delivers to open streams only.
HandOpen == apc = "deliver" => cend[aitem.to] = None

ReplyInv == HandOpen /\ \A c \in Calls : ReplyOrder(c) /\ ReplyWhole(c)

LEMMA ReplyTypes ==
  ASSUME TypeOK, NEW c \in Calls
  PROVE  /\ Reached(c) \in Seq(Payload) /\ LastOf(Reached(c)) \in Nat /\ Last(c) \in Nat /\ Coming(c) \in Nat
         /\ s2c \in Seq(Frame) /\ mout \in Seq(Out) /\ Way \in Seq(Frame)
         /\ InHand(c) => aitem \in Delivery /\ aitem.item \in Payload /\ aitem.item[2] \in Nat
<1>1. Reached(c) \in Seq(Payload) BY DEF Reached, TypeOK, ClientTypeOK
<1>2. LastOf(Reached(c)) \in Nat BY <1>1, LastContiguous
<1>3. s2c \in Seq(Frame) /\ mout \in Seq(Out) BY DEF TypeOK, WireTypeOK, ServerTypeOK
<1>4. Way \in Seq(Frame) BY <1>3, JoinedIs DEF Way
<1>5. InHand(c) => aitem \in Delivery BY DEF InHand, TypeOK, ClientTypeOK
<1>6. aitem \in Delivery => aitem.item \in Payload /\ aitem.item[2] \in Nat BY DEF Delivery, Payload
<1>7. Coming(c) \in Nat BY DEF Coming, TypeOK, ServerTypeOK
<1>8. QED BY <1>1, <1>2, <1>3, <1>4, <1>5, <1>6, <1>7 DEF Last

\* A step that moves no response of c.
LEMMA ReplySteady ==
  ASSUME TypeOK, NEW c \in Calls, ReplyOrder(c), ReplyWhole(c),
         Reached(c)' = Reached(c), InHand(c)' <=> InHand(c), InHand(c) => aitem' = aitem,
         s2c' = s2c, Way' = Way, serveCancel => serveCancel', sclosed => sclosed', Gone(c) => Gone(c)',
         Coming(c)' \in Nat, Coming(c)' >= Coming(c),
         pc'[c] \in Live \cup {"none"} => pc[c] \in Live \cup {"none"} /\ Coming(c)' = Coming(c)
  PROVE  ReplyOrder(c)' /\ ReplyWhole(c)'
<1>1. Last(c)' = Last(c) BY DEF Last
<1>2. Last(c) \in Nat /\ Coming(c) \in Nat /\ Way \in Seq(Frame) BY ReplyTypes
<1>3. Below(Way, c, Coming(c)')
  <2>1. \A i \in DOMAIN Way : Way[i].val \in Nat BY <1>2, DataTyped
  <2>2. QED BY <1>2, <2>1 DEF ReplyOrder, Below
<1>4. ReplyOrder(c)' BY <1>1, <1>2, <1>3 DEF ReplyOrder
<1>5. ReplyWhole(c)' BY <1>1 DEF ReplyWhole
<1>6. QED BY <1>4, <1>5

\* What one frame off the wire is to the pump.
LEMMA AttachRecvIs ==
  ASSUME TypeOK, IsoInv, LifeInv, AttachRecv
  PROVE  /\ s2c # <<>> /\ s2c' = Tail(s2c) /\ Head(s2c) \in Frame /\ Head(s2c).id \in Calls
         /\ apc = "recv" /\ UNCHANGED <<got, cin, sclosed>>
         /\ \/ apc' # "deliver" /\ (Head(s2c).type = "data" => Gone(Head(s2c).id))
            \/ /\ apc' = "deliver" /\ Head(s2c).type = "data" /\ ~Gone(Head(s2c).id)
               /\ aitem' = [to |-> Head(s2c).id, item |-> <<Head(s2c).id, Head(s2c).val>>]
               /\ cend' = cend /\ cend[Head(s2c).id] = None
<1> USE DEF TypeOK, ClientTypeOK
<1> DEFINE f == Head(s2c)
           cs == cstreams[f.seq]
<1>1. s2c \in Seq(Frame) /\ s2c # <<>> /\ s2c' = Tail(s2c) /\ apc = "recv" /\ UNCHANGED <<got, cin, sclosed>>
  BY DEF AttachRecv, ClientTake, WireTypeOK, streamVars, callerVars
<1>2. f \in Frame /\ f = s2c[1] /\ 1 \in DOMAIN s2c BY <1>1, TailIs
<1>3. f.seq \in Seqs /\ f.id \in Calls /\ FrameOwned(f) BY <1>2 DEF Frame, IsoInv, WireOwned
<1>4. Opened(f.id) /\ f.seq = seqOf[f.id] BY <1>3 DEF FrameOwned
<1>5. cs # None => cs = f.id /\ cend[cs] = None
  <2>1. ASSUME cs # None PROVE cs = f.id /\ cend[cs] = None
    <3>1. cs \in Calls BY <1>3, <2>1
    <3>2. EntryOwned(f.seq, cs) BY <1>3, <2>1 DEF IsoInv, ClientOwned
    <3>3. cend[cs] = None BY <1>3, <2>1 DEF LifeInv, ClientTable
    <3>4. QED BY <1>2, <1>3, <3>1, <3>2, <3>3, EntryIsOwner DEF IsoInv
  <2>2. QED BY <2>1
<1>6. Gone(f.id) <=> cs # f.id BY <1>4 DEF Gone
<1>7. None # f.id BY <1>3, WireAssumption
<1>8. \/ cs = None /\ apc' = apc
      \/ cs # None /\ f.type # "data" /\ apc' = apc
      \/ /\ cs # None /\ f.type = "data" /\ apc' = "deliver" /\ cend' = cend
         /\ aitem' = [to |-> cs, item |-> <<f.id, f.val>>]
  BY DEF AttachRecv, streamVars
<1> HIDE DEF f, cs
<1>9. \/ apc' # "deliver" /\ (f.type = "data" => Gone(f.id))
      \/ /\ apc' = "deliver" /\ f.type = "data" /\ ~Gone(f.id)
         /\ aitem' = [to |-> f.id, item |-> <<f.id, f.val>>] /\ cend' = cend /\ cend[f.id] = None
  BY <1>1, <1>5, <1>6, <1>7, <1>8
<1>10. QED BY <1>1, <1>2, <1>3, <1>9 DEF f

LEMMA ReplyRecv ==
  ASSUME TypeOK, IsoInv, LifeInv, ReplyInv, UNCHANGED serverVars, AttachRecv
  PROVE  ReplyInv'
<1> DEFINE f == Head(s2c)
<1>0. UNCHANGED <<pc, resp, mout, serveCancel>> BY DEF serverVars, handlerVars
<1>1. /\ s2c # <<>> /\ s2c' = Tail(s2c) /\ f \in Frame /\ f.id \in Calls
      /\ apc = "recv" /\ UNCHANGED <<got, cin, sclosed>>
      /\ \/ apc' # "deliver" /\ (f.type = "data" => Gone(f.id))
         \/ /\ apc' = "deliver" /\ f.type = "data" /\ ~Gone(f.id)
            /\ aitem' = [to |-> f.id, item |-> <<f.id, f.val>>]
            /\ cend' = cend /\ cend[f.id] = None
  BY AttachRecvIs
<1>2. HandOpen' BY <1>1 DEF HandOpen
<1>3. s2c \in Seq(Frame) /\ mout \in Seq(Out) BY DEF TypeOK, WireTypeOK, ServerTypeOK
<1>4. Way # <<>> /\ Head(Way) = f /\ Way' = Tail(Way) /\ Way \in Seq(Frame)
  BY <1>0, <1>1, <1>3, JoinedTail, JoinedIs DEF Way
<1>5. f.val \in Nat BY <1>1 DEF Frame
<1> HIDE DEF f
<1>6. ASSUME NEW c \in Calls PROVE ReplyOrder(c)' /\ ReplyWhole(c)'
  <2>1. ReplyOrder(c) /\ ReplyWhole(c) BY DEF ReplyInv
  <2>2. Reached(c)' = Reached(c) /\ Coming(c)' = Coming(c) BY <1>0, <1>1 DEF Reached, Coming
  <2>3. ~InHand(c) /\ Last(c) = LastOf(Reached(c)) BY <1>1 DEF InHand, Last
  <2>4. Last(c) \in Nat /\ Coming(c) \in Nat /\ Reached(c) \in Seq(Payload) BY ReplyTypes
  <2>5. Gone(c) => Gone(c)'
    <3>1. ClientKind BY DEF ClientKind, AttachStep
    <3>2. QED BY <3>1, GoneStays DEF Gone, GoneAfter, Opened
  <2>6. /\ Rising(Tail(Way), c) /\ Above(Tail(Way), c, Last(c)) /\ Below(Tail(Way), c, Coming(c))
    BY <1>4, <2>1, ThinnedTail DEF ReplyOrder
  <2>7. IsData(f, c) => Last(c) < f.val /\ f.val < Coming(c)
    BY <1>4, <2>1, TailIs DEF ReplyOrder, Above, Below
  <2>8. CASE ~(apc' = "deliver" /\ f.id = c)
    <3>1. ~InHand(c)' BY <1>1, <2>8 DEF InHand
    <3>2. Last(c)' = Last(c) BY <2>2, <2>3, <3>1 DEF Last
    <3>3. ReplyOrder(c)' BY <1>4, <2>1, <2>2, <2>6, <3>1, <3>2 DEF ReplyOrder
    <3>4. ASSUME ~serveCancel, ~Gone(c)'
          PROVE  /\ Filled(Tail(s2c), c, Last(c))
                 /\ ~sclosed => /\ Filled(Tail(Way), c, Last(c))
                                /\ pc[c] \in Live \cup {"none"} =>
                                     \A m \in (Last(c) + 1) .. (Coming(c) - 1) : Holds(Tail(Way), c, m)
      <4>1. ~Gone(c) BY <2>5, <3>4
      <4>2. ~IsData(f, c) BY <1>1, <2>8, <4>1 DEF IsData
      <4>3. Filled(Tail(s2c), c, Last(c))
        BY <1>1, <1>3, <2>1, <2>4, <3>4, <4>1, <4>2, FilledTail DEF ReplyWhole, f
      <4>4. ~sclosed => Filled(Tail(Way), c, Last(c))
        BY <1>4, <2>1, <2>4, <3>4, <4>1, <4>2, FilledTail DEF ReplyWhole
      <4>5. ASSUME ~sclosed, pc[c] \in Live \cup {"none"}, NEW m \in (Last(c) + 1) .. (Coming(c) - 1)
            PROVE  Holds(Tail(Way), c, m)
        <5>1. Holds(Way, c, m) BY <2>1, <3>4, <4>1, <4>5 DEF ReplyWhole
        <5>2. QED BY <1>4, <4>2, <5>1, HoldsStays
      <4>6. QED BY <4>3, <4>4, <4>5
    <3>5. ~serveCancel => Contiguous(c, Reached(c)) BY <2>1 DEF ReplyWhole
    <3>6. ReplyWhole(c)' BY <1>0, <1>1, <1>4, <2>2, <3>1, <3>2, <3>4, <3>5 DEF ReplyWhole
    <3>7. QED BY <3>3, <3>6
  <2>9. CASE apc' = "deliver" /\ f.id = c
    <3>1. /\ InHand(c)' /\ aitem'.item[2] = f.val /\ IsData(f, c) /\ ~Gone(c)
      BY <1>1, <2>9 DEF InHand, IsData
    <3>2. Last(c)' = f.val BY <3>1 DEF Last
    <3>3. Above(Tail(Way), c, f.val) BY <1>4, <2>1, <3>1, RisingTail DEF ReplyOrder
    <3>4. ReplyOrder(c)' BY <1>4, <2>1, <2>2, <2>3, <2>6, <2>7, <3>1, <3>2, <3>3 DEF ReplyOrder
    <3>5. ASSUME ~serveCancel PROVE f.val = Last(c) + 1
      <4>1. Filled(s2c, c, Last(c)) BY <2>1, <3>1, <3>5 DEF ReplyWhole
      <4>2. f.val <= Last(c) + 1 BY <1>1, <1>3, <2>4, <3>1, <4>1, FilledTail DEF f
      <4>3. QED BY <1>5, <2>4, <2>7, <3>1, <4>2
    <3>6. ASSUME ~serveCancel PROVE f.val = Len(Reached(c)) + 1 /\ Contiguous(c, Reached(c))
      <4>1. Contiguous(c, Reached(c)) BY <2>1, <3>6 DEF ReplyWhole
      <4>2. QED BY <2>3, <2>4, <3>5, <3>6, <4>1, LastContiguous
    <3>7. ASSUME ~serveCancel
          PROVE  /\ Filled(Tail(s2c), c, f.val)
                 /\ ~sclosed => /\ Filled(Tail(Way), c, f.val)
                                /\ pc[c] \in Live \cup {"none"} =>
                                     \A m \in (f.val + 1) .. (Coming(c) - 1) : Holds(Tail(Way), c, m)
      <4>1. Filled(Tail(s2c), c, f.val)
        BY <1>1, <1>3, <2>1, <2>4, <3>1, <3>5, <3>7, FilledTail DEF ReplyWhole, f
      <4>2. ~sclosed => Filled(Tail(Way), c, f.val)
        BY <1>4, <2>1, <2>4, <3>1, <3>5, <3>7, FilledTail DEF ReplyWhole
      <4>3. ASSUME ~sclosed, pc[c] \in Live \cup {"none"}, NEW m \in (f.val + 1) .. (Coming(c) - 1)
            PROVE  Holds(Tail(Way), c, m)
        <5>1. m \in (Last(c) + 1) .. (Coming(c) - 1) /\ m # f.val BY <1>5, <2>4, <2>7, <3>1, <4>3
        <5>2. Holds(Way, c, m) BY <2>1, <3>1, <3>7, <4>3, <5>1 DEF ReplyWhole
        <5>3. QED BY <1>4, <5>1, <5>2, HoldsStays
      <4>4. QED BY <4>1, <4>2, <4>3
    <3>8. ReplyWhole(c)' BY <1>0, <1>1, <1>4, <2>2, <3>1, <3>2, <3>6, <3>7 DEF ReplyWhole
    <3>9. QED BY <3>4, <3>8
  <2>10. QED BY <2>8, <2>9
<1>7. QED BY <1>2, <1>6 DEF ReplyInv

LEMMA ReplyDeliver ==
  ASSUME TypeOK, IsoInv, ReplyInv, UNCHANGED serverVars, AttachDeliver
  PROVE  ReplyInv'
<1> USE DEF TypeOK, ClientTypeOK
<1>0. UNCHANGED <<pc, resp, mout, serveCancel>> BY DEF serverVars, handlerVars
<1>1. apc = "deliver" /\ apc' = "recv" /\ UNCHANGED <<s2c, sclosed, got, cstreams, seqOf, cpc>>
  BY DEF AttachDeliver, wireVars, callerVars
<1>2. aitem \in Delivery /\ aitem.to \in Calls /\ aitem.item \in Payload /\ aitem.item[1] = aitem.to
  BY <1>1 DEF Delivery, IsoInv, ClientOwned
<1>3. cin' = [cin EXCEPT ![aitem.to] = Append(@, aitem.item)]
  BY <1>1, <1>2 DEF AttachDeliver, ReplyInv, HandOpen
<1>4. HandOpen' BY <1>1 DEF HandOpen
<1>5. Way' = Way BY <1>0, <1>1 DEF Way
<1>6. ASSUME NEW c \in Calls PROVE ReplyOrder(c)' /\ ReplyWhole(c)'
  <2>1. ReplyOrder(c) /\ ReplyWhole(c) BY DEF ReplyInv
  <2>2. Coming(c)' = Coming(c) /\ ~InHand(c)' /\ (Gone(c)' <=> Gone(c))
    BY <1>0, <1>1 DEF Coming, InHand, Gone, Opened
  <2>3. Coming(c) \in Nat BY ReplyTypes
  <2>4. CASE aitem.to # c
    <3>1. Reached(c)' = Reached(c) BY <1>1, <1>2, <1>3, <2>4 DEF Reached
    <3>2. ~InHand(c) BY <2>4 DEF InHand
    <3>3. QED BY <1>0, <1>1, <1>5, <2>1, <2>2, <2>3, <3>1, <3>2, ReplySteady
  <2>5. CASE aitem.to = c
    <3> DEFINE v == aitem.item[2]
    <3>1. InHand(c) /\ Last(c) = v /\ v \in Nat /\ aitem.item = <<c, v>>
      BY <1>1, <1>2, <2>5 DEF InHand, Last, Payload
    <3>2. Reached(c) \in Seq(Payload) BY ReplyTypes
    <3>3. Reached(c)' = Append(Reached(c), <<c, v>>)
      <4>1. cin'[c] = Append(cin[c], aitem.item) BY <1>2, <1>3, <2>5
      <4>2. got[c] \o Append(cin[c], aitem.item) = Append(got[c] \o cin[c], aitem.item)
        BY <1>2, AddedLast
      <4>3. QED BY <1>1, <3>1, <4>1, <4>2 DEF Reached
    <3>4. LastOf(Reached(c)) < v /\ Ordered(c, Reached(c)) BY <2>1, <3>1 DEF ReplyOrder
    <3> HIDE DEF v
    <3>5. /\ Ordered(c, Append(Reached(c), <<c, v>>)) /\ LastOf(Append(Reached(c), <<c, v>>)) = v
          /\ Contiguous(c, Reached(c)) /\ v = Len(Reached(c)) + 1 => Contiguous(c, Append(Reached(c), <<c, v>>))
      BY <3>1, <3>2, <3>4, OrderedAppend
    <3>6. Last(c)' = Last(c) BY <2>2, <3>1, <3>3, <3>5 DEF Last
    <3>7. ReplyOrder(c)' BY <1>5, <2>1, <2>2, <3>3, <3>5, <3>6 DEF ReplyOrder
    <3>8. ~serveCancel => Contiguous(c, Reached(c)) /\ v = Len(Reached(c)) + 1
      BY <2>1, <3>1 DEF ReplyWhole, v
    <3>9. ReplyWhole(c)' BY <1>0, <1>1, <1>5, <2>1, <2>2, <3>3, <3>5, <3>6, <3>8 DEF ReplyWhole
    <3>10. QED BY <3>7, <3>9
  <2>6. QED BY <2>4, <2>5
<1>7. QED BY <1>4, <1>6 DEF ReplyInv

LEMMA ReplyClient ==
  ASSUME TypeOK, IsoInv, LifeInv, ReplyInv, UNCHANGED serverVars, ClientKind
  PROVE  ReplyInv'
<1> USE DEF TypeOK, ClientTypeOK
<1>0. UNCHANGED <<pc, resp, mout, serveCancel>> BY DEF serverVars, handlerVars
<1>1. UNCHANGED sclosed BY ReplyKinds
<1>2. \A c \in Calls : Gone(c) => Gone(c)' BY GoneStays DEF Gone, GoneAfter, Opened
<1>3. ASSUME HandOpen', s2c' = s2c, apc' = "deliver" <=> apc = "deliver", apc = "deliver" => aitem' = aitem,
             \A c \in Calls : Reached(c)' = Reached(c)
      PROVE  ReplyInv'
  <2>1. Way' = Way BY <1>0, <1>3 DEF Way
  <2>2. ASSUME NEW c \in Calls PROVE ReplyOrder(c)' /\ ReplyWhole(c)'
    <3>1. Coming(c)' = Coming(c) BY <1>0 DEF Coming
    <3>2. Coming(c) \in Nat BY ReplyTypes
    <3>3. (InHand(c)' <=> InHand(c)) /\ (InHand(c) => aitem' = aitem) BY <1>3 DEF InHand
    <3>4. ReplyOrder(c) /\ ReplyWhole(c) BY DEF ReplyInv
    <3>5. /\ Reached(c)' = Reached(c) /\ s2c' = s2c /\ (Gone(c) => Gone(c)')
          /\ (serveCancel => serveCancel') /\ (sclosed => sclosed')
          /\ Coming(c)' \in Nat /\ Coming(c)' >= Coming(c) /\ pc'[c] = pc[c]
      BY <1>0, <1>1, <1>2, <1>3, <3>1, <3>2
    <3>6. QED BY <2>1, <3>1, <3>3, <3>4, <3>5, ReplySteady
  <2>3. QED BY <1>3, <2>2 DEF ReplyInv
<1>4. CASE ClientQuietly
  <2>1. \A c \in Calls : Reached(c)' = Reached(c) BY <1>4 DEF ClientQuietly, Reached
  <2>2. HandOpen' BY <1>4 DEF ClientQuietly, HandOpen, ReplyInv
  <2>3. QED BY <1>3, <1>4, <2>1, <2>2 DEF ClientQuietly
<1>5. ASSUME NEW d \in Calls, NEW p, TakeInbound(d, p) PROVE ReplyInv'
  <2>1. /\ UNCHANGED <<s2c, cend, apc, aitem>> /\ cin[d] # <<>>
        /\ got' = [got EXCEPT ![d] = Append(@, Head(cin[d]))] /\ cin' = [cin EXCEPT ![d] = Tail(@)]
    BY <1>5 DEF TakeInbound, wireVars, attachVars
  <2>2. ASSUME NEW c \in Calls PROVE Reached(c)' = Reached(c)
    <3>1. CASE c # d BY <2>1, <3>1 DEF Reached
    <3>2. CASE c = d
      <4>1. got'[c] = Append(got[c], Head(cin[c])) /\ cin'[c] = Tail(cin[c]) BY <2>1, <3>2
      <4>2. Append(got[c], Head(cin[c])) \o Tail(cin[c]) = got[c] \o cin[c] BY <2>1, <3>2, TakeKeeps
      <4>3. QED BY <4>1, <4>2 DEF Reached
    <3>3. QED BY <3>1, <3>2
  <2>3. HandOpen' BY <2>1 DEF HandOpen, ReplyInv
  <2>4. QED BY <1>3, <2>1, <2>2, <2>3
<1>6. QED BY <1>4, <1>5, ReplyRecv, ReplyDeliver, ReplyKinds

LEMMA ReplyQueued ==
  ASSUME TypeOK, ReplyInv, UNCHANGED clientVars, UNCHANGED <<s2c, sclosed>>,
         NEW a \in Actors, NEW f \in Frame, Queued(a, f), NEW c \in Calls
  PROVE  ReplyOrder(c)' /\ ReplyWhole(c)'
<1> USE DEF TypeOK
<1>0. UNCHANGED <<got, cin, apc, aitem, cstreams, seqOf, cpc>>
  BY DEF clientVars, streamVars, callerVars, attachVars
<1>1. Emits(a, f) /\ UNCHANGED <<resp, serveCancel>> BY DEF Queued
<1>2. ReplyOrder(c) /\ ReplyWhole(c) BY DEF ReplyInv
<1>3. /\ Last(c) \in Nat /\ Coming(c) \in Nat /\ resp[c] \in Nat
      /\ s2c \in Seq(Frame) /\ mout \in Seq(Out) /\ Way \in Seq(Frame)
  BY ReplyTypes DEF ServerTypeOK
<1>4. Reached(c)' = Reached(c) /\ (InHand(c)' <=> InHand(c)) /\ Last(c)' = Last(c) /\ (Gone(c)' <=> Gone(c))
  BY <1>0 DEF Reached, InHand, Last, Gone, Opened
<1>5. Way' = Append(Way, f)
  <2> DEFINE o == [frame |-> f, by |-> a]
  <2>1. o \in Out /\ o.frame = f /\ mout' = Append(mout, o) BY DEF Out, Queued
  <2> HIDE DEF o
  <2>2. Joined(s2c, Append(mout, o)) = Append(Joined(s2c, mout), o.frame) BY <1>3, <2>1, JoinedAppend
  <2>3. QED BY <2>1, <2>2 DEF Way
<1>6. /\ \A b \in Actors : b # a => pc'[b] = pc[b]
      /\ pc'[a] = IF pc[a] = "qend" THEN "wend" ELSE IF pc[a] = "qebegin" THEN "delete"
                  ELSE IF pc[a] = "qbegin" THEN "qdata" ELSE "run"
      /\ pc[a] \in {"qend", "qebegin", "qbegin", "qdata"}
  BY <1>1, EmitsPc
<1>7. /\ IsData(f, c) => a = c /\ pc[c] = "qdata" /\ f.val = resp[c]
      /\ pc[a] = "qdata" /\ a = c => IsData(f, c)
  BY <1>1 DEF Emits, Fr, IsData
<1>8. /\ IsData(f, c) => Coming(c) = f.val /\ Coming(c)' = f.val + 1 /\ pc[c] \in Live
      /\ ~IsData(f, c) => Coming(c)' = Coming(c) /\ (pc'[c] \in Live \cup {"none"} => pc[c] \in Live \cup {"none"})
  <2>1. CASE a # c
    <3>1. pc'[c] = pc[c] BY <1>6, <2>1, LoopApart
    <3>2. QED BY <1>1, <1>7, <2>1, <3>1 DEF Coming
  <2>2. CASE a = c BY <1>1, <1>6, <1>7, <2>2 DEF Coming, Live
  <2>3. QED BY <2>1, <2>2
<1>9. Rising(Append(Way, f), c) /\ Above(Append(Way, f), c, Last(c)) /\ Below(Append(Way, f), c, Coming(c)')
  <2>1. Rising(Way, c) /\ Above(Way, c, Last(c)) /\ Below(Way, c, Coming(c)) /\ Last(c) < Coming(c)
    BY <1>2 DEF ReplyOrder
  <2>2. Coming(c)' \in Nat /\ Coming(c) <= Coming(c)' /\ (IsData(f, c) => f.val < Coming(c)')
    BY <1>1, <1>3, <1>7, <1>8
  <2>3. Below(Way, c, Coming(c)')
    <3>1. \A i \in DOMAIN Way : Way[i].val \in Nat BY <1>3, DataTyped
    <3>2. QED BY <1>3, <2>1, <2>2, <3>1 DEF Below
  <2>4. (IsData(f, c) => Below(Way, c, f.val)) /\ (IsData(f, c) => Last(c) < f.val) BY <1>8, <2>1
  <2>5. QED BY <1>3, <2>1, <2>2, <2>3, <2>4, Extended
<1>10. Last(c) < Coming(c)' BY <1>2, <1>3, <1>7, <1>8 DEF ReplyOrder
<1>11. ReplyOrder(c)' BY <1>0, <1>2, <1>4, <1>5, <1>9, <1>10 DEF ReplyOrder
<1>12. ASSUME ~serveCancel, ~Gone(c), ~sclosed
       PROVE  /\ Filled(Append(Way, f), c, Last(c))
              /\ pc'[c] \in Live \cup {"none"} =>
                   \A m \in (Last(c) + 1) .. (Coming(c)' - 1) : Holds(Append(Way, f), c, m)
  <2>1. /\ Filled(Way, c, Last(c))
        /\ pc[c] \in Live \cup {"none"} => \A m \in (Last(c) + 1) .. (Coming(c) - 1) : Holds(Way, c, m)
    BY <1>2, <1>12 DEF ReplyWhole
  <2>2. IsData(f, c) => \A m \in (Last(c) + 1) .. (f.val - 1) : Holds(Way, c, m) BY <1>8, <2>1
  <2>3. Filled(Append(Way, f), c, Last(c)) BY <1>3, <2>1, <2>2, FilledAppend
  <2>4. ASSUME pc'[c] \in Live \cup {"none"}, NEW m \in (Last(c) + 1) .. (Coming(c)' - 1)
        PROVE  Holds(Append(Way, f), c, m)
    <3>1. CASE IsData(f, c) /\ m = f.val
      BY <1>3, <3>1, AppendIs DEF Holds
    <3>2. CASE ~(IsData(f, c) /\ m = f.val)
      <4>1. m \in (Last(c) + 1) .. (Coming(c) - 1) BY <1>3, <1>7, <1>8, <2>4, <3>2
      <4>2. Holds(Way, c, m) BY <1>8, <2>1, <2>4, <4>1
      <4>3. QED BY <1>3, <4>2, HoldsStays
    <3>3. QED BY <3>1, <3>2
  <2>5. QED BY <2>3, <2>4
<1>13. ReplyWhole(c)' BY <1>0, <1>1, <1>2, <1>4, <1>5, <1>12 DEF ReplyWhole
<1>14. QED BY <1>11, <1>13

LEMMA ReplyWritten ==
  ASSUME TypeOK, ReplyInv, UNCHANGED clientVars, WriterSend, NEW c \in Calls
  PROVE  ReplyOrder(c)' /\ ReplyWhole(c)'
<1> DEFINE h == Head(mout).frame
<1>0. UNCHANGED <<got, cin, apc, aitem, cstreams, seqOf, cpc>>
  BY DEF clientVars, streamVars, callerVars, attachVars
<1>1. /\ mout \in Seq(Out) /\ mout # <<>> /\ mout' = Tail(mout) /\ s2c \in Seq(Frame) /\ h \in Frame
      /\ \/ s2c' = Append(s2c, h) /\ ~sclosed
         \/ s2c' = s2c /\ (sclosed \/ serveCancel)
      /\ UNCHANGED <<sclosed, pc, resp, serveCancel>>
  BY WriterIs
<1>2. ReplyOrder(c) /\ ReplyWhole(c) BY DEF ReplyInv
<1>3. Way \in Seq(Frame) BY ReplyTypes
<1>4. /\ Reached(c)' = Reached(c) /\ (InHand(c)' <=> InHand(c)) /\ Last(c)' = Last(c)
      /\ (Gone(c)' <=> Gone(c)) /\ Coming(c)' = Coming(c)
  BY <1>0, <1>1 DEF Reached, InHand, Last, Gone, Opened, Coming
<1>5. CASE s2c' = Append(s2c, h) /\ ~sclosed
  <2>1. Way' = Way BY <1>1, <1>5, JoinedMove DEF Way
  <2>2. Append(s2c, h) \in Seq(Frame) /\ Tail(mout) \in Seq(Out) BY <1>1
  <2>3. \A i \in DOMAIN Append(s2c, h) : i \in DOMAIN Way /\ Append(s2c, h)[i] = Way[i]
    <3>1. Joined(Append(s2c, h), Tail(mout)) = Way BY <1>1, JoinedMove DEF Way
    <3>2. QED BY <2>2, <3>1, JoinedIs
  <2>4. Filled(Way, c, Last(c)) => Filled(Append(s2c, h), c, Last(c))
    BY <1>3, <2>2, <2>3, FilledPrefix
  <2> HIDE DEF h
  <2>5. ReplyOrder(c)' BY <1>0, <1>2, <1>4, <2>1 DEF ReplyOrder
  <2>6. ReplyWhole(c)' BY <1>0, <1>1, <1>2, <1>4, <1>5, <2>1, <2>4 DEF ReplyWhole
  <2>7. QED BY <2>5, <2>6
<1>6. CASE s2c' = s2c /\ (sclosed \/ serveCancel)
  <2>1. Rising(Way', c) /\ Above(Way', c, Last(c)) /\ Below(Way', c, Coming(c))
    <3>1. Way' = Joined(s2c, Tail(mout)) BY <1>1, <1>6 DEF Way
    <3>2. Rising(Way, c) /\ Above(Way, c, Last(c)) /\ Below(Way, c, Coming(c)) BY <1>2 DEF ReplyOrder
    <3>3. /\ Rising(Way, c) => Rising(Joined(s2c, Tail(mout)), c)
          /\ \A n : Above(Way, c, n) => Above(Joined(s2c, Tail(mout)), c, n)
          /\ \A n : Below(Way, c, n) => Below(Joined(s2c, Tail(mout)), c, n)
      BY <1>1, JoinedDrop DEF Way
    <3>4. QED BY <3>1, <3>2, <3>3
  <2>2. ReplyOrder(c)' BY <1>0, <1>2, <1>4, <2>1 DEF ReplyOrder
  <2>3. ReplyWhole(c)' BY <1>0, <1>1, <1>2, <1>4, <1>6 DEF ReplyWhole
  <2>4. QED BY <2>2, <2>3
<1>7. QED BY <1>1, <1>5, <1>6

LEMMA ReplyServer ==
  ASSUME TypeOK, IsoInv, LifeInv, ReplyInv, UNCHANGED clientVars, ServerKind
  PROVE  ReplyInv'
<1>0. UNCHANGED <<got, cin, apc, aitem, cstreams, seqOf, cpc, cend>>
  BY DEF clientVars, streamVars, callerVars, attachVars
<1>1. HandOpen' BY <1>0 DEF ReplyInv, HandOpen
<1>2. ASSUME ServerSilent, NEW c \in Calls PROVE ReplyOrder(c)' /\ ReplyWhole(c)'
  <2>1. UNCHANGED <<s2c, sclosed, mout>> /\ (serveCancel => serveCancel') /\ Replies(c)
    BY <1>2 DEF ServerSilent
  <2>2. ReplyOrder(c) /\ ReplyWhole(c) BY DEF ReplyInv
  <2>3. /\ Reached(c)' = Reached(c) /\ (InHand(c)' <=> InHand(c)) /\ (InHand(c) => aitem' = aitem)
        /\ (Gone(c) => Gone(c)') /\ Way' = Way
    BY <1>0, <2>1 DEF Reached, InHand, Gone, Opened, Way
  <2>4. resp[c] \in Nat BY DEF TypeOK, ServerTypeOK
  <2>5. /\ Coming(c)' \in Nat /\ Coming(c)' >= Coming(c)
        /\ pc'[c] \in Live \cup {"none"} => pc[c] \in Live \cup {"none"} /\ Coming(c)' = Coming(c)
    BY <2>1, <2>4 DEF Replies, Coming, Live
  <2>6. QED BY <2>1, <2>2, <2>3, <2>5, ReplySteady
<1>3. \A c \in Calls : ReplyOrder(c)' /\ ReplyWhole(c)'
  BY <1>2, ServerReplies, ReplyQueued, ReplyWritten
<1>4. QED BY <1>1, <1>3 DEF ReplyInv

LEMMA ReplyStep == TypeOK /\ IsoInv /\ LifeInv /\ ReplyInv /\ [Next]_vars => ReplyInv'
<1> SUFFICES ASSUME TypeOK, IsoInv, LifeInv, ReplyInv, [Next]_vars PROVE ReplyInv'
  OBVIOUS
<1>1. ASSUME UNCHANGED <<clientVars, serverVars, s2c>>, sclosed => sclosed' PROVE ReplyInv'
  <2>1. UNCHANGED <<got, cin, apc, aitem, cstreams, seqOf, cpc, cend, pc, resp, mout, serveCancel>>
    BY <1>1 DEF serverVars, handlerVars, clientVars, streamVars, callerVars, attachVars
  <2>2. HandOpen' BY <2>1 DEF ReplyInv, HandOpen
  <2>3. ASSUME NEW c \in Calls PROVE ReplyOrder(c)' /\ ReplyWhole(c)'
    <3>1. /\ Reached(c)' = Reached(c) /\ (InHand(c)' <=> InHand(c)) /\ (Gone(c) => Gone(c)')
          /\ Coming(c)' = Coming(c) /\ Way' = Way
      BY <1>1, <2>1 DEF Reached, InHand, Gone, Opened, Way, Coming
    <3>2. ReplyOrder(c) /\ ReplyWhole(c) BY DEF ReplyInv
    <3>3. Coming(c)' \in Nat /\ Coming(c)' >= Coming(c) BY <3>1, ReplyTypes
    <3>4. QED BY <1>1, <2>1, <3>1, <3>2, <3>3, ReplySteady
  <2>4. QED BY <2>2, <2>3 DEF ReplyInv
<1>2. CASE UNCHANGED vars BY <1>1, <1>2 DEF vars, wireVars
<1>3. CASE (ServerConnClose \/ OnClose) /\ UNCHANGED <<clientVars, serverVars>>
  BY <1>1, <1>3 DEF ServerConnClose, OnClose
<1>4. QED BY <1>2, <1>3, Kinds, ReplyClient, ReplyServer

LEMMA ReplyInit == Init => ReplyInv
<1> SUFFICES ASSUME Init PROVE ReplyInv
  OBVIOUS
<1>1. apc = "recv" /\ s2c = <<>> /\ mout = <<>> /\ HandOpen
  BY DEF Init, WireInit, ClientInit, ServerInit, HandOpen
<1>2. ASSUME NEW c \in Calls PROVE ReplyOrder(c) /\ ReplyWhole(c)
  <2>1. got[c] = <<>> /\ cin[c] = <<>> /\ resp[c] = 0 /\ pc[c] = "none"
    BY LoopApart DEF Init, ClientInit, ServerInit
  <2>2. Reached(c) = <<>> BY <2>1 DEF Reached
  <2>3. ~InHand(c) /\ Last(c) = 0 /\ Coming(c) = 1 BY <1>1, <2>1, <2>2 DEF InHand, Last, LastOf, Coming
  <2>4. DOMAIN Way = {} /\ DOMAIN s2c = {} BY <1>1 DEF Way, Joined
  <2>5. Ordered(c, Reached(c)) /\ Contiguous(c, Reached(c)) BY <2>2 DEF Ordered, Contiguous
  <2>6. \A m \in (Last(c) + 1) .. (Coming(c) - 1) : FALSE BY <2>3
  <2>7. ReplyOrder(c) BY <2>3, <2>4, <2>5 DEF ReplyOrder, Rising, Above, Below
  <2>8. ReplyWhole(c) BY <2>3, <2>4, <2>5, <2>6 DEF ReplyWhole, Filled
  <2>9. QED BY <2>7, <2>8
<1>3. QED BY <1>1, <1>2 DEF ReplyInv

(***************************************************************************)
(* As long as the counter has not come around, a caller sees the responses *)
(* of its own handler in the order the handler sent them, none twice and,  *)
(* while Serve's ctx lives, none skipped: not by Send, by the outbound     *)
(* queue and its writer, on the wire, by the pump or in the stream's       *)
(* inbound, whatever ends the call.                                        *)
(***************************************************************************)
THEOREM ResponsesKeepOrder == Spec /\ []NoWrap => []ResponsesInOrder
<1>1. ReplyInv => ResponsesInOrder
  BY DEF ReplyInv, ReplyOrder, ReplyWhole, Reached, ResponsesInOrder
<1>2. QED BY <1>1, ReplyInit, ReplyStep, IsoHolds, LifeHolds, TypeCorrect, PTL DEF Spec

-----------------------------------------------------------------------------
\* The order of requests.

Asked(c) == sgot[c] \o sin[c]
InLoop(c) == pc[Loop] = "deliver" /\ sitem.to = c

\* The first request of an inline call rides in its Call frame.
Ridden(c) == IF c \in Inline THEN 1 ELSE 0

\* The last request of c the Serve loop has taken off the wire, or will take
\* with the Call frame.
Taken(c) ==
  IF pc[c] = "none" THEN Ridden(c)
  ELSE IF InLoop(c) THEN sitem.frame.val ELSE LastOf(Asked(c))

\* The request of c that a Data frame carries next.
Due(c) == IF Called(c) THEN sent[c] + 1 ELSE Ridden(c) + 1

\* The server has ended the stream, or will never open it.
Dropped(c) ==
  \/ pc[c] # "none" /\ sstreams[sseq[c]] # c
  \/ pc[c] = "none" /\ CallGone(c)

AskOrder(c) ==
  /\ pc[c] = "none" => Asked(c) = <<>> /\ ~InLoop(c)
  /\ Ordered(c, Asked(c))
  /\ InLoop(c) => LastOf(Asked(c)) < sitem.frame.val
  /\ Taken(c) < Due(c)
  /\ Rising(c2s, c) /\ Above(c2s, c, Taken(c)) /\ Below(c2s, c, Due(c))

\* While neither ctx is done nothing is lost before the loop; while this end
\* is open nothing is lost before the wire.
AskWhole(c) ==
  ~ctxDone[c] /\ ~StreamCtxDone(c) =>
    /\ Contiguous(c, Asked(c))
    /\ InLoop(c) => sitem.frame.val = Len(Asked(c)) + 1
    /\ ~Dropped(c) =>
         /\ Filled(c2s, c, Taken(c))
         /\ ~cclosed => \A m \in (Taken(c) + 1) .. (Due(c) - 1) : Holds(c2s, c, m)

\* The Call frame says whether a request rides in it, and precedes the others.
CallFirst ==
  \A i \in DOMAIN c2s : c2s[i].type = "call" =>
    /\ c2s[i].val = Ridden(c2s[i].id)
    /\ \A j \in DOMAIN c2s : IsData(c2s[j], c2s[i].id) => i < j

AskInv == CallFirst /\ \A c \in Calls : AskOrder(c) /\ AskWhole(c)

LEMMA AskTypes ==
  ASSUME TypeOK, NEW c \in Calls
  PROVE  /\ Asked(c) \in Seq(Payload) /\ LastOf(Asked(c)) \in Nat /\ Taken(c) \in Nat /\ Due(c) \in Nat
         /\ c2s \in Seq(Frame) /\ Ridden(c) \in Nat
         /\ InLoop(c) => sitem \in SItem /\ sitem.frame \in Frame /\ sitem.frame.val \in Nat
<1>1. Asked(c) \in Seq(Payload) BY DEF Asked, TypeOK, ServerTypeOK
<1>2. LastOf(Asked(c)) \in Nat BY <1>1, LastContiguous
<1>3. c2s \in Seq(Frame) BY DEF TypeOK, WireTypeOK
<1>4. Ridden(c) \in Nat BY DEF Ridden
<1>5. InLoop(c) => sitem \in SItem BY DEF InLoop, TypeOK, ServerTypeOK, PcTypeOK
<1>6. sitem \in SItem => sitem.frame \in Frame BY DEF SItem
<1>7. sitem.frame \in Frame => sitem.frame.val \in Nat BY DEF Frame
<1>8. sent[c] \in Nat BY DEF TypeOK, ClientTypeOK
<1>9. Taken(c) \in Nat BY <1>2, <1>4, <1>5, <1>6, <1>7 DEF Taken
<1>10. Due(c) \in Nat BY <1>4, <1>8 DEF Due
<1>11. QED BY <1>1, <1>2, <1>3, <1>4, <1>5, <1>6, <1>7, <1>9, <1>10

\* A step that moves no request of c.
LEMMA AskSteady ==
  ASSUME TypeOK, NEW c \in Calls, AskOrder(c), AskWhole(c),
         c2s' = c2s \/ \E g \in Frame : ~IsData(g, c) /\ c2s' = Append(c2s, g),
         Asked(c)' = Asked(c), InLoop(c)' <=> InLoop(c), InLoop(c) => sitem' = sitem,
         pc'[c] = "none" <=> pc[c] = "none",
         ctxDone[c] => ctxDone'[c], StreamCtxDone(c) => StreamCtxDone(c)', cclosed => cclosed',
         Dropped(c) => Dropped(c)',
         Due(c)' \in Nat, Due(c)' >= Due(c), cclosed' \/ ctxDone'[c] \/ Due(c)' = Due(c)
  PROVE  AskOrder(c)' /\ AskWhole(c)'
<1>1. Taken(c)' = Taken(c) BY DEF Taken, Ridden
<1>2. Taken(c) \in Nat /\ Due(c) \in Nat /\ c2s \in Seq(Frame) BY AskTypes
<1>3. Below(c2s, c, Due(c)')
  <2>1. \A i \in DOMAIN c2s : c2s[i].val \in Nat BY <1>2, DataTyped
  <2>2. QED BY <1>2, <2>1 DEF AskOrder, Below
<1>4. Rising(c2s', c) /\ Above(c2s', c, Taken(c)) /\ Below(c2s', c, Due(c)')
  <2>1. CASE c2s' = c2s BY <1>3, <2>1 DEF AskOrder
  <2>2. ASSUME NEW g \in Frame, ~IsData(g, c), c2s' = Append(c2s, g)
        PROVE  Rising(c2s', c) /\ Above(c2s', c, Taken(c)) /\ Below(c2s', c, Due(c)')
    BY <1>2, <1>3, <2>2, Extended DEF AskOrder
  <2>3. QED BY <2>1, <2>2
<1>5. AskOrder(c)' BY <1>1, <1>2, <1>4 DEF AskOrder
<1>6. /\ Filled(c2s, c, Taken(c)) => Filled(c2s', c, Taken(c))
      /\ \A m : Holds(c2s, c, m) => Holds(c2s', c, m)
  <2>1. CASE c2s' = c2s BY <2>1
  <2>2. ASSUME NEW g \in Frame, ~IsData(g, c), c2s' = Append(c2s, g)
        PROVE  /\ Filled(c2s, c, Taken(c)) => Filled(c2s', c, Taken(c))
               /\ \A m : Holds(c2s, c, m) => Holds(c2s', c, m)
    BY <1>2, <2>2, FilledAppend, HoldsStays
  <2>3. QED BY <2>1, <2>2
<1>7. AskWhole(c)' BY <1>1, <1>6 DEF AskWhole
<1>8. QED BY <1>5, <1>7

\* The loop takes a frame that brings c no request.
LEMMA AskPassed ==
  ASSUME TypeOK, NEW c \in Calls, AskOrder(c), AskWhole(c),
         c2s # <<>>, c2s' = Tail(c2s), IsData(Head(c2s), c) => Dropped(c)',
         Asked(c)' = Asked(c), ~InLoop(c), ~InLoop(c)', pc'[c] = "none" <=> pc[c] = "none",
         ctxDone'[c] = ctxDone[c], StreamCtxDone(c) => StreamCtxDone(c)', cclosed' = cclosed,
         Dropped(c) => Dropped(c)', Due(c)' = Due(c)
  PROVE  AskOrder(c)' /\ AskWhole(c)'
<1>1. Taken(c)' = Taken(c) BY DEF Taken, Ridden
<1>2. Taken(c) \in Nat /\ c2s \in Seq(Frame) BY AskTypes
<1>3. Rising(Tail(c2s), c) /\ Above(Tail(c2s), c, Taken(c)) /\ Below(Tail(c2s), c, Due(c))
  BY <1>2, ThinnedTail DEF AskOrder
<1>4. AskOrder(c)' BY <1>1, <1>3 DEF AskOrder
<1>5. ASSUME ~IsData(Head(c2s), c)
      PROVE  /\ Filled(c2s, c, Taken(c)) => Filled(Tail(c2s), c, Taken(c))
             /\ \A m : Holds(c2s, c, m) => Holds(Tail(c2s), c, m)
  BY <1>2, <1>5, FilledTail, HoldsStays
<1>6. AskWhole(c)' BY <1>1, <1>5 DEF AskWhole
<1>7. QED BY <1>4, <1>6

\* A caller's steps: sendPayload puts the next request on the wire, or gives
\* it up; no other step does.
Sends(d) ==
  /\ Called(d) /\ Due(d)' = Due(d) + 1 /\ \A c \in Calls : c # d => Due(c)' = Due(c)
  /\ \/ c2s' = c2s /\ (cclosed \/ ctxDone[d])
     \/ c2s' = Append(c2s, Fr(seqOf[d], "data", d, Due(d))) /\ ~cclosed

SendsNone ==
  /\ \A c \in Calls : Due(c)' = Due(c)
  /\ c2s' = c2s \/ \E g \in Frame : g.type # "data" /\ c2s' = Append(c2s, g)

LEMMA AskKinds ==
  ASSUME TypeOK, ClientKind
  PROVE  /\ cclosed => cclosed'
         /\ \A c \in Calls : ctxDone[c] => ctxDone'[c]
         /\ SendsNone \/ \E d \in Calls : Sends(d)
<1> USE DEF TypeOK, ClientTypeOK
<1>1. ASSUME NEW c \in Calls, SendPayload(c)
      PROVE  UNCHANGED <<cclosed, ctxDone>> /\ Sends(c)
  <2>1. UNCHANGED <<cclosed, ctxDone>> BY <1>1 DEF SendPayload, ClientSendFrame
  <2>2. Called(c) /\ Called(c)' /\ sent'[c] = sent[c] + 1 BY <1>1 DEF SendPayload, Called
  <2>3. \A d \in Calls : d # c => sent'[d] = sent[d] /\ cpc'[d] = cpc[d] BY <1>1 DEF SendPayload
  <2>4. Due(c) = sent[c] + 1 /\ Due(c)' = Due(c) + 1 BY <2>2 DEF Due
  <2>5. \A d \in Calls : d # c => Due(d)' = Due(d) BY <2>3 DEF Due, Called, Ridden
  <2>6. \/ c2s' = c2s /\ (cclosed \/ ctxDone[c])
        \/ c2s' = Append(c2s, Fr(seqOf[c], "data", c, sent[c] + 1)) /\ ~cclosed
    BY <1>1 DEF SendPayload, ClientSendFrame
  <2>7. QED BY <2>1, <2>2, <2>4, <2>5, <2>6 DEF Sends
<1>2. ASSUME NEW c \in Calls, SendCall(c)
      PROVE  UNCHANGED <<cclosed, ctxDone>> /\ SendsNone
  <2>1. UNCHANGED <<cclosed, ctxDone>> BY <1>2 DEF SendCall, ClientSendFrame
  <2>2. AfterCall(c) \notin {"idle", "call"} BY DEF AfterCall
  <2>3. ~Called(c) /\ Called(c)' /\ sent'[c] = Ridden(c) BY <1>2, <2>2 DEF SendCall, Called, Ridden
  <2>4. \A d \in Calls : d # c => sent'[d] = sent[d] /\ cpc'[d] = cpc[d] BY <1>2 DEF SendCall
  <2>5. \A d \in Calls : Due(d)' = Due(d) BY <2>3, <2>4 DEF Due, Called, Ridden
  <2>6. c2s' = c2s \/ c2s' = Append(c2s, CallOf(c)) BY <1>2 DEF SendCall, ClientSendFrame, CallOf
  <2>7. CallOf(c) \in Frame /\ CallOf(c).type # "data"
    <3>1. CallOf(c) \in Frame BY FrType DEF CallOf, FrameTypes
    <3>2. QED BY <3>1 DEF CallOf, Fr
  <2>8. QED BY <2>1, <2>5, <2>6, <2>7 DEF SendsNone
<1>3. ASSUME \A c \in Calls : (Called(c)' <=> Called(c)) /\ sent'[c] = sent[c]
      PROVE  \A c \in Calls : Due(c)' = Due(c)
  BY <1>3 DEF Due, Ridden
<1>4. ASSUME NEW c \in Calls, SendClose(c) \/ WatchSend(c)
      PROVE  UNCHANGED <<cclosed, ctxDone>> /\ SendsNone
  <2>1. UNCHANGED <<cclosed, ctxDone>> BY <1>4 DEF SendClose, WatchSend, ClientSendFrame, callerVars
  <2>2. \A d \in Calls : (Called(d)' <=> Called(d)) /\ sent'[d] = sent[d]
    BY <1>4 DEF SendClose, WatchSend, Called, callerVars
  <2>3. /\ Fr(seqOf[c], "close", c, 0) \in Frame /\ Fr(seqOf[c], "close", c, 0).type # "data"
        /\ Fr(seqOf[c], "cancel", c, 1) \in Frame /\ Fr(seqOf[c], "cancel", c, 1).type # "data"
    <3>1. Fr(seqOf[c], "close", c, 0) \in Frame /\ Fr(seqOf[c], "cancel", c, 1) \in Frame
      BY FrType DEF FrameTypes
    <3>2. QED BY <3>1 DEF Fr
  <2>4. \/ c2s' = c2s
        \/ c2s' = Append(c2s, Fr(seqOf[c], "close", c, 0))
        \/ c2s' = Append(c2s, Fr(seqOf[c], "cancel", c, 1))
    BY <1>4, Zenon DEF SendClose, WatchSend, ClientSendFrame
  <2>5. QED BY <1>3, <2>1, <2>2, <2>3, <2>4 DEF SendsNone
<1>5. ASSUME NEW c \in Calls, ClientOpenStream(c) \/ CtxCancel(c) \/ WatchSelect(c)
      PROVE  cclosed' = cclosed /\ (\A d \in Calls : ctxDone[d] => ctxDone'[d]) /\ SendsNone
  <2>1. \A d \in Calls : (Called(d)' <=> Called(d)) /\ sent'[d] = sent[d]
    BY <1>5 DEF ClientOpenStream, CtxCancel, WatchSelect, Called, callerVars
  <2>2. cclosed' = cclosed /\ c2s' = c2s /\ \A d \in Calls : ctxDone[d] => ctxDone'[d]
    BY <1>5 DEF ClientOpenStream, CtxCancel, WatchSelect, callerVars, wireVars
  <2>3. QED BY <1>3, <2>1, <2>2 DEF SendsNone
<1>6. ASSUME NEW c \in Calls, \/ AwaitResponse(c) \/ AwaitEnd(c) \/ StreamRecv(c)
                              \/ StreamRecvSelect(c) \/ StreamSend(c) \/ StreamCloseSend(c)
      PROVE  UNCHANGED <<cclosed, ctxDone>> /\ SendsNone
  <2>1. UNCHANGED <<cclosed, ctxDone, c2s, sent>>
    BY <1>6, Zenon DEF AwaitResponse, AwaitEnd, StreamRecv, StreamRecvSelect, StreamSend, StreamCloseSend,
       TakeInbound, UnaryReturn, Report, wireVars
  <2>2. /\ Called(c)
        /\ \E p \in {"reply", "done", "app", "recv", "payload", "close"} : cpc' = [cpc EXCEPT ![c] = p]
    <3>1. CASE AwaitResponse(c) \/ AwaitEnd(c)
      BY <3>1 DEF AwaitResponse, AwaitEnd, TakeInbound, UnaryReturn, Report, Called
    <3>2. CASE StreamRecv(c) \/ StreamRecvSelect(c)
      BY <3>2 DEF StreamRecv, StreamRecvSelect, TakeInbound, Report, Called
    <3>3. CASE StreamSend(c) \/ StreamCloseSend(c)
      BY <3>3 DEF StreamSend, StreamCloseSend, Called
    <3>4. QED BY <1>6, <3>1, <3>2, <3>3
  <2>3. \A d \in Calls : (Called(d)' <=> Called(d)) /\ sent'[d] = sent[d] BY <2>1, <2>2 DEF Called
  <2>4. QED BY <1>3, <2>1, <2>3 DEF SendsNone
<1>7. ASSUME AttachStep \/ ConnClose \/ ConnCloseChannel
      PROVE  (cclosed => cclosed') /\ ctxDone' = ctxDone /\ SendsNone
  <2>1. UNCHANGED <<ctxDone, c2s, sent, cpc>> /\ (cclosed => cclosed')
    BY <1>7 DEF AttachStep, AttachRecv, ClientTake, AttachDeliver, AttachFail, ConnClose, ConnCloseChannel,
                wireVars, callerVars, clientVars
  <2>2. \A d \in Calls : (Called(d)' <=> Called(d)) /\ sent'[d] = sent[d] BY <2>1 DEF Called
  <2>3. QED BY <1>3, <2>1, <2>2 DEF SendsNone
<1>8. QED BY <1>1, <1>2, <1>4, <1>5, <1>6, <1>7 DEF ClientKind, CallerStep, WatchStep

\* A stream the server has dropped stays dropped.
LEMMA CallGoneStays ==
  ASSUME TypeOK, NEW c \in Calls, CallGone(c),
         \/ ClientKind
         \/ UNCHANGED clientVars /\ (c2s' = c2s \/ (c2s # <<>> /\ c2s' = Tail(c2s)))
  PROVE  CallGone(c)'
<1>1. c2s \in Seq(Frame) BY DEF TypeOK, WireTypeOK
<1>2. CASE ClientKind
  <2>1. Called(c)' BY <1>2, ClientMoves DEF CallGone
  <2>2. ASSUME NEW g \in Frame, c2s' = Append(c2s, g), ~(g.type = "call" /\ g.id = c) PROVE CallGone(c)'
    <3>1. \A i \in DOMAIN c2s' : (i \in DOMAIN c2s /\ c2s'[i] = c2s[i]) \/ c2s'[i] = g BY <1>1, <2>2, AppendIs
    <3>2. QED BY <2>1, <2>2, <3>1 DEF CallGone
  <2>3. CASE c2s' = c2s BY <2>1, <2>3 DEF CallGone
  <2>4. ASSUME NEW d \in Calls, cpc[d] = "call", CallOf(d) \in Frame, c2s' = Append(c2s, CallOf(d))
        PROVE  CallGone(c)'
    <3>1. d # c /\ CallOf(d).id = d BY <2>4 DEF CallGone, Called, CallOf, Fr
    <3>2. QED BY <2>2, <2>4, <3>1
  <2>5. QED BY <1>2, <2>2, <2>3, <2>4, ClientMoves
<1>3. CASE UNCHANGED clientVars /\ (c2s' = c2s \/ (c2s # <<>> /\ c2s' = Tail(c2s)))
  <2>1. Called(c)' BY <1>3 DEF CallGone, Called, clientVars, callerVars
  <2>2. c2s # <<>> /\ c2s' = Tail(c2s) => \A i \in DOMAIN c2s' : i + 1 \in DOMAIN c2s /\ c2s'[i] = c2s[i + 1]
    BY <1>1, TailIs
  <2>3. QED BY <1>3, <2>1, <2>2 DEF CallGone
<1>4. QED BY <1>2, <1>3

LEMMA DroppedStays ==
  ASSUME TypeOK, LifeInv, NEW c \in Calls, Dropped(c),
         (UNCHANGED serverVars /\ ClientKind) \/ (UNCHANGED clientVars /\ ServerKind)
  PROVE  Dropped(c)'
<1> USE DEF TypeOK, ServerTypeOK, PcTypeOK
<1>1. CASE UNCHANGED serverVars /\ ClientKind
  <2>1. UNCHANGED <<pc, sstreams, sseq>> BY <1>1 DEF serverVars, sstreamVars
  <2>2. QED BY <1>1, <2>1, CallGoneStays DEF Dropped
<1>2. CASE UNCHANGED clientVars /\ ServerKind /\ ServerQuietly
  <2>1. UNCHANGED <<c2s, sseq>> /\ (pc'[c] = "none" <=> pc[c] = "none")
    BY <1>2 DEF ServerQuietly
  <2>2. sstreams'[sseq[c]] \in {sstreams[sseq[c]], None} BY <1>2 DEF ServerQuietly
  <2>3. QED BY <1>2, <2>1, <2>2, CallGoneStays, WireAssumption DEF Dropped
<1>3. CASE UNCHANGED clientVars /\ ServeRecv
  <2> DEFINE f == Head(c2s)
  <2>1. /\ c2s # <<>> /\ c2s' = Tail(c2s) /\ f \in Frame /\ f.seq \in Seqs /\ f.id \in Calls
        /\ \/ /\ UNCHANGED <<pc, sseq>> /\ \A s \in Seqs : sstreams'[s] \in {sstreams[s], None}
           \/ UNCHANGED <<sstreams, sseq>> /\ \E p : pc' = [pc EXCEPT ![Loop] = p]
           \/ /\ sstreams' = [sstreams EXCEPT ![f.seq] = f.id]
              /\ sseq' = [sseq EXCEPT ![f.id] = f.seq]
              /\ pc' = [pc EXCEPT ![f.id] = "run"]
              /\ f.type = "call"
    BY <1>3, ServeRecvIs
  <2>2. f = c2s[1] /\ 1 \in DOMAIN c2s BY <2>1, TailIs DEF WireTypeOK
  <2>3. f.type = "call" => pc[f.id] = "none" BY <2>1, <2>2 DEF LifeInv, CallOnce
  <2> HIDE DEF f
  <2>4. CASE pc[c] = "none" /\ CallGone(c)
    <3>1. CallGone(c)' BY <1>3, <2>1, <2>4, CallGoneStays
    <3>2. f.type = "call" => f.id # c BY <2>2, <2>4 DEF CallGone
    <3>3. pc'[c] = "none" BY <2>1, <2>4, <3>2, LoopApart
    <3>4. QED BY <3>1, <3>3 DEF Dropped
  <2>5. CASE pc[c] # "none" /\ sstreams[sseq[c]] # c
    <3>1. f.type = "call" => f.id # c BY <2>3, <2>5
    <3>2. pc'[c] = pc[c] /\ sseq'[c] = sseq[c] BY <2>1, <3>1, LoopApart
    <3>3. sseq[c] \in Seqs /\ sstreams'[sseq[c]] # c BY <2>1, <2>5, <3>1, WireAssumption
    <3>4. QED BY <2>5, <3>2, <3>3 DEF Dropped
  <2>6. QED BY <2>4, <2>5 DEF Dropped
<1>4. QED BY <1>1, <1>2, <1>3, ServerMoves

LEMMA CallFirstStep ==
  ASSUME TypeOK, LifeInv, AskInv,
         ClientKind \/ c2s' = c2s \/ (c2s # <<>> /\ c2s' = Tail(c2s))
  PROVE  CallFirst'
<1>0. c2s \in Seq(Frame) /\ CallFirst BY DEF TypeOK, WireTypeOK, AskInv
<1>1. CASE c2s' = c2s BY <1>0, <1>1 DEF CallFirst, Ridden
<1>2. CASE c2s # <<>> /\ c2s' = Tail(c2s)
  <2>1. \A i \in DOMAIN c2s' : i \in Nat \ {0} /\ i + 1 \in DOMAIN c2s /\ c2s'[i] = c2s[i + 1] BY <1>0, <1>2, TailIs
  <2> SUFFICES ASSUME NEW i \in DOMAIN c2s', c2s'[i].type = "call"
               PROVE  /\ c2s'[i].val = Ridden(c2s'[i].id)
                      /\ \A j \in DOMAIN c2s' : IsData(c2s'[j], c2s'[i].id) => i < j
    BY DEF CallFirst, Ridden
  <2>2. /\ c2s[i + 1].val = Ridden(c2s[i + 1].id)
        /\ \A j \in DOMAIN c2s : IsData(c2s[j], c2s[i + 1].id) => i + 1 < j
    BY <1>0, <2>1 DEF CallFirst
  <2>3. ASSUME NEW j \in DOMAIN c2s', IsData(c2s'[j], c2s'[i].id) PROVE i < j
    <3>1. i + 1 < j + 1 BY <2>1, <2>2, <2>3
    <3>2. QED BY <2>1, <3>1
  <2>4. QED BY <2>1, <2>2, <2>3
<1>3. ASSUME NEW g \in Frame, c2s' = Append(c2s, g),
             g.type = "call" => g.val = Ridden(g.id) /\ \A j \in DOMAIN c2s : ~IsData(c2s[j], g.id)
      PROVE  CallFirst'
  <2> DEFINE k == Len(c2s)
  <2>1. /\ k \in Nat /\ c2s'[k + 1] = g
        /\ \A i \in DOMAIN c2s : i \in 1 .. k /\ c2s'[i] = c2s[i]
        /\ \A i \in DOMAIN c2s' : i \in DOMAIN c2s \/ i = k + 1
    BY <1>0, <1>3, AppendIs
  <2> HIDE DEF k
  <2>2. ASSUME NEW i \in DOMAIN c2s', c2s'[i].type = "call"
        PROVE  /\ c2s'[i].val = Ridden(c2s'[i].id)
               /\ \A j \in DOMAIN c2s' : IsData(c2s'[j], c2s'[i].id) => i < j
    <3>1. CASE i = k + 1
      <4>1. ~IsData(g, g.id) BY <2>1, <2>2, <3>1 DEF IsData
      <4>2. QED BY <1>3, <2>1, <2>2, <3>1, <4>1
    <3>2. CASE i \in DOMAIN c2s
      <4>1. c2s'[i] = c2s[i] /\ i < k + 1 BY <2>1, <3>2
      <4>2. QED BY <1>0, <2>1, <2>2, <3>2, <4>1 DEF CallFirst
    <3>3. QED BY <2>1, <2>2, <3>1, <3>2
  <2>3. QED BY <2>2 DEF CallFirst, Ridden
<1>4. ASSUME NEW d \in Calls, cpc[d] = "call", CallOf(d) \in Frame, c2s' = Append(c2s, CallOf(d))
      PROVE  CallFirst'
  <2>1. CallOf(d).id = d /\ CallOf(d).val = Ridden(d) BY DEF CallOf, Fr, Ridden
  <2>2. ~Called(d) /\ pc[d] = "none" BY <1>4 DEF Called, LifeInv, Started
  <2>3. Above(c2s, d, Ridden(d)) /\ Below(c2s, d, Ridden(d) + 1)
    BY <2>2 DEF AskInv, AskOrder, Taken, Due
  <2>4. \A j \in DOMAIN c2s : ~IsData(c2s[j], d)
    <3>1. Ridden(d) \in Nat /\ \A j \in DOMAIN c2s : c2s[j].val \in Nat BY <1>0, DataTyped DEF Ridden
    <3>2. QED BY <2>3, <3>1 DEF Above, Below
  <2>5. QED BY <1>3, <1>4, <2>1, <2>4
<1>5. ASSUME NEW g \in Frame, g.type \in {"data", "close", "cancel"}, c2s' = Append(c2s, g) PROVE CallFirst'
  BY <1>3, <1>5
<1>6. QED BY <1>1, <1>2, <1>4, <1>5, ClientMoves

LEMMA AskClient ==
  ASSUME TypeOK, LifeInv, AskInv, UNCHANGED serverVars, ClientKind
  PROVE  AskInv'
<1>0. UNCHANGED <<pc, sitem, sin, sgot, scancel, serveCancel>> BY DEF serverVars, sstreamVars, handlerVars
<1>1. (cclosed => cclosed') /\ \A c \in Calls : ctxDone[c] => ctxDone'[c] BY AskKinds
<1>2. CallFirst' BY CallFirstStep
<1>3. ASSUME NEW c \in Calls PROVE AskOrder(c)' /\ AskWhole(c)'
  <2>1. AskOrder(c) /\ AskWhole(c) BY DEF AskInv
  <2>2. /\ Asked(c)' = Asked(c) /\ (InLoop(c)' <=> InLoop(c)) /\ (InLoop(c) => sitem' = sitem)
        /\ (pc'[c] = "none" <=> pc[c] = "none") /\ (StreamCtxDone(c) => StreamCtxDone(c)')
    BY <1>0 DEF Asked, InLoop, StreamCtxDone
  <2>3. Dropped(c) => Dropped(c)' BY DroppedStays
  <2>4. Taken(c) \in Nat /\ Due(c) \in Nat /\ c2s \in Seq(Frame) BY AskTypes
  <2>5. ASSUME c2s' = c2s \/ \E g \in Frame : ~IsData(g, c) /\ c2s' = Append(c2s, g),
               Due(c)' \in Nat, Due(c)' >= Due(c), cclosed' \/ ctxDone'[c] \/ Due(c)' = Due(c)
        PROVE  AskOrder(c)' /\ AskWhole(c)'
    BY <1>1, <2>1, <2>2, <2>3, <2>5, AskSteady
  <2>6. CASE SendsNone BY <2>4, <2>5, <2>6 DEF SendsNone, IsData
  <2>7. ASSUME NEW d \in Calls, Sends(d) PROVE AskOrder(c)' /\ AskWhole(c)'
    <3> DEFINE g == Fr(seqOf[d], "data", d, Due(d))
    <3>1. Due(d) \in Nat BY AskTypes
    <3>2. g \in Frame /\ g.val = Due(d) /\ g.id = d /\ g.type = "data"
      <4>1. g \in Frame BY <3>1, FrType DEF TypeOK, ClientTypeOK, FrameTypes
      <4>2. QED BY <4>1 DEF Fr
    <3>3. /\ Due(d)' = Due(d) + 1 /\ (c # d => Due(c)' = Due(c))
          /\ (c2s' = c2s /\ (cclosed \/ ctxDone[d])) \/ (c2s' = Append(c2s, g) /\ ~cclosed)
      BY <2>7 DEF Sends
    <3> HIDE DEF g
    <3>4. CASE c # d
      <4>1. ~IsData(g, c) BY <3>2, <3>4 DEF IsData
      <4>2. QED BY <2>4, <2>5, <3>2, <3>3, <3>4, <4>1
    <3>5. CASE c = d /\ c2s' = c2s /\ (cclosed \/ ctxDone[d])
      <4>1. cclosed' \/ ctxDone'[c] BY <1>1, <3>5
      <4>2. Due(c)' \in Nat /\ Due(c)' >= Due(c) BY <2>4, <3>3, <3>5
      <4>3. QED BY <2>5, <3>5, <4>1, <4>2
    <3>6. CASE c = d /\ c2s' = Append(c2s, g) /\ ~cclosed
      <4>1. IsData(g, c) /\ g.val = Due(c) /\ Due(c)' = Due(c) + 1 BY <3>2, <3>3, <3>6 DEF IsData
      <4>2. Taken(c)' = Taken(c) BY <1>0, <2>2 DEF Taken, Ridden
      <4>3. Taken(c) < Due(c) /\ Rising(c2s, c) /\ Above(c2s, c, Taken(c)) /\ Below(c2s, c, Due(c))
        BY <2>1 DEF AskOrder
      <4>4. Below(c2s, c, Due(c) + 1)
        <5>1. \A i \in DOMAIN c2s : c2s[i].val \in Nat BY <2>4, DataTyped
        <5>2. QED BY <2>4, <4>3, <5>1 DEF Below
      <4>5. Due(c) < Due(c) + 1 /\ Taken(c) < Due(c) + 1 BY <2>4, <4>3
      <4>6. Rising(c2s', c) /\ Above(c2s', c, Taken(c)) /\ Below(c2s', c, Due(c) + 1)
        BY <2>4, <3>2, <3>6, <4>1, <4>3, <4>4, <4>5, Extended
      <4>7. AskOrder(c)' BY <1>0, <2>1, <2>2, <4>1, <4>2, <4>5, <4>6 DEF AskOrder
      <4>8. ASSUME ~ctxDone'[c], ~StreamCtxDone(c)', ~Dropped(c)'
            PROVE  /\ Filled(c2s', c, Taken(c))
                   /\ ~cclosed' => \A m \in (Taken(c) + 1) .. (Due(c)' - 1) : Holds(c2s', c, m)
        <5>1. ~ctxDone[c] /\ ~StreamCtxDone(c) /\ ~Dropped(c) BY <1>1, <2>2, <2>3, <4>8
        <5>2. Filled(c2s, c, Taken(c)) BY <2>1, <5>1 DEF AskWhole
        <5>3. \A m \in (Taken(c) + 1) .. (Due(c) - 1) : Holds(c2s, c, m) BY <2>1, <3>6, <5>1 DEF AskWhole
        <5>4. Filled(Append(c2s, g), c, Taken(c)) BY <2>4, <3>2, <4>1, <5>2, <5>3, FilledAppend
        <5>5. ASSUME NEW m \in (Taken(c) + 1) .. (Due(c)' - 1) PROVE Holds(Append(c2s, g), c, m)
          <6>1. CASE m = Due(c) BY <2>4, <3>2, <4>1, <6>1, AppendIs DEF Holds
          <6>2. CASE m # Due(c)
            <7>1. m \in (Taken(c) + 1) .. (Due(c) - 1) BY <2>4, <4>1, <5>5, <6>2
            <7>2. Holds(c2s, c, m) BY <5>3, <7>1
            <7>3. QED BY <2>4, <3>2, <7>2, HoldsStays
          <6>3. QED BY <6>1, <6>2
        <5>6. QED BY <3>6, <5>4, <5>5
      <4>9. AskWhole(c)' BY <1>0, <1>1, <2>1, <2>2, <4>2, <4>8 DEF AskWhole
      <4>10. QED BY <4>7, <4>9
    <3>7. QED BY <3>3, <3>4, <3>5, <3>6
  <2>8. QED BY <2>6, <2>7, AskKinds
<1>4. QED BY <1>2, <1>3 DEF AskInv

\* What one frame off the wire is to the Serve loop.
LoopDelivers(f) ==
  /\ f.type = "data" /\ pc[f.id] # "none" /\ ~Dropped(f.id)
  /\ pc'[Loop] = "deliver" /\ sitem'.to = f.id /\ sitem'.frame = f
  /\ UNCHANGED sin /\ \A c \in Calls : pc'[c] = pc[c]

LoopOpens(f) ==
  /\ f.type = "call" /\ pc[f.id] = "none" /\ pc'[f.id] # "none" /\ pc'[Loop] # "deliver"
  /\ \A c \in Calls : c # f.id => pc'[c] = pc[c] /\ sin'[c] = sin[c]
  /\ \/ f.val > 0 /\ sin'[f.id] = <<<<f.id, 1>>>>
     \/ f.val = 0 /\ UNCHANGED sin
     \/ (serveCancel \/ scancel'[f.id]) /\ UNCHANGED sin

LoopPasses(f) ==
  /\ f.type = "data" => Dropped(f.id)
  /\ pc'[Loop] # "deliver" /\ UNCHANGED sin /\ \A c \in Calls : pc'[c] = pc[c]

LEMMA AskRecvIs ==
  ASSUME TypeOK, IsoInv, LifeInv, AskInv, ServeRecv
  PROVE  LET f == Head(c2s)
         IN /\ c2s # <<>> /\ c2s' = Tail(c2s) /\ f \in Frame /\ f.id \in Calls /\ f = c2s[1] /\ 1 \in DOMAIN c2s
            /\ pc[Loop] = "serve" /\ UNCHANGED <<sgot, serveCancel, cclosed>>
            /\ \A c \in Calls : scancel[c] => scancel'[c]
            /\ LoopDelivers(f) \/ LoopOpens(f) \/ LoopPasses(f)
<1> USE DEF TypeOK, ServerTypeOK, PcTypeOK
<1> DEFINE f == Head(c2s)
           st == sstreams[f.seq]
<1>1. /\ c2s \in Seq(Frame) /\ c2s # <<>> /\ c2s' = Tail(c2s) /\ pc[Loop] = "serve"
      /\ UNCHANGED <<sgot, serveCancel, cclosed>>
  BY DEF WireTypeOK, ServeRecv, ServerTake, handlerVars
<1>2. f \in Frame /\ f.seq \in Seqs /\ f.id \in Calls BY ServeRecvIs
<1>3. f = c2s[1] /\ 1 \in DOMAIN c2s BY <1>1, TailIs
<1>4. FrameOwned(f) /\ Loop \in Actors BY <1>3 DEF IsoInv, WireOwned, Actors
<1>5. \A c \in Calls : scancel[c] => scancel'[c]
  BY <1>2 DEF ServeRecv, ServerOpenStream
<1>6. st # None => st = f.id /\ pc[f.id] # "none" /\ sseq[f.id] = f.seq
  <2>1. ASSUME st # None PROVE st = f.id /\ pc[f.id] # "none" /\ sseq[f.id] = f.seq
    <3>1. st \in Calls /\ EntryOwned(f.seq, st) BY <1>2, <2>1 DEF IsoInv, ServerOwned
    <3>2. st = f.id BY <1>2, <1>4, <3>1, EntryIsOwner DEF IsoInv
    <3>3. pc[st] \in Served /\ sseq[st] = f.seq BY <1>2, <2>1 DEF LifeInv, ServerTable
    <3>4. QED BY <3>2, <3>3 DEF Served
  <2>2. QED BY <2>1
<1>7. f.type = "data" /\ st = None => Dropped(f.id)
  <2>1. ASSUME f.type = "data", st = None, pc[f.id] # "none" PROVE Dropped(f.id)
    <3>1. EntryOwned(sseq[f.id], f.id) BY <1>2, <2>1 DEF IsoInv, ServerOwned
    <3>2. sseq[f.id] = f.seq BY <1>4, <3>1 DEF FrameOwned, EntryOwned
    <3>3. QED BY <1>2, <2>1, <3>2, WireAssumption DEF Dropped
  <2>2. ASSUME f.type = "data", st = None, pc[f.id] = "none" PROVE Dropped(f.id)
    <3>1. PICK d \in Calls : d = f.id BY <1>2
    <3>2. IsData(c2s[1], d) BY <1>3, <2>2, <3>1 DEF IsData
    <3>3. \A i \in DOMAIN c2s : ~(c2s[i].type = "call" /\ c2s[i].id = d)
      <4>1. \A i \in DOMAIN c2s : ~(i < 1) BY <1>1
      <4>2. QED BY <1>3, <3>2, <4>1 DEF AskInv, CallFirst
    <3>4. Called(d)
      <4>1. SUFFICES ASSUME ~Called(d) PROVE FALSE OBVIOUS
      <4>2. Above(c2s, d, Ridden(d)) /\ Below(c2s, d, Ridden(d) + 1)
        BY <2>2, <3>1, <4>1 DEF AskInv, AskOrder, Taken, Due
      <4>3. Ridden(d) \in Nat /\ c2s[1].val \in Nat BY <1>1, <1>3, DataTyped DEF Ridden
      <4>4. QED BY <1>3, <3>2, <4>2, <4>3 DEF Above, Below
    <3>5. QED BY <2>2, <3>1, <3>3, <3>4 DEF Dropped, CallGone
  <2>3. QED BY <2>1, <2>2
<1>8. f.type = "call" => pc[f.id] = "none" BY <1>3 DEF LifeInv, CallOnce
<1>9. \/ f.type = "call" /\ ServerOpenStream(f)
      \/ f.type # "call" /\ st = None /\ UNCHANGED <<sin, pc>>
      \/ /\ f.type = "data" /\ st # None /\ UNCHANGED sin
         /\ sitem' = [frame |-> f, to |-> st, code |-> 0] /\ pc' = [pc EXCEPT ![Loop] = "deliver"]
      \/ f.type \in {"close", "cancel"} /\ UNCHANGED <<sin, pc>>
  BY DEF ServeRecv
<1> HIDE DEF f, st
<1>10. CASE f.type # "call" /\ st = None /\ UNCHANGED <<sin, pc>>
  <2>1. LoopPasses(f) BY <1>1, <1>7, <1>10 DEF LoopPasses
  <2>2. QED BY <1>1, <1>2, <1>3, <1>5, <2>1 DEF f
<1>11. CASE f.type \in {"close", "cancel"} /\ UNCHANGED <<sin, pc>>
  <2>1. LoopPasses(f) BY <1>1, <1>11 DEF LoopPasses
  <2>2. QED BY <1>1, <1>2, <1>3, <1>5, <2>1 DEF f
<1>12. CASE /\ f.type = "data" /\ st # None /\ UNCHANGED sin
            /\ sitem' = [frame |-> f, to |-> st, code |-> 0] /\ pc' = [pc EXCEPT ![Loop] = "deliver"]
  <2>1. pc'[Loop] = "deliver" /\ \A c \in Calls : pc'[c] = pc[c] BY <1>4, <1>12, LoopApart
  <2>2. ~Dropped(f.id) /\ pc[f.id] # "none" BY <1>6, <1>12 DEF Dropped, st
  <2>3. LoopDelivers(f) BY <1>6, <1>12, <2>1, <2>2 DEF LoopDelivers
  <2>4. QED BY <1>1, <1>2, <1>3, <1>5, <2>3 DEF f
<1>13. CASE f.type = "call" /\ ServerOpenStream(f)
  <2>1. \/ UNCHANGED sin /\ pc' = [pc EXCEPT ![Loop] = "end"]
        \/ /\ pc' = [pc EXCEPT ![f.id] = "run"]
           /\ \/ f.val > 0 /\ sin' = [sin EXCEPT ![f.id] = <<<<f.id, 1>>>>]
              \/ f.val = 0 /\ UNCHANGED sin
              \/ serveCancel /\ UNCHANGED sin
              \/ scancel' = [scancel EXCEPT ![f.id] = TRUE] /\ UNCHANGED sin
    BY <1>13 DEF ServerOpenStream
  <2>2. CASE UNCHANGED sin /\ pc' = [pc EXCEPT ![Loop] = "end"]
    <3>1. LoopPasses(f) BY <1>4, <1>13, <2>2, LoopApart DEF LoopPasses
    <3>2. QED BY <1>1, <1>2, <1>3, <1>5, <3>1 DEF f
  <2>3. CASE /\ pc' = [pc EXCEPT ![f.id] = "run"]
             /\ \/ f.val > 0 /\ sin' = [sin EXCEPT ![f.id] = <<<<f.id, 1>>>>]
                \/ f.val = 0 /\ UNCHANGED sin
                \/ serveCancel /\ UNCHANGED sin
                \/ scancel' = [scancel EXCEPT ![f.id] = TRUE] /\ UNCHANGED sin
    <3>1. pc'[f.id] = "run" /\ pc'[Loop] = "serve" /\ \A c \in Calls : c # f.id => pc'[c] = pc[c]
      BY <1>1, <1>2, <1>4, <2>3, LoopApart
    <3>2. /\ \A c \in Calls : c # f.id => sin'[c] = sin[c]
          /\ \/ f.val > 0 /\ sin'[f.id] = <<<<f.id, 1>>>>
             \/ f.val = 0 /\ UNCHANGED sin
             \/ (serveCancel \/ scancel'[f.id]) /\ UNCHANGED sin
      BY <1>2, <2>3
    <3>3. LoopOpens(f) BY <1>8, <1>13, <3>1, <3>2 DEF LoopOpens
    <3>4. QED BY <1>1, <1>2, <1>3, <1>5, <3>3 DEF f
  <2>4. QED BY <2>1, <2>2, <2>3
<1>14. QED BY <1>9, <1>10, <1>11, <1>12, <1>13

LEMMA EmptyParts ==
  ASSUME NEW S, NEW p \in Seq(S), NEW q \in Seq(S), p \o q = <<>>
  PROVE  p = <<>> /\ q = <<>>
<1>1. Len(p) \in Nat /\ Len(q) \in Nat /\ Len(p \o q) = Len(p) + Len(q) OBVIOUS
<1>2. Len(p) = 0 /\ Len(q) = 0 BY <1>1
<1>3. QED BY <1>2

LEMMA AskRecv ==
  ASSUME TypeOK, IsoInv, LifeInv, AskInv, UNCHANGED clientVars, ServeRecv
  PROVE  AskInv'
<1> DEFINE f == Head(c2s)
<1>0. UNCHANGED <<cpc, sent, ctxDone>> BY DEF clientVars, callerVars
<1>1. /\ c2s # <<>> /\ c2s' = Tail(c2s) /\ f \in Frame /\ f.id \in Calls /\ f = c2s[1] /\ 1 \in DOMAIN c2s
      /\ pc[Loop] = "serve" /\ UNCHANGED <<sgot, serveCancel, cclosed>>
      /\ \A c \in Calls : scancel[c] => scancel'[c]
      /\ LoopDelivers(f) \/ LoopOpens(f) \/ LoopPasses(f)
  BY AskRecvIs
<1>2. CallFirst' BY <1>1, CallFirstStep
<1>3. f.val \in Nat BY <1>1 DEF Frame
<1>4. c2s \in Seq(Frame) BY DEF TypeOK, WireTypeOK
<1>5. f.type = "call" => f.val = Ridden(f.id) BY <1>1 DEF AskInv, CallFirst
<1>6. ASSUME NEW c \in Calls PROVE AskOrder(c)' /\ AskWhole(c)'
  <2>1. AskOrder(c) /\ AskWhole(c) BY DEF AskInv
  <2>2. Due(c)' = Due(c) /\ ctxDone'[c] = ctxDone[c] BY <1>0 DEF Due, Called, Ridden
  <2>3. StreamCtxDone(c) => StreamCtxDone(c)' BY <1>1 DEF StreamCtxDone
  <2>4. Dropped(c) => Dropped(c)'
    <3>1. ServerKind BY DEF ServerKind, ServeStep
    <3>2. QED BY <3>1, DroppedStays
  <2>5. ~InLoop(c) BY <1>1 DEF InLoop
  <2>6. /\ Taken(c) \in Nat /\ Due(c) \in Nat /\ Asked(c) \in Seq(Payload) /\ LastOf(Asked(c)) \in Nat
        /\ sgot[c] \in Seq(Payload) /\ sin[c] \in Seq(Payload)
    BY AskTypes DEF TypeOK, ServerTypeOK
  <2>7. /\ Rising(Tail(c2s), c) /\ Above(Tail(c2s), c, Taken(c)) /\ Below(Tail(c2s), c, Due(c))
        /\ Taken(c) < Due(c)
    BY <1>1, <1>4, <2>1, ThinnedTail DEF AskOrder
  <2>8. ASSUME IsData(f, c) => Dropped(c), sin'[c] = sin[c], ~InLoop(c)', pc'[c] = pc[c]
        PROVE  AskOrder(c)' /\ AskWhole(c)'
    <3>1. Asked(c)' = Asked(c) BY <1>1, <2>8 DEF Asked
    <3>2. IsData(Head(c2s), c) => Dropped(c)' BY <2>4, <2>8 DEF f
    <3>3. QED BY <1>1, <2>1, <2>2, <2>3, <2>4, <2>5, <2>8, <3>1, <3>2, AskPassed
  <2> HIDE DEF f
  <2>9. CASE LoopPasses(f) BY <2>8, <2>9 DEF LoopPasses, IsData, InLoop
  <2>10. CASE LoopOpens(f) /\ c # f.id BY <2>8, <2>10 DEF LoopOpens, IsData, InLoop
  <2>11. CASE LoopDelivers(f) /\ c # f.id BY <2>8, <2>11 DEF LoopDelivers, IsData, InLoop
  <2>12. CASE LoopDelivers(f) /\ c = f.id
    <3>1. IsData(f, c) /\ pc[c] # "none" /\ ~Dropped(c) /\ pc'[c] = pc[c] BY <2>12 DEF LoopDelivers, IsData
    <3>2. InLoop(c)' /\ sitem'.frame = f /\ Asked(c)' = Asked(c)
      BY <1>1, <2>12 DEF LoopDelivers, InLoop, Asked
    <3>3. Taken(c) = LastOf(Asked(c)) /\ Taken(c)' = f.val BY <2>5, <3>1, <3>2 DEF Taken
    <3>4. Taken(c) < f.val /\ f.val < Due(c) BY <1>1, <2>1, <3>1 DEF AskOrder, Above, Below
    <3>5. Above(Tail(c2s), c, f.val) BY <1>1, <1>4, <2>1, <3>1, RisingTail DEF AskOrder, f
    <3>6. AskOrder(c)' BY <1>1, <2>1, <2>2, <2>7, <3>1, <3>2, <3>3, <3>4, <3>5 DEF AskOrder
    <3>7. ASSUME ~ctxDone[c], ~StreamCtxDone(c)
          PROVE  /\ Contiguous(c, Asked(c)) /\ f.val = Len(Asked(c)) + 1
                 /\ Filled(Tail(c2s), c, f.val)
                 /\ ~cclosed => \A m \in (f.val + 1) .. (Due(c) - 1) : Holds(Tail(c2s), c, m)
      <4>1. Contiguous(c, Asked(c)) /\ Filled(c2s, c, Taken(c)) BY <2>1, <3>1, <3>7 DEF AskWhole
      <4>2. f.val <= Taken(c) + 1 BY <1>1, <1>4, <2>6, <3>1, <4>1, FilledTail DEF f
      <4>3. f.val = Taken(c) + 1 BY <1>3, <2>6, <3>4, <4>2
      <4>4. f.val = Len(Asked(c)) + 1 BY <2>6, <3>3, <4>1, <4>3, LastContiguous
      <4>5. Filled(Tail(c2s), c, f.val) BY <1>1, <1>4, <2>6, <3>1, <4>1, <4>3, FilledTail DEF f
      <4>6. ASSUME ~cclosed, NEW m \in (f.val + 1) .. (Due(c) - 1) PROVE Holds(Tail(c2s), c, m)
        <5>1. m \in (Taken(c) + 1) .. (Due(c) - 1) /\ m # f.val BY <1>3, <2>6, <3>4, <4>6
        <5>2. Holds(c2s, c, m) BY <2>1, <3>1, <3>7, <4>6, <5>1 DEF AskWhole
        <5>3. QED BY <1>1, <1>4, <5>1, <5>2, HoldsStays DEF f
      <4>7. QED BY <4>1, <4>4, <4>5, <4>6
    <3>8. AskWhole(c)' BY <1>1, <2>2, <2>3, <3>2, <3>3, <3>7 DEF AskWhole
    <3>9. QED BY <3>6, <3>8
  <2>13. CASE LoopOpens(f) /\ c = f.id
    <3>1. /\ f.type = "call" /\ pc[c] = "none" /\ pc'[c] # "none" /\ ~InLoop(c)' /\ ~IsData(f, c)
          /\ \/ f.val > 0 /\ sin'[c] = <<<<c, 1>>>>
             \/ f.val = 0 /\ sin'[c] = sin[c]
             \/ (serveCancel \/ scancel'[c]) /\ sin'[c] = sin[c]
      BY <2>13 DEF LoopOpens, InLoop, IsData
    <3>2. sgot[c] = <<>> /\ sin[c] = <<>> /\ Asked(c) = <<>>
      <4>1. Asked(c) = <<>> BY <2>1, <3>1 DEF AskOrder
      <4>2. QED BY <2>6, <4>1, EmptyParts DEF Asked
    <3>3. Taken(c) = Ridden(c) /\ f.val = Ridden(c) BY <1>5, <2>13, <3>1 DEF Taken
    <3>4. CASE f.val > 0 /\ sin'[c] = <<<<c, 1>>>>
      <4>1. Taken(c) = 1 BY <3>3, <3>4 DEF Ridden
      <4>2. Asked(c)' = <<<<c, 1>>>> BY <1>1, <3>2, <3>4 DEF Asked
      <4>3. <<<<c, 1>>>> # <<>> BY NotEmpty
      <4>4. LastOf(<<<<c, 1>>>>) = 1 BY <4>3 DEF LastOf
      <4>5. Taken(c)' = 1 BY <3>1, <4>2, <4>4 DEF Taken
      <4>6. Ordered(c, <<<<c, 1>>>>) /\ Contiguous(c, <<<<c, 1>>>>) BY DEF Ordered, Contiguous
      <4>7. AskOrder(c)' BY <1>1, <2>2, <2>7, <3>1, <4>1, <4>2, <4>5, <4>6 DEF AskOrder
      <4>8. /\ Filled(c2s, c, Taken(c)) => Filled(Tail(c2s), c, Taken(c))
            /\ \A m : Holds(c2s, c, m) => Holds(Tail(c2s), c, m)
        BY <1>1, <1>4, <2>6, <3>1, FilledTail, HoldsStays DEF f
      <4>9. AskWhole(c)' BY <1>1, <2>1, <2>2, <2>3, <2>4, <3>1, <4>1, <4>2, <4>5, <4>6, <4>8 DEF AskWhole
      <4>10. QED BY <4>7, <4>9
    <3>5. CASE sin'[c] = sin[c] /\ (f.val = 0 \/ serveCancel \/ scancel'[c])
      <4>1. Asked(c)' = <<>> BY <1>1, <3>2, <3>5 DEF Asked
      <4>2. Taken(c)' = 0 BY <3>1, <4>1 DEF Taken, LastOf
      <4>3. Above(Tail(c2s), c, 0)
        <5>1. \A i \in DOMAIN Tail(c2s) : Tail(c2s)[i].val \in Nat BY <1>1, <1>4, TailIs, DataTyped
        <5>2. QED BY <2>6, <2>7, <5>1 DEF Above
      <4>4. Ordered(c, <<>>) /\ Contiguous(c, <<>>) BY DEF Ordered, Contiguous
      <4>5. 0 < Due(c) BY <2>6, <2>7
      <4>6. AskOrder(c)' BY <1>1, <2>2, <2>7, <3>1, <4>1, <4>2, <4>3, <4>4, <4>5 DEF AskOrder
      <4>7. CASE serveCancel \/ scancel'[c]
        <5>1. StreamCtxDone(c)' BY <1>1, <4>7 DEF StreamCtxDone
        <5>2. QED BY <4>6, <5>1 DEF AskWhole
      <4>8. CASE f.val = 0
        <5>1. Taken(c) = 0 BY <3>3, <4>8
        <5>2. /\ Filled(c2s, c, Taken(c)) => Filled(Tail(c2s), c, Taken(c))
              /\ \A m : Holds(c2s, c, m) => Holds(Tail(c2s), c, m)
          BY <1>1, <1>4, <2>6, <3>1, FilledTail, HoldsStays DEF f
        <5>3. AskWhole(c)' BY <1>1, <2>1, <2>2, <2>3, <2>4, <3>1, <4>1, <4>2, <4>4, <5>1, <5>2 DEF AskWhole
        <5>4. QED BY <4>6, <5>3
      <4>9. QED BY <3>5, <4>7, <4>8
    <3>6. QED BY <3>1, <3>4, <3>5
  <2>14. QED BY <1>1, <2>9, <2>10, <2>11, <2>12, <2>13
<1>7. QED BY <1>2, <1>6 DEF AskInv

LEMMA AskDeliver ==
  ASSUME TypeOK, IsoInv, LifeInv, AskInv, UNCHANGED clientVars, ServeDeliver
  PROVE  AskInv'
<1> USE DEF TypeOK, ServerTypeOK, PcTypeOK
<1>0. UNCHANGED <<cpc, sent, ctxDone>> BY DEF clientVars, callerVars
<1>1. /\ pc[Loop] = "deliver" /\ pc' = [pc EXCEPT ![Loop] = "serve"] /\ Loop \in Actors
      /\ UNCHANGED <<c2s, cclosed, sgot, scancel, serveCancel>>
  BY DEF ServeDeliver, wireVars, handlerVars, Actors
<1>2. pc'[Loop] = "serve" /\ \A c \in Calls : pc'[c] = pc[c] BY <1>1, LoopApart
<1>3. PICK d \in Calls : d = sitem.to BY <1>1
<1> DEFINE v == sitem.frame.val
<1>4. sitem.frame.id = d /\ v \in Nat
  <2>1. sitem.frame \in Frame BY <1>1 DEF SItem
  <2>2. QED BY <1>1, <1>3, <2>1 DEF Frame, IsoInv, ServerOwned
<1>5. \/ sin' = [sin EXCEPT ![d] = Append(@, <<d, v>>)]
      \/ StreamCtxDone(d) /\ sin' = sin
  BY <1>3, <1>4 DEF ServeDeliver
<1>6. CallFirst' BY <1>1, CallFirstStep
<1>7. ASSUME NEW c \in Calls PROVE AskOrder(c)' /\ AskWhole(c)'
  <2>1. AskOrder(c) /\ AskWhole(c) BY DEF AskInv
  <2>2. /\ Due(c)' = Due(c) /\ ctxDone'[c] = ctxDone[c] /\ (StreamCtxDone(c)' <=> StreamCtxDone(c))
        /\ ~InLoop(c)'
    BY <1>0, <1>1, <1>2 DEF Due, Called, Ridden, StreamCtxDone, InLoop
  <2>3. Dropped(c) => Dropped(c)'
    <3>1. ServerKind BY DEF ServerKind, ServeStep
    <3>2. QED BY <3>1, DroppedStays
  <2>4. Taken(c) \in Nat /\ Due(c) \in Nat /\ Asked(c) \in Seq(Payload) /\ LastOf(Asked(c)) \in Nat /\ c2s \in Seq(Frame)
    BY AskTypes
  <2>5. CASE c # d
    <3>1. Asked(c)' = Asked(c) BY <1>1, <1>5, <2>5 DEF Asked
    <3>2. ~InLoop(c) BY <1>3, <2>5 DEF InLoop
    <3>3. pc'[c] = pc[c] /\ c2s' = c2s /\ cclosed' = cclosed BY <1>1, <1>2
    <3>4. Due(c)' \in Nat /\ Due(c)' >= Due(c) BY <2>2, <2>4
    <3>5. QED BY <2>1, <2>2, <2>3, <3>1, <3>2, <3>3, <3>4, AskSteady
  <2>6. CASE c = d
    <3>1. InLoop(c) /\ pc[c] # "none" /\ Taken(c) = v BY <1>1, <1>3, <2>1, <2>6 DEF InLoop, AskOrder, Taken
    <3>2. LastOf(Asked(c)) < v /\ Ordered(c, Asked(c)) /\ Taken(c) < Due(c) BY <2>1, <3>1 DEF AskOrder
    <3> HIDE DEF v
    <3>3. CASE sin' = [sin EXCEPT ![d] = Append(@, <<d, v>>)]
      <4>1. Asked(c)' = Append(Asked(c), <<c, v>>)
        <5>1. sin'[c] = Append(sin[c], <<c, v>>) BY <2>6, <3>3
        <5>2. <<c, v>> \in Payload /\ sgot[c] \in Seq(Payload) /\ sin[c] \in Seq(Payload) BY <1>4 DEF Payload
        <5>3. sgot[c] \o Append(sin[c], <<c, v>>) = Append(sgot[c] \o sin[c], <<c, v>>) BY <5>2, AddedLast
        <5>4. QED BY <1>1, <5>1, <5>3 DEF Asked
      <4>2. /\ Ordered(c, Append(Asked(c), <<c, v>>)) /\ LastOf(Append(Asked(c), <<c, v>>)) = v
            /\ Contiguous(c, Asked(c)) /\ v = Len(Asked(c)) + 1 => Contiguous(c, Append(Asked(c), <<c, v>>))
        BY <1>4, <2>4, <3>2, OrderedAppend
      <4>3. Taken(c)' = Taken(c) BY <1>2, <2>2, <3>1, <4>1, <4>2 DEF Taken
      <4>4. AskOrder(c)' BY <1>1, <1>2, <2>1, <2>2, <3>1, <4>1, <4>2, <4>3 DEF AskOrder
      <4>5. ~ctxDone[c] /\ ~StreamCtxDone(c) => Contiguous(c, Asked(c)) /\ v = Len(Asked(c)) + 1
        BY <2>1, <3>1 DEF AskWhole, v
      <4>6. AskWhole(c)' BY <1>1, <2>1, <2>2, <2>3, <4>1, <4>2, <4>3, <4>5 DEF AskWhole
      <4>7. QED BY <4>4, <4>6
    <3>4. CASE StreamCtxDone(d) /\ sin' = sin
      <4>1. Asked(c)' = Asked(c) BY <1>1, <3>4 DEF Asked
      <4>2. Taken(c)' = LastOf(Asked(c)) BY <1>2, <2>2, <3>1, <4>1 DEF Taken
      <4>3. LastOf(Asked(c)) < Due(c) /\ Above(c2s, c, LastOf(Asked(c)))
        <5>1. \A i \in DOMAIN c2s : c2s[i].val \in Nat BY <2>4, DataTyped
        <5>2. Above(c2s, c, v) BY <2>1, <3>1 DEF AskOrder
        <5>3. QED BY <1>4, <2>4, <3>1, <3>2, <5>1, <5>2 DEF Above
      <4>4. AskOrder(c)' BY <1>1, <1>2, <2>1, <2>2, <3>1, <4>1, <4>2, <4>3 DEF AskOrder
      <4>5. AskWhole(c)' BY <2>2, <2>6, <3>4 DEF AskWhole
      <4>6. QED BY <4>4, <4>5
    <3>5. QED BY <1>5, <3>3, <3>4 DEF v
  <2>7. QED BY <2>5, <2>6
<1>8. QED BY <1>6, <1>7 DEF AskInv

\* The server's other steps leave the requests where they are, or hand one to
\* the handler.
AskQuietly ==
  /\ UNCHANGED <<c2s, cclosed>>
  /\ \A c \in Calls : /\ Asked(c)' = Asked(c) /\ (pc'[c] = "none" <=> pc[c] = "none")
                      /\ (InLoop(c)' <=> InLoop(c)) /\ (InLoop(c) => sitem' = sitem)
                      /\ (StreamCtxDone(c) => StreamCtxDone(c)')

LEMMA AskServerKinds ==
  ASSUME TypeOK, ServerKind
  PROVE  ServeRecv \/ ServeDeliver \/ AskQuietly
<1> USE DEF TypeOK, ServerTypeOK, PcTypeOK
<1>0. Loop \in Actors BY DEF Actors
<1>1. SUFFICES ASSUME ~ServeRecv, ~ServeDeliver PROVE AskQuietly
  OBVIOUS
<1>2. ServerQuietly BY <1>1, ServerMoves
<1>3. c2s' = c2s /\ \A c \in Calls : (pc'[c] = "none" <=> pc[c] = "none") BY <1>2 DEF ServerQuietly
<1>4. ASSUME cclosed' = cclosed, UNCHANGED sitem \/ pc[Loop] # "deliver",
             pc'[Loop] = "deliver" <=> pc[Loop] = "deliver",
             \A c \in Calls : Asked(c)' = Asked(c),
             \A c \in Calls : StreamCtxDone(c) => StreamCtxDone(c)'
      PROVE  AskQuietly
  BY <1>3, <1>4 DEF AskQuietly, InLoop
<1>5. CASE ServeExit \/ WriterStep \/ ServeCancel
  <2>1. UNCHANGED <<cclosed, sitem, sgot, sin, scancel>> /\ (serveCancel => serveCancel')
    BY <1>5 DEF ServeExit, WriterStep, WriterSend, WriterExit, ServerSendFrame, ServeCancel, handlerVars, sstreamVars, wireVars
  <2>2. pc'[Loop] = "deliver" <=> pc[Loop] = "deliver"
    BY <1>0, <1>5 DEF ServeExit, WriterStep, WriterSend, WriterExit, ServeCancel
  <2>3. QED BY <1>4, <2>1, <2>2 DEF Asked, StreamCtxDone
<1>6. ASSUME NEW a \in Actors, EndStep(a) PROVE AskQuietly
  <2>1. UNCHANGED <<cclosed, sgot, sin, serveCancel>>
    BY <1>6 DEF EndStep, EndLookup, EndQueueBegin, EndDelete, EndQueueEnd, EndDone, handlerVars, sstreamVars, wireVars
  <2>2. \A c \in Calls : scancel[c] => scancel'[c]
    BY <1>6 DEF EndStep, EndLookup, EndQueueBegin, EndDelete, EndQueueEnd, EndDone, sstreamVars
  <2>3. /\ pc[a] \in EndPcs
        /\ \E p \in EndPcs \cup {"serve", "done"} : pc' = [pc EXCEPT ![a] = p]
    BY <1>6 DEF EndStep, EndLookup, EndQueueBegin, EndDelete, EndQueueEnd, EndDone, Enqueue, EndPcs
  <2>4. pc'[Loop] = "deliver" <=> pc[Loop] = "deliver" BY <1>0, <2>3 DEF EndPcs
  <2>5. UNCHANGED sitem \/ a = Loop
    BY <1>6 DEF EndStep, EndLookup, EndQueueBegin, EndDelete, EndQueueEnd, EndDone
  <2>6. UNCHANGED sitem \/ pc[Loop] # "deliver" BY <2>3, <2>5 DEF EndPcs
  <2>7. QED BY <1>4, <2>1, <2>2, <2>4, <2>6 DEF Asked, StreamCtxDone
<1>7. ASSUME NEW d \in Calls, HandlerApp(d) \/ SendStep(d) \/ DeadlineFires(d) PROVE AskQuietly
  <2>1. UNCHANGED <<cclosed, sitem, serveCancel>>
    BY <1>7 DEF HandlerApp, HandlerRecv, HandlerRecvSelect, HandlerSend, HandlerReturn, SendStep,
                SendQueueBegin, SendQueueData, SendGiveUp, DeadlineFires, wireVars
  <2>2. \A c \in Calls : scancel[c] => scancel'[c]
    BY <1>7 DEF HandlerApp, HandlerRecv, HandlerRecvSelect, HandlerSend, HandlerReturn, SendStep,
                SendQueueBegin, SendQueueData, SendGiveUp, DeadlineFires, sstreamVars
  <2>3. pc'[Loop] = pc[Loop]
    <3>1. pc' = pc \/ \E p : pc' = [pc EXCEPT ![d] = p]
      BY <1>7 DEF HandlerApp, HandlerRecv, HandlerRecvSelect, HandlerSend, HandlerReturn, SendStep, TakeRequest,
                  Return, Enqueue, SendQueueBegin, SendQueueData, SendGiveUp, DeadlineFires
    <3>2. QED BY <1>0, <3>1, LoopApart
  <2>4. UNCHANGED <<sgot, sin>> \/ TakeRequest(d)
    BY <1>7, Zenon DEF HandlerApp, HandlerRecv, HandlerRecvSelect, HandlerSend, HandlerReturn, SendStep,
       SendQueueBegin, SendQueueData, SendGiveUp, DeadlineFires, sstreamVars, handlerVars
  <2>5. ASSUME NEW c \in Calls PROVE Asked(c)' = Asked(c)
    <3>1. CASE UNCHANGED <<sgot, sin>> BY <3>1 DEF Asked
    <3>2. CASE TakeRequest(d) /\ c # d BY <3>2 DEF TakeRequest, Asked
    <3>3. CASE TakeRequest(d) /\ c = d
      <4>1. sin[c] # <<>> /\ sgot'[c] = Append(sgot[c], Head(sin[c])) /\ sin'[c] = Tail(sin[c])
        BY <3>3 DEF TakeRequest
      <4>2. sgot[c] \in Seq(Payload) /\ sin[c] \in Seq(Payload) BY DEF TypeOK, ServerTypeOK
      <4>3. Append(sgot[c], Head(sin[c])) \o Tail(sin[c]) = sgot[c] \o sin[c] BY <4>1, <4>2, TakeKeeps
      <4>4. QED BY <4>1, <4>3 DEF Asked
    <3>4. QED BY <2>4, <3>1, <3>2, <3>3
  <2>6. QED BY <1>4, <2>1, <2>2, <2>3, <2>5 DEF StreamCtxDone
<1>8. QED BY <1>1, <1>5, <1>6, <1>7 DEF ServerKind, ServeStep

LEMMA AskStep == TypeOK /\ IsoInv /\ LifeInv /\ AskInv /\ [Next]_vars => AskInv'
<1> SUFFICES ASSUME TypeOK, IsoInv, LifeInv, AskInv, [Next]_vars PROVE AskInv'
  OBVIOUS
<1>1. ASSUME c2s' = c2s, cclosed => cclosed', UNCHANGED <<cpc, sent, ctxDone>>,
             \A c \in Calls : /\ Asked(c)' = Asked(c) /\ (pc'[c] = "none" <=> pc[c] = "none")
                              /\ (InLoop(c)' <=> InLoop(c)) /\ (InLoop(c) => sitem' = sitem)
                              /\ (StreamCtxDone(c) => StreamCtxDone(c)') /\ (Dropped(c) => Dropped(c)')
      PROVE  AskInv'
  <2>1. CallFirst' BY <1>1, CallFirstStep
  <2>2. ASSUME NEW c \in Calls PROVE AskOrder(c)' /\ AskWhole(c)'
    <3>1. AskOrder(c) /\ AskWhole(c) BY DEF AskInv
    <3>2. Due(c)' = Due(c) BY <1>1 DEF Due, Called, Ridden
    <3>3. Due(c)' \in Nat /\ Due(c)' >= Due(c) BY <3>2, AskTypes
    <3>4. ctxDone'[c] = ctxDone[c] BY <1>1
    <3>5. QED BY <1>1, <3>1, <3>2, <3>3, <3>4, AskSteady
  <2>3. QED BY <2>1, <2>2 DEF AskInv
<1>2. ASSUME UNCHANGED <<clientVars, serverVars, c2s>>, cclosed => cclosed' PROVE AskInv'
  <2>1. UNCHANGED <<cpc, sent, ctxDone, sgot, sin, pc, sitem, scancel, serveCancel, sstreams, sseq>>
    BY <1>2 DEF serverVars, sstreamVars, handlerVars, clientVars, callerVars
  <2>2. \A c \in Calls : /\ Asked(c)' = Asked(c) /\ (InLoop(c)' <=> InLoop(c))
                         /\ (StreamCtxDone(c) => StreamCtxDone(c)') /\ (Dropped(c) => Dropped(c)')
    BY <1>2, <2>1 DEF Asked, InLoop, StreamCtxDone, Dropped, CallGone, Called
  <2>3. QED BY <1>1, <1>2, <2>1, <2>2
<1>3. CASE UNCHANGED vars BY <1>2, <1>3 DEF vars, wireVars
<1>4. CASE (ServerConnClose \/ OnClose) /\ UNCHANGED <<clientVars, serverVars>>
  BY <1>2, <1>4 DEF ServerConnClose, OnClose
<1>5. CASE UNCHANGED clientVars /\ ServerKind
  <2>1. CASE AskQuietly
    <3>1. \A c \in Calls : Dropped(c) => Dropped(c)' BY <1>5, DroppedStays
    <3>2. UNCHANGED <<cpc, sent, ctxDone>> BY <1>5 DEF clientVars, callerVars
    <3>3. QED BY <1>1, <2>1, <3>1, <3>2 DEF AskQuietly
  <2>2. QED BY <1>5, <2>1, AskServerKinds, AskRecv, AskDeliver
<1>6. QED BY <1>3, <1>4, <1>5, Kinds, AskClient

LEMMA AskInit == Init => AskInv
<1> SUFFICES ASSUME Init PROVE AskInv
  OBVIOUS
<1>1. c2s = <<>> /\ pc[Loop] = "serve" BY DEF Init, WireInit, ServerInit, Actors
<1>2. DOMAIN c2s = {} BY <1>1
<1>3. CallFirst BY <1>2 DEF CallFirst
<1>4. ASSUME NEW c \in Calls PROVE AskOrder(c) /\ AskWhole(c)
  <2>1. sgot[c] = <<>> /\ sin[c] = <<>> /\ pc[c] = "none" /\ cpc[c] = "idle"
    BY LoopApart DEF Init, ClientInit, ServerInit
  <2>2. Asked(c) = <<>> /\ ~InLoop(c) BY <1>1, <2>1 DEF Asked, InLoop
  <2>3. Taken(c) = Ridden(c) /\ Due(c) = Ridden(c) + 1 /\ Ridden(c) \in Nat BY <2>1 DEF Taken, Due, Called, Ridden
  <2>4. Ordered(c, Asked(c)) /\ Contiguous(c, Asked(c)) BY <2>2 DEF Ordered, Contiguous
  <2>5. Taken(c) < Due(c) /\ \A m \in (Taken(c) + 1) .. (Due(c) - 1) : FALSE BY <2>3
  <2>6. AskOrder(c) BY <1>2, <2>2, <2>4, <2>5 DEF AskOrder, Rising, Above, Below
  <2>7. AskWhole(c) BY <1>2, <2>2, <2>4, <2>5 DEF AskWhole, Filled
  <2>8. QED BY <2>6, <2>7
<1>5. QED BY <1>3, <1>4 DEF AskInv

(***************************************************************************)
(* As long as the counter has not come around, a handler sees the requests *)
(* of its own caller in the order they were sent, none twice, the one that *)
(* rode in the Call frame first; and none is skipped while neither the     *)
(* caller's ctx nor the stream's is done, although Data that finds no      *)
(* entry is discarded and a sender may give up on a full channel.          *)
(***************************************************************************)
THEOREM RequestsKeepOrder == Spec /\ []NoWrap => []RequestsInOrder
<1>1. AskInv => RequestsInOrder
  BY DEF AskInv, AskOrder, AskWhole, Asked, RequestsInOrder
<1>2. QED BY <1>1, AskInit, AskStep, IsoHolds, LifeHolds, TypeCorrect, PTL DEF Spec

-----------------------------------------------------------------------------
\* The contract.  LastOf and Ordered are about a whole queue; the first two
\* lemmas lead from neighbours to the last.

\* A set of naturals has a least element.
LEMMA LeastNat ==
  ASSUME NEW T \in SUBSET Nat, T # {}
  PROVE  \E m \in T : \A k \in T : m <= k
<1> DEFINE R == {ss \in Nat \X Nat : ss[1] < ss[2]}
<1>1. IsWellFoundedOn(R, Nat) BY NatLessThanWellFounded, Zenon DEF OpToRel
<1>2. PICK m \in T : \A y \in T : ~(<<y, m>> \in R)
  <2> HIDE DEF R
  <2> QED  BY <1>1, WFMin, Zenon
<1>3. \A k \in T : ~(k < m) BY <1>2
<1>4. QED BY <1>3

\* Induction over a set: the numbers it lacks have no least one.
LEMMA NatSetInduction ==
  ASSUME NEW S, 0 \in S, \A n \in Nat : n \in S => n + 1 \in S
  PROVE  \A n \in Nat : n \in S
<1> DEFINE T == Nat \ S
<1>1. CASE T = {} BY <1>1
<1>2. CASE T # {}
  <2>1. PICK m \in T : \A k \in T : m <= k BY <1>2, LeastNat
  <2>2. m \in Nat /\ m # 0 /\ m \notin S BY <2>1
  <2>3. m - 1 \in Nat /\ (m - 1) + 1 = m /\ ~(m <= m - 1) BY <2>2
  <2>4. m - 1 \in S BY <2>1, <2>3
  <2>5. (m - 1) + 1 \in S BY <2>3, <2>4
  <2>6. QED BY <2>2, <2>3, <2>5
<1>3. QED BY <1>1, <1>2

\* Neighbours in order are all in order.
LEMMA RisesThroughout ==
  ASSUME NEW n \in Nat, NEW f \in [1 .. n -> Nat], \A j \in 1 .. n : j > 1 => f[j - 1] < f[j],
         NEW i \in 1 .. n
  PROVE  f[i] <= f[n]
<1> DEFINE S == {k \in Nat : i + k <= n => f[i] <= f[i + k]}
<1>1. 0 \in S BY DEF S
<1>2. ASSUME NEW k \in Nat, k \in S PROVE k + 1 \in S
  <2> SUFFICES ASSUME i + (k + 1) <= n PROVE f[i] <= f[i + (k + 1)]
    OBVIOUS
  <2>1. i + k <= n /\ i + k \in 1 .. n /\ i + (k + 1) \in 1 .. n /\ i + (k + 1) > 1 /\ i + (k + 1) - 1 = i + k
    OBVIOUS
  <2>2. f[i + k] < f[i + (k + 1)] BY <2>1
  <2>3. f[i] <= f[i + k] BY <1>2, <2>1
  <2>4. f[i] \in Nat /\ f[i + k] \in Nat /\ f[i + (k + 1)] \in Nat BY <2>1
  <2> HIDE DEF S
  <2>5. QED BY <2>2, <2>3, <2>4
<1> HIDE DEF S
<1>3. \A k \in Nat : k \in S BY <1>1, <1>2, NatSetInduction
<1>4. n - i \in Nat /\ i + (n - i) = n /\ i + (n - i) <= n OBVIOUS
<1>5. QED BY <1>3, <1>4 DEF S

\* Positions in an ordered queue do not exceed the last one.
LEMMA OrderedBelow ==
  ASSUME NEW c \in Calls, NEW q \in Seq(Payload), Ordered(c, q), NEW i \in DOMAIN q
  PROVE  q[i][2] <= LastOf(q)
<1> DEFINE n == Len(q)
           f == [j \in 1 .. n |-> q[j][2]]
<1>1. n \in Nat /\ DOMAIN q = 1 .. n /\ q # <<>> BY NotEmpty
<1>2. f \in [1 .. n -> Nat] BY <1>1 DEF Payload
<1>3. ASSUME NEW j \in 1 .. n, j > 1 PROVE f[j - 1] < f[j]
  <2>1. j \in DOMAIN q /\ j - 1 \in 1 .. n BY <1>1, <1>3
  <2>2. (IF j > 1 THEN q[j - 1][2] ELSE 0) < q[j][2] BY <2>1 DEF Ordered
  <2>3. QED BY <1>3, <2>1, <2>2
<1>4. LastOf(q) = q[n][2] BY <1>1 DEF LastOf
<1>5. i \in 1 .. n /\ n \in 1 .. n /\ f[i] = q[i][2] /\ f[n] = q[n][2] BY <1>1
<1> HIDE DEF n, f
<1>6. f[i] <= f[n] BY <1>1, <1>2, <1>3, <1>5, RisesThroughout
<1>7. QED BY <1>4, <1>5, <1>6

\* The head of what waits behind the taken payloads p comes next.
LEMMA NextTaken ==
  ASSUME NEW c \in Calls, NEW p \in Seq(Payload), NEW q \in Seq(Payload), q # <<>>, Ordered(c, p \o q)
  PROVE  /\ Head(q) = <<c, Head(q)[2]>> /\ Head(q)[2] \in Nat
         /\ LastOf(p) < Head(q)[2] /\ Head(q)[2] <= LastOf(p \o q)
         /\ Contiguous(c, p \o q) => Head(q)[2] = Len(p) + 1
<1> DEFINE r == p \o q
           h == Head(q)
           k == Len(p)
<1>1. /\ r \in Seq(Payload) /\ k \in Nat /\ k + 1 \in DOMAIN r /\ r[k + 1] = h /\ h \in Payload
      /\ p # <<>> => k \in DOMAIN p /\ r[k] = p[k] /\ k >= 1
  OBVIOUS
<1>2. h[2] \in Nat /\ h = <<h[1], h[2]>> BY <1>1 DEF Payload
<1>0. Ordered(c, r) OBVIOUS
<1> HIDE DEF r, h, k
<1>3. h[1] = c /\ (IF k + 1 > 1 THEN r[k][2] ELSE 0) < h[2]
  <2>1. r[k + 1][1] = c /\ (IF k + 1 > 1 THEN r[k + 1 - 1][2] ELSE 0) < r[k + 1][2]
    BY <1>0, <1>1 DEF Ordered
  <2>2. k + 1 - 1 = k BY <1>1
  <2>3. QED BY <1>1, <2>1, <2>2
<1>4. LastOf(p) < h[2]
  <2>1. CASE p = <<>>
    <3>1. k + 1 \in DOMAIN r /\ r[k + 1] = h BY <1>1
    <3>2. LastOf(p) = 0 BY <2>1 DEF LastOf
    <3>3. k = 0 BY <2>1 DEF k
    <3>4. 0 < h[2] BY <1>3, <3>3
    <3>5. QED BY <3>2, <3>4
  <2>2. CASE p # <<>> BY <1>1, <1>3, <2>2 DEF LastOf, k
  <2>3. QED BY <2>1, <2>2
<1>5. h[2] <= LastOf(r) BY <1>1, OrderedBelow DEF r
<1>6. Contiguous(c, r) => h = <<c, k + 1>> BY <1>1 DEF Contiguous
<1>7. QED BY <1>2, <1>3, <1>4, <1>5, <1>6 DEF r, h, k

\* What the contract needs beyond the invariants above.
Unasked == \A c \in Calls : ~Called(c) => sent[c] = 0
Undecided == \A c \in Calls : ~Over(c) => hret[c] = None
Unreported == \A c \in Calls : cpc[c] # "done" => outcome[c] = None
Implemented == \A c \in Calls : pc[c] # "none" => c \notin Unimplemented

ContractInv == Unasked /\ Undecided /\ Unreported /\ Implemented

\* What the caller of c does in one step.
Makes(c) ==
  /\ ~Called(c) /\ Called(c)' /\ cpc[c] # "done" /\ cpc' = [cpc EXCEPT ![c] = cpc'[c]] /\ cpc'[c] # "done"
  /\ sent' = [sent EXCEPT ![c] = Ridden(c)]
  /\ UNCHANGED <<got, outcome, ctxDone, cclosed, attachCancel>>

Asks(c) ==
  /\ Called(c) /\ cpc[c] # "done" /\ cpc' = [cpc EXCEPT ![c] = cpc'[c]] /\ Called(c)' /\ cpc'[c] # "done"
  /\ sent' = [sent EXCEPT ![c] = @ + 1]
  /\ UNCHANGED <<got, outcome, ctxDone, cclosed, attachCancel>>

Gets(c) ==
  /\ Called(c) /\ cpc[c] # "done" /\ cpc' = [cpc EXCEPT ![c] = cpc'[c]] /\ Called(c)' /\ cpc'[c] # "done"
  /\ cin[c] # <<>> /\ got' = [got EXCEPT ![c] = Append(@, Head(cin[c]))]
  /\ UNCHANGED <<sent, outcome, ctxDone, cclosed, attachCancel>>

Reports(c) ==
  /\ Called(c) /\ cpc[c] # "done" /\ cpc' = [cpc EXCEPT ![c] = "done"]
  /\ \E code \in Nat, d \in Payload \cup {None} :
       /\ outcome' = [outcome EXCEPT ![c] = [code |-> code, data |-> d]]
       /\ (cend[c] # None /\ code = cend[c]) \/ (ctxDone[c] /\ code = 4)
       /\ d = None \/ (got[c] # <<>> /\ d = got[c][1])
  /\ UNCHANGED <<sent, got, ctxDone, cclosed, attachCancel>>

\* A caller moves on, a ctx ends or the connection is closed.
Waits ==
  /\ \A c \in Calls : (Called(c)' <=> Called(c)) /\ (cpc'[c] = "done" <=> cpc[c] = "done")
  /\ \A c \in Calls : ctxDone[c] => ctxDone'[c]
  /\ (cclosed => cclosed') /\ (attachCancel => attachCancel')
  /\ UNCHANGED <<sent, got, outcome>>

\* Every step of the client is one of these.
LEMMA CallerDoes ==
  ASSUME TypeOK, ClientKind
  PROVE  Waits \/ \E c \in Calls : Makes(c) \/ Asks(c) \/ Gets(c) \/ Reports(c)
<1> USE DEF TypeOK, ClientTypeOK
<1>1. ASSUME NEW c \in Calls, ClientOpenStream(c) \/ CtxCancel(c) \/ WatchStep(c) PROVE Waits
  <2>1. UNCHANGED <<sent, got, outcome, cclosed, attachCancel>>
    BY <1>1, Zenon DEF ClientOpenStream, CtxCancel, WatchStep, WatchSelect, WatchSend, ClientSendFrame,
              wireVars, callerVars, attachVars
  <2>2. \A d \in Calls : (Called(d)' <=> Called(d)) /\ (cpc'[d] = "done" <=> cpc[d] = "done")
    BY <1>1 DEF ClientOpenStream, CtxCancel, WatchStep, WatchSelect, WatchSend, callerVars, Called
  <2>3. \A d \in Calls : ctxDone[d] => ctxDone'[d]
    BY <1>1, Zenon DEF ClientOpenStream, CtxCancel, WatchStep, WatchSelect, WatchSend, callerVars
  <2>4. QED BY <2>1, <2>2, <2>3 DEF Waits
<1>2. ASSUME NEW c \in Calls, SendCall(c) PROVE Makes(c)
  <2>1. AfterCall(c) \notin {"idle", "call", "done"} BY DEF AfterCall
  <2>2. cpc[c] = "call" /\ cpc' = [cpc EXCEPT ![c] = AfterCall(c)] BY <1>2 DEF SendCall
  <2>3. UNCHANGED <<got, outcome, ctxDone, cclosed, attachCancel>>
    BY <1>2 DEF SendCall, ClientSendFrame, attachVars
  <2>4. sent' = [sent EXCEPT ![c] = Ridden(c)] BY <1>2 DEF SendCall, Ridden
  <2>5. cpc'[c] = AfterCall(c) BY <2>2
  <2>6. QED BY <2>1, <2>2, <2>3, <2>4, <2>5 DEF Makes, Called
<1>3. ASSUME NEW c \in Calls, SendPayload(c) PROVE Asks(c)
  <2>1. PICK p \in {"app", "close"} : cpc' = [cpc EXCEPT ![c] = p] BY <1>3 DEF SendPayload
  <2>2. cpc'[c] = p /\ cpc[c] = "payload" BY <1>3, <2>1 DEF SendPayload
  <2>3. UNCHANGED <<got, outcome, ctxDone, cclosed, attachCancel>>
    BY <1>3 DEF SendPayload, ClientSendFrame, attachVars
  <2>4. QED BY <1>3, <2>1, <2>2, <2>3 DEF Asks, Called, SendPayload
<1>4. ASSUME NEW c \in Calls, SendClose(c) \/ StreamSend(c) \/ StreamCloseSend(c) PROVE Waits
  <2>1. UNCHANGED <<sent, got, outcome, ctxDone, cclosed, attachCancel>>
    BY <1>4, Zenon DEF SendClose, StreamSend, StreamCloseSend, ClientSendFrame, wireVars, attachVars
  <2>2. \A d \in Calls : (Called(d)' <=> Called(d)) /\ (cpc'[d] = "done" <=> cpc[d] = "done")
    BY <1>4 DEF SendClose, StreamSend, StreamCloseSend, Called
  <2>3. QED BY <2>1, <2>2 DEF Waits
<1>5. ASSUME NEW c \in Calls, NEW p \in {"reply", "app"}, TakeInbound(c, p), Called(c), cpc[c] # "done" PROVE Gets(c)
  <2>1. cpc' = [cpc EXCEPT ![c] = p] /\ cpc'[c] = p BY <1>5 DEF TakeInbound
  <2>2. QED BY <1>5, <2>1 DEF Gets, TakeInbound, Called, attachVars, wireVars
<1>6. ASSUME NEW c \in Calls, NEW code \in Nat, NEW d \in Payload \cup {None}, Report(c, d, code),
             Called(c), cpc[c] # "done",
             (cend[c] # None /\ code = cend[c]) \/ (ctxDone[c] /\ code = 4),
             d = None \/ (got[c] # <<>> /\ d = got[c][1])
      PROVE  Reports(c)
  BY <1>6 DEF Report, Reports, attachVars, wireVars
<1>7. ASSUME NEW c \in Calls, AwaitResponse(c) PROVE Gets(c) \/ Reports(c)
  <2>1. Called(c) /\ cpc[c] # "done" BY <1>7 DEF AwaitResponse, Called
  <2>2. cend[c] # None => cend[c] \in Nat OBVIOUS
  <2>3. \/ TakeInbound(c, "reply")
        \/ (cend[c] # None /\ Report(c, None, cend[c])) \/ (ctxDone[c] /\ Report(c, None, 4))
    BY <1>7 DEF AwaitResponse, UnaryReturn
  <2>4. QED BY <1>5, <1>6, <2>1, <2>2, <2>3
<1>8. ASSUME NEW c \in Calls, AwaitEnd(c) PROVE Reports(c)
  <2>1. Called(c) /\ cpc[c] # "done" BY <1>8 DEF AwaitEnd, Called
  <2>2. cend[c] # None => cend[c] \in Nat OBVIOUS
  <2>3. (cend[c] # None /\ Report(c, Head(got[c]), cend[c])) \/ (ctxDone[c] /\ Report(c, None, 4))
    BY <1>8 DEF AwaitEnd, UnaryReturn
  <2>4. got[c] # <<>> BY <1>8 DEF AwaitEnd
  <2>5. Head(got[c]) = got[c][1] /\ Head(got[c]) \in Payload BY <2>4
  <2>6. QED BY <1>6, <2>1, <2>2, <2>3, <2>4, <2>5
<1>9. ASSUME NEW c \in Calls, StreamRecvSelect(c) PROVE Gets(c) \/ Reports(c)
  <2>1. Called(c) /\ cpc[c] # "done" BY <1>9 DEF StreamRecvSelect, Called
  <2>2. cend[c] # None => cend[c] \in Nat OBVIOUS
  <2>3. \/ TakeInbound(c, "app")
        \/ (cend[c] # None /\ Report(c, None, cend[c])) \/ (ctxDone[c] /\ Report(c, None, 4))
    BY <1>9 DEF StreamRecvSelect
  <2>4. QED BY <1>5, <1>6, <2>1, <2>2, <2>3
<1>10. ASSUME NEW c \in Calls, StreamRecv(c) PROVE Gets(c) \/ Waits
  <2>1. Called(c) /\ cpc[c] # "done" BY <1>10 DEF StreamRecv, Called
  <2>2. CASE TakeInbound(c, "app") BY <1>5, <2>1, <2>2
  <2>3. CASE /\ cpc' = [cpc EXCEPT ![c] = "recv"]
             /\ UNCHANGED <<seqAlloc, streamVars, chalf, ctxDone, sent, got, outcome, watch, attachVars, wireVars>>
    <3>1. UNCHANGED <<sent, got, outcome, ctxDone, cclosed, attachCancel>> BY <2>3 DEF wireVars, attachVars
    <3>2. \A d \in Calls : (Called(d)' <=> Called(d)) /\ (cpc'[d] = "done" <=> cpc[d] = "done")
      BY <2>1, <2>3 DEF Called
    <3>3. QED BY <3>1, <3>2 DEF Waits
  <2>4. QED BY <1>10, <2>2, <2>3 DEF StreamRecv
<1>11. CASE AttachStep \/ ConnClose \/ ConnCloseChannel
  <2>1. UNCHANGED <<cpc, sent, got, outcome, ctxDone>>
    BY <1>11, Zenon DEF AttachStep, AttachRecv, AttachDeliver, AttachFail, ConnClose, ConnCloseChannel,
                 clientVars, callerVars
  <2>2. (cclosed => cclosed') /\ (attachCancel => attachCancel')
    <3>1. CASE AttachRecv BY <3>1 DEF AttachRecv, ClientTake
    <3>2. CASE AttachDeliver \/ AttachFail BY <3>2 DEF AttachDeliver, AttachFail, wireVars
    <3>3. CASE ConnClose \/ ConnCloseChannel
      BY <3>3 DEF ConnClose, ConnCloseChannel, clientVars, attachVars, wireVars
    <3>4. QED BY <1>11, <3>1, <3>2, <3>3 DEF AttachStep
  <2>3. QED BY <2>1, <2>2 DEF Waits, Called
<1>12. QED BY <1>1, <1>2, <1>3, <1>4, <1>7, <1>8, <1>9, <1>10, <1>11 DEF ClientKind, CallerStep

\* What a handler does in one step of the server.
Hears(c) ==
  /\ pc[c] \in Live /\ pc' = [pc EXCEPT ![c] = "run"]
  /\ sin[c] # <<>> /\ sgot' = [sgot EXCEPT ![c] = Append(@, Head(sin[c]))]
  /\ UNCHANGED <<resp, hret, scancel, serveCancel>>

Answers(c) ==
  /\ pc[c] \in Live /\ \E p \in Live : pc' = [pc EXCEPT ![c] = p]
  /\ resp' = [resp EXCEPT ![c] = @ + 1]
  /\ UNCHANGED <<sgot, hret, scancel, serveCancel>>

Decides(c) ==
  /\ pc[c] \in Live /\ pc' = [pc EXCEPT ![c] = "end"]
  /\ \E code \in {0, 2} : hret' = [hret EXCEPT ![c] = code]
  /\ UNCHANGED <<sgot, resp, scancel, serveCancel>>

\* No handler moves visibly; a ctx may end.
Rests ==
  /\ \A c \in Calls : (Over(c)' <=> Over(c)) /\ (pc'[c] # "none" => pc[c] # "none" \/ c \notin Unimplemented)
  /\ \A c \in Calls : scancel[c] => scancel'[c]
  /\ serveCancel => serveCancel'
  /\ UNCHANGED <<sgot, resp, hret>>

\* Every step of the server is one of these.
LEMMA HandlerDoes ==
  ASSUME TypeOK, CallLife, ServerKind
  PROVE  Rests \/ \E c \in Calls : Hears(c) \/ Answers(c) \/ Decides(c)
<1> USE DEF TypeOK, ServerTypeOK, PcTypeOK
<1>1. ASSUME UNCHANGED <<sgot, resp, hret>>, \A c \in Calls : pc'[c] = pc[c],
             \A c \in Calls : scancel[c] => scancel'[c], serveCancel => serveCancel'
      PROVE  Rests
  BY <1>1 DEF Rests, Over
<1>2. CASE ServeRecv
  <2> DEFINE f == Head(c2s)
  <2>1. UNCHANGED <<sgot, resp, hret, serveCancel>> BY <1>2 DEF ServeRecv, handlerVars
  <2>2. f.id \in Calls /\ f = c2s[1] /\ 1 \in DOMAIN c2s
    BY <1>2, ServeRecvIs, TailIs DEF WireTypeOK
  <2>3. \A c \in Calls : scancel[c] => scancel'[c]
    BY <1>2, Zenon DEF ServeRecv, ServerOpenStream
  <2>4. CASE \A c \in Calls : pc'[c] = pc[c] BY <1>1, <2>1, <2>3, <2>4
  <2>5. CASE f.type = "call" /\ pc' = [pc EXCEPT ![f.id] = "run"]
    <3>1. pc[f.id] = "none" BY <2>2, <2>5 DEF CallLife, CallOnce
    <3>2. f.id \notin Unimplemented \/ \A c \in Calls : pc'[c] = pc[c]
      BY <1>2, <2>5, LoopApart DEF ServeRecv, ServerOpenStream
    <3> HIDE DEF f
    <3>3. \A c \in Calls : pc'[c] = IF c = f.id THEN "run" ELSE pc[c] BY <2>5, LoopApart
    <3>4. \A c \in Calls : Over(c)' <=> Over(c) BY <3>1, <3>3 DEF Over, EndPcs
    <3>5. QED BY <2>1, <2>2, <2>3, <3>1, <3>2, <3>3, <3>4 DEF Rests
  <2>6. QED BY <1>2, <2>4, <2>5, ServeRecvIs, LoopApart
<1>3. CASE ServeDeliver \/ ServeExit \/ WriterStep \/ ServeCancel
  <2>1. UNCHANGED <<sgot, resp, hret, scancel>> /\ (serveCancel => serveCancel')
    BY <1>3, Zenon DEF ServeDeliver, ServeExit, WriterStep, WriterSend, WriterExit, ServeCancel, handlerVars, sstreamVars
  <2>2. \A c \in Calls : pc'[c] = pc[c]
    BY <1>3, LoopApart DEF ServeDeliver, ServeExit, WriterStep, WriterSend, WriterExit, ServeCancel
  <2>3. QED BY <1>1, <2>1, <2>2
<1>4. ASSUME NEW a \in Actors, EndStep(a) PROVE Rests
  <2>1. /\ pc[a] \in EndPcs
        /\ \E p \in EndPcs \cup {"serve", "done"} : pc' = [pc EXCEPT ![a] = p] /\ (p = "serve" => a = Loop)
    BY <1>4 DEF EndStep, EndLookup, EndQueueBegin, EndDelete, EndQueueEnd, EndDone, Enqueue, EndPcs
  <2>2. UNCHANGED <<sgot, resp, hret, serveCancel>>
    BY <1>4, Zenon DEF EndStep, EndLookup, EndQueueBegin, EndDelete, EndQueueEnd, EndDone, handlerVars
  <2>3. \A c \in Calls : scancel[c] => scancel'[c]
    BY <1>4 DEF EndStep, EndLookup, EndQueueBegin, EndDelete, EndQueueEnd, EndDone, sstreamVars
  <2>4. \A c \in Calls : Over(c)' <=> Over(c) BY <2>1, LoopApart DEF Over
  <2>5. \A c \in Calls : pc'[c] # "none" => pc[c] # "none" BY <2>1, LoopApart DEF EndPcs
  <2>6. QED BY <2>2, <2>3, <2>4, <2>5 DEF Rests
<1>5. ASSUME NEW c \in Calls, HandlerApp(c) \/ SendStep(c) \/ DeadlineFires(c)
      PROVE  Rests \/ Hears(c) \/ Answers(c) \/ Decides(c)
  <2>0. c \in Actors BY LoopApart
  <2>1. ASSUME UNCHANGED <<sgot, resp, hret, scancel, serveCancel>>, pc[c] \in Live,
               NEW p \in Live, pc' = [pc EXCEPT ![c] = p]
        PROVE  Rests
    <3>1. \A d \in Calls : d # c => pc'[d] = pc[d] BY <2>1, LoopApart
    <3>2. pc'[c] = p BY <2>0, <2>1
    <3>3. QED BY <2>1, <3>1, <3>2 DEF Rests, Over, Live, EndPcs
  <2>2. CASE DeadlineFires(c)
    <3>1. UNCHANGED <<sgot, resp, hret, pc, serveCancel>> BY <2>2 DEF DeadlineFires, handlerVars
    <3>2. \A d \in Calls : scancel[d] => scancel'[d] BY <2>2, Zenon DEF DeadlineFires
    <3>3. QED BY <1>1, <3>1, <3>2
  <2>3. CASE HandlerRecv(c)
    <3>1. UNCHANGED <<resp, scancel, serveCancel>> /\ pc[c] \in Live BY <2>3 DEF HandlerRecv, Live
    <3>2. CASE TakeRequest(c) BY <3>1, <3>2 DEF TakeRequest, Hears
    <3>3. CASE pc' = [pc EXCEPT ![c] = "recv"] /\ UNCHANGED <<sin, sgot, eof, hret>>
      BY <2>1, <3>1, <3>3 DEF Live
    <3>4. QED BY <2>3, <3>2, <3>3 DEF HandlerRecv
  <2>4. CASE HandlerRecvSelect(c)
    <3>1. UNCHANGED <<resp, scancel, serveCancel>> /\ pc[c] \in Live BY <2>4 DEF HandlerRecvSelect, Live
    <3>2. CASE TakeRequest(c) BY <3>1, <3>2 DEF TakeRequest, Hears
    <3>3. CASE pc' = [pc EXCEPT ![c] = "run"] /\ UNCHANGED <<sin, sgot, hret>>
      BY <2>1, <3>1, <3>3 DEF Live
    <3>4. CASE Return(c, 2) /\ UNCHANGED <<sin, sgot, eof>> BY <3>1, <3>4 DEF Return, Decides
    <3>5. QED BY <2>4, <3>2, <3>3, <3>4 DEF HandlerRecvSelect
  <2>5. CASE HandlerSend(c)
    <3>1. UNCHANGED <<sgot, scancel, serveCancel>> /\ pc[c] \in Live BY <2>5 DEF HandlerSend, Live
    <3>2. CASE Return(c, 2) /\ UNCHANGED <<headerSent, resp>> BY <3>1, <3>2 DEF Return, Decides
    <3>3. CASE hret' = hret /\ resp' = [resp EXCEPT ![c] = @ + 1] /\ \E p \in {"qdata", "qbegin"} : pc' = [pc EXCEPT ![c] = p]
      BY <3>1, <3>3 DEF Answers, Live
    <3>4. QED BY <2>5, <3>2, <3>3 DEF HandlerSend
  <2>6. CASE HandlerReturn(c) \/ SendGiveUp(c)
    BY <2>6 DEF HandlerReturn, SendGiveUp, Return, Decides, Live, sstreamVars
  <2>7. CASE SendQueueBegin(c) \/ SendQueueData(c)
    <3>1. PICK p \in {"qdata", "run", "end"} : pc' = [pc EXCEPT ![c] = p]
      BY <2>7 DEF SendQueueBegin, SendQueueData, Enqueue
    <3>2. pc'[c] = p BY <2>0, <3>1
    <3>3. hret' = IF p = "end" THEN [hret EXCEPT ![c] = 2] ELSE hret
      BY <2>7, <3>2 DEF SendQueueBegin, SendQueueData
    <3>4. pc[c] \in Live BY <2>7 DEF SendQueueBegin, SendQueueData, Live
    <3>5. UNCHANGED <<sgot, resp, scancel, serveCancel>>
      BY <2>7 DEF SendQueueBegin, SendQueueData, sstreamVars
    <3>6. CASE p = "end" BY <3>1, <3>3, <3>4, <3>5, <3>6 DEF Decides
    <3>7. CASE p # "end" BY <2>1, <3>1, <3>3, <3>4, <3>5, <3>7 DEF Live
    <3>8. QED BY <3>6, <3>7
  <2>8. QED BY <1>5, <2>2, <2>3, <2>4, <2>5, <2>6, <2>7 DEF HandlerApp, SendStep
<1>6. QED BY <1>2, <1>3, <1>4, <1>5 DEF ServerKind, ServeStep

\* ContractInv is inductive.
LEMMA ContractInvStep ==
  ASSUME TypeOK, TypeOK', LifeInv, ContractInv, [Next]_vars
  PROVE  ContractInv'
<1> USE DEF TypeOK, ClientTypeOK, ServerTypeOK
<1>1. ASSUME UNCHANGED <<cpc, sent, outcome>> PROVE Unasked' /\ Unreported'
  BY <1>1 DEF ContractInv, Unasked, Unreported, Called
<1>2. ASSUME UNCHANGED <<pc, hret>> PROVE Undecided' /\ Implemented'
  BY <1>2 DEF ContractInv, Undecided, Implemented, Over
<1>3. ASSUME ClientKind PROVE Unasked' /\ Unreported'
  <2>1. CASE Waits BY <2>1 DEF Waits, ContractInv, Unasked, Unreported
  <2>2. ASSUME NEW c \in Calls, Makes(c) PROVE Unasked' /\ Unreported'
    BY <2>2 DEF Makes, ContractInv, Unasked, Unreported, Called
  <2>3. ASSUME NEW c \in Calls, Asks(c) PROVE Unasked' /\ Unreported'
    BY <2>3 DEF Asks, ContractInv, Unasked, Unreported, Called
  <2>4. ASSUME NEW c \in Calls, Gets(c) PROVE Unasked' /\ Unreported'
    BY <2>4 DEF Gets, ContractInv, Unasked, Unreported, Called
  <2>5. ASSUME NEW c \in Calls, Reports(c) PROVE Unasked' /\ Unreported'
    <3>1. \A d \in Calls : d # c => cpc'[d] = cpc[d] /\ outcome'[d] = outcome[d] BY <2>5 DEF Reports
    <3>2. sent' = sent /\ cpc'[c] = "done" BY <2>5 DEF Reports
    <3>3. QED BY <3>1, <3>2 DEF ContractInv, Unasked, Unreported, Called
  <2>6. QED BY <1>3, <2>1, <2>2, <2>3, <2>4, <2>5, CallerDoes
<1>4. ASSUME ServerKind PROVE Undecided' /\ Implemented'
  <2>1. CASE Rests BY <2>1 DEF Rests, ContractInv, Undecided, Implemented
  <2>2. ASSUME NEW c \in Calls, Hears(c) PROVE Undecided' /\ Implemented'
    BY <2>2, LoopApart DEF Hears, ContractInv, Undecided, Implemented, Over, PcTypeOK, Live, EndPcs
  <2>3. ASSUME NEW c \in Calls, Answers(c) PROVE Undecided' /\ Implemented'
    BY <2>3, LoopApart DEF Answers, ContractInv, Undecided, Implemented, Over, PcTypeOK, Live, EndPcs
  <2>4. ASSUME NEW c \in Calls, Decides(c) PROVE Undecided' /\ Implemented'
    <3>1. \A d \in Calls : d # c => pc'[d] = pc[d] /\ hret'[d] = hret[d] BY <2>4, LoopApart DEF Decides, PcTypeOK
    <3>2. pc'[c] = "end" /\ pc[c] \in Live BY <2>4, LoopApart DEF Decides, PcTypeOK
    <3>3. QED BY <3>1, <3>2 DEF ContractInv, Undecided, Implemented, Over, Live, EndPcs
  <2>5. CallLife BY DEF LifeInv, CallLife
  <2>6. QED BY <1>4, <2>1, <2>2, <2>3, <2>4, <2>5, HandlerDoes
<1>5. CASE UNCHANGED <<clientVars, serverVars>>
  BY <1>1, <1>2, <1>5 DEF ContractInv, clientVars, callerVars, serverVars, handlerVars
<1>6. CASE UNCHANGED serverVars /\ ClientKind
  BY <1>2, <1>3, <1>6 DEF ContractInv, serverVars, handlerVars
<1>7. CASE UNCHANGED clientVars /\ ServerKind
  BY <1>1, <1>4, <1>7 DEF ContractInv, clientVars, callerVars
<1>8. QED BY <1>5, <1>6, <1>7, Kinds DEF vars

\* and holds at the start.
LEMMA ContractInit == Init => ContractInv
<1> SUFFICES ASSUME Init PROVE ContractInv
  OBVIOUS
<1>1. \A c \in Calls : cpc[c] = "idle" /\ sent[c] = 0 /\ outcome[c] = None /\ pc[c] = "none" /\ hret[c] = None
  BY LoopApart DEF Init, ClientInit, ServerInit, Actors
<1>2. QED BY <1>1 DEF ContractInv, Unasked, Undecided, Unreported, Implemented, Called

\* The contract's view of the state.
Made == [c \in Calls |-> cpc[c] \notin {"idle", "call"}]
Cut == [c \in Calls |-> StreamCtxDone(c)]
Client == <<Made, sent, got, outcome, ctxDone, Lost>>
Server == <<sgot, resp, hret, Cut, serveCancel>>

\* The contract's made is Called.
LEMMA MadeIs == \A c \in Calls : Made[c] <=> Called(c)
BY DEF Made, Called

\* The handlers' contexts, and who has called, stay when their parts do.
LEMMA StayOutside ==
  ASSUME UNCHANGED <<scancel, serveCancel>> PROVE UNCHANGED Cut
BY DEF Cut, StreamCtxDone

LEMMA StayInside ==
  ASSUME \A c \in Calls : Called(c)' <=> Called(c) PROVE UNCHANGED Made
BY DEF Made, Called

\* A client step is a Make, Ask, Receive, Finish or Excuse of the contract.
LEMMA ContractClient ==
  ASSUME TypeOK, ContractInv, StatusInv, ReplyInv, UNCHANGED serverVars, ClientKind
  PROVE  Contract!Next \/ UNCHANGED Contract!contractVars
<1> USE DEF TypeOK, ClientTypeOK
<1>0. UNCHANGED Server BY DEF serverVars, handlerVars, sstreamVars, Server, Cut, StreamCtxDone
<1>1. CASE Waits
  <2>1. UNCHANGED Made BY <1>1, StayInside DEF Waits
  <2>2. Lost => Lost' BY <1>1 DEF Waits, Lost
  <2>3. Contract!Excuse
    BY <1>0, <1>1, <2>1, <2>2, Zenon
    DEF Waits, Contract!Excuse, Contract!callerPart, Contract!handlerPart, Made, Cut, Lost, Server
  <2>4. QED BY <2>3 DEF Contract!Next
<1>2. ASSUME NEW c \in Calls, Makes(c) PROVE Contract!Make(c)
  <2>1. Made' = [Made EXCEPT ![c] = TRUE]
    <3>1. \A d \in Calls : d # c => cpc'[d] = cpc[d] BY <1>2 DEF Makes
    <3>2. cpc'[c] \notin {"idle", "call"} BY <1>2 DEF Makes, Called
    <3>3. QED BY <3>1, <3>2 DEF Made
  <2>2. ~Made[c] /\ sent[c] = 0 /\ outcome[c] = None
    BY <1>2, MadeIs DEF Makes, ContractInv, Unasked, Unreported
  <2>3. sent' = sent \/ sent' = [sent EXCEPT ![c] = 1]
    BY <1>2, <2>2 DEF Makes, Ridden
  <2>4. UNCHANGED <<got, outcome, ctxDone, Lost>> BY <1>2 DEF Makes, Lost
  <2>5. QED BY <1>0, <2>1, <2>2, <2>3, <2>4, Zenon
    DEF Contract!Make, Contract!handlerPart, Contract!excuses, Made, Cut, Lost, Server
<1>3. ASSUME NEW c \in Calls, Asks(c) PROVE Contract!Ask(c)
  <2>1. UNCHANGED Made
    <3>1. \A d \in Calls : Called(d)' <=> Called(d) BY <1>3 DEF Asks, Called
    <3>2. QED BY <3>1, StayInside
  <2>2. Made[c] /\ outcome[c] = None BY <1>3, MadeIs DEF Asks, ContractInv, Unreported
  <2>3. UNCHANGED <<got, outcome, ctxDone, Lost>> /\ sent' = [sent EXCEPT ![c] = @ + 1] BY <1>3 DEF Asks, Lost
  <2>4. QED BY <1>0, <2>1, <2>2, <2>3, Zenon
    DEF Contract!Ask, Contract!handlerPart, Contract!excuses, Made, Cut, Lost, Server
<1>4. ASSUME NEW c \in Calls, Gets(c) PROVE Contract!Receive(c)
  <2>1. UNCHANGED Made
    <3>1. \A d \in Calls : Called(d)' <=> Called(d) BY <1>4 DEF Gets, Called
    <3>2. QED BY <3>1, StayInside
  <2>2. Made[c] /\ outcome[c] = None BY <1>4, MadeIs DEF Gets, ContractInv, Unreported
  <2>3. UNCHANGED <<sent, outcome, ctxDone, Lost>> BY <1>4 DEF Gets, Lost
  <2> DEFINE h == Head(cin[c])
  <2>4. got[c] \in Seq(Payload) /\ cin[c] \in Seq(Payload) /\ cin[c] # <<>> BY <1>4 DEF Gets
  <2>5. Ordered(c, got[c] \o cin[c]) /\ (~serveCancel => Contiguous(c, got[c] \o cin[c]))
    BY DEF ReplyInv, ReplyOrder, ReplyWhole, Reached
  <2>6. /\ h = <<c, h[2]>> /\ h[2] \in Nat /\ LastOf(got[c]) < h[2] /\ h[2] <= LastOf(got[c] \o cin[c])
        /\ Contiguous(c, got[c] \o cin[c]) => h[2] = Len(got[c]) + 1
    BY <2>4, <2>5, NextTaken
  <2>7. LastOf(got[c] \o cin[c]) <= resp[c]
    <3>1. LastOf(Reached(c)) < Coming(c) /\ LastOf(Reached(c)) \in Nat /\ Coming(c) \in Nat
      <4>1. /\ LastOf(Reached(c)) \in Nat /\ Last(c) \in Nat /\ Coming(c) \in Nat
            /\ InHand(c) => aitem.item[2] \in Nat
        BY ReplyTypes
      <4>2. Last(c) < Coming(c) /\ (InHand(c) => LastOf(Reached(c)) < aitem.item[2]) BY DEF ReplyInv, ReplyOrder
      <4>3. QED BY <4>1, <4>2 DEF Last
    <3>2. Coming(c) <= resp[c] + 1 /\ resp[c] \in Nat BY DEF Coming, ServerTypeOK
    <3>3. QED BY <3>1, <3>2 DEF Reached
  <2>8. LastOf(got[c]) \in Nat /\ LastOf(got[c] \o cin[c]) \in Nat /\ resp[c] \in Nat
    <3>1. got[c] \o cin[c] \in Seq(Payload) BY <2>4
    <3>2. resp[c] \in Nat BY DEF ServerTypeOK
    <3>3. QED BY <2>4, <3>1, <3>2, LastContiguous
  <2>9. h[2] \in (LastOf(got[c]) + 1) .. resp[c] BY <2>6, <2>7, <2>8
  <2>10. ~serveCancel => h[2] = Len(got[c]) + 1 BY <2>5, <2>6
  <2>11. got' = [got EXCEPT ![c] = Append(@, <<c, h[2]>>)] BY <1>4, <2>6 DEF Gets
  <2> HIDE DEF h
  <2>12. \E n \in (LastOf(got[c]) + 1) .. resp[c] :
           got' = [got EXCEPT ![c] = Append(@, <<c, n>>)] /\ (~serveCancel => n = Len(got[c]) + 1)
    BY <2>9, <2>10, <2>11
  <2>13. QED BY <1>0, <2>1, <2>2, <2>3, <2>12, Zenon
    DEF Contract!Receive, Contract!LastPos, LastOf, Contract!handlerPart, Contract!excuses, Made, Cut, Lost, Server
<1>5. ASSUME NEW c \in Calls, Reports(c) PROVE Contract!Finish(c)
  <2>1. UNCHANGED Made
    <3>1. \A d \in Calls : Called(d)' <=> Called(d) BY <1>5 DEF Reports, Called
    <3>2. QED BY <3>1, StayInside
  <2>2. Made[c] /\ outcome[c] = None BY <1>5, MadeIs DEF Reports, ContractInv, Unreported
  <2>3. UNCHANGED <<sent, got, ctxDone, Lost>> BY <1>5 DEF Reports, Lost
  <2>4. PICK code \in Nat, d \in Payload \cup {None} :
          /\ outcome' = [outcome EXCEPT ![c] = [code |-> code, data |-> d]]
          /\ (cend[c] # None /\ code = cend[c]) \/ (ctxDone[c] /\ code = 4)
          /\ d = None \/ (got[c] # <<>> /\ d = got[c][1])
    BY <1>5 DEF Reports
  <2>5. Verdict(c, code) \/ (code = 14 /\ Lost) \/ (code = 4 /\ ctxDone[c])
    BY <2>4 DEF StatusInv, EndedTrue
  <2>6. code \in {0, 2, 4, 12, 14} BY <2>5 DEF Verdict
  <2>7. Contract!Justified(c, code) BY <2>5 DEF Contract!Justified, Verdict, Lost
  <2>8. \/ outcome' = [outcome EXCEPT ![c] = [code |-> code, data |-> None]]
        \/ got[c] # <<>> /\ outcome' = [outcome EXCEPT ![c] = [code |-> code, data |-> got[c][1]]]
    BY <2>4
  <2>9. QED BY <1>0, <2>1, <2>2, <2>3, <2>6, <2>7, <2>8, Zenon
    DEF Contract!Finish, Contract!handlerPart, Contract!excuses, Made, Cut, Lost, Server
<1>6. QED BY <1>1, <1>2, <1>3, <1>4, <1>5, CallerDoes DEF Contract!Next

\* A server step is a Hear, Answer, Decide or Excuse of the contract.
LEMMA ContractServer ==
  ASSUME TypeOK, LifeInv, ContractInv, AskInv, UNCHANGED clientVars, cclosed' = cclosed, ServerKind
  PROVE  Contract!Next \/ UNCHANGED Contract!contractVars
<1> USE DEF TypeOK, ServerTypeOK, PcTypeOK
<1>0. UNCHANGED Client
  BY DEF clientVars, callerVars, attachVars, Client, Made, Lost
<1>1. CASE Rests
  <2>1. \A c \in Calls : Cut[c] => Cut'[c] BY <1>1 DEF Rests, Cut, StreamCtxDone
  <2>2. UNCHANGED <<sgot, resp, hret>> /\ (serveCancel => serveCancel') BY <1>1 DEF Rests
  <2>3. Contract!Excuse
    BY <1>0, <2>1, <2>2, Zenon
    DEF Contract!Excuse, Contract!callerPart, Contract!handlerPart, Made, Cut, Lost, Client
  <2>4. QED BY <2>3 DEF Contract!Next
<1>2. ASSUME NEW c \in Calls, pc[c] \in Live PROVE Contract!Handling(c)
  <2>1. Made[c] BY <1>2, MadeIs DEF LifeInv, Started, Live
  <2>2. hret[c] = None BY <1>2 DEF ContractInv, Undecided, Over, Live, EndPcs
  <2>3. c \in Calls \ Unimplemented BY <1>2 DEF ContractInv, Implemented, Live
  <2>4. QED BY <2>1, <2>2, <2>3, Zenon DEF Contract!Handling, Made
<1>3. ASSUME NEW c \in Calls, Hears(c) PROVE Contract!Hear(c)
  <2>1. Contract!Handling(c) BY <1>2, <1>3 DEF Hears
  <2>2. UNCHANGED <<resp, hret, Cut, serveCancel>> BY <1>3, StayOutside DEF Hears
  <2> DEFINE h == Head(sin[c])
  <2>4. sgot[c] \in Seq(Payload) /\ sin[c] \in Seq(Payload) /\ sin[c] # <<>> BY <1>3 DEF Hears
  <2>5. Ordered(c, sgot[c] \o sin[c]) /\ (~ctxDone[c] /\ ~Cut[c] => Contiguous(c, sgot[c] \o sin[c]))
    BY DEF AskInv, AskOrder, AskWhole, Asked, Cut
  <2>6. /\ h = <<c, h[2]>> /\ h[2] \in Nat /\ LastOf(sgot[c]) < h[2] /\ h[2] <= LastOf(sgot[c] \o sin[c])
        /\ Contiguous(c, sgot[c] \o sin[c]) => h[2] = Len(sgot[c]) + 1
    BY <2>4, <2>5, NextTaken
  <2>7. LastOf(sgot[c] \o sin[c]) <= sent[c]
    <3>1. LastOf(Asked(c)) < Due(c) /\ LastOf(Asked(c)) \in Nat
      <4>1. /\ LastOf(Asked(c)) \in Nat /\ Taken(c) \in Nat /\ Due(c) \in Nat
            /\ InLoop(c) => sitem.frame.val \in Nat
        BY AskTypes
      <4>2. Taken(c) < Due(c) /\ (InLoop(c) => LastOf(Asked(c)) < sitem.frame.val) BY DEF AskInv, AskOrder
      <4>3. pc[c] # "none" BY <1>3 DEF Hears, Live
      <4>4. QED BY <4>1, <4>2, <4>3 DEF Taken
    <3>2. Due(c) = sent[c] + 1 /\ sent[c] \in Nat
      BY <1>3 DEF Due, LifeInv, Started, Hears, Live, ClientTypeOK
    <3>3. QED BY <3>1, <3>2 DEF Asked
  <2>8. LastOf(sgot[c]) \in Nat /\ LastOf(sgot[c] \o sin[c]) \in Nat /\ sent[c] \in Nat
    <3>1. sgot[c] \o sin[c] \in Seq(Payload) BY <2>4
    <3>2. sent[c] \in Nat BY DEF ClientTypeOK
    <3>3. QED BY <2>4, <3>1, <3>2, LastContiguous
  <2>9. h[2] \in (LastOf(sgot[c]) + 1) .. sent[c] BY <2>6, <2>7, <2>8
  <2>10. ~ctxDone[c] /\ ~Cut[c] => h[2] = Len(sgot[c]) + 1 BY <2>5, <2>6
  <2>11. sgot' = [sgot EXCEPT ![c] = Append(@, <<c, h[2]>>)] BY <1>3, <2>6 DEF Hears
  <2> HIDE DEF h
  <2>12. \E n \in (LastOf(sgot[c]) + 1) .. sent[c] :
           sgot' = [sgot EXCEPT ![c] = Append(@, <<c, n>>)] /\ (~ctxDone[c] /\ ~Cut[c] => n = Len(sgot[c]) + 1)
    BY <2>9, <2>10, <2>11
  <2>13. QED BY <1>0, <2>1, <2>2, <2>12, Zenon
    DEF Contract!Hear, Contract!LastPos, LastOf, Contract!callerPart, Contract!excuses, Made, Cut, Lost, Client
<1>4. ASSUME NEW c \in Calls, Answers(c) PROVE Contract!Answer(c)
  <2>1. Contract!Handling(c) BY <1>2, <1>4 DEF Answers
  <2>2. UNCHANGED <<sgot, hret, Cut, serveCancel>> BY <1>4, StayOutside DEF Answers
  <2>3. resp' = [resp EXCEPT ![c] = @ + 1] BY <1>4 DEF Answers
  <2>4. QED BY <1>0, <2>1, <2>2, <2>3, Zenon
    DEF Contract!Answer, Contract!callerPart, Contract!excuses, Made, Cut, Lost, Client
<1>5. ASSUME NEW c \in Calls, Decides(c) PROVE Contract!Decide(c)
  <2>1. Contract!Handling(c) BY <1>2, <1>5 DEF Decides
  <2>2. UNCHANGED <<sgot, resp, Cut, serveCancel>> BY <1>5, StayOutside DEF Decides
  <2>3. \E code \in {0, 2} : hret' = [hret EXCEPT ![c] = code] BY <1>5 DEF Decides
  <2>4. QED BY <1>0, <2>1, <2>2, <2>3, Zenon
    DEF Contract!Decide, Contract!callerPart, Contract!excuses, Made, Cut, Lost, Client
<1>6. CallLife BY DEF LifeInv, CallLife
<1>7. QED BY <1>1, <1>3, <1>4, <1>5, <1>6, HandlerDoes DEF Contract!Next

\* Every step of the pair is a step of the contract or a stutter.
LEMMA ContractStep ==
  ASSUME TypeOK, LifeInv, ContractInv, StatusInv, ReplyInv, AskInv, [Next]_vars
  PROVE  [Contract!Next]_(Contract!contractVars)
<1>1. ASSUME UNCHANGED <<clientVars, serverVars>>, cclosed => cclosed'
      PROVE  Contract!Excuse
  <2>1. UNCHANGED <<Made, sent, got, outcome, ctxDone, attachCancel, sgot, resp, hret, serveCancel, Cut>>
    BY <1>1 DEF clientVars, callerVars, attachVars, serverVars, handlerVars, sstreamVars, Made, Cut, StreamCtxDone
  <2>2. Lost => Lost' BY <1>1, <2>1 DEF Lost
  <2>3. QED BY <2>1, <2>2, Zenon DEF Contract!Excuse, Contract!callerPart, Contract!handlerPart, Made, Cut, Lost
<1>2. CASE UNCHANGED vars BY <1>1, <1>2 DEF vars, wireVars, Contract!Next
<1>3. CASE UNCHANGED serverVars /\ ClientKind BY <1>3, ContractClient
<1>4. CASE UNCHANGED clientVars /\ ServerKind
  <2>1. cclosed' = cclosed BY <1>4, ServerQueues, WriterIs
  <2>2. QED BY <1>4, <2>1, ContractServer
<1>5. CASE (ServerConnClose \/ OnClose) /\ UNCHANGED <<clientVars, serverVars>>
  <2>1. cclosed => cclosed' BY <1>5 DEF ServerConnClose, OnClose
  <2>2. QED BY <1>1, <1>5, <2>1 DEF Contract!Next
<1>6. QED BY <1>2, <1>3, <1>4, <1>5, Kinds

\* The initial state is the contract's.
LEMMA ContractStarts == Init => Contract!Init
<1> SUFFICES ASSUME Init PROVE Contract!Init
  OBVIOUS
<1>1. Made = [c \in Calls |-> FALSE] /\ Cut = [c \in Calls |-> FALSE]
  BY DEF Init, ClientInit, ServerInit, Made, Cut, StreamCtxDone
<1>2. ~Lost /\ Lost \in BOOLEAN BY DEF Init, WireInit, ClientInit, Lost
<1>3. QED BY <1>1, <1>2, Zenon DEF Contract!Init, Init, ClientInit, ServerInit, Made, Cut, Lost

(***************************************************************************)
(* Client and server implement CallContract for any number of calls, any   *)
(* capacities, cancellations and closes, as long as the counter has not    *)
(* come around: the tables, queues, pumps and goroutines between the two   *)
(* applications never show in what these see, except by an excuse.         *)
(***************************************************************************)
THEOREM ContractKept == Spec /\ []NoWrap => KeepsContract
<1>1. Init => ContractInv BY ContractInit
<1>2. TypeOK /\ TypeOK' /\ LifeInv /\ ContractInv /\ [Next]_vars => ContractInv' BY ContractInvStep
<1>3. TypeOK /\ LifeInv /\ ContractInv /\ StatusInv /\ ReplyInv /\ AskInv /\ [Next]_vars
        => [Contract!Next]_(Contract!contractVars)
  BY ContractStep
<1>4. QED
  BY <1>1, <1>2, <1>3, ContractStarts, StatusInit, StatusStep, ReplyInit, ReplyStep, AskInit, AskStep,
     IsoHolds, LifeHolds, TypeCorrect, PTL DEF Spec, KeepsContract, Contract!Spec

(***************************************************************************)
(* A connection that makes fewer calls than half the sequence numbers has  *)
(* all of this without a hypothesis: calls do not mix, statuses are true,  *)
(* frames and messages keep their places, and the contract is kept.        *)
(***************************************************************************)
THEOREM FewCallsSuffice ==
  ASSUME FewCalls
  PROVE  Spec => /\ [](/\ Isolation /\ StatusIsTrue /\ EndIsLast
                       /\ HeaderBeforeData /\ RequestsInOrder /\ ResponsesInOrder)
                 /\ KeepsContract
<1>1. Spec => []NoWrap BY NeverWraps
<1>2. QED BY <1>1, IsolationHolds, StatusesAreTrue, EndStaysLast, HeaderIsFirst,
             RequestsKeepOrder, ResponsesKeepOrder, ContractKept, PTL
=============================================================================
