-------------------------- MODULE TransportProofs --------------------------
(***************************************************************************)
(* For any number of senders and any capacities, one direction of a        *)
(* transport.Channel overshoots its high-water mark by at most one frame   *)
(* per sender, and is a FIFO queue.                                        *)
(***************************************************************************)
EXTENDS Transport, TLAPS, FiniteSetTheorems, SequenceTheorems

LEMMA TypeStep == TypeOK /\ [Next]_vars => TypeOK'
<1> SUFFICES ASSUME TypeOK, [Next]_vars PROVE TypeOK'
  OBVIOUS
<1> USE TransportAssumption DEF TypeOK
<1>1. CASE UNCHANGED vars BY <1>1 DEF vars, sendVars, dcVars, recvVars
<1>2. ASSUME NEW s \in Senders, SendRaw(s) \/ CheckBuffer(s) PROVE TypeOK'
  <2>1. CASE SendRaw(s)
    <3>1. nsent' \in [Senders -> Nat] BY <2>1 DEF SendRaw
    <3>2. spc' = spc \/ spc' = [spc EXCEPT ![s] = "check"] BY <2>1 DEF SendRaw
    <3>3. QED BY <2>1, <3>1, <3>2 DEF SendRaw, dcVars, recvVars
  <2>2. CASE CheckBuffer(s)
    <3>1. spc' = [spc EXCEPT ![s] = "send"] \/ spc' = [spc EXCEPT ![s] = "wait"]
      BY <2>2 DEF CheckBuffer
    <3>2. QED BY <2>2, <3>1 DEF CheckBuffer, dcVars, recvVars
  <2>3. QED BY <1>2, <2>1, <2>2
<1>3. ASSUME NEW s \in Senders, AwaitBufferLow(s) PROVE TypeOK'
  BY <1>3 DEF AwaitBufferLow, recvVars
<1>4. ASSUME NEW s \in Senders, DcSend(s) PROVE TypeOK'
  <2>1. <<s, nsent[s]>> \in Message BY DEF Message
  <2>2. buf' \in Seq(Message) BY <1>4, <2>1 DEF DcSend
  <2>3. QED BY <1>4, <2>2 DEF DcSend, recvVars
<1>5. ASSUME NEW s \in Senders, CtxCancel(s) PROVE TypeOK'
  BY <1>5 DEF CtxCancel, dcVars, recvVars
<1>6. CASE Drain
  <2>1. Head(buf) \in Message /\ Tail(buf) \in Seq(Message) BY <1>6 DEF Drain
  <2>2. buf' \in Seq(Message) /\ net' \in Seq(Message) BY <1>6, <2>1 DEF Drain
  <2>3. fire' \in BOOLEAN BY <1>6, Zenon DEF Drain
  <2>4. QED BY <1>6, <2>2, <2>3 DEF Drain, sendVars, recvVars
<1>7. CASE OnBufferedAmountLow BY <1>7 DEF OnBufferedAmountLow, sendVars, recvVars
<1>8. CASE OnMessage
  <2>1. Head(net) \in Message /\ Tail(net) \in Seq(Message) BY <1>8 DEF OnMessage
  <2>2. net' \in Seq(Message) BY <1>8, <2>1 DEF OnMessage
  <2>3. recv' \in Seq(Message) /\ Len(recv') <= RecvCap
    <3>1. CASE Len(recv) < RecvCap /\ recv' = Append(recv, Head(net))
      BY <2>1, <3>1, AppendProperties
    <3>2. CASE recv' = recv BY <3>2
    <3>3. QED BY <1>8, <3>1, <3>2 DEF OnMessage
  <2>4. QED BY <1>8, <2>2, <2>3 DEF OnMessage, sendVars, dcVars
<1>9. CASE Recv
  <2>1. recv # <<>> => /\ Head(recv) \in Message /\ Tail(recv) \in Seq(Message)
                       /\ Len(Tail(recv)) = Len(recv) - 1
    OBVIOUS
  <2>2. /\ recv' \in Seq(Message) /\ Len(recv') <= RecvCap
        /\ got' \in Seq(Message) /\ reading' \in BOOLEAN
    <3>1. CASE /\ recv # <<>> /\ recv' = Tail(recv) /\ got' = Append(got, Head(recv))
               /\ reading' = reading
      BY <2>1, <3>1, AppendProperties
    <3>2. CASE reading' = FALSE /\ recv' = recv /\ got' = got BY <3>2
    <3>3. QED BY <1>9, <3>1, <3>2 DEF Recv
  <2>3. QED BY <1>9, <2>2 DEF Recv, sendVars, dcVars
<1>10. CASE Close \/ Shutdown \/ Abandon \/ RemoteClose \/ OnClose
  <2>1. CASE Abandon BY <2>1 DEF Abandon, sendVars, recvVars
  <2>2. CASE Close BY <2>2 DEF Close, sendVars, recvVars
  <2>3. CASE Shutdown BY <2>3 DEF Shutdown, sendVars, recvVars
  <2>4. CASE RemoteClose BY <2>4 DEF RemoteClose, sendVars, dcVars
  <2>5. CASE OnClose BY <2>5 DEF OnClose, sendVars, recvVars
  <2>6. QED BY <1>10, <2>1, <2>2, <2>3, <2>4, <2>5
<1>11. QED BY <1>1, <1>2, <1>3, <1>4, <1>5, <1>6, <1>7, <1>8, <1>9, <1>10 DEF Next

\* The recv queue of a channel never holds more than its capacity, and every
\* variable keeps its type.
THEOREM TransportTypeCorrect == Spec => []TypeOK
<1>1. Init => TypeOK
  <2> SUFFICES ASSUME Init PROVE TypeOK
    OBVIOUS
  <2>1. ctxDone \in [Senders -> BOOLEAN] BY Zenon DEF Init
  <2>2. spc \in [Senders -> {"idle", "check", "wait", "send"}] /\ nsent \in [Senders -> Nat] BY DEF Init
  <2>3. buf \in Seq(Message) /\ net \in Seq(Message) /\ recv \in Seq(Message) /\ got \in Seq(Message)
    BY DEF Init
  <2>4. Len(recv) <= RecvCap BY TransportAssumption DEF Init
  <2>5. /\ dcOpen \in BOOLEAN /\ closed \in BOOLEAN /\ fire \in BOOLEAN /\ low \in BOOLEAN
        /\ rclosed \in BOOLEAN /\ reading \in BOOLEAN
    BY Zenon DEF Init
  <2>6. QED BY <2>1, <2>2, <2>3, <2>4, <2>5, Zenon DEF TypeOK
<1>2. QED BY <1>1, TypeStep, PTL DEF Spec

-----------------------------------------------------------------------------
\* The senders that have passed the check and not yet sent.
Committed == {s \in Senders : spc[s] = "send"}

\* What those senders are about to add is accounted for.
OvershootInv == Len(buf) + Cardinality(Committed) <= High - 1 + Cardinality(Senders)

LEMMA CommittedFinite ==
  ASSUME TypeOK
  PROVE  /\ IsFiniteSet(Committed) /\ Cardinality(Committed) \in Nat
         /\ Cardinality(Committed) <= Cardinality(Senders) /\ Cardinality(Senders) \in Nat
<1>1. Committed \in SUBSET Senders BY DEF Committed
<1>2. QED BY <1>1, FS_Subset, FS_CardinalityType, TransportAssumption

LEMMA OvershootStep == TypeOK /\ TypeOK' /\ OvershootInv /\ [Next]_vars => OvershootInv'
<1> SUFFICES ASSUME TypeOK, TypeOK', OvershootInv, [Next]_vars PROVE OvershootInv'
  OBVIOUS
<1> USE TransportAssumption
<1>c. /\ IsFiniteSet(Committed) /\ Cardinality(Committed) \in Nat
      /\ Cardinality(Committed) <= Cardinality(Senders) /\ Cardinality(Senders) \in Nat
  BY CommittedFinite
<1>d. /\ IsFiniteSet(Committed') /\ Cardinality(Committed') \in Nat
      /\ Cardinality(Committed') <= Cardinality(Senders)
  <2>1. Committed' \in SUBSET Senders BY DEF Committed
  <2>2. QED BY <2>1, FS_Subset, FS_CardinalityType
<1>l. Len(buf) \in Nat /\ Len(buf') \in Nat BY DEF TypeOK
<1>1. ASSUME Committed' \subseteq Committed, Len(buf') <= Len(buf) PROVE OvershootInv'
  <2>1. Cardinality(Committed') <= Cardinality(Committed)
    BY <1>1, <1>c, FS_Subset
  <2>2. QED BY <1>1, <1>c, <1>d, <1>l, <2>1 DEF OvershootInv
<1>2. ASSUME NEW s \in Senders, CheckBuffer(s) PROVE OvershootInv'
  <2>1. buf' = buf BY <1>2 DEF CheckBuffer, dcVars
  <2>2. CASE Len(buf) < High BY <2>1, <2>2, <1>c, <1>d, <1>l DEF OvershootInv
  <2>3. CASE ~(Len(buf) < High)
    <3>1. Committed' \subseteq Committed BY <1>2, <2>3 DEF CheckBuffer, Committed, TypeOK
    <3>2. QED BY <3>1, <2>1, <1>1, <1>l
  <2>4. QED BY <2>2, <2>3
<1>3. ASSUME NEW s \in Senders, DcSend(s) PROVE OvershootInv'
  <2>1. s \in Committed /\ Committed' = Committed \ {s} BY <1>3 DEF DcSend, Committed, TypeOK
  <2>2. Cardinality(Committed') = Cardinality(Committed) - 1 BY <2>1, <1>c, FS_RemoveElement
  <2>3. Len(buf') <= Len(buf) + 1 BY <1>3, <1>l DEF DcSend, TypeOK
  <2>4. QED BY <2>2, <2>3, <1>c, <1>d, <1>l DEF OvershootInv
<1>4. ASSUME NEW s \in Senders, SendRaw(s) \/ AwaitBufferLow(s) \/ CtxCancel(s) PROVE OvershootInv'
  <2>1. buf' = buf BY <1>4 DEF SendRaw, AwaitBufferLow, CtxCancel, dcVars
  <2>2. Committed' \subseteq Committed BY <1>4 DEF SendRaw, AwaitBufferLow, CtxCancel, Committed, TypeOK
  <2>3. QED BY <2>1, <2>2, <1>1, <1>l
<1>5. CASE Drain \/ Abandon
  <2>1. Committed' = Committed BY <1>5 DEF Drain, Abandon, sendVars, Committed
  <2>2. Len(buf') <= Len(buf)
    <3>1. CASE Drain BY <3>1 DEF Drain, TypeOK
    <3>2. CASE Abandon BY <3>2, <1>l DEF Abandon
    <3>3. QED BY <1>5, <3>1, <3>2
  <2>3. QED BY <2>1, <2>2, <1>1
<1>6. CASE OnBufferedAmountLow \/ OnMessage \/ Recv \/ Close \/ Shutdown \/ RemoteClose \/ OnClose \/ UNCHANGED vars
  <2>1. buf' = buf /\ spc' = spc
    BY <1>6 DEF OnBufferedAmountLow, OnMessage, Recv, Close, Shutdown, RemoteClose, OnClose,
                vars, sendVars, dcVars
  <2>2. Committed' = Committed BY <2>1 DEF Committed
  <2>3. QED BY <2>1, <2>2 DEF OvershootInv
<1>7. QED BY <1>2, <1>3, <1>4, <1>5, <1>6 DEF Next

\* The check in awaitBufferLow and the dc.Send after it are not one step, so
\* concurrent senders pass BufferedAmountHigh: by at most one frame each.
THEOREM OvershootHolds == Spec => []OvershootBounded
<1>1. Init => OvershootInv
  <2> SUFFICES ASSUME Init PROVE OvershootInv
    OBVIOUS
  <2>1. Committed = {} BY DEF Init, Committed
  <2>2. Cardinality(Committed) = 0 BY <2>1, FS_EmptySet
  <2>3. Cardinality(Senders) \in Nat BY FS_CardinalityType, TransportAssumption
  <2>4. QED BY <2>2, <2>3, TransportAssumption DEF Init, OvershootInv
<1>2. TypeOK /\ OvershootInv => OvershootBounded
  <2> SUFFICES ASSUME TypeOK, OvershootInv PROVE OvershootBounded
    OBVIOUS
  <2>1. Len(buf) \in Nat BY DEF TypeOK
  <2>2. QED BY <2>1, CommittedFinite, TransportAssumption DEF OvershootInv, OvershootBounded
<1>3. QED BY <1>1, <1>2, OvershootStep, TypeStep, TransportTypeCorrect, PTL DEF Spec

-----------------------------------------------------------------------------
\* Moving, taking and dropping elements of concatenated sequences.
LEMMA ConcatAppend ==
  ASSUME NEW S, NEW s \in Seq(S), NEW t \in Seq(S), NEW e \in S
  PROVE  s \o Append(t, e) = Append(s \o t, e)
<1>1. <<e>> \in Seq(S) OBVIOUS
<1>2. Append(t, e) = t \o <<e>> BY AppendIsConcat
<1>3. s \o t \in Seq(S) BY ConcatProperties
<1>4. Append(s \o t, e) = (s \o t) \o <<e>> BY <1>3, AppendIsConcat
<1>5. QED BY <1>1, <1>2, <1>4, ConcatAssociative

LEMMA ShiftHead ==
  ASSUME NEW S, NEW s \in Seq(S), NEW t \in Seq(S), t # <<>>
  PROVE  Append(s, Head(t)) \o Tail(t) = s \o t
<1>1. Head(t) \in S /\ Tail(t) \in Seq(S) BY HeadTailProperties
<1>2. t = <<Head(t)>> \o Tail(t)
  <2>1. <<Head(t)>> \in Seq(S) BY <1>1
  <2>2. <<Head(t)>> \o Tail(t) \in Seq(S) BY <1>1, <2>1, ConcatProperties
  <2>3. Len(<<Head(t)>> \o Tail(t)) = Len(t) BY <1>1, <2>1, ConcatProperties, HeadTailProperties
  <2>4. \A i \in 1 .. Len(t) : t[i] = (<<Head(t)>> \o Tail(t))[i]
    BY <1>1, <2>1, ConcatProperties, HeadTailProperties
  <2>5. QED BY <2>2, <2>3, <2>4, SeqEqual
<1>3. <<Head(t)>> \in Seq(S) BY <1>1
<1>4. Append(s, Head(t)) = s \o <<Head(t)>> BY <1>1, AppendIsConcat
<1>5. QED BY <1>1, <1>2, <1>3, <1>4, ConcatAssociative

LEMMA TakeHead ==
  ASSUME NEW S, NEW s \in Seq(S), NEW t \in Seq(S), s # <<>>
  PROVE  s \o t # <<>> /\ Head(s \o t) = Head(s) /\ Tail(s \o t) = Tail(s) \o t
<1>1. Tail(s) \in Seq(S) /\ Len(Tail(s)) = Len(s) - 1 /\ Len(s) \in Nat \ {0}
  BY HeadTailProperties, EmptySeq
<1>2. s \o t \in Seq(S) /\ Len(s \o t) = Len(s) + Len(t) BY ConcatProperties
<1>3. s \o t # <<>> BY <1>1, <1>2, EmptySeq
<1>4. Head(s \o t) = Head(s) BY <1>1, <1>2, <1>3, ConcatProperties
<1>5. Tail(s \o t) \in Seq(S) /\ Len(Tail(s \o t)) = Len(s \o t) - 1
  BY <1>2, <1>3, HeadTailProperties
<1>6. Tail(s) \o t \in Seq(S) /\ Len(Tail(s) \o t) = Len(s) + Len(t) - 1
  BY <1>1, ConcatProperties
<1>7. \A i \in 1 .. Len(Tail(s \o t)) : Tail(s \o t)[i] = (Tail(s) \o t)[i]
  <2> SUFFICES ASSUME NEW i \in 1 .. Len(Tail(s \o t)) PROVE Tail(s \o t)[i] = (Tail(s) \o t)[i]
    OBVIOUS
  <2>1. Tail(s \o t)[i] = (s \o t)[i + 1] BY <1>2, <1>3, HeadTailProperties
  <2>2. (s \o t)[i + 1] = IF i + 1 <= Len(s) THEN s[i + 1] ELSE t[i + 1 - Len(s)]
    BY <1>1, <1>2, <1>5, ConcatProperties
  <2>3. (Tail(s) \o t)[i] = IF i <= Len(s) - 1 THEN Tail(s)[i] ELSE t[i - (Len(s) - 1)]
    BY <1>1, <1>2, <1>5, ConcatProperties
  <2>4. i <= Len(s) - 1 => Tail(s)[i] = s[i + 1] BY <1>1, HeadTailProperties
  <2>5. QED BY <1>1, <2>1, <2>2, <2>3, <2>4
<1>8. QED BY <1>2, <1>3, <1>4, <1>5, <1>6, <1>7, SeqEqual

LEMMA SubSeqParts ==
  ASSUME NEW S, NEW s \in Seq(S), NEW t \in Seq(S), NEW k \in Nat, k < Len(t)
  PROVE  /\ SubSeq(s \o t, 1, Len(s)) = s
         /\ SubSeq(s \o t, Len(s) + 1 + k, Len(s \o t)) = SubSeq(t, 1 + k, Len(t))
<1>1. Len(s) \in Nat /\ Len(t) \in Nat /\ Len(s \o t) = Len(s) + Len(t) /\ s \o t \in Seq(S)
  BY LenProperties, ConcatProperties
<1>2. SubSeq(s \o t, 1, Len(s)) = s
  <2>1. CASE Len(s) = 0
    <3>1. s = <<>> BY <2>1
    <3>2. SubSeq(s \o t, 1, Len(s)) = <<>> BY <2>1, SubSeqEmpty
    <3>3. QED BY <3>1, <3>2
  <2>2. CASE Len(s) # 0
    <3>1. SubSeq(s \o t, 1, Len(s)) = SubSeq(s, 1, Len(s)) BY <1>1, <2>2, SubSeqOfConcat1
    <3>2. QED BY <3>1, SubSeqFull
  <2>3. QED BY <2>1, <2>2
<1>3. SubSeq(s \o t, Len(s) + 1 + k, Len(s) + Len(t)) = SubSeq(t, 1 + k, Len(t))
  <2>1. /\ Len(s) + 1 + k \in Len(s) + 1 .. Len(s) + Len(t)
        /\ Len(s) + Len(t) \in Len(s) + 1 .. Len(s) + Len(t)
        /\ Len(s) + 1 + k - Len(s) = 1 + k /\ Len(s) + Len(t) - Len(s) = Len(t)
    BY <1>1
  <2>2. QED BY <2>1, SubSeqOfConcat2
<1>4. QED BY <1>1, <1>2, <1>3

\* Dropping the first element of t from s \o t.
LEMMA DropOne ==
  ASSUME NEW S, NEW s \in Seq(S), NEW t \in Seq(S), t # <<>>
  PROVE  \E i \in DOMAIN (s \o t) :
           /\ i \in Nat
           /\ s \o Tail(t) = SubSeq(s \o t, 1, i - 1) \o SubSeq(s \o t, i + 1, Len(s \o t))
<1>1. Len(s) \in Nat /\ Len(t) \in Nat \ {0} BY LenProperties, EmptySeq
<1>2. s \o t \in Seq(S) /\ Len(s \o t) = Len(s) + Len(t) BY ConcatProperties
<1>3. DOMAIN (s \o t) = 1 .. Len(s) + Len(t) BY <1>2, LenProperties
<1>4. SubSeq(s \o t, 1, Len(s)) = s
  <2>1. 0 \in Nat /\ 0 < Len(t) BY <1>1
  <2>2. QED BY <2>1, SubSeqParts
<1>5. Tail(t) = SubSeq(s \o t, Len(s) + 2, Len(s \o t))
  <2>1. CASE Len(t) = 1
    <3>1. Tail(t) \in Seq(S) /\ Len(Tail(t)) = 0 BY <2>1, HeadTailProperties
    <3>2. Tail(t) = <<>> BY <3>1, EmptySeq
    <3>3. Len(s) + 2 \in Int /\ Len(s \o t) \in Int /\ Len(s \o t) < Len(s) + 2 BY <1>1, <1>2, <2>1
    <3>4. SubSeq(s \o t, Len(s) + 2, Len(s \o t)) = <<>> BY <3>3, SubSeqEmpty
    <3>5. QED BY <3>2, <3>4
  <2>2. CASE Len(t) # 1
    <3>1. 1 \in Nat /\ 1 < Len(t) BY <1>1, <2>2
    <3>2. SubSeq(s \o t, Len(s) + 1 + 1, Len(s \o t)) = SubSeq(t, 1 + 1, Len(t)) BY <3>1, SubSeqParts
    <3>3. Tail(t) = SubSeq(t, 2, Len(t)) BY TailIsSubSeq
    <3>4. Len(s) + 1 + 1 = Len(s) + 2 /\ 1 + 1 = 2 BY <1>1
    <3>5. QED BY <3>2, <3>3, <3>4
  <2>3. QED BY <2>1, <2>2
<1>6. /\ Len(s) + 1 \in DOMAIN (s \o t)
      /\ Len(s) + 1 - 1 = Len(s) /\ Len(s) + 1 + 1 = Len(s) + 2
  BY <1>1, <1>3
<1> DEFINE i == Len(s) + 1
<1>7. i \in DOMAIN (s \o t) /\ i \in Nat /\ i - 1 = Len(s) /\ i + 1 = Len(s) + 2 BY <1>1, <1>6
<1> HIDE DEF i
<1>8. SubSeq(s \o t, 1, i - 1) = s BY <1>4, <1>7
<1>9. SubSeq(s \o t, i + 1, Len(s \o t)) = Tail(t) BY <1>5, <1>7
<1>10. s \o Tail(t) = SubSeq(s \o t, 1, i - 1) \o SubSeq(s \o t, i + 1, Len(s \o t)) BY <1>8, <1>9
<1>11. QED BY <1>7, <1>10

-----------------------------------------------------------------------------
LEMMA FifoStep == TypeOK /\ [Next]_vars => [Fifo!Next]_(Fifo!fifoVars)
<1> SUFFICES ASSUME TypeOK, [Next]_vars PROVE [Fifo!Next]_(Fifo!fifoVars)
  OBVIOUS
<1> DEFINE rn == recv \o net
           Q == rn \o buf
<1>t. /\ buf \in Seq(Message) /\ net \in Seq(Message) /\ recv \in Seq(Message)
      /\ dcOpen \in BOOLEAN /\ rclosed \in BOOLEAN
  BY DEF TypeOK
<1>q. rn \in Seq(Message) /\ Q \in Seq(Message) /\ Len(Q) = Len(rn) + Len(buf)
  BY <1>t, ConcatProperties
<1>1. ASSUME Q' = Q, got' = got, UNCHANGED <<dcOpen, rclosed>> PROVE UNCHANGED Fifo!fifoVars
  BY <1>1 DEF Fifo!fifoVars
<1>2. ASSUME UNCHANGED <<recv, net, buf, got, dcOpen, rclosed>> PROVE UNCHANGED Fifo!fifoVars
  BY <1>2 DEF Fifo!fifoVars
<1>3. ASSUME NEW s \in Senders, DcSend(s) PROVE [Fifo!Next]_(Fifo!fifoVars)
  <2>1. UNCHANGED <<recv, net, got, dcOpen, rclosed>> BY <1>3 DEF DcSend, recvVars
  <2>2. CASE dcOpen
    <3> DEFINE m == <<s, nsent[s]>>
    <3>1. m \in Message BY DEF TypeOK, Message
    <3>2. buf' = Append(buf, m) BY <1>3, <2>2 DEF DcSend
    <3> HIDE DEF m
    <3>3. Q' = Append(Q, m)
      <4>1. Q' = rn \o Append(buf, m) BY <2>1, <3>2
      <4>2. rn \o Append(buf, m) = Append(rn \o buf, m) BY <1>q, <1>t, <3>1, ConcatAppend
      <4>3. QED BY <4>1, <4>2
    <3> HIDE DEF Q
    <3>4. Len(Q') = Len(Q) + 1 /\ Q'[Len(Q')] = m BY <1>q, <3>1, <3>3, AppendProperties
    <3>5. Len(Q') = Len(Q) + 1 /\ Q'[Len(Q')] \in Message /\ Q' = Append(Q, Q'[Len(Q')])
      BY <3>1, <3>3, <3>4
    <3> USE DEF Q
    <3>6. Fifo!Put BY <2>1, <3>5, Zenon DEF Fifo!Put
    <3>7. QED BY <3>6 DEF Fifo!Next
  <2>3. CASE ~dcOpen
    <3>1. buf' = buf BY <1>3, <2>3 DEF DcSend
    <3>2. QED BY <2>1, <3>1, <1>2
  <2>4. QED BY <2>2, <2>3
<1>4. ASSUME NEW s \in Senders,
             SendRaw(s) \/ CheckBuffer(s) \/ AwaitBufferLow(s) \/ CtxCancel(s)
      PROVE  UNCHANGED Fifo!fifoVars
  <2>1. UNCHANGED <<recv, net, buf, got, dcOpen, rclosed>>
    BY <1>4 DEF SendRaw, CheckBuffer, AwaitBufferLow, CtxCancel, dcVars, recvVars
  <2>2. QED BY <2>1, <1>2
<1>5. CASE Drain
  <2>1. UNCHANGED <<recv, got, dcOpen, rclosed>> BY <1>5 DEF Drain, recvVars
  <2>2. buf # <<>> /\ buf' = Tail(buf) /\ net' = Append(net, Head(buf)) BY <1>5 DEF Drain
  <2>3. Head(buf) \in Message /\ Tail(buf) \in Seq(Message) BY <1>t, <2>2, HeadTailProperties
  <2>4. recv \o Append(net, Head(buf)) = Append(rn, Head(buf)) BY <1>t, <2>3, ConcatAppend
  <2>5. Append(rn, Head(buf)) \o Tail(buf) = rn \o buf BY <1>q, <1>t, <2>2, ShiftHead
  <2>6. Q' = Q BY <2>1, <2>2, <2>4, <2>5
  <2>7. QED BY <1>1, <2>1, <2>6
<1>6. CASE OnMessage
  <2>1. UNCHANGED <<buf, got, dcOpen, rclosed>> BY <1>6 DEF OnMessage, dcVars
  <2>2. net # <<>> /\ net' = Tail(net) BY <1>6 DEF OnMessage
  <2>3. Head(net) \in Message /\ Tail(net) \in Seq(Message) BY <1>t, <2>2, HeadTailProperties
  <2>4. CASE recv' = Append(recv, Head(net))
    <3>1. Append(recv, Head(net)) \o Tail(net) = rn BY <1>t, <2>2, ShiftHead
    <3>2. Q' = Q BY <2>1, <2>2, <2>4, <3>1
    <3>3. QED BY <1>1, <2>1, <3>2
  <2>5. CASE rclosed /\ recv' = recv
    <3> DEFINE nb == net \o buf
    <3>1. Q = recv \o nb BY <1>t, ConcatAssociative
    <3>2. nb \in Seq(Message) /\ nb # <<>> /\ Tail(nb) = Tail(net) \o buf BY <1>t, <2>2, TakeHead, ConcatProperties
    <3>3. Q' = recv \o Tail(nb)
      <4>1. Q' = (recv \o Tail(net)) \o buf BY <2>1, <2>2, <2>5
      <4>2. (recv \o Tail(net)) \o buf = recv \o (Tail(net) \o buf) BY <1>t, <2>3, ConcatAssociative
      <4>3. QED BY <4>1, <4>2, <3>2
    <3>4. recv \in Seq(Message) /\ nb \in Seq(Message) /\ nb # <<>> BY <1>t, <3>2
    <3> HIDE DEF Q, nb
    <3>7. PICK i \in DOMAIN (recv \o nb) :
            /\ i \in Nat
            /\ recv \o Tail(nb) = SubSeq(recv \o nb, 1, i - 1) \o SubSeq(recv \o nb, i + 1, Len(recv \o nb))
      BY <3>4, DropOne
    <3>12. i <= i BY <3>7
    <3>8. i \in DOMAIN Q /\ i <= i /\ Q' = SubSeq(Q, 1, i - 1) \o SubSeq(Q, i + 1, Len(Q))
      BY <3>1, <3>3, <3>7, <3>12, Zenon
    <3>9. \E j, k \in DOMAIN Q : j <= k /\ Q' = SubSeq(Q, 1, j - 1) \o SubSeq(Q, k + 1, Len(Q))
      BY <3>8
    <3> USE DEF Q
    <3>10. Fifo!Lose BY <2>1, <2>5, <3>9, Zenon DEF Fifo!Lose
    <3>11. QED BY <3>10 DEF Fifo!Next
  <2>6. QED BY <1>6, <2>4, <2>5 DEF OnMessage
<1>7. CASE Recv
  <2>1. UNCHANGED <<net, buf, dcOpen, rclosed>> BY <1>7 DEF Recv, dcVars
  <2>2. CASE recv # <<>> /\ recv' = Tail(recv) /\ got' = Append(got, Head(recv))
    <3>1. rn # <<>> /\ Head(rn) = Head(recv) /\ Tail(rn) = Tail(recv) \o net BY <1>t, <2>2, TakeHead
    <3> HIDE DEF rn
    <3>6. rn \o buf # <<>> /\ Head(rn \o buf) = Head(rn) /\ Tail(rn \o buf) = Tail(rn) \o buf
      BY <1>q, <1>t, <3>1, TakeHead
    <3>2. Q # <<>> /\ Head(Q) = Head(recv) /\ Tail(Q) = (Tail(recv) \o net) \o buf
      BY <3>1, <3>6
    <3> USE DEF rn
    <3>3. Q' = Tail(Q) /\ got' = Append(got, Head(Q)) BY <2>1, <2>2, <3>2
    <3>4. Fifo!Get BY <2>1, <3>2, <3>3, Zenon DEF Fifo!Get
    <3>5. QED BY <3>4 DEF Fifo!Next
  <2>3. CASE UNCHANGED <<recv, got>> BY <2>1, <2>3, <1>2
  <2>4. QED BY <1>7, <2>2, <2>3 DEF Recv
<1>8. CASE Close \/ RemoteClose
  <2>1. UNCHANGED <<recv, net, buf, got>> BY <1>8 DEF Close, RemoteClose, recvVars, dcVars
  <2>2. Q' = Q BY <2>1
  <2>3. (dcOpen /\ ~rclosed)' = FALSE BY <1>8 DEF Close, RemoteClose
  <2>4. CASE dcOpen /\ ~rclosed
    <3>1. Fifo!Down BY <2>1, <2>2, <2>3, <2>4, Zenon DEF Fifo!Down
    <3>2. QED BY <3>1 DEF Fifo!Next
  <2>5. CASE ~(dcOpen /\ ~rclosed)
    <3>1. UNCHANGED (dcOpen /\ ~rclosed) BY <2>3, <2>5
    <3>2. QED BY <2>1, <2>2, <3>1, Zenon DEF Fifo!fifoVars
  <2>6. QED BY <2>4, <2>5
<1>9. CASE OnClose
  <2>1. UNCHANGED <<recv, net, buf, got, rclosed>> /\ rclosed BY <1>9 DEF OnClose, recvVars
  <2>2. UNCHANGED (dcOpen /\ ~rclosed) BY <2>1
  <2>3. QED BY <2>1, <2>2 DEF Fifo!fifoVars
<1>10. CASE Abandon
  <2>1. UNCHANGED <<recv, net, got, dcOpen, rclosed>> /\ ~dcOpen /\ buf # <<>> /\ buf' = <<>>
    BY <1>10 DEF Abandon, recvVars
  <2>2. Len(rn) \in Nat /\ Len(buf) \in Nat \ {0} BY <1>q, <1>t, <2>1, LenProperties, EmptySeq
  <2>3. Q' = rn BY <2>1, <1>q, ConcatEmptySeq
  <2>4. SubSeq(Q, 1, Len(rn)) = rn
    <3>1. 0 \in Nat /\ 0 < Len(buf) BY <2>2
    <3>2. QED BY <3>1, <1>q, <1>t, SubSeqParts
  <2>5. SubSeq(Q, Len(Q) + 1, Len(Q)) = <<>> BY <1>q, <2>2, SubSeqEmpty
  <2>6. rn \o <<>> = rn BY <1>q, ConcatEmptySeq
  <2> HIDE DEF Q, rn
  <2> DEFINE i == Len(rn) + 1
             l == Len(Q)
  <2>7. i \in DOMAIN Q /\ l \in DOMAIN Q /\ i <= l /\ i - 1 = Len(rn) BY <1>q, <2>2
  <2>8. Q' = SubSeq(Q, 1, i - 1) \o SubSeq(Q, l + 1, Len(Q)) BY <2>3, <2>4, <2>5, <2>6, <2>7
  <2> HIDE DEF i, l
  <2>9. \E j, k \in DOMAIN Q : j <= k /\ Q' = SubSeq(Q, 1, j - 1) \o SubSeq(Q, k + 1, Len(Q))
    BY <2>7, <2>8
  <2> USE DEF Q, rn
  <2>10. Fifo!Lose BY <2>1, <2>9, Zenon DEF Fifo!Lose
  <2>11. QED BY <2>10 DEF Fifo!Next
<1>11. CASE OnBufferedAmountLow \/ Shutdown \/ UNCHANGED vars
  <2>1. UNCHANGED <<recv, net, buf, got, dcOpen, rclosed>>
    BY <1>11 DEF OnBufferedAmountLow, Shutdown, vars, dcVars, recvVars
  <2>2. QED BY <2>1, <1>2
<1>12. QED BY <1>3, <1>4, <1>5, <1>6, <1>7, <1>8, <1>9, <1>10, <1>11 DEF Next

\* One direction of a Channel pair implements FifoChannel: whatever senders
\* interleave, buffers fill and callbacks wait, frames arrive in the order of
\* dc.Send, once and unaltered, and are lost only after an end was closed.
THEOREM ChannelIsFifo == Spec => ImplementsFifo
<1>1. Init => Fifo!Init
  <2> SUFFICES ASSUME Init PROVE Fifo!Init
    OBVIOUS
  <2>1. recv = <<>> /\ net = <<>> /\ buf = <<>> /\ got = <<>> BY DEF Init
  <2>2. <<>> \o <<>> = <<>> BY ConcatEmptySeq, EmptySeq
  <2>3. recv \o net \o buf = <<>> BY <2>1, <2>2
  <2>4. (dcOpen /\ ~rclosed) = TRUE BY Zenon DEF Init
  <2>5. QED BY <2>1, <2>3, <2>4, Zenon DEF Fifo!Init
<1>2. QED BY <1>1, FifoStep, TransportTypeCorrect, PTL DEF Spec, ImplementsFifo, Fifo!Spec
=============================================================================
