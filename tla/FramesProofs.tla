---------------------------- MODULE FramesProofs -----------------------------
(***************************************************************************)
(* What carries messages and frames, for any inputs.  Chunking loses and   *)
(* mixes up nothing: whatever the streams, sizes and chunk size, what      *)
(* Reassembler joins is what sendPayload split, however the frames of the  *)
(* streams interleave.  Then what MCEdges checks of Frames on bounded      *)
(* inputs, for all of them: a recursive function of the model takes one    *)
(* step per item of its input, so each is unfolded once (..Is, by          *)
(* Iterates) and followed by induction over the number of steps            *)
(* (NatSetInduction).                                                      *)
(***************************************************************************)
EXTENDS Chunks, Frames, WellFoundedInduction, FiniteSetTheorems, SequenceTheorems, TLAPS

-----------------------------------------------------------------------------
\* Chunks: the positions of sender and receiver in a stream.

\* What the variables hold.
Frame == [seq : Streams, total : Nat, offset : Nat, data : Seq(Byte)]
Assembler == [buf : Seq(Byte), got : Nat, total : Nat]

Types ==
  /\ sent \in [Streams -> Seq(Sizes)]
  /\ offset \in [Streams -> Nat \cup {None}]
  /\ ctxDone \in [Streams -> BOOLEAN]
  /\ wire \in Seq(Frame)
  /\ chunks \in [Streams -> Assembler \cup {None}]
  /\ delivered \in [Streams -> Seq(Seq(Byte))]

\* Where a message is cut, and the frame that begins at cut o of the n-th
\* message of s.
Cuts == {c * ChunkSize : c \in Nat}
FrameAt(s, n, o) ==
  [seq |-> s, total |-> sent[s][n], offset |-> o,
   data |-> Slice(s, n, o, MinOf(o + ChunkSize, sent[s][n]))]

\* The message a frame is of.
MsgOf(f) == f.data[1][2]

\* A position in a stream is a message and a cut; (n, o) is before (m, p).
Before(n, o, m, p) == n < m \/ (n = m /\ o < p)

\* The position the receiver has got to, and the sender.
RecvMsg(s) == Len(delivered[s]) + 1
RecvCut(s) == IF chunks[s] = None THEN 0 ELSE chunks[s].got
SendMsg(s) == IF offset[s] = None THEN Len(sent[s]) + 1 ELSE Len(sent[s])
SendCut(s) == IF offset[s] = None THEN 0 ELSE offset[s]

\* sendPayload is at a cut of the last message.
Sending ==
  \A s \in Streams : offset[s] # None =>
    /\ Len(sent[s]) > 0 /\ offset[s] \in Cuts /\ offset[s] < sent[s][Len(sent[s])]

\* A frame on the channel is one that sendPayload makes.
Made ==
  \A i \in DOMAIN wire : LET f == wire[i] IN
    /\ MsgOf(f) \in 1 .. Len(sent[f.seq])
    /\ f.offset \in Cuts /\ f.offset < sent[f.seq][MsgOf(f)]
    /\ f = FrameAt(f.seq, MsgOf(f), f.offset)

\* An assembler is never full: it is handed over when it becomes so.
Partial ==
  \A s \in Streams : chunks[s] # None =>
    Len(chunks[s].buf) = chunks[s].total /\ chunks[s].got < chunks[s].total

\* The frames of a stream whose ctx is live are, in order, those from where
\* the receiver is to where the sender is.
Ordered(s) ==
  \A i, j \in DOMAIN wire : i < j /\ wire[i].seq = s /\ wire[j].seq = s =>
    Before(MsgOf(wire[i]), wire[i].offset, MsgOf(wire[j]), wire[j].offset)
Between(s) ==
  \A i \in DOMAIN wire : wire[i].seq = s =>
    /\ ~Before(MsgOf(wire[i]), wire[i].offset, RecvMsg(s), RecvCut(s))
    /\ Before(MsgOf(wire[i]), wire[i].offset, SendMsg(s), SendCut(s))
Covered(s) ==
  \A n \in 1 .. Len(sent[s]) : \A o \in Cuts :
    /\ o < sent[s][n]
    /\ ~Before(n, o, RecvMsg(s), RecvCut(s)) /\ Before(n, o, SendMsg(s), SendCut(s))
    => \E i \in DOMAIN wire : wire[i].seq = s /\ MsgOf(wire[i]) = n /\ wire[i].offset = o

\* The receiver is not ahead of the sender.
Behind(s) == ~Before(SendMsg(s), SendCut(s), RecvMsg(s), RecvCut(s))

\* What the assembler has so far is the beginning of the next message.
Begun(s) ==
  chunks[s] # None =>
    /\ RecvMsg(s) <= Len(sent[s]) /\ chunks[s].total = sent[s][RecvMsg(s)]
    /\ chunks[s].total > ChunkSize /\ chunks[s].got \in Cuts /\ chunks[s].got > 0
    /\ \A b \in 1 .. chunks[s].got : chunks[s].buf[b] = <<s, RecvMsg(s), b>>

\* What has been handed over is what was sent.
Intact(s) ==
  \A n \in DOMAIN delivered[s] : n <= Len(sent[s]) /\ delivered[s][n] = Whole(s, n)

Whence(s) == Ordered(s) /\ Between(s) /\ Covered(s) /\ Behind(s) /\ Begun(s) /\ Intact(s)

Streaming == \A s \in Streams : ~ctxDone[s] => Whence(s)

ChunksInv == Types /\ Sending /\ Made /\ Partial /\ Streaming

-----------------------------------------------------------------------------
\* Cuts, slices and frames.

LEMMA CutFacts ==
  /\ 0 \in Cuts /\ Cuts \subseteq Nat
  /\ \A o \in Cuts : o + ChunkSize \in Cuts
  /\ \A o, p \in Cuts : o < p => o + ChunkSize <= p
<1> USE ChunksAssumption
<1>0. ChunkSize \in Nat /\ ChunkSize > 0 OBVIOUS
<1>1. 0 \in Cuts BY <1>0 DEF Cuts
<1>2. Cuts \subseteq Nat BY <1>0 DEF Cuts
<1>3. ASSUME NEW o \in Cuts PROVE o + ChunkSize \in Cuts
  <2>1. PICK c \in Nat : o = c * ChunkSize BY DEF Cuts
  <2>2. (c + 1) * ChunkSize = c * ChunkSize + ChunkSize BY <1>0
  <2>3. QED BY <2>1, <2>2 DEF Cuts
<1>4. ASSUME NEW o \in Cuts, NEW p \in Cuts, o < p PROVE o + ChunkSize <= p
  <2>1. PICK c \in Nat : o = c * ChunkSize BY DEF Cuts
  <2>2. PICK d \in Nat : p = d * ChunkSize BY DEF Cuts
  <2>3. c < d
    <3>1. SUFFICES ASSUME d <= c PROVE FALSE
      BY <2>1, <2>2
    <3>2. d * ChunkSize <= c * ChunkSize BY <1>0, <3>1
    <3>3. QED BY <1>2, <1>4, <2>1, <2>2, <3>2
  <2>4. (c + 1) * ChunkSize <= d * ChunkSize BY <1>0, <2>3
  <2>5. (c + 1) * ChunkSize = c * ChunkSize + ChunkSize BY <1>0
  <2>6. QED BY <2>1, <2>2, <2>4, <2>5
<1>5. QED BY <1>1, <1>2, <1>3, <1>4

LEMMA SliceFacts ==
  ASSUME NEW s \in Streams, NEW n \in Nat, NEW lo \in Nat, NEW hi \in Nat, lo <= hi
  PROVE  /\ Slice(s, n, lo, hi) \in Seq(Byte) /\ Len(Slice(s, n, lo, hi)) = hi - lo
         /\ \A i \in 1 .. (hi - lo) : Slice(s, n, lo, hi)[i] = <<s, n, lo + i>>
<1>1. hi - lo \in Nat OBVIOUS
<1>2. \A i \in 1 .. (hi - lo) : <<s, n, lo + i>> \in Byte BY DEF Byte
<1>3. Slice(s, n, lo, hi) \in [1 .. (hi - lo) -> Byte] BY <1>2 DEF Slice
<1>4. QED BY <1>1, <1>3 DEF Slice

LEMMA SizeOf ==
  ASSUME Types, NEW s \in Streams, NEW n \in 1 .. Len(sent[s])
  PROVE  sent[s][n] \in Sizes /\ sent[s][n] \in Nat /\ sent[s][n] > 0 /\ n \in Nat
<1>1. sent[s] \in Seq(Sizes) BY DEF Types
<1>2. sent[s][n] \in Sizes /\ n \in Nat BY <1>1
<1>3. \A z \in Sizes : z \in Nat /\ z > 0 BY ChunksAssumption
<1>4. QED BY <1>2, <1>3

LEMMA FrameFacts ==
  ASSUME Types, NEW s \in Streams, NEW n \in 1 .. Len(sent[s]), NEW o \in Cuts, o < sent[s][n]
  PROVE  LET f == FrameAt(s, n, o) IN
         /\ f \in Frame /\ f.seq = s /\ f.total = sent[s][n] /\ f.offset = o /\ MsgOf(f) = n
         /\ Len(f.data) \in 1 .. ChunkSize
         /\ Len(f.data) = IF o + ChunkSize < sent[s][n] THEN ChunkSize ELSE sent[s][n] - o
         /\ \A i \in 1 .. Len(f.data) : f.data[i] = <<s, n, o + i>>
<1> DEFINE f == FrameAt(s, n, o)
           z == sent[s][n]
           hi == MinOf(o + ChunkSize, z)
<1>1. z \in Nat /\ z > 0 /\ n \in Nat /\ o \in Nat /\ ChunkSize \in Nat \ {0} /\ o < z
  BY SizeOf, CutFacts, ChunksAssumption
<1>2. f = [seq |-> s, total |-> z, offset |-> o, data |-> Slice(s, n, o, hi)] BY DEF FrameAt
<1> HIDE DEF z
<1>3. hi \in Nat /\ o <= hi /\ hi - o = (IF o + ChunkSize < z THEN ChunkSize ELSE z - o) /\ hi - o \in 1 .. ChunkSize
  <2>1. CASE o + ChunkSize < z
    <3>1. hi = o + ChunkSize BY <2>1 DEF MinOf
    <3>2. QED BY <1>1, <2>1, <3>1
  <2>2. CASE ~(o + ChunkSize < z)
    <3>1. hi = z BY <2>2 DEF MinOf
    <3>2. QED BY <1>1, <2>2, <3>1
  <2>3. QED BY <2>1, <2>2
<1> HIDE DEF hi, f
<1>4. /\ Slice(s, n, o, hi) \in Seq(Byte) /\ Len(Slice(s, n, o, hi)) = hi - o
      /\ \A i \in 1 .. (hi - o) : Slice(s, n, o, hi)[i] = <<s, n, o + i>>
  <2>1. n \in Nat /\ o \in Nat /\ hi \in Nat /\ o <= hi BY <1>1, <1>3
  <2>2. QED BY <2>1, SliceFacts, Zenon
<1>5. f.seq = s /\ f.total = z /\ f.offset = o /\ f.data = Slice(s, n, o, hi) BY <1>2
<1>6. f \in Frame BY <1>1, <1>2, <1>4 DEF Frame
<1>7. MsgOf(f) = n
  <2>1. 1 \in 1 .. (hi - o) BY <1>3
  <2>2. f.data[1] = <<s, n, o + 1>> BY <1>4, <1>5, <2>1
  <2>3. QED BY <2>2 DEF MsgOf
<1>8. QED BY <1>3, <1>4, <1>5, <1>6, <1>7 DEF f, z

LEMMA WireFrame ==
  ASSUME Types, NEW i \in DOMAIN wire
  PROVE  wire[i] \in Frame /\ wire[i].seq \in Streams /\ wire[i].offset \in Nat /\ wire[i].total \in Nat
<1>1. wire \in Seq(Frame) BY DEF Types
<1>2. wire[i] \in Frame BY <1>1
<1>3. QED BY <1>2 DEF Frame

\* A position's parts are numbers.
LEMMA Positions ==
  ASSUME Types, NEW s \in Streams
  PROVE  /\ RecvMsg(s) \in Nat /\ RecvCut(s) \in Nat /\ SendMsg(s) \in Nat /\ SendCut(s) \in Nat
         /\ Len(sent[s]) \in Nat /\ Len(delivered[s]) \in Nat
<1>1. sent[s] \in Seq(Sizes) /\ delivered[s] \in Seq(Seq(Byte)) /\ offset[s] \in Nat \cup {None} BY DEF Types
<1>2. chunks[s] # None => chunks[s].got \in Nat BY DEF Types, Assembler
<1>3. QED BY <1>1, <1>2 DEF RecvMsg, RecvCut, SendMsg, SendCut

-----------------------------------------------------------------------------
\* The application's step: the position of the sender stays where it was.
LEMMA SendKeeps ==
  ASSUME ChunksInv, NEW s \in Streams, Send(s)
  PROVE  ChunksInv'
<1>i. Types /\ Sending /\ Made /\ Partial /\ Streaming BY DEF ChunksInv
<1>u. UNCHANGED <<ctxDone, wire, chunks, delivered>> /\ offset[s] = None BY DEF Send
<1>1. PICK z \in Sizes : sent' = [sent EXCEPT ![s] = Append(@, z)] BY DEF Send
<1>2. offset' = [offset EXCEPT ![s] = 0] BY DEF Send
<1>z. z \in Nat /\ z > 0 BY ChunksAssumption
<1>t. sent \in [Streams -> Seq(Sizes)] /\ offset \in [Streams -> Nat \cup {None}] BY <1>i DEF Types
<1>3. /\ sent'[s] = Append(sent[s], z) /\ Len(sent'[s]) = Len(sent[s]) + 1 /\ Len(sent[s]) \in Nat
      /\ sent'[s][Len(sent[s]) + 1] = z
      /\ \A t \in Streams : t # s => sent'[t] = sent[t]
  BY <1>t, <1>1
<1>4. \A t \in Streams : \A n \in 1 .. Len(sent[t]) : n \in 1 .. Len(sent'[t]) /\ sent'[t][n] = sent[t][n]
  <2> SUFFICES ASSUME NEW t \in Streams, NEW n \in 1 .. Len(sent[t])
               PROVE  n \in 1 .. Len(sent'[t]) /\ sent'[t][n] = sent[t][n]
    OBVIOUS
  <2>1. CASE t # s BY <1>3, <2>1
  <2>2. CASE t = s BY <1>t, <1>3, <2>2
  <2>3. QED BY <2>1, <2>2
<1>5. offset'[s] = 0 /\ \A t \in Streams : t # s => offset'[t] = offset[t] BY <1>t, <1>2
<1>n. 0 # None BY ChunksAssumption
<1>6. Types'
  <2>1. sent' \in [Streams -> Seq(Sizes)] BY <1>t, <1>1
  <2>2. offset' \in [Streams -> Nat \cup {None}] BY <1>t, <1>2
  <2>3. QED BY <1>i, <1>u, <2>1, <2>2 DEF Types
<1>7. Sending'
  <2> SUFFICES ASSUME NEW t \in Streams, offset'[t] # None
               PROVE  Len(sent'[t]) > 0 /\ offset'[t] \in Cuts /\ offset'[t] < sent'[t][Len(sent'[t])]
    BY DEF Sending
  <2>1. CASE t = s BY <2>1, <1>3, <1>5, <1>z, CutFacts
  <2>2. CASE t # s BY <2>2, <1>i, <1>3, <1>5 DEF Sending
  <2>3. QED BY <2>1, <2>2
<1>8. Made'
  <2> SUFFICES ASSUME NEW i \in DOMAIN wire, NEW f, f = wire[i]
               PROVE  /\ MsgOf(f) \in 1 .. Len(sent'[f.seq])
                      /\ f.offset \in Cuts /\ f.offset < sent'[f.seq][MsgOf(f)]
                      /\ f = FrameAt(f.seq, MsgOf(f), f.offset)'
    BY <1>u DEF Made, FrameAt, MsgOf
  <2>1. f.seq \in Streams BY <1>i, WireFrame
  <2>2. /\ MsgOf(f) \in 1 .. Len(sent[f.seq]) /\ f.offset \in Cuts /\ f.offset < sent[f.seq][MsgOf(f)]
        /\ f = FrameAt(f.seq, MsgOf(f), f.offset)
    BY <1>i DEF Made
  <2>3. MsgOf(f) \in 1 .. Len(sent'[f.seq]) /\ sent'[f.seq][MsgOf(f)] = sent[f.seq][MsgOf(f)]
    BY <1>4, <2>1, <2>2
  <2>4. FrameAt(f.seq, MsgOf(f), f.offset)' = FrameAt(f.seq, MsgOf(f), f.offset)
    BY <2>3 DEF FrameAt
  <2>5. QED BY <2>2, <2>3, <2>4
<1>9. Partial' BY <1>i, <1>u DEF Partial
<1>10. Streaming'
  <2> SUFFICES ASSUME NEW t \in Streams, ~ctxDone[t] PROVE Whence(t)'
    BY <1>u DEF Streaming
  <2>w. Whence(t) BY <1>i DEF Streaming
  <2>1. RecvMsg(t)' = RecvMsg(t) /\ RecvCut(t)' = RecvCut(t) BY <1>u DEF RecvMsg, RecvCut
  <2>2. SendMsg(t)' = SendMsg(t) /\ SendCut(t)' = SendCut(t)
    <3>1. CASE t = s BY <3>1, <1>u, <1>3, <1>5, <1>n DEF SendMsg, SendCut
    <3>2. CASE t # s BY <3>2, <1>3, <1>5 DEF SendMsg, SendCut
    <3>3. QED BY <3>1, <3>2
  <2>3. Ordered(t)' BY <2>w, <1>u DEF Whence, Ordered, MsgOf
  <2>4. Between(t)' BY <2>w, <1>u, <2>1, <2>2 DEF Whence, Between, MsgOf
  <2>5. Covered(t)'
    <3> SUFFICES ASSUME NEW n \in 1 .. Len(sent'[t]), NEW o \in Cuts, o < sent'[t][n],
                        ~Before(n, o, RecvMsg(t), RecvCut(t)), Before(n, o, SendMsg(t), SendCut(t))
                 PROVE  \E i \in DOMAIN wire : wire[i].seq = t /\ MsgOf(wire[i]) = n /\ wire[i].offset = o
      BY <1>u, <2>1, <2>2 DEF Covered, MsgOf
    <3>1. n \in 1 .. Len(sent[t])
      <4>1. CASE t # s BY <4>1, <1>3
      <4>2. CASE t = s
        <5>1. SendMsg(t) = Len(sent[t]) + 1 /\ SendCut(t) = 0 BY <4>2, <1>u DEF SendMsg, SendCut
        <5>2. o \in Nat BY CutFacts
        <5>3. QED BY <4>2, <5>1, <5>2, <1>3 DEF Before
      <4>3. QED BY <4>1, <4>2
    <3>2. QED BY <3>1, <1>4, <2>w DEF Whence, Covered
  <2>6. Behind(t)' BY <2>w, <2>1, <2>2 DEF Whence, Behind
  <2>7. Begun(t)'
    <3>1. CASE chunks[t] = None BY <3>1, <1>u DEF Begun
    <3>2. CASE chunks[t] # None
      <4>1. RecvMsg(t) <= Len(sent[t]) BY <3>2, <2>w DEF Whence, Begun
      <4>2. RecvMsg(t) \in 1 .. Len(sent[t]) BY <4>1, <1>i, <1>t DEF RecvMsg, Types
      <4>3. RecvMsg(t) <= Len(sent'[t]) /\ sent'[t][RecvMsg(t)] = sent[t][RecvMsg(t)] BY <4>2, <1>4, <1>t
      <4>4. QED BY <3>2, <4>3, <2>w, <2>1, <1>u DEF Whence, Begun
    <3>3. QED BY <3>1, <3>2
  <2>8. Intact(t)'
    <3> SUFFICES ASSUME NEW n \in DOMAIN delivered[t]
                 PROVE  n <= Len(sent'[t]) /\ delivered[t][n] = Whole(t, n)'
      BY <1>u DEF Intact
    <3>1. n <= Len(sent[t]) /\ delivered[t][n] = Whole(t, n) BY <2>w DEF Whence, Intact
    <3>2. n \in 1 .. Len(sent[t]) BY <3>1, <1>i DEF Types
    <3>3. QED BY <3>1, <3>2, <1>4 DEF Whole
  <2>9. QED BY <2>3, <2>4, <2>5, <2>6, <2>7, <2>8 DEF Whence
<1>11. QED BY <1>6, <1>7, <1>8, <1>9, <1>10 DEF ChunksInv

\* A cancelled ctx only takes a stream out of what is claimed.
LEMMA CancelKeeps ==
  ASSUME ChunksInv, NEW s \in Streams, CtxCancel(s)
  PROVE  ChunksInv'
<1>1. UNCHANGED <<sent, offset, wire, chunks, delivered>> /\ ctxDone' = [ctxDone EXCEPT ![s] = TRUE]
  BY DEF CtxCancel
<1>2. ctxDone \in [Streams -> BOOLEAN] BY DEF ChunksInv, Types
<1>3. ctxDone' \in [Streams -> BOOLEAN] /\ \A t \in Streams : ~ctxDone'[t] => ~ctxDone[t]
  BY <1>1, <1>2, Zenon
<1>4. Types' /\ Sending' /\ Made' /\ Partial'
  BY <1>1, <1>3 DEF ChunksInv, Types, Sending, Made, FrameAt, Partial
<1>5. \A t \in Streams : Whence(t) => Whence(t)'
  BY <1>1 DEF Whence, Ordered, Between, Covered, Behind, Begun, Intact, RecvMsg, RecvCut, SendMsg, SendCut,
              MsgOf, Whole
<1>6. Streaming' BY <1>3, <1>5 DEF ChunksInv, Streaming
<1>7. QED BY <1>4, <1>6 DEF ChunksInv

-----------------------------------------------------------------------------
\* One round of sendPayload: the sender moves to the next cut, or past the
\* message, and its frame is the last on the channel.
LEMMA PartKeeps ==
  ASSUME ChunksInv, NEW s \in Streams, SendPart(s)
  PROVE  ChunksInv'
<1>i. Types /\ Sending /\ Made /\ Partial /\ Streaming BY DEF ChunksInv
<1>u. UNCHANGED <<sent, ctxDone, chunks, delivered>> /\ offset[s] # None BY DEF SendPart
<1> DEFINE L == Len(sent[s])
           o == offset[s]
           z == sent[s][L]
           g == FrameAt(s, L, o)
<1>1. offset' = [offset EXCEPT ![s] = IF o + ChunkSize < z THEN o + ChunkSize ELSE None] BY DEF SendPart
<1>2. NextFrame(s) = g BY DEF NextFrame, FrameAt
<1>3. \/ wire' = Append(wire, g)
      \/ ctxDone[s] /\ wire' = wire
  BY <1>2 DEF SendPart
<1>4. /\ L \in Nat /\ L > 0 /\ o \in Cuts /\ o \in Nat /\ o < z /\ z \in Nat /\ L \in 1 .. L
      /\ ChunkSize \in Nat \ {0} /\ o + ChunkSize \in Cuts /\ o + ChunkSize \in Nat
  <2>1. L > 0 /\ o \in Cuts /\ o < z BY <1>i, <1>u DEF Sending
  <2>2. L \in Nat BY <1>i, Positions
  <2>3. z \in Nat BY <1>i, <2>1, <2>2, SizeOf
  <2>4. o \in Nat /\ o + ChunkSize \in Cuts /\ o + ChunkSize \in Nat BY <2>1, CutFacts
  <2>5. L \in 1 .. L BY <2>1, <2>2
  <2>6. ChunkSize \in Nat \ {0} BY ChunksAssumption
  <2>7. QED BY <2>1, <2>2, <2>3, <2>4, <2>5, <2>6
<1>5. g \in Frame /\ g.seq = s /\ g.offset = o /\ MsgOf(g) = L BY <1>i, <1>4, FrameFacts
<1>6. /\ offset'[s] = IF o + ChunkSize < z THEN o + ChunkSize ELSE None
      /\ \A t \in Streams : t # s => offset'[t] = offset[t]
      /\ offset' \in [Streams -> Nat \cup {None}]
  <2>1. offset \in [Streams -> Nat \cup {None}] BY <1>i DEF Types
  <2>2. QED BY <1>1, <1>4, <2>1
<1> HIDE DEF L, o, z, g
<1> DEFINE W == Len(wire)
<1>7. /\ W \in Nat /\ DOMAIN wire = 1 .. W /\ wire' \in Seq(Frame)
      /\ \/ wire' = wire /\ ctxDone[s]
         \/ /\ DOMAIN wire' = 1 .. (W + 1) /\ wire'[W + 1] = g
            /\ \A i \in 1 .. W : wire'[i] = wire[i]
  <2>1. wire \in Seq(Frame) BY <1>i DEF Types
  <2>2. CASE wire' = wire /\ ctxDone[s] BY <2>1, <2>2
  <2>3. CASE wire' = Append(wire, g) BY <2>1, <2>3, <1>5
  <2>4. QED BY <1>3, <2>2, <2>3
<1> HIDE DEF W
<1>8. \A i \in DOMAIN wire' : (i \in DOMAIN wire /\ wire'[i] = wire[i]) \/ (i = W + 1 /\ wire'[i] = g)
  BY <1>7
<1>9. \A i \in DOMAIN wire : i \in DOMAIN wire' /\ wire'[i] = wire[i] BY <1>7
<1>10. Types'
  BY <1>i, <1>u, <1>6, <1>7 DEF Types
<1>11. Sending'
  <2> SUFFICES ASSUME NEW t \in Streams, offset'[t] # None
               PROVE  Len(sent[t]) > 0 /\ offset'[t] \in Cuts /\ offset'[t] < sent[t][Len(sent[t])]
    BY <1>u DEF Sending
  <2>1. CASE t = s BY <2>1, <1>4, <1>6 DEF L, z
  <2>2. CASE t # s BY <2>2, <1>i, <1>6 DEF Sending
  <2>3. QED BY <2>1, <2>2
<1>12. Made'
  <2> SUFFICES ASSUME NEW i \in DOMAIN wire', NEW f, f = wire'[i]
               PROVE  /\ MsgOf(f) \in 1 .. Len(sent[f.seq])
                      /\ f.offset \in Cuts /\ f.offset < sent[f.seq][MsgOf(f)]
                      /\ f = FrameAt(f.seq, MsgOf(f), f.offset)
    BY <1>u DEF Made, FrameAt, MsgOf
  <2>1. CASE i \in DOMAIN wire /\ f = wire[i] BY <2>1, <1>i DEF Made
  <2>2. CASE f = g BY <2>2, <1>4, <1>5 DEF g, L, z
  <2>3. QED BY <1>8, <2>1, <2>2
<1>13. Partial' BY <1>i, <1>u DEF Partial
<1>14. \A t \in Streams : RecvMsg(t)' = RecvMsg(t) /\ RecvCut(t)' = RecvCut(t) BY <1>u DEF RecvMsg, RecvCut
<1>15. ASSUME NEW t \in Streams, t # s, ~ctxDone[t] PROVE Whence(t)'
  <2>w. Whence(t) BY <1>i, <1>15 DEF Streaming
  <2>1. SendMsg(t)' = SendMsg(t) /\ SendCut(t)' = SendCut(t) BY <1>15, <1>u, <1>6 DEF SendMsg, SendCut
  <2>2. \A i \in DOMAIN wire' : wire'[i].seq = t => i \in DOMAIN wire /\ wire'[i] = wire[i]
    BY <1>5, <1>8, <1>15
  <2>3. Ordered(t)' BY <2>w, <2>2 DEF Whence, Ordered, MsgOf
  <2>4. Between(t)' BY <2>w, <2>1, <2>2, <1>14 DEF Whence, Between, MsgOf
  <2>5. Covered(t)'
    <3> SUFFICES ASSUME NEW n \in 1 .. Len(sent[t]), NEW p \in Cuts, p < sent[t][n],
                        ~Before(n, p, RecvMsg(t), RecvCut(t)), Before(n, p, SendMsg(t), SendCut(t))
                 PROVE  \E i \in DOMAIN wire' : wire'[i].seq = t /\ MsgOf(wire'[i]) = n /\ wire'[i].offset = p
      BY <1>u, <1>14, <2>1 DEF Covered, MsgOf
    <3>1. PICK i \in DOMAIN wire : wire[i].seq = t /\ MsgOf(wire[i]) = n /\ wire[i].offset = p
      BY <2>w DEF Whence, Covered
    <3>2. QED BY <3>1, <1>9
  <2>6. Behind(t)' BY <2>w, <2>1, <1>14 DEF Whence, Behind
  <2>7. Begun(t)' /\ Intact(t)' BY <2>w, <1>14, <1>u DEF Whence, Begun, Intact, Whole
  <2>8. QED BY <2>3, <2>4, <2>5, <2>6, <2>7 DEF Whence
<1>16. ASSUME ~ctxDone[s] PROVE Whence(s)'
  <2>w. Whence(s) BY <1>i, <1>16 DEF Streaming
  <2> DEFINE rn == RecvMsg(s)
             rc == RecvCut(s)
             pn == SendMsg(s)'
             pc == SendCut(s)'
  <2>1. SendMsg(s) = L /\ SendCut(s) = o BY <1>u DEF SendMsg, SendCut, L, o
  <2>2. \/ o + ChunkSize < z /\ pn = L /\ pc = o + ChunkSize
        \/ z <= o + ChunkSize /\ pn = L + 1 /\ pc = 0
    <3>1. None \notin Nat BY ChunksAssumption
    <3>2. CASE o + ChunkSize < z
      <4>1. offset'[s] = o + ChunkSize BY <1>6, <3>2
      <4>2. offset'[s] # None BY <4>1, <3>1, <1>4
      <4>3. QED BY <3>2, <4>1, <4>2, <1>u DEF SendMsg, SendCut, L
    <3>3. CASE ~(o + ChunkSize < z)
      <4>1. offset'[s] = None BY <1>6, <3>3
      <4>2. QED BY <3>3, <4>1, <1>u, <1>4 DEF SendMsg, SendCut, L
    <3>4. QED BY <3>2, <3>3
  <2>3. rn \in Nat /\ rc \in Nat BY <1>i, Positions
  <2> HIDE DEF rn, rc, pn, pc
  <2>4. \A n \in 1 .. L, p \in Cuts : p < sent[s][n] =>
          (Before(n, p, pn, pc) <=> (Before(n, p, L, o) \/ (n = L /\ p = o)))
    <3> SUFFICES ASSUME NEW n \in 1 .. L, NEW p \in Cuts, p < sent[s][n]
                 PROVE  Before(n, p, pn, pc) <=> (Before(n, p, L, o) \/ (n = L /\ p = o))
      OBVIOUS
    <3>1. p \in Nat /\ n \in Nat /\ n <= L BY <1>4, CutFacts
    <3>2. o < p => o + ChunkSize <= p BY <1>4, CutFacts
    <3>3. n = L => p < z BY DEF z
    <3>4. QED BY <1>4, <2>2, <3>1, <3>2, <3>3 DEF Before
  <2>5. Before(L, o, pn, pc) BY <1>4, <2>2 DEF Before
  <2>6. \A i \in DOMAIN wire : wire[i].seq = s =>
          /\ MsgOf(wire[i]) \in 1 .. L /\ wire[i].offset \in Cuts /\ wire[i].offset < sent[s][MsgOf(wire[i])]
          /\ ~Before(MsgOf(wire[i]), wire[i].offset, rn, rc) /\ Before(MsgOf(wire[i]), wire[i].offset, L, o)
    BY <1>i, <2>w, <2>1 DEF Made, Whence, Between, L, rn, rc
  <2>7. ~Before(L, o, rn, rc) BY <2>w, <2>1 DEF Whence, Behind, rn, rc
  <2>8. /\ W + 1 \in DOMAIN wire' /\ wire'[W + 1] = g /\ DOMAIN wire' = 1 .. (W + 1)
        /\ W \in Nat /\ DOMAIN wire = 1 .. W
    BY <1>7, <1>16
  <2>9. Ordered(s)'
    <3> SUFFICES ASSUME NEW i \in DOMAIN wire', NEW j \in DOMAIN wire', i < j,
                        wire'[i].seq = s, wire'[j].seq = s
                 PROVE  Before(MsgOf(wire'[i]), wire'[i].offset, MsgOf(wire'[j]), wire'[j].offset)
      BY DEF Ordered, MsgOf
    <3>1. i \in DOMAIN wire /\ wire'[i] = wire[i]
      <4>1. i # W + 1 BY <2>8
      <4>2. QED BY <1>8, <4>1
    <3>2. CASE j \in DOMAIN wire /\ wire'[j] = wire[j]
      BY <3>1, <3>2, <2>w DEF Whence, Ordered
    <3>3. CASE wire'[j] = g BY <3>1, <3>3, <2>6, <1>5
    <3>4. QED BY <1>8, <3>2, <3>3
  <2>10. Between(s)'
    <3> SUFFICES ASSUME NEW i \in DOMAIN wire', wire'[i].seq = s
                 PROVE  /\ ~Before(MsgOf(wire'[i]), wire'[i].offset, rn, rc)
                        /\ Before(MsgOf(wire'[i]), wire'[i].offset, pn, pc)
      BY <1>14 DEF Between, MsgOf, rn, rc, pn, pc
    <3>1. CASE i \in DOMAIN wire /\ wire'[i] = wire[i] BY <3>1, <2>4, <2>6
    <3>2. CASE wire'[i] = g BY <3>2, <1>5, <2>5, <2>7
    <3>3. QED BY <1>8, <3>1, <3>2
  <2>11. Covered(s)'
    <3> SUFFICES ASSUME NEW n \in 1 .. L, NEW p \in Cuts, p < sent[s][n],
                        ~Before(n, p, rn, rc), Before(n, p, pn, pc)
                 PROVE  \E i \in DOMAIN wire' : wire'[i].seq = s /\ MsgOf(wire'[i]) = n /\ wire'[i].offset = p
      BY <1>u, <1>14 DEF Covered, MsgOf, L, rn, rc, pn, pc
    <3>1. CASE Before(n, p, L, o)
      <4>1. PICK i \in DOMAIN wire : wire[i].seq = s /\ MsgOf(wire[i]) = n /\ wire[i].offset = p
        BY <3>1, <2>w, <2>1 DEF Whence, Covered, L, rn, rc
      <4>2. QED BY <4>1, <1>9
    <3>2. CASE n = L /\ p = o BY <3>2, <2>8, <1>5
    <3>3. QED BY <2>4, <3>1, <3>2
  <2>12. Behind(s)'
    <3>1. ~Before(pn, pc, rn, rc) BY <2>2, <2>3, <2>7, <1>4 DEF Before
    <3>2. QED BY <3>1, <1>14 DEF Behind, rn, rc, pn, pc
  <2>13. Begun(s)' /\ Intact(s)' BY <2>w, <1>14, <1>u DEF Whence, Begun, Intact, Whole
  <2>14. QED BY <2>9, <2>10, <2>11, <2>12, <2>13 DEF Whence
<1>17. Streaming' BY <1>u, <1>15, <1>16 DEF Streaming
<1>18. QED BY <1>10, <1>11, <1>12, <1>13, <1>17 DEF ChunksInv

-----------------------------------------------------------------------------
\* The receiver.

LEMMA CopiedFacts ==
  ASSUME NEW buf \in Seq(Byte), NEW at \in Nat, NEW data \in Seq(Byte), at + Len(data) <= Len(buf)
  PROVE  /\ Copied(buf, at, data) \in Seq(Byte) /\ Len(Copied(buf, at, data)) = Len(buf)
         /\ \A i \in 1 .. Len(buf) :
              Copied(buf, at, data)[i] = IF i > at /\ i <= at + Len(data) THEN data[i - at] ELSE buf[i]
<1> DEFINE m == Len(buf)
           d == Len(data)
<1>1. m \in Nat /\ d \in Nat /\ at + d <= m /\ \A i \in 1 .. m : buf[i] \in Byte OBVIOUS
<1>2. \A i \in 1 .. d : data[i] \in Byte OBVIOUS
<1> HIDE DEF m, d
<1>3. \A i \in 1 .. m : (IF i > at /\ i <= at + d THEN data[i - at] ELSE buf[i]) \in Byte
  <2> SUFFICES ASSUME NEW i \in 1 .. m PROVE (IF i > at /\ i <= at + d THEN data[i - at] ELSE buf[i]) \in Byte
    OBVIOUS
  <2>1. i > at /\ i <= at + d => i - at \in 1 .. d BY <1>1
  <2>2. QED BY <2>1, <1>1, <1>2
<1>4. Copied(buf, at, data) = [i \in 1 .. m |-> IF i > at /\ i <= at + d THEN data[i - at] ELSE buf[i]]
  BY DEF Copied, m, d
<1>5. Copied(buf, at, data) \in [1 .. m -> Byte] BY <1>3, <1>4
<1>6. Copied(buf, at, data) \in Seq(Byte) /\ Len(Copied(buf, at, data)) = m
  <2>1. PICK c : c = Copied(buf, at, data) OBVIOUS
  <2>2. c \in [1 .. m -> Byte] BY <2>1, <1>5
  <2>3. c \in Seq(Byte) BY <2>2, <1>1
  <2>4. DOMAIN c = 1 .. m BY <2>2
  <2>5. Len(c) = m BY <2>3, <2>4, <1>1
  <2>6. QED BY <2>1, <2>3, <2>5
<1>7. QED BY <1>4, <1>6 DEF m, d

LEMMA AssemblerExcept ==
  ASSUME NEW a \in Assembler, NEW u \in Seq(Byte), NEW v \in Nat
  PROVE  [a EXCEPT !.buf = u, !.got = v] = [buf |-> u, got |-> v, total |-> a.total]
<1> DEFINE e == [a EXCEPT !.buf = u, !.got = v]
<1>1. e \in Assembler BY DEF Assembler
<1>2. e.buf = u /\ e.got = v /\ e.total = a.total BY DEF Assembler
<1> HIDE DEF e
<1>3. e = [buf |-> e.buf, got |-> e.got, total |-> e.total] BY <1>1 DEF Assembler
<1>4. QED BY <1>2, <1>3 DEF e

\* What Reassemble does with a frame sendPayload made: it copies it into a,
\* the stream's assembler or a fresh one, which has the frame's total.  The
\* frame is never past the end.
Joined(f, a, buf) ==
  /\ chunks[f.seq] # None /\ chunks[f.seq].total = f.total => a = chunks[f.seq]
  /\ chunks[f.seq] = None => a.got = 0
  /\ a.total = f.total /\ Len(a.buf) = f.total /\ a.got < f.total
  /\ buf = Copied(a.buf, f.offset, f.data)
  /\ \/ /\ a.got + Len(f.data) < f.total /\ delivered' = delivered
        /\ chunks' = [chunks EXCEPT ![f.seq] =
                        [buf |-> buf, got |-> a.got + Len(f.data), total |-> f.total]]
     \/ /\ a.got + Len(f.data) >= f.total
        /\ delivered' = [delivered EXCEPT ![f.seq] = Append(@, buf)]
        /\ chunks' = [chunks EXCEPT ![f.seq] = None]

LEMMA ReassembleFacts ==
  ASSUME Types, Partial, NEW f \in Frame, f.total > ChunkSize, f.offset + Len(f.data) <= f.total, Reassemble(f)
  PROVE  \E a \in Assembler, buf \in Seq(Byte) : Joined(f, a, buf)
<1>0. /\ f.seq \in Streams /\ f.total \in Nat /\ f.offset \in Nat /\ f.data \in Seq(Byte) /\ Len(f.data) \in Nat
      /\ ChunkSize \in Nat
  BY ChunksAssumption DEF Frame
<1> DEFINE a == AssemblerFor(f)
           e == [a EXCEPT !.buf = Copied(a.buf, f.offset, f.data), !.got = @ + Len(f.data)]
           past == f.offset + Len(f.data) > Len(a.buf)
           g == IF past THEN a ELSE e
           complete == ~past /\ g.got >= g.total
<1>1. \/ /\ ~complete /\ chunks' = [chunks EXCEPT ![f.seq] = g] /\ UNCHANGED delivered
      \/ /\ complete /\ chunks' = [chunks EXCEPT ![f.seq] = None]
         /\ delivered' = [delivered EXCEPT ![f.seq] = Append(@, g.buf)]
  BY Zenon DEF Reassemble
<1> HIDE DEF a
<1>2. /\ a \in Assembler /\ a.total = f.total /\ Len(a.buf) = f.total /\ a.got < f.total
      /\ chunks[f.seq] # None /\ chunks[f.seq].total = f.total => a = chunks[f.seq]
      /\ chunks[f.seq] = None => a.got = 0
  <2>1. CASE chunks[f.seq] = None \/ chunks[f.seq].total # f.total
    <3>1. a = Fresh(f.total) BY <2>1 DEF AssemblerFor, a
    <3>2. PICK y : y = [i \in 1 .. f.total |-> Zero] OBVIOUS
    <3>3. y \in [1 .. f.total -> Byte] BY <3>2 DEF Byte
    <3>4. y \in Seq(Byte) /\ Len(y) = f.total BY <1>0, <3>2, <3>3
    <3>5. a = [buf |-> y, got |-> 0, total |-> f.total] BY <3>1, <3>2 DEF Fresh
    <3>6. a \in Assembler /\ a.buf = y /\ a.got = 0 /\ a.total = f.total BY <3>4, <3>5, <1>0 DEF Assembler
    <3>7. f.total > 0 BY <1>0
    <3>8. QED BY <2>1, <3>4, <3>6, <3>7
  <2>2. CASE chunks[f.seq] # None /\ chunks[f.seq].total = f.total
    <3>1. a = chunks[f.seq] BY <2>2 DEF AssemblerFor, a
    <3>2. a \in Assembler BY <3>1, <2>2, <1>0 DEF Types
    <3>3. QED BY <3>1, <3>2, <2>2, <1>0 DEF Partial
  <2>3. QED BY <2>1, <2>2
<1>3. a.buf \in Seq(Byte) /\ a.got \in Nat BY <1>2 DEF Assembler
<1>4. PICK buf : buf = Copied(a.buf, f.offset, f.data) OBVIOUS
<1>5. buf \in Seq(Byte) BY <1>0, <1>2, <1>3, <1>4, CopiedFacts
<1>6. PICK b : b = [buf |-> buf, got |-> a.got + Len(f.data), total |-> f.total] OBVIOUS
<1>7. e = b
  <2>1. e = [buf |-> Copied(a.buf, f.offset, f.data), got |-> a.got + Len(f.data), total |-> a.total]
    <3>1. a \in Assembler /\ Copied(a.buf, f.offset, f.data) \in Seq(Byte) /\ a.got + Len(f.data) \in Nat
      BY <1>0, <1>2, <1>3, <1>4, <1>5
    <3>2. QED BY <3>1, AssemblerExcept, Zenon
  <2>2. QED BY <2>1, <1>2, <1>4, <1>6
<1>8. b.got = a.got + Len(f.data) /\ b.total = f.total /\ b.buf = buf BY <1>6
<1>9. ~past BY <1>0, <1>2
<1> HIDE DEF e, past
<1>10. \/ /\ ~(b.got >= b.total) /\ chunks' = [chunks EXCEPT ![f.seq] = b] /\ delivered' = delivered
       \/ /\ b.got >= b.total /\ chunks' = [chunks EXCEPT ![f.seq] = None]
          /\ delivered' = [delivered EXCEPT ![f.seq] = Append(@, b.buf)]
  <2>1. g = b BY <1>7, <1>9
  <2> HIDE DEF g
  <2>2. complete <=> b.got >= b.total BY <2>1, <1>9
  <2> HIDE DEF complete
  <2>3. QED BY <1>1, <2>1, <2>2, Zenon
<1>11. \/ /\ a.got + Len(f.data) < f.total /\ delivered' = delivered
          /\ chunks' = [chunks EXCEPT ![f.seq] = b]
       \/ /\ a.got + Len(f.data) >= f.total
          /\ delivered' = [delivered EXCEPT ![f.seq] = Append(@, buf)]
          /\ chunks' = [chunks EXCEPT ![f.seq] = None]
  BY <1>0, <1>3, <1>8, <1>10
<1>12. Joined(f, a, buf) BY <1>2, <1>4, <1>6, <1>11 DEF Joined
<1>13. QED BY <1>2, <1>5, <1>12

\* The next frame of a live stream is the one the receiver waits for.
LEMMA HeadIsNext ==
  ASSUME ChunksInv, wire # <<>>, NEW s \in Streams, s = Head(wire).seq, ~ctxDone[s]
  PROVE  MsgOf(Head(wire)) = RecvMsg(s) /\ Head(wire).offset = RecvCut(s)
<1>i. Types /\ Sending /\ Made /\ Partial /\ Whence(s) BY DEF ChunksInv, Streaming
<1>1. wire \in Seq(Frame) BY <1>i DEF Types
<1>2. 1 \in DOMAIN wire /\ Head(wire) = wire[1] BY <1>1
<1>3. PICK n, o : n = MsgOf(wire[1]) /\ o = wire[1].offset OBVIOUS
<1>4. PICK rn, rc : rn = RecvMsg(s) /\ rc = RecvCut(s) OBVIOUS
<1>5. PICK pn, pc : pn = SendMsg(s) /\ pc = SendCut(s) OBVIOUS
<1>6. n \in 1 .. Len(sent[s]) /\ o \in Cuts /\ o < sent[s][n] BY <1>i, <1>2, <1>3 DEF Made
<1>7. ~Before(n, o, rn, rc) /\ Before(n, o, pn, pc) BY <1>i, <1>2, <1>3, <1>4, <1>5 DEF Whence, Between
<1>8. /\ rn \in Nat /\ rc \in Nat /\ pn \in Nat /\ pc \in Nat /\ n \in Nat /\ o \in Nat /\ rn > 0
      /\ Len(sent[s]) \in Nat
  <2>1. rn > 0 BY <1>i, <1>4, Positions DEF RecvMsg
  <2>2. QED BY <1>i, <1>4, <1>5, <1>6, <2>1, Positions, CutFacts
<1>9. rn \in 1 .. Len(sent[s]) BY <1>6, <1>7, <1>8 DEF Before
<1>10. rc \in Cuts /\ rc < sent[s][rn]
  <2>1. CASE chunks[s] = None BY <2>1, <1>4, <1>i, <1>9, SizeOf, CutFacts DEF RecvCut
  <2>2. CASE chunks[s] # None
    <3>1. rc = chunks[s].got BY <2>2, <1>4 DEF RecvCut
    <3>2. QED BY <2>2, <3>1, <1>4, <1>i DEF Whence, Begun, Partial
  <2>3. QED BY <2>1, <2>2
<1>11. Before(rn, rc, pn, pc) BY <1>7, <1>8 DEF Before
<1>12. ~Before(rn, rc, rn, rc) BY <1>8 DEF Before
<1>13. PICK i \in DOMAIN wire : wire[i].seq = s /\ MsgOf(wire[i]) = rn /\ wire[i].offset = rc
  BY <1>i, <1>4, <1>5, <1>9, <1>10, <1>11, <1>12 DEF Whence, Covered
<1>14. i = 1
  <2>1. SUFFICES ASSUME i # 1 PROVE FALSE
    OBVIOUS
  <2>2. 1 < i BY <1>1, <2>1
  <2>3. Before(n, o, rn, rc) BY <1>i, <1>2, <1>3, <1>13, <2>2 DEF Whence, Ordered
  <2>4. QED BY <2>3, <1>7
<1>15. QED BY <1>2, <1>4, <1>13, <1>14

\* A buffer with every byte of a message in its place is the message.
LEMMA AllBytes ==
  ASSUME NEW s \in Streams, NEW n \in Nat, NEW z \in Nat, NEW q \in Seq(Byte), Len(q) = z,
         \A i \in 1 .. z : q[i] = <<s, n, i>>
  PROVE  q = Slice(s, n, 0, z)
<1>1. /\ Slice(s, n, 0, z) \in Seq(Byte) /\ Len(Slice(s, n, 0, z)) = z - 0
      /\ \A i \in 1 .. (z - 0) : Slice(s, n, 0, z)[i] = <<s, n, 0 + i>>
  <2>1. 0 \in Nat /\ 0 <= z OBVIOUS
  <2>2. QED BY <2>1, SliceFacts, Zenon
<1>2. PICK r : r = Slice(s, n, 0, z) OBVIOUS
<1>3. z - 0 = z /\ \A i \in 1 .. z : 0 + i = i OBVIOUS
<1>4. r \in Seq(Byte) /\ Len(r) = z /\ \A i \in 1 .. z : r[i] = q[i] BY <1>1, <1>2, <1>3
<1>5. DOMAIN r = 1 .. z /\ DOMAIN q = 1 .. z BY <1>4
<1>6. r \in [1 .. z -> Byte] /\ q \in [1 .. z -> Byte] BY <1>4, <1>5
<1>7. r = q BY <1>4, <1>6
<1>8. QED BY <1>2, <1>7

\* One frame dispatched: which frame it is, and what the receiver's state
\* becomes.
Taken(f) ==
  /\ wire # <<>> /\ f = Head(wire) /\ wire' = Tail(wire)
  /\ UNCHANGED <<sent, offset, ctxDone>>
  /\ \/ /\ f.total <= ChunkSize /\ UNCHANGED chunks
        /\ delivered' = [delivered EXCEPT ![f.seq] = Append(@, f.data)]
     \/ f.total > ChunkSize /\ Reassemble(f)

LEMMA DispatchTakes == Dispatch => Taken(Head(wire))
BY Zenon DEF Dispatch, Taken

\* What the frame is: f is the one at cut o of the n-th message of s, of z
\* bytes.
IsFrame(f, s, n, o, z) ==
  /\ f \in Frame /\ s \in Streams /\ n \in 1 .. Len(sent[s]) /\ o \in Cuts /\ o < z /\ z = sent[s][n]
  /\ f = FrameAt(s, n, o)
  /\ f.seq = s /\ f.total = z /\ f.offset = o /\ MsgOf(f) = n
  /\ Len(f.data) \in 1 .. ChunkSize
  /\ Len(f.data) = IF o + ChunkSize < z THEN ChunkSize ELSE z - o
  /\ \A i \in 1 .. Len(f.data) : f.data[i] = <<s, n, o + i>>
  /\ n \in Nat /\ o \in Nat /\ z \in Nat /\ z > 0 /\ ChunkSize \in Nat \ {0}

LEMMA OnWire ==
  ASSUME Types, Made, NEW i \in DOMAIN wire
  PROVE  IsFrame(wire[i], wire[i].seq, MsgOf(wire[i]), wire[i].offset, wire[i].total)
<1>1. PICK f, s, n, o : f = wire[i] /\ s = f.seq /\ n = MsgOf(f) /\ o = f.offset OBVIOUS
<1>2. s \in Streams BY <1>1, WireFrame
<1>3. n \in 1 .. Len(sent[s]) /\ o \in Cuts /\ o < sent[s][n] /\ f = FrameAt(s, n, o) BY <1>1 DEF Made
<1>4. /\ f \in Frame /\ f.seq = s /\ f.total = sent[s][n] /\ f.offset = o /\ MsgOf(f) = n
      /\ Len(f.data) \in 1 .. ChunkSize
      /\ Len(f.data) = IF o + ChunkSize < sent[s][n] THEN ChunkSize ELSE sent[s][n] - o
      /\ \A b \in 1 .. Len(f.data) : f.data[b] = <<s, n, o + b>>
  BY <1>2, <1>3, FrameFacts
<1>5. n \in Nat /\ sent[s][n] \in Nat /\ sent[s][n] > 0 BY <1>2, <1>3, SizeOf
<1>6. o \in Nat /\ ChunkSize \in Nat \ {0} BY <1>3, CutFacts, ChunksAssumption
<1>7. IsFrame(f, s, n, o, f.total) BY <1>2, <1>3, <1>4, <1>5, <1>6 DEF IsFrame
<1>8. QED BY <1>1, <1>7

\* Whatever the ctx, the assemblers stay partial and well formed.
LEMMA DispatchTypes ==
  ASSUME Types, Made, Partial, NEW f, Taken(f)
  PROVE  Types' /\ Partial'
<1>1. wire \in Seq(Frame) /\ 1 \in DOMAIN wire /\ f = wire[1] BY DEF Types, Taken
<1>2. PICK s, n, o, z : IsFrame(f, s, n, o, z) BY <1>1, OnWire
<1>f. /\ f \in Frame /\ s \in Streams /\ f.seq = s /\ f.total = z /\ f.offset = o /\ z \in Nat /\ z > 0
      /\ f.data \in Seq(Byte) /\ Len(f.data) \in Nat /\ o + Len(f.data) <= z
  <2>1. /\ f \in Frame /\ s \in Streams /\ f.seq = s /\ f.total = z /\ f.offset = o /\ z \in Nat /\ z > 0
        /\ o \in Nat /\ o < z
        /\ ChunkSize \in Nat
        /\ Len(f.data) = IF o + ChunkSize < z THEN ChunkSize ELSE z - o
    BY <1>2 DEF IsFrame
  <2>2. f.data \in Seq(Byte) BY <2>1 DEF Frame
  <2>3. QED BY <2>1, <2>2
<1>3. wire' \in Seq(Frame) BY <1>1 DEF Taken
<1>t. delivered \in [Streams -> Seq(Seq(Byte))] /\ chunks \in [Streams -> Assembler \cup {None}] BY DEF Types
<1>4. CASE UNCHANGED chunks /\ delivered' = [delivered EXCEPT ![f.seq] = Append(@, f.data)]
  <2>1. delivered' \in [Streams -> Seq(Seq(Byte))] BY <1>t, <1>f, <1>4
  <2>2. QED BY <1>3, <1>4, <2>1 DEF Types, Partial, Taken
<1>5. CASE f.total > ChunkSize /\ Reassemble(f)
  <2>1. f.offset + Len(f.data) <= f.total BY <1>f
  <2>0. PICK a \in Assembler, buf \in Seq(Byte) : Joined(f, a, buf) BY <1>f, <1>5, <2>1, ReassembleFacts, Zenon
  <2>2. /\ a.total = f.total /\ Len(a.buf) = f.total /\ buf = Copied(a.buf, f.offset, f.data)
        /\ \/ /\ a.got + Len(f.data) < f.total /\ delivered' = delivered
              /\ chunks' = [chunks EXCEPT ![f.seq] =
                              [buf |-> buf, got |-> a.got + Len(f.data), total |-> f.total]]
           \/ /\ delivered' = [delivered EXCEPT ![f.seq] = Append(@, buf)]
              /\ chunks' = [chunks EXCEPT ![f.seq] = None]
    BY <2>0, Zenon DEF Joined
  <2>3. a.got \in Nat /\ a.buf \in Seq(Byte) BY DEF Assembler
  <2>4. f.offset \in Nat /\ f.offset + Len(f.data) <= Len(a.buf) BY <1>2, <2>1, <2>2 DEF IsFrame
  <2>5. Len(buf) = f.total BY <1>f, <2>2, <2>3, <2>4, CopiedFacts
  <2>6. CASE /\ a.got + Len(f.data) < f.total /\ delivered' = delivered
             /\ chunks' = [chunks EXCEPT ![f.seq] =
                             [buf |-> buf, got |-> a.got + Len(f.data), total |-> f.total]]
    <3>1. PICK b : b = [buf |-> buf, got |-> a.got + Len(f.data), total |-> f.total] OBVIOUS
    <3>2. /\ b \in Assembler /\ b.total = f.total /\ b.got = a.got + Len(f.data) /\ b.buf = buf
      BY <3>1, <1>f, <2>3 DEF Assembler
    <3>3. chunks' = [chunks EXCEPT ![f.seq] = b] BY <2>6, <3>1
    <3>4. /\ chunks' \in [Streams -> Assembler \cup {None}] /\ chunks'[f.seq] = b
          /\ \A t \in Streams : t # f.seq => chunks'[t] = chunks[t]
      BY <1>t, <1>f, <3>2, <3>3
    <3>5. Partial'
      <4> SUFFICES ASSUME NEW t \in Streams, chunks'[t] # None
                   PROVE  Len(chunks'[t].buf) = chunks'[t].total /\ chunks'[t].got < chunks'[t].total
        BY DEF Partial
      <4>1. CASE t = f.seq BY <4>1, <3>2, <3>4, <2>5, <2>6
      <4>2. CASE t # f.seq BY <4>2, <3>4 DEF Partial
      <4>3. QED BY <4>1, <4>2
    <3>6. QED BY <1>3, <2>6, <3>4, <3>5 DEF Types, Taken
  <2>7. CASE /\ delivered' = [delivered EXCEPT ![f.seq] = Append(@, buf)]
             /\ chunks' = [chunks EXCEPT ![f.seq] = None]
    <3>1. delivered' \in [Streams -> Seq(Seq(Byte))] BY <1>t, <1>f, <2>7
    <3>2. /\ chunks' \in [Streams -> Assembler \cup {None}] /\ chunks'[f.seq] = None
          /\ \A t \in Streams : t # f.seq => chunks'[t] = chunks[t]
      BY <1>t, <1>f, <2>7
    <3>3. Partial' BY <3>2 DEF Partial
    <3>4. QED BY <1>3, <3>1, <3>2, <3>3 DEF Types, Taken
  <2>8. QED BY <2>2, <2>6, <2>7
<1>6. QED BY <1>4, <1>5 DEF Taken

\* On a live stream the receiver moves to the next cut, or past the message
\* with all of it handed over.
Advanced(s, n, o, z) ==
  \/ /\ z <= o + ChunkSize /\ chunks'[s] = None
     /\ delivered'[s] = Append(delivered[s], Slice(s, n, 0, z))
  \/ /\ o + ChunkSize < z /\ delivered'[s] = delivered[s] /\ chunks'[s] # None
     /\ chunks'[s].total = z /\ chunks'[s].got = o + ChunkSize
     /\ \A b \in 1 .. (o + ChunkSize) : chunks'[s].buf[b] = <<s, n, b>>

LEMMA DispatchAdvances ==
  ASSUME ChunksInv, NEW f, Taken(f), NEW s, NEW n, NEW o, NEW z, IsFrame(f, s, n, o, z), ~ctxDone[s]
  PROVE  /\ n = RecvMsg(s) /\ o = RecvCut(s) /\ Advanced(s, n, o, z)
<1>i. Types /\ Made /\ Partial BY DEF ChunksInv
<1>f. /\ f \in Frame /\ s \in Streams /\ n \in 1 .. Len(sent[s]) /\ o \in Cuts /\ o < z /\ z = sent[s][n]
      /\ f.seq = s /\ f.total = z /\ f.offset = o /\ MsgOf(f) = n
      /\ Len(f.data) = IF o + ChunkSize < z THEN ChunkSize ELSE z - o
      /\ n \in Nat /\ o \in Nat /\ z \in Nat /\ z > 0 /\ ChunkSize \in Nat \ {0}
  BY DEF IsFrame
<1>d. \A i \in 1 .. Len(f.data) : f.data[i] = <<s, n, o + i>> BY DEF IsFrame
<1>q. f.data \in Seq(Byte) BY <1>f DEF Frame
<1>w. Whence(s) BY <1>f DEF ChunksInv, Streaming
<1>1. n = RecvMsg(s) /\ o = RecvCut(s) BY <1>f, HeadIsNext DEF Taken
<1>t. delivered \in [Streams -> Seq(Seq(Byte))] /\ chunks \in [Streams -> Assembler \cup {None}] BY <1>i DEF Types
<1>c. chunks[s] # None => chunks[s].total = z /\ z > ChunkSize BY <1>w, <1>1, <1>f DEF Whence, Begun
<1>2. CASE f.total <= ChunkSize /\ UNCHANGED chunks /\ delivered' = [delivered EXCEPT ![f.seq] = Append(@, f.data)]
  <2>1. chunks[s] = None BY <1>c, <1>2, <1>f
  <2>2. o = 0 BY <2>1, <1>1 DEF RecvCut
  <2>3. Len(f.data) = z /\ \A i \in 1 .. z : f.data[i] = <<s, n, i>>
    <3>1. Len(f.data) = z BY <1>2, <1>f, <2>2
    <3>2. \A i \in 1 .. z : o + i = i BY <2>2, <1>f
    <3>3. QED BY <3>1, <3>2, <1>d
  <2>4. f.data = Slice(s, n, 0, z)
    <3>1. PICK q \in Seq(Byte) : q = f.data BY <1>q
    <3>2. Len(q) = z /\ \A i \in 1 .. z : q[i] = <<s, n, i>> BY <2>3, <3>1
    <3>3. s \in Streams /\ n \in Nat /\ z \in Nat BY <1>f
    <3>4. q = Slice(s, n, 0, z) BY <3>2, <3>3, AllBytes
    <3>5. QED BY <3>1, <3>4
  <2>5. delivered'[s] = Append(delivered[s], Slice(s, n, 0, z)) BY <1>2, <1>t, <1>f, <2>4
  <2>6. z <= o + ChunkSize BY <1>2, <1>f, <2>2
  <2>7. QED BY <1>1, <1>2, <2>1, <2>5, <2>6 DEF Advanced
<1>3. CASE f.total > ChunkSize /\ Reassemble(f)
  <2>1. f.offset + Len(f.data) <= f.total BY <1>f
  <2>2. PICK a \in Assembler, buf \in Seq(Byte) : Joined(f, a, buf)
    BY <1>i, <1>f, <1>3, <2>1, ReassembleFacts, Zenon
  <2>3. /\ chunks[f.seq] # None /\ chunks[f.seq].total = f.total => a = chunks[f.seq]
        /\ chunks[f.seq] = None => a.got = 0
        /\ a.total = f.total /\ Len(a.buf) = f.total
        /\ buf = Copied(a.buf, f.offset, f.data)
    BY <2>2 DEF Joined
  <2>4. a.buf \in Seq(Byte) BY DEF Assembler
  <2>5. a.got = o /\ \A b \in 1 .. o : a.buf[b] = <<s, n, b>>
    <3>1. CASE chunks[s] = None
      <4>1. o = 0 BY <3>1, <1>1 DEF RecvCut
      <4>2. QED BY <3>1, <4>1, <2>3, <1>f
    <3>2. CASE chunks[s] # None
      <4>1. a = chunks[s] BY <3>2, <1>c, <1>f, <2>3
      <4>2. chunks[s].got = o BY <3>2, <1>1 DEF RecvCut
      <4>3. QED BY <3>2, <4>1, <4>2, <1>w, <1>1 DEF Whence, Begun
    <3>3. QED BY <3>1, <3>2
  <2> DEFINE d == Len(f.data)
  <2>6. d \in Nat /\ (o + ChunkSize < z => d = ChunkSize) /\ (z <= o + ChunkSize => o + d = z) /\ o + d <= z
    BY <1>f, <1>q
  <2>7. /\ Len(buf) = z
        /\ \A i \in 1 .. z : buf[i] = IF i > o /\ i <= o + d THEN f.data[i - o] ELSE a.buf[i]
    <3>1. o + Len(f.data) <= Len(a.buf) BY <2>6, <2>3, <1>f
    <3>0. a.buf \in Seq(Byte) /\ o \in Nat /\ f.data \in Seq(Byte) BY <2>4, <1>q, <1>f
    <3>2. /\ Len(Copied(a.buf, o, f.data)) = Len(a.buf)
          /\ \A i \in 1 .. Len(a.buf) : Copied(a.buf, o, f.data)[i] =
               IF i > o /\ i <= o + Len(f.data) THEN f.data[i - o] ELSE a.buf[i]
      BY <3>0, <3>1, CopiedFacts, Zenon
    <3>3. QED BY <3>2, <2>3, <1>f
  <2> HIDE DEF d
  <2>8. \A b \in 1 .. (o + d) : buf[b] = <<s, n, b>>
    <3> SUFFICES ASSUME NEW b \in 1 .. (o + d) PROVE buf[b] = <<s, n, b>>
      OBVIOUS
    <3>0. b \in 1 .. z BY <2>6, <1>f
    <3>1. CASE b <= o
      <4>1. buf[b] = a.buf[b] /\ b \in 1 .. o BY <3>0, <3>1, <2>7, <1>f
      <4>2. QED BY <4>1, <2>5
    <3>2. CASE b > o
      <4>1. buf[b] = f.data[b - o] /\ b - o \in 1 .. d /\ o + (b - o) = b BY <3>0, <3>2, <2>6, <2>7, <1>f
      <4>2. f.data[b - o] = <<s, n, o + (b - o)>> BY <4>1, <1>d DEF d
      <4>3. QED BY <4>1, <4>2
    <3>3. QED BY <3>1, <3>2, <1>f
  <2>9. CASE z <= o + ChunkSize
    <3>1. a.got + Len(f.data) >= f.total BY <2>9, <2>5, <2>6, <1>f DEF d
    <3>2. /\ delivered' = [delivered EXCEPT ![f.seq] = Append(@, buf)]
          /\ chunks' = [chunks EXCEPT ![f.seq] = None]
      <4>1. ~(a.got + Len(f.data) < f.total) BY <2>9, <2>5, <2>6, <1>f DEF d
      <4>2. QED BY <4>1, <2>2, Zenon DEF Joined
    <3>3. buf = Slice(s, n, 0, z)
      <4>1. \A i \in 1 .. z : buf[i] = <<s, n, i>> BY <2>6, <2>8, <2>9
      <4>2. s \in Streams /\ n \in Nat /\ z \in Nat /\ Len(buf) = z BY <1>f, <2>7
      <4>3. QED BY <4>1, <4>2, AllBytes
    <3>4. delivered'[s] = Append(delivered[s], Slice(s, n, 0, z)) /\ chunks'[s] = None
      BY <3>2, <3>3, <1>t, <1>f
    <3>5. QED BY <1>1, <2>9, <3>4 DEF Advanced
  <2>10. CASE o + ChunkSize < z
    <3>1. d = ChunkSize /\ a.got + Len(f.data) < f.total BY <2>10, <2>5, <2>6, <1>f DEF d
    <3>2. /\ delivered' = delivered
          /\ chunks' = [chunks EXCEPT ![f.seq] = [buf |-> buf, got |-> a.got + Len(f.data), total |-> f.total]]
      <4>1. ~(a.got + Len(f.data) >= f.total) BY <2>10, <2>5, <2>6, <1>f DEF d
      <4>2. QED BY <4>1, <2>2, Zenon DEF Joined
    <3>3. chunks'[s] = [buf |-> buf, got |-> o + d, total |-> z] BY <3>2, <1>t, <1>f, <2>5 DEF d
    <3>4. chunks'[s].buf = buf /\ chunks'[s].got = o + ChunkSize /\ chunks'[s].total = z BY <3>1, <3>3
    <3>5. chunks'[s] # None
      <4>1. o + d \in Nat BY <1>f, <2>6
      <4>2. [buf |-> buf, got |-> o + d, total |-> z] \in [buf : Seq(Byte), got : Nat, total : Nat]
        BY <4>1, <1>f
      <4>3. QED BY <3>3, <4>2, ChunksAssumption
    <3>6. QED BY <1>1, <2>10, <3>1, <3>2, <3>4, <3>5, <2>8 DEF Advanced
  <2>11. QED BY <2>9, <2>10, <1>f
<1>4. QED BY <1>2, <1>3 DEF Taken

\* The frames left are those that were behind the one taken.
LEMMA TailOf ==
  ASSUME Types, NEW f, Taken(f)
  PROVE  /\ 1 \in DOMAIN wire /\ wire[1] = f
         /\ \A i \in DOMAIN wire' : i \in Nat /\ i + 1 \in DOMAIN wire /\ wire'[i] = wire[i + 1]
         /\ \A i \in DOMAIN wire : i # 1 => \E j \in DOMAIN wire' : wire'[j] = wire[i]
<1>1. wire \in Seq(Frame) /\ wire # <<>> /\ f = Head(wire) /\ wire' = Tail(wire) BY DEF Types, Taken
<1> DEFINE W == Len(wire)
<1>2. /\ W \in Nat /\ W > 0 /\ DOMAIN wire = 1 .. W /\ DOMAIN wire' = 1 .. (W - 1) /\ wire[1] = f
      /\ \A i \in 1 .. (W - 1) : wire'[i] = wire[i + 1]
  BY <1>1
<1> HIDE DEF W
<1>3. \A i \in 1 .. W : i # 1 => i - 1 \in 1 .. (W - 1) /\ (i - 1) + 1 = i BY <1>2
<1>4. \A i \in DOMAIN wire : i # 1 => \E j \in DOMAIN wire' : wire'[j] = wire[i] BY <1>2, <1>3
<1>5. QED BY <1>2, <1>4

LEMMA DispatchKeeps ==
  ASSUME ChunksInv, Dispatch
  PROVE  ChunksInv'
<1>i. Types /\ Sending /\ Made /\ Partial /\ Streaming BY DEF ChunksInv
<1>0. PICK f : Taken(f) BY DispatchTakes
<1>u. UNCHANGED <<sent, offset, ctxDone>> BY <1>0 DEF Taken
<1>1. Types' /\ Partial' BY <1>i, <1>0, DispatchTypes
<1>w. /\ 1 \in DOMAIN wire /\ wire[1] = f
      /\ \A i \in DOMAIN wire' : i \in Nat /\ i + 1 \in DOMAIN wire /\ wire'[i] = wire[i + 1]
      /\ \A i \in DOMAIN wire : i # 1 => \E j \in DOMAIN wire' : wire'[j] = wire[i]
  BY <1>i, <1>0, TailOf
<1>2. PICK s, n, o, z : IsFrame(f, s, n, o, z) BY <1>i, <1>w, OnWire
<1>f. /\ s \in Streams /\ n \in 1 .. Len(sent[s]) /\ o \in Cuts /\ o < z /\ z = sent[s][n]
      /\ f \in Frame /\ f.seq = s /\ f.offset = o /\ MsgOf(f) = n
      /\ n \in Nat /\ o \in Nat /\ z \in Nat /\ ChunkSize \in Nat \ {0}
  BY <1>2 DEF IsFrame
<1>3. Sending' BY <1>i, <1>u DEF Sending
<1>4. Made'
  <2> SUFFICES ASSUME NEW i \in DOMAIN wire', NEW g, g = wire'[i]
               PROVE  /\ MsgOf(g) \in 1 .. Len(sent[g.seq])
                      /\ g.offset \in Cuts /\ g.offset < sent[g.seq][MsgOf(g)]
                      /\ g = FrameAt(g.seq, MsgOf(g), g.offset)
    BY <1>u DEF Made, FrameAt, MsgOf
  <2>1. i + 1 \in DOMAIN wire /\ g = wire[i + 1] BY <1>w
  <2>2. QED BY <2>1, <1>i DEF Made
<1>p. \A t \in Streams : SendMsg(t)' = SendMsg(t) /\ SendCut(t)' = SendCut(t) BY <1>u DEF SendMsg, SendCut
<1>o. ASSUME NEW t \in Streams, Ordered(t) PROVE Ordered(t)'
  <2> SUFFICES ASSUME NEW i \in DOMAIN wire', NEW j \in DOMAIN wire', i < j, wire'[i].seq = t, wire'[j].seq = t
               PROVE  Before(MsgOf(wire'[i]), wire'[i].offset, MsgOf(wire'[j]), wire'[j].offset)
    BY DEF Ordered, MsgOf
  <2>1. /\ i \in Nat /\ j \in Nat /\ i + 1 \in DOMAIN wire /\ j + 1 \in DOMAIN wire
        /\ wire'[i] = wire[i + 1] /\ wire'[j] = wire[j + 1]
    BY <1>w
  <2>2. i + 1 < j + 1 BY <2>1
  <2>3. QED BY <2>1, <2>2, <1>o DEF Ordered
<1>5. ASSUME NEW t \in Streams, t # s, ~ctxDone[t] PROVE Whence(t)'
  <2>w. Whence(t) BY <1>i, <1>5 DEF Streaming
  <2>1. chunks'[t] = chunks[t] /\ delivered'[t] = delivered[t]
    <3>t. delivered \in [Streams -> Seq(Seq(Byte))] /\ chunks \in [Streams -> Assembler \cup {None}] BY <1>i DEF Types
    <3>1. CASE /\ delivered' = [delivered EXCEPT ![f.seq] = Append(@, f.data)] /\ UNCHANGED chunks
      BY <3>t, <3>1, <1>5, <1>f
    <3>2. CASE Reassemble(f)
      BY <3>t, <3>2, <1>5, <1>f DEF Reassemble
    <3>3. QED BY <3>1, <3>2, <1>0 DEF Taken
  <2>2. RecvMsg(t)' = RecvMsg(t) /\ RecvCut(t)' = RecvCut(t) BY <2>1 DEF RecvMsg, RecvCut
  <2>3. Between(t)'
    <3> SUFFICES ASSUME NEW i \in DOMAIN wire', wire'[i].seq = t
                 PROVE  /\ ~Before(MsgOf(wire'[i]), wire'[i].offset, RecvMsg(t), RecvCut(t))
                        /\ Before(MsgOf(wire'[i]), wire'[i].offset, SendMsg(t), SendCut(t))
      BY <1>p, <2>2 DEF Between, MsgOf
    <3>1. i + 1 \in DOMAIN wire /\ wire'[i] = wire[i + 1] BY <1>w
    <3>2. QED BY <3>1, <2>w DEF Whence, Between
  <2>4. Covered(t)'
    <3> SUFFICES ASSUME NEW m \in 1 .. Len(sent[t]), NEW p \in Cuts, p < sent[t][m],
                        ~Before(m, p, RecvMsg(t), RecvCut(t)), Before(m, p, SendMsg(t), SendCut(t))
                 PROVE  \E j \in DOMAIN wire' : wire'[j].seq = t /\ MsgOf(wire'[j]) = m /\ wire'[j].offset = p
      BY <1>u, <1>p, <2>2 DEF Covered, MsgOf
    <3>1. PICK i \in DOMAIN wire : wire[i].seq = t /\ MsgOf(wire[i]) = m /\ wire[i].offset = p
      BY <2>w DEF Whence, Covered
    <3>2. i # 1 BY <3>1, <1>5, <1>w, <1>f
    <3>3. PICK j \in DOMAIN wire' : wire'[j] = wire[i] BY <3>2, <1>w
    <3>4. QED BY <3>1, <3>3
  <2>5. Behind(t)' BY <2>w, <2>2, <1>p DEF Whence, Behind
  <2>6. Begun(t)' /\ Intact(t)' BY <2>w, <2>1, <2>2, <1>u DEF Whence, Begun, Intact, Whole
  <2>7. Ordered(t)' BY <2>w, <1>o DEF Whence
  <2>8. QED BY <2>3, <2>4, <2>5, <2>6, <2>7 DEF Whence
<1>6. ASSUME ~ctxDone[s] PROVE Whence(s)'
  <2>w. Whence(s) BY <1>i, <1>f, <1>6 DEF Streaming
  <2>1. n = RecvMsg(s) /\ o = RecvCut(s) /\ Advanced(s, n, o, z) BY <1>0, <1>2, <1>6, DispatchAdvances
  <2>d. delivered[s] \in Seq(Seq(Byte)) /\ n = Len(delivered[s]) + 1 /\ Len(delivered[s]) \in Nat
    BY <1>i, <1>f, <2>1 DEF Types, RecvMsg
  <2> DEFINE rn == RecvMsg(s)'
             rc == RecvCut(s)'
             pn == SendMsg(s)
             pc == SendCut(s)
  <2>2. \/ z <= o + ChunkSize /\ rn = n + 1 /\ rc = 0
        \/ o + ChunkSize < z /\ rn = n /\ rc = o + ChunkSize
    <3>1. CASE /\ z <= o + ChunkSize /\ chunks'[s] = None
               /\ delivered'[s] = Append(delivered[s], Slice(s, n, 0, z))
      <4>1. Len(delivered'[s]) = n
        <5>1. s \in Streams /\ delivered' \in [Streams -> Seq(Seq(Byte))] BY <1>1, <1>f DEF Types
        <5>2. delivered'[s] \in Seq(Seq(Byte)) BY <5>1
        <5>3. QED BY <2>d, <3>1, <5>2
      <4>2. QED BY <3>1, <4>1 DEF RecvMsg, RecvCut
    <3>2. CASE /\ o + ChunkSize < z /\ delivered'[s] = delivered[s] /\ chunks'[s] # None
               /\ chunks'[s].got = o + ChunkSize
      BY <3>2, <2>1 DEF RecvMsg, RecvCut
    <3>3. QED BY <2>1, <3>1, <3>2 DEF Advanced
  <2>3. pn \in Nat /\ pc \in Nat /\ (pn <= Len(sent[s]) => pc \in Cuts /\ pn = Len(sent[s]) /\ pc < sent[s][pn]) /\ (pn > Len(sent[s]) => pc = 0)
    <3>1. pn \in Nat /\ pc \in Nat /\ Len(sent[s]) \in Nat BY <1>i, <1>f, Positions
    <3>2. CASE offset[s] = None BY <3>1, <3>2 DEF SendMsg, SendCut
    <3>3. CASE offset[s] # None BY <3>1, <3>3, <1>i, <1>f DEF SendMsg, SendCut, Sending
    <3>4. QED BY <3>2, <3>3
  <2> HIDE DEF rn, rc, pn, pc
  <2>4. \A m \in 1 .. Len(sent[s]), p \in Cuts : p < sent[s][m] =>
          (~Before(m, p, rn, rc) <=> (~Before(m, p, n, o) /\ ~(m = n /\ p = o)))
    <3> SUFFICES ASSUME NEW m \in 1 .. Len(sent[s]), NEW p \in Cuts, p < sent[s][m]
                 PROVE  ~Before(m, p, rn, rc) <=> (~Before(m, p, n, o) /\ ~(m = n /\ p = o))
      OBVIOUS
    <3>1. p \in Nat /\ m \in Nat BY CutFacts
    <3>2. o < p => o + ChunkSize <= p BY <1>f, CutFacts
    <3>3. m = n => p < z BY <1>f
    <3>4. QED BY <1>f, <2>2, <3>1, <3>2, <3>3 DEF Before
  <2>5. \A i \in DOMAIN wire : wire[i].seq = s =>
          /\ MsgOf(wire[i]) \in 1 .. Len(sent[s]) /\ wire[i].offset \in Cuts /\ wire[i].offset < sent[s][MsgOf(wire[i])]
          /\ ~Before(MsgOf(wire[i]), wire[i].offset, n, o) /\ Before(MsgOf(wire[i]), wire[i].offset, pn, pc)
    BY <1>i, <2>w, <2>1 DEF Made, Whence, Between, pn, pc
  <2>6. Ordered(s)' BY <2>w, <1>o, <1>f DEF Whence
  <2>7. Between(s)'
    <3> SUFFICES ASSUME NEW i \in DOMAIN wire', wire'[i].seq = s
                 PROVE  /\ ~Before(MsgOf(wire'[i]), wire'[i].offset, rn, rc)
                        /\ Before(MsgOf(wire'[i]), wire'[i].offset, pn, pc)
      BY <1>p, <1>f DEF Between, MsgOf, rn, rc, pn, pc
    <3>1. i \in Nat /\ i + 1 \in DOMAIN wire /\ wire'[i] = wire[i + 1] BY <1>w
    <3>2. PICK m, p : m = MsgOf(wire[i + 1]) /\ p = wire[i + 1].offset OBVIOUS
    <3>3. /\ m \in 1 .. Len(sent[s]) /\ p \in Cuts /\ p < sent[s][m]
          /\ ~Before(m, p, n, o) /\ Before(m, p, pn, pc)
      BY <2>5, <3>1, <3>2
    <3>4. Before(n, o, m, p)
      <4>1. 1 < i + 1
        <5>1. i # 0
          <6>1. i \in 1 .. Len(wire') BY <1>1 DEF Types
          <6>2. QED BY <6>1
        <5>2. QED BY <5>1, <3>1
      <4>2. QED BY <4>1, <2>w, <1>w, <1>f, <3>1, <3>2 DEF Whence, Ordered
    <3>5. ~(m = n /\ p = o) BY <3>4, <1>f DEF Before
    <3>6. ~Before(m, p, rn, rc) BY <2>4, <3>3, <3>5
    <3>7. QED BY <3>1, <3>2, <3>3, <3>6
  <2>8. Covered(s)'
    <3> SUFFICES ASSUME NEW m \in 1 .. Len(sent[s]), NEW p \in Cuts, p < sent[s][m],
                        ~Before(m, p, rn, rc), Before(m, p, pn, pc)
                 PROVE  \E j \in DOMAIN wire' : wire'[j].seq = s /\ MsgOf(wire'[j]) = m /\ wire'[j].offset = p
      BY <1>u, <1>p, <1>f DEF Covered, MsgOf, rn, rc, pn, pc
    <3>1. ~Before(m, p, n, o) /\ ~(m = n /\ p = o) BY <2>4
    <3>2. PICK i \in DOMAIN wire : wire[i].seq = s /\ MsgOf(wire[i]) = m /\ wire[i].offset = p
      BY <3>1, <2>w, <2>1 DEF Whence, Covered, pn, pc
    <3>3. i # 1 BY <3>1, <3>2, <1>w, <1>f
    <3>4. PICK j \in DOMAIN wire' : wire'[j] = wire[i] BY <3>3, <1>w
    <3>5. QED BY <3>2, <3>4
  <2>9. Behind(s)'
    <3>1. Before(n, o, pn, pc) BY <2>5, <1>w, <1>f
    <3>2. pn = n => pc \in Cuts /\ pc < z
      BY <1>f, <2>3
    <3>3. o < pc /\ pc \in Cuts => o + ChunkSize <= pc BY <1>f, CutFacts
    <3>4. ~Before(pn, pc, rn, rc) BY <1>f, <2>2, <2>3, <3>1, <3>2, <3>3 DEF Before
    <3>5. QED BY <3>4, <1>p, <1>f DEF Behind, rn, rc, pn, pc
  <2>10. Begun(s)'
    <3>1. CASE chunks'[s] = None BY <3>1 DEF Begun
    <3>2. CASE /\ o + ChunkSize < z /\ delivered'[s] = delivered[s] /\ chunks'[s] # None
               /\ chunks'[s].total = z /\ chunks'[s].got = o + ChunkSize
               /\ \A b \in 1 .. (o + ChunkSize) : chunks'[s].buf[b] = <<s, n, b>>
      <4>1. RecvMsg(s)' = n BY <3>2, <2>1 DEF RecvMsg
      <4>2. n <= Len(sent'[s]) /\ z = sent'[s][n] BY <1>u, <1>f
      <4>3. z > ChunkSize /\ o + ChunkSize > 0 /\ o + ChunkSize \in Cuts BY <3>2, <1>f, CutFacts
      <4>4. QED BY <3>2, <4>1, <4>2, <4>3 DEF Begun
    <3>3. QED BY <2>1, <3>1, <3>2 DEF Advanced
  <2>11. Intact(s)'
    <3>1. \A m \in DOMAIN delivered[s] : m <= Len(sent[s]) /\ delivered[s][m] = Slice(s, m, 0, sent[s][m])
      BY <2>w DEF Whence, Intact, Whole
    <3>2. CASE delivered'[s] = delivered[s] BY <3>1, <3>2, <1>u DEF Intact, Whole
    <3>3. CASE delivered'[s] = Append(delivered[s], Slice(s, n, 0, z))
      <4>1. \A m \in DOMAIN delivered'[s] : (m \in DOMAIN delivered[s] /\ delivered'[s][m] = delivered[s][m])
                                             \/ (m = n /\ delivered'[s][m] = Slice(s, n, 0, z))
        BY <3>3, <2>d
      <4>2. n <= Len(sent[s]) /\ z = sent[s][n] BY <1>f
      <4>3. QED BY <3>1, <4>1, <4>2, <1>u DEF Intact, Whole
    <3>4. QED BY <2>1, <3>2, <3>3 DEF Advanced
  <2>12. QED BY <2>6, <2>7, <2>8, <2>9, <2>10, <2>11 DEF Whence
<1>7. Streaming' BY <1>u, <1>5, <1>6 DEF Streaming
<1>8. QED BY <1>1, <1>3, <1>4, <1>7 DEF ChunksInv

-----------------------------------------------------------------------------
LEMMA InitHolds == Init => ChunksInv
<1> SUFFICES ASSUME Init PROVE ChunksInv
  OBVIOUS
<1>1. ctxDone \in [Streams -> BOOLEAN] BY Zenon DEF Init
<1>2. sent \in [Streams -> Seq(Sizes)] /\ delivered \in [Streams -> Seq(Seq(Byte))] BY DEF Init
<1>3. wire \in Seq(Frame) BY DEF Init
<1>4. Types BY <1>1, <1>2, <1>3 DEF Init, Types
<1>5. DOMAIN wire = {} BY DEF Init
<1>6. Sending /\ Made /\ Partial BY <1>5 DEF Init, Sending, Made, Partial
<1>7. ASSUME NEW s \in Streams PROVE Whence(s)
  <2>1. sent[s] = <<>> /\ delivered[s] = <<>> /\ offset[s] = None /\ chunks[s] = None BY DEF Init
  <2>2. Len(sent[s]) = 0 /\ Len(delivered[s]) = 0 /\ DOMAIN delivered[s] = {} BY <2>1
  <2>3. RecvMsg(s) = 1 /\ RecvCut(s) = 0 /\ SendMsg(s) = 1 /\ SendCut(s) = 0
    BY <2>1, <2>2 DEF RecvMsg, RecvCut, SendMsg, SendCut
  <2>4. Ordered(s) /\ Between(s) BY <1>5 DEF Ordered, Between
  <2>5. Covered(s) BY <2>2 DEF Covered
  <2>6. Behind(s) BY <2>3 DEF Behind, Before
  <2>7. Begun(s) /\ Intact(s) BY <2>1, <2>2 DEF Begun, Intact
  <2>8. QED BY <2>4, <2>5, <2>6, <2>7 DEF Whence
<1>8. QED BY <1>4, <1>6, <1>7 DEF ChunksInv, Streaming

LEMMA ChunksStep == ChunksInv /\ [Next]_vars => ChunksInv'
<1> SUFFICES ASSUME ChunksInv, [Next]_vars PROVE ChunksInv'
  OBVIOUS
<1>1. CASE UNCHANGED vars
  <2>1. UNCHANGED <<sent, offset, ctxDone, wire, chunks, delivered>> BY <1>1 DEF vars
  <2>2. Types' /\ Sending' /\ Made' /\ Partial'
    BY <2>1 DEF ChunksInv, Types, Sending, Made, FrameAt, Partial
  <2>3. \A t \in Streams : Whence(t) => Whence(t)'
    BY <2>1 DEF Whence, Ordered, Between, Covered, Behind, Begun, Intact, RecvMsg, RecvCut, SendMsg, SendCut,
                MsgOf, Whole
  <2>4. QED BY <2>1, <2>2, <2>3 DEF ChunksInv, Streaming
<1>2. CASE \E s \in Streams : Send(s) \/ SendPart(s) \/ CtxCancel(s)
  BY <1>2, SendKeeps, PartKeeps, CancelKeeps
<1>3. CASE Dispatch BY <1>3, DispatchKeeps
<1>4. QED BY <1>1, <1>2, <1>3 DEF Next

LEMMA ChunksInvariant == Spec => []ChunksInv
BY InitHolds, ChunksStep, PTL DEF Spec

\* sendPayload's offset stays inside the message, no frame reaches past the
\* total it announces, and no assembler holds as many bytes as its total:
\* Reassemble never meets a chunk it would have to ignore.
THEOREM ChunksTypeCorrect == Spec => []TypeOK
<1>1. ChunksInv => TypeOK
  <2> SUFFICES ASSUME ChunksInv PROVE TypeOK
    OBVIOUS
  <2>i. Types /\ Sending /\ Made /\ Partial BY DEF ChunksInv
  <2>1. ASSUME NEW s \in Streams
        PROVE  /\ \A i \in DOMAIN sent[s] : sent[s][i] \in Sizes
               /\ offset[s] # None => offset[s] < sent[s][Len(sent[s])]
               /\ chunks[s] # None => /\ Len(chunks[s].buf) = chunks[s].total
                                      /\ chunks[s].got \in 0 .. (chunks[s].total - 1)
    <3>1. sent[s] \in Seq(Sizes) BY <2>i DEF Types
    <3>2. \A i \in DOMAIN sent[s] : sent[s][i] \in Sizes BY <3>1
    <3>3. offset[s] # None => offset[s] < sent[s][Len(sent[s])] BY <2>i DEF Sending
    <3>4. chunks[s] # None => /\ chunks[s].got \in Nat /\ chunks[s].total \in Nat
                              /\ Len(chunks[s].buf) = chunks[s].total /\ chunks[s].got < chunks[s].total
      BY <2>i DEF Types, Assembler, Partial
    <3>5. QED BY <3>2, <3>3, <3>4
  <2>2. ASSUME NEW i \in DOMAIN wire
        PROVE  /\ wire[i].seq \in Streams /\ Len(wire[i].data) \in 1 .. ChunkSize
               /\ wire[i].offset + Len(wire[i].data) <= wire[i].total
    <3>1. PICK f : f = wire[i] OBVIOUS
    <3>2. PICK s, n, o, z : IsFrame(f, s, n, o, z) BY <2>i, <3>1, OnWire
    <3>3. /\ f.seq \in Streams /\ Len(f.data) \in 1 .. ChunkSize /\ f.offset = o /\ f.total = z
          /\ Len(f.data) = IF o + ChunkSize < z THEN ChunkSize ELSE z - o
          /\ o \in Nat /\ z \in Nat /\ ChunkSize \in Nat
      BY <3>2 DEF IsFrame
    <3>4. f.offset + Len(f.data) <= f.total BY <3>3
    <3>5. QED BY <3>1, <3>3, <3>4
  <2>3. QED BY <2>1, <2>2 DEF TypeOK
<1>2. QED BY <1>1, ChunksInvariant, PTL

\* On a stream whose ctx is live, the n-th payload handed to the application
\* is the n-th message sent, byte for byte, whatever its size and however the
\* frames of other streams, cancelled ones included, fall in between.
THEOREM LargeSendsIntact == Spec => []MessagesIntact
<1>1. ChunksInv => MessagesIntact BY DEF ChunksInv, Streaming, Whence, Intact, MessagesIntact
<1>2. QED BY <1>1, ChunksInvariant, PTL

\* Once such a stream has nothing to send and the channel is empty, every
\* message has been handed over and no assembler waits for bytes.
THEOREM NothingLeftBehind == Spec => []NothingStuck
<1>1. ChunksInv => NothingStuck
  <2> SUFFICES ASSUME ChunksInv, NEW s \in Streams, ~ctxDone[s], offset[s] = None, wire = <<>>
               PROVE  Len(delivered[s]) = Len(sent[s]) /\ chunks[s] = None
    BY DEF NothingStuck
  <2>i. Types /\ Partial /\ Whence(s) BY DEF ChunksInv, Streaming
  <2>1. DOMAIN wire = {} OBVIOUS
  <2>2. PICK rn, rc, l, d : rn = RecvMsg(s) /\ rc = RecvCut(s) /\ l = Len(sent[s]) /\ d = Len(delivered[s]) OBVIOUS
  <2>3. rn \in Nat /\ rc \in Nat /\ l \in Nat /\ d \in Nat BY <2>i, <2>2, Positions
  <2>4. SendMsg(s) = l + 1 /\ SendCut(s) = 0 BY <2>2 DEF SendMsg, SendCut
  <2>5. rn = d + 1 BY <2>2 DEF RecvMsg
  <2>6. rn <= l + 1
    <3>1. ~Before(l + 1, 0, rn, rc) BY <2>i, <2>2, <2>4 DEF Whence, Behind
    <3>2. QED BY <3>1, <2>3 DEF Before
  <2>7. ~(rn <= l)
    <3> SUFFICES ASSUME rn <= l PROVE FALSE
      OBVIOUS
    <3>1. rn \in 1 .. l BY <2>3, <2>5
    <3>2. rc \in Cuts /\ rc < sent[s][rn]
      <4>1. CASE chunks[s] = None BY <4>1, <2>2, <2>i, <3>1, SizeOf, CutFacts DEF RecvCut
      <4>2. CASE chunks[s] # None
        <5>1. rc = chunks[s].got BY <4>2, <2>2 DEF RecvCut
        <5>2. QED BY <4>2, <5>1, <2>2, <2>i DEF Whence, Begun, Partial
      <4>3. QED BY <4>1, <4>2
    <3>3. ~Before(rn, rc, rn, rc) /\ Before(rn, rc, l + 1, 0) BY <2>3, <3>1 DEF Before
    <3>4. \E i \in DOMAIN wire : wire[i].seq = s /\ MsgOf(wire[i]) = rn /\ wire[i].offset = rc
      BY <2>i, <2>2, <2>4, <3>1, <3>2, <3>3 DEF Whence, Covered
    <3>5. QED BY <3>4, <2>1
  <2>8. d = l BY <2>3, <2>5, <2>6, <2>7
  <2>9. chunks[s] = None BY <2>i, <2>2, <2>7 DEF Whence, Begun
  <2>10. QED BY <2>2, <2>8, <2>9
<1>2. QED BY <1>1, ChunksInvariant, PTL

-----------------------------------------------------------------------------
\* Induction over numbers and over the steps of a recursive function.

\* A set of numbers has a least member.
LEMMA LeastNat ==
  ASSUME NEW Reached \in SUBSET Nat, Reached # {}
  PROVE  \E m \in Reached : \A k \in Reached : m <= k
<1> DEFINE R == {ss \in Nat \X Nat : ss[1] < ss[2]}
<1>1. IsWellFoundedOn(R, Nat) BY NatLessThanWellFounded, Zenon DEF OpToRel
<1>2. PICK m \in Reached : \A y \in Reached : ~(<<y, m>> \in R)
  <2> HIDE DEF R
  <2> QED  BY <1>1, WFMin, Zenon
<1>3. \A k \in Reached : ~(k < m) BY <1>2
<1>4. QED BY <1>3

\* Induction for a set of numbers: the form of it that can be cited here.
LEMMA NatSetInduction ==
  ASSUME NEW S, 0 \in S, \A n \in Nat : n \in S => n + 1 \in S
  PROVE  \A n \in Nat : n \in S
<1> DEFINE Reached == Nat \ S
<1>1. CASE Reached = {} BY <1>1
<1>2. CASE Reached # {}
  <2>1. PICK m \in Reached : \A k \in Reached : m <= k BY <1>2, LeastNat
  <2>2. m \in Nat /\ m # 0 /\ m \notin S BY <2>1
  <2>3. m - 1 \in Nat /\ (m - 1) + 1 = m /\ ~(m <= m - 1) BY <2>2
  <2>4. m - 1 \in S BY <2>1, <2>3
  <2>5. (m - 1) + 1 \in S BY <2>3, <2>4
  <2>6. QED BY <2>2, <2>3, <2>5
<1>3. QED BY <1>1, <1>2

\* The ways of taking n steps from base with a function of the state and the
\* number of the step.
Steps(S, base, n, d) ==
  {f \in [0..n -> S] : f[0] = base /\ \A i \in 1..n : f[i] = d[<<f[i - 1], i>>]}

\* A function that takes n steps exists, so a recursive function over 0..n is one.
LEMMA Iterates ==
  ASSUME NEW S, NEW base \in S, NEW n \in Nat, NEW d \in [S \X (1..n) -> S]
  PROVE  Steps(S, base, n, d) # {}
<1> DEFINE Fits(f, m) == f \in [0..m -> S] /\ f[0] = base /\ \A i \in 1..m : f[i] = d[<<f[i - 1], i>>]
           Reached == {m \in Nat : m <= n => \E f : Fits(f, m)}
<1>1. 0 \in Reached
  <2> DEFINE f == [i \in 0..0 |-> base]
  <2>1. Fits(f, 0) OBVIOUS
  <2> HIDE DEF f, Fits
  <2>2. QED BY <2>1
<1>2. ASSUME NEW m \in Nat, m \in Reached PROVE m + 1 \in Reached
  <2> SUFFICES ASSUME m + 1 <= n PROVE \E f : Fits(f, m + 1)
    OBVIOUS
  <2>1. PICK f : Fits(f, m) BY <1>2
  <2> DEFINE g == [i \in 0..(m + 1) |-> IF i <= m THEN f[i] ELSE d[<<f[m], m + 1>>]]
  <2>2. m + 1 \in 1..n /\ f[m] \in S /\ d[<<f[m], m + 1>>] \in S BY <2>1
  <2>3. g \in [0..(m + 1) -> S] /\ g[0] = base BY <2>1, <2>2
  <2>4. ASSUME NEW i \in 1..(m + 1) PROVE g[i] = d[<<g[i - 1], i>>]
    <3>1. i - 1 \in 0..(m + 1) /\ i - 1 <= m /\ g[i - 1] = f[i - 1] BY <2>4
    <3>2. CASE i <= m BY <2>1, <3>1, <3>2
    <3>3. CASE i = m + 1 BY <3>1, <3>3
    <3>4. QED BY <2>4, <3>2, <3>3
  <2>5. Fits(g, m + 1) BY <2>3, <2>4
  <2> HIDE DEF Fits, g
  <2>6. QED BY <2>5
<1> HIDE DEF Reached
<1>3. n \in Reached BY <1>1, <1>2, NatSetInduction
<1>4. QED BY <1>3 DEF Reached, Steps

\* Whatever takes such steps stays in S.
Follows(g, S, base, n, d) ==
  g = [i \in 0..n |-> g[i]] /\ g[0] = base /\ \A i \in 1..n : g[i - 1] \in S => g[i] = d[<<g[i - 1], i>>]

\* And its values are states.
LEMMA StaysIn ==
  ASSUME NEW S, NEW base \in S, NEW n \in Nat, NEW d \in [S \X (1..n) -> S],
         NEW g, Follows(g, S, base, n, d)
  PROVE  g \in [0..n -> S]
<1>0. g = [i \in 0..n |-> g[i]] /\ g[0] = base /\ \A i \in 1..n : g[i - 1] \in S => g[i] = d[<<g[i - 1], i>>]
  BY DEF Follows
<1> DEFINE Reached == {i \in Nat : i <= n => g[i] \in S}
<1>1. 0 \in Reached BY <1>0
<1>2. ASSUME NEW i \in Nat, i \in Reached PROVE i + 1 \in Reached
  <2> SUFFICES ASSUME i + 1 <= n PROVE g[i + 1] \in S
    OBVIOUS
  <2>1. i + 1 \in 1..n /\ (i + 1) - 1 = i /\ g[i] \in S BY <1>2
  <2>2. g[i + 1] = d[<<g[i], i + 1>>] BY <1>0, <2>1
  <2>3. QED BY <2>1, <2>2
<1> HIDE DEF Reached
<1>3. \A i \in Nat : i \in Reached BY <1>1, <1>2, NatSetInduction
<1>4. QED BY <1>0, <1>3 DEF Reached

-----------------------------------------------------------------------------

-----------------------------------------------------------------------------
\* One frame: WriteFrame, ReadFrame and a cut.

\* MaxFrameSize is far below the lengths that the model takes for one.
LEMMA Limit == MaxFrameSize \in Nat /\ Huge \in Nat /\ MaxFrameSize < Huge /\ MaxFrameSize # 0
<1>1. 2^30 = 1073741824 OBVIOUS
<1>2. QED BY <1>1, SMT DEF MaxFrameSize, Huge

\* binary.BigEndian.PutUint32 and Uint32 are inverse below 2^30.
LEMMA PutGet ==
  ASSUME NEW n \in Nat, n < Huge
  PROVE  LET b == PutUint32(n) IN
         /\ b \in Seq(Nat) /\ Len(b) = 4 /\ b[1] < 64
         /\ b[1] * 16777216 + b[2] * 65536 + b[3] * 256 + b[4] = n
<1> DEFINE q1 == n \div 16777216
           q2 == n \div 65536
           q3 == n \div 256
<1>1. 2^24 = 16777216 /\ 2^16 = 65536 /\ 2^8 = 256 BY SMT
<1>2. PutUint32(n) = <<q1, q2 % 256, q3 % 256, n % 256>> BY <1>1, SMT DEF PutUint32
<1>3. q1 \in Nat /\ q1 < 64 /\ q2 \in Nat /\ q3 \in Nat
  <2>1. 2^30 = 1073741824 BY SMT
  <2>2. n < 1073741824 BY <2>1, SMT DEF Huge
  <2>3. QED BY <2>2, SMT
<1>4. n = q3 * 256 + (n % 256) BY SMT
<1>5. q3 = q2 * 256 + (q3 % 256)
  <2>1. q2 = q3 \div 256 BY SMT
  <2> HIDE DEF q2, q3
  <2>2. QED BY <1>3, <2>1, SMT
<1>6. q2 = q1 * 256 + (q2 % 256)
  <2>1. q1 = q2 \div 256 BY SMT
  <2> HIDE DEF q1, q2
  <2>2. QED BY <1>3, <2>1, SMT
<1> DEFINE r1 == q2 % 256
           r2 == q3 % 256
           r3 == n % 256
<1>7. r1 \in Nat /\ r2 \in Nat /\ r3 \in Nat BY <1>3, SMT
<1> HIDE DEF q1, q2, q3, r1, r2, r3
<1>8. q1 * 16777216 + r1 * 65536 + r2 * 256 + r3 = n BY <1>3, <1>4, <1>5, <1>6, <1>7, SMT DEF r1, r2, r3
<1>9. PutUint32(n) = <<q1, r1, r2, r3>> BY <1>2, SMT DEF r1, r2, r3
<1>10. QED BY <1>3, <1>7, <1>8, <1>9, SMT

\* A string that starts as a length does announces it.
Starts(b, h) == Len(h) <= Len(b) /\ \A j \in 1..Len(h) : b[j] = h[j]

\* Whatever starts with the header of n announces n.
LEMMA Announced ==
  ASSUME NEW b \in Seq(Nat), NEW n \in Nat, n < Huge, Starts(b, PutUint32(n))
  PROVE  Len(b) >= 4 /\ Uint32(b) = n
<1> DEFINE h == PutUint32(n)
<1>1. h \in Seq(Nat) /\ Len(h) = 4 /\ h[1] < 64 /\ h[1] * 16777216 + h[2] * 65536 + h[3] * 256 + h[4] = n
  BY PutGet, SMT
<1>2. Starts(b, h) BY SMT
<1> HIDE DEF h
<1>3. Len(b) >= 4 /\ b[1] = h[1] /\ b[2] = h[2] /\ b[3] = h[3] /\ b[4] = h[4] BY <1>1, <1>2, SMT DEF Starts
<1>4. 2^24 = 16777216 /\ 2^16 = 65536 /\ 2^8 = 256 BY SMT
<1>5. QED BY <1>1, <1>3, <1>4, SMT DEF Uint32

\* A start of a start is a start.
LEMMA StartsVia ==
  ASSUME NEW b \in Seq(Nat), NEW w \in Seq(Nat), NEW h \in Seq(Nat), Starts(b, w), Starts(w, h)
  PROVE  Starts(b, h)
<1>1. Len(h) <= Len(w) /\ Len(w) <= Len(b) BY DEF Starts
<1>2. ASSUME NEW j \in 1..Len(h) PROVE b[j] = h[j]
  <2>1. j \in 1..Len(w) BY <1>1
  <2>2. b[j] = w[j] /\ w[j] = h[j] BY <2>1 DEF Starts
  <2>3. QED BY <2>2
<1>3. QED BY <1>1, <1>2 DEF Starts

\* WriteFrame, byte by byte.
Framed(w, p) ==
  /\ w \in Seq(Nat) /\ Len(w) = 4 + Len(p) /\ Starts(w, PutUint32(Len(p)))
  /\ \A j \in 1..Len(p) : w[4 + j] = p[j]

\* WriteFrame is the header and then the payload.
LEMMA WriteIs ==
  ASSUME NEW p \in Seq(Nat), Len(p) < Huge
  PROVE  Framed(WriteFrame(p), p)
<1> DEFINE h == PutUint32(Len(p))
           w == h \o p
<1>1. h \in Seq(Nat) /\ Len(h) = 4 BY PutGet
<1>2. WriteFrame(p) = w BY DEF WriteFrame
<1> HIDE DEF h
<1>c. /\ w \in Seq(Nat) /\ Len(w) = Len(h) + Len(p)
      /\ \A i \in 1..(Len(h) + Len(p)) : w[i] = IF i <= Len(h) THEN h[i] ELSE p[i - Len(h)]
  BY <1>1, ConcatProperties, Zenon
<1> HIDE DEF w
<1>3. w \in Seq(Nat) /\ Len(w) = 4 + Len(p) BY <1>1, <1>c
<1>a. Len(p) \in Nat BY LenProperties
<1>b. \A i \in 1..(4 + Len(p)) : w[i] = IF i <= 4 THEN h[i] ELSE p[i - 4] BY <1>1, <1>c, Zenon
<1>4. \A j \in 1..4 : w[j] = h[j] BY <1>a, <1>b
<1>5. ASSUME NEW j \in 1..Len(p) PROVE w[4 + j] = p[j]
  <2>1. 4 + j \in 1..(4 + Len(p)) /\ ~(4 + j <= 4) /\ 4 + j - 4 = j BY <1>a
  <2>2. QED BY <1>b, <2>1
<1>6. Starts(w, h) BY <1>1, <1>3, <1>4 DEF Starts
<1>7. QED BY <1>2, <1>3, <1>5, <1>6 DEF Framed, h, w

\* ReadFrame undoes WriteFrame, whatever follows.
LEMMA ReadsWhole ==
  ASSUME NEW b \in Seq(Nat), NEW p \in Seq(Nat), Len(p) <= MaxFrameSize, Starts(b, WriteFrame(p))
  PROVE  ReadFrame(b) = Res("ok", p)
<1> DEFINE w == WriteFrame(p)
           h == PutUint32(Len(p))
<1>0. PICK n \in Nat : n = Len(p) OBVIOUS
<1>1. n <= MaxFrameSize /\ n < Huge BY <1>0, Limit
<1>2. Framed(w, p) BY <1>0, <1>1, WriteIs
<1>3. h \in Seq(Nat) /\ Len(h) = 4 BY <1>0, <1>1, PutGet
<1>4. Starts(b, w) OBVIOUS
<1> HIDE DEF w, h
<1>5. w \in Seq(Nat) /\ Len(w) = 4 + n /\ Starts(w, h) BY <1>0, <1>2 DEF Framed, h
<1>6. Starts(b, h) BY <1>3, <1>4, <1>5, StartsVia
<1>7. Len(b) >= 4 + n BY <1>4, <1>5 DEF Starts
<1>8. ASSUME NEW j \in 1..n PROVE b[4 + j] = p[j]
  <2>1. 4 + j \in 1..Len(w) BY <1>5
  <2>2. b[4 + j] = w[4 + j] BY <1>4, <2>1 DEF Starts
  <2>3. w[4 + j] = p[j] BY <1>0, <1>2 DEF Framed
  <2>4. QED BY <2>2, <2>3
<1>9. Uint32(b) = n BY <1>0, <1>1, <1>6, Announced DEF h
<1>10. b # <<>> /\ ~(Len(b) < 4) /\ ~(n > MaxFrameSize) /\ ~(Len(b) - 4 < n) BY <1>1, <1>7, Limit
<1>11. n = 0 => p = <<>> BY <1>0, EmptySeq
<1>12. SubSeq(b, 5, n + 4) = p
  <2> DEFINE q == SubSeq(b, 5, n + 4)
  <2>1. q \in Seq(Nat) /\ Len(q) = n /\ \A j \in 1..n : q[j] = b[4 + j] BY <1>7
  <2> HIDE DEF q
  <2>2. Len(q) = Len(p) /\ \A j \in 1..Len(q) : q[j] = p[j] BY <1>0, <1>8, <2>1
  <2>3. q = p BY <2>1, <2>2, SeqEqual
  <2>4. QED BY <2>3 DEF q
<1>13. QED BY <1>9, <1>10, <1>11, <1>12 DEF ReadFrame

\* And names the place where a frame was cut.
CutAt(r, n) ==
  /\ r.status # "ok"
  /\ r.status = "EOF" <=> n = 0
  /\ r.status = "payload EOF" <=> n = 4

\* A frame cut anywhere is reported at the place of the cut.
LEMMA ReadsCut ==
  ASSUME NEW b \in Seq(Nat), NEW p \in Seq(Nat), Len(p) <= MaxFrameSize, Len(b) < 4 + Len(p),
         Starts(WriteFrame(p), b)
  PROVE  CutAt(ReadFrame(b), Len(b))
<1> DEFINE w == WriteFrame(p)
           h == PutUint32(Len(p))
           r == ReadFrame(b)
<1>0. PICK n \in Nat : n = Len(p) OBVIOUS
<1>1. n <= MaxFrameSize /\ n < Huge BY <1>0, Limit
<1>2. Framed(w, p) BY <1>0, <1>1, WriteIs
<1>3. h \in Seq(Nat) /\ Len(h) = 4 BY <1>0, <1>1, PutGet
<1>4. Starts(w, b) /\ Len(b) < 4 + n BY <1>0
<1> HIDE DEF w, h
<1>5. w \in Seq(Nat) /\ Len(w) = 4 + n /\ Starts(w, h) BY <1>0, <1>2 DEF Framed, h
<1>6. ASSUME b = <<>> PROVE r.status = "EOF" /\ Len(b) = 0 /\ Len(b) # 4 BY <1>6 DEF ReadFrame, Res
<1>7. ASSUME b # <<>>, Len(b) < 4 PROVE r.status = "header cut" /\ Len(b) # 0 /\ Len(b) # 4
  <2>0. Len(b) \in Nat \ {0} BY <1>7, EmptySeq, Zenon
  <2>a. Len(b) # 0 BY <2>0
  <2>b. PICK m \in Nat : m = Len(b) /\ m < 4 BY <1>7, <2>0
  <2>1. Len(b) # 0 /\ Len(b) # 4 
    <3>1. \A k \in Nat : k < 4 => k # 4 OBVIOUS
    <3>2. QED BY <2>a, <2>b, <3>1, Zenon
  <2>2. r.status = "header cut" BY <1>7 DEF ReadFrame, Res
  <2>3. QED BY <2>1, <2>2
<1>8. ASSUME Len(b) >= 4 PROVE r.status = (IF Len(b) = 4 THEN "payload EOF" ELSE "payload cut") /\ Len(b) # 0
  <2>1. ASSUME NEW j \in 1..Len(h) PROVE b[j] = h[j]
    <3>1. j \in 1..Len(b) BY <1>3, <1>8
    <3>2. w[j] = b[j] BY <1>4, <3>1 DEF Starts
    <3>3. w[j] = h[j] BY <1>5 DEF Starts
    <3>4. QED BY <3>2, <3>3
  <2>2. Starts(b, h) BY <1>3, <1>8, <2>1 DEF Starts
  <2>3. Uint32(b) = n BY <1>0, <1>1, <2>2, Announced DEF h
  <2>4. n # 0 /\ ~(n > MaxFrameSize) /\ Len(b) - 4 < n /\ b # <<>> /\ ~(Len(b) < 4) BY <1>1, <1>4, <1>8, Limit
  <2>5. QED BY <1>8, <2>3, <2>4 DEF ReadFrame, Res
<1>9. b = <<>> \/ (b # <<>> /\ Len(b) < 4) \/ Len(b) >= 4 OBVIOUS
<1>a. CASE b = <<>>
  <2> HIDE DEF r
  <2>1. CutAt(r, Len(b)) BY <1>6, <1>a, Zenon DEF CutAt
  <2>2. QED BY <2>1 DEF r
<1>b. CASE b # <<>> /\ Len(b) < 4
  <2> HIDE DEF r
  <2>1. CutAt(r, Len(b)) BY <1>7, <1>b DEF CutAt
  <2>2. QED BY <2>1 DEF r
<1>c. CASE Len(b) >= 4
  <2> HIDE DEF r
  <2>1. CutAt(r, Len(b)) BY <1>8, <1>c DEF CutAt
  <2>2. QED BY <2>1 DEF r
<1>11. QED BY <1>9, <1>a, <1>b, <1>c

\* What a frame announces and what follows.
LEMMA Unframed ==
  ASSUME NEW w, NEW p \in Seq(Nat), Len(p) < Huge, Framed(w, p)
  PROVE  /\ w \in Seq(Nat) /\ Len(w) = 4 + Len(p) /\ Len(p) \in Nat
         /\ Uint32(w) = Len(p) /\ SubSeq(w, 5, 4 + Len(p)) = p
<1> DEFINE q == SubSeq(w, 5, 4 + Len(p))
<1>0. Len(p) \in Nat BY LenProperties
<1>1. /\ w \in Seq(Nat) /\ Len(w) = 4 + Len(p) /\ Starts(w, PutUint32(Len(p)))
      /\ \A j \in 1..Len(p) : w[4 + j] = p[j]
  BY DEF Framed
<1>2. Uint32(w) = Len(p) BY <1>0, <1>1, Announced
<1>3. q \in Seq(Nat) /\ Len(q) = Len(p) /\ \A j \in 1..Len(p) : q[j] = w[4 + j] BY <1>0, <1>1
<1> HIDE DEF q
<1>4. \A j \in 1..Len(q) : q[j] = p[j] BY <1>1, <1>3
<1>5. q = p BY <1>3, <1>4, SeqEqual
<1>6. QED BY <1>0, <1>1, <1>2, <1>5 DEF q

\* What ReadFrame and a read loop return.
Statuses == {"ok", "EOF", "header cut", "oversized", "payload EOF", "payload cut"}
Results == [status : Statuses, bytes : Seq(Nat)]
Loops == [frames : Seq(Seq(Nat)), rest : Seq(Nat), last : Results]

\* A length that was announced is a number.
LEMMA Uint32Typed ==
  ASSUME NEW b \in Seq(Nat), Len(b) >= 4
  PROVE  Uint32(b) \in Nat
<1>1. b[1] \in Nat /\ b[2] \in Nat /\ b[3] \in Nat /\ b[4] \in Nat BY ElementOfSeq
<1>2. 2^24 = 16777216 /\ 2^16 = 65536 /\ 2^8 = 256 /\ 2^30 = 1073741824 BY SMT
<1> DEFINE c1 == b[1]
           c2 == b[2]
           c3 == b[3]
           c4 == b[4]
<1>3. Uint32(b) = IF c1 >= 64 THEN Huge ELSE c1 * 16777216 + c2 * 65536 + c3 * 256 + c4
    BY <1>2, SMT DEF Uint32
<1>4. c1 \in Nat /\ c2 \in Nat /\ c3 \in Nat /\ c4 \in Nat BY <1>1
<1> HIDE DEF c1, c2, c3, c4
<1>5. QED BY <1>3, <1>4, Limit, SMT

\* Every result of ReadFrame is one of six.
LEMMA ReadTyped ==
  ASSUME NEW b \in Seq(Nat)
  PROVE  ReadFrame(b) \in Results
<1>1. <<>> \in Seq(Nat) OBVIOUS
<1>2. \A st \in Statuses, x \in Seq(Nat) : Res(st, x) \in Results BY DEF Res, Results
<1>3. ASSUME Len(b) >= 4 PROVE Uint32(b) \in Nat BY <1>3, Uint32Typed
<1>4. \A n \in Nat : n + 4 <= Len(b) => SubSeq(b, 5, n + 4) \in Seq(Nat) OBVIOUS
<1>5. "ok" \in Statuses /\ "EOF" \in Statuses /\ "header cut" \in Statuses /\ "oversized" \in Statuses
      /\ "payload EOF" \in Statuses /\ "payload cut" \in Statuses
  BY DEF Statuses
<1> DEFINE n == Uint32(b)
<1>6. CASE b = <<>> BY <1>1, <1>2, <1>5, <1>6 DEF ReadFrame
<1>7. CASE b # <<>> /\ Len(b) < 4 BY <1>1, <1>2, <1>5, <1>7 DEF ReadFrame
<1>8. CASE b # <<>> /\ Len(b) >= 4
  <2>1. n \in Nat BY <1>3, <1>8
  <2>2. ~(Len(b) < 4) BY <1>8
  <2> HIDE DEF n
  <2>3. ReadFrame(b) = IF n = 0 THEN Res("ok", <<>>)
                         ELSE IF n > MaxFrameSize THEN Res("oversized", <<>>)
                         ELSE IF Len(b) - 4 < n THEN Res(IF Len(b) = 4 THEN "payload EOF" ELSE "payload cut", <<>>)
                         ELSE Res("ok", SubSeq(b, 5, n + 4))
    BY <1>8, <2>2 DEF ReadFrame, n
  <2>4. CASE n = 0 BY <1>1, <1>2, <1>5, <2>3, <2>4
  <2>5. CASE n # 0 /\ n > MaxFrameSize BY <1>1, <1>2, <1>5, <2>3, <2>5
  <2>6. CASE n # 0 /\ ~(n > MaxFrameSize) /\ Len(b) - 4 < n BY <1>1, <1>2, <1>5, <2>3, <2>6
  <2>7. CASE n # 0 /\ ~(n > MaxFrameSize) /\ ~(Len(b) - 4 < n)
    <3>1. n + 4 <= Len(b) BY <2>1, <2>7
    <3>2. SubSeq(b, 5, n + 4) \in Seq(Nat) BY <1>4, <2>1, <3>1
    <3>3. QED BY <1>2, <1>5, <2>3, <2>7, <3>2
  <2>8. QED BY <2>4, <2>5, <2>6, <2>7
<1>9. QED BY <1>6, <1>7, <1>8

-----------------------------------------------------------------------------
\* A stream of frames and where each ends.

\* Concatenation, part by part.
LEMMA Concat ==
  ASSUME NEW S, NEW u \in Seq(S), NEW f \in Seq(S)
  PROVE  /\ u \o f \in Seq(S) /\ Len(u \o f) = Len(u) + Len(f) /\ Len(u) \in Nat /\ Len(f) \in Nat
         /\ \A i \in 1..Len(u) : (u \o f)[i] = u[i]
         /\ \A j \in 1..Len(f) : (u \o f)[Len(u) + j] = f[j]
<1> DEFINE w == u \o f
<1>1. /\ w \in Seq(S) /\ Len(w) = Len(u) + Len(f)
      /\ \A i \in 1..(Len(u) + Len(f)) : w[i] = IF i <= Len(u) THEN u[i] ELSE f[i - Len(u)]
  BY ConcatProperties, Zenon
<1>2. Len(u) \in Nat /\ Len(f) \in Nat BY LenProperties
<1> HIDE DEF w
<1>3. ASSUME NEW i \in 1..Len(u) PROVE w[i] = u[i]
  <2>1. i \in 1..(Len(u) + Len(f)) /\ i <= Len(u) BY <1>2
  <2>2. QED BY <1>1, <2>1, Zenon
<1>4. ASSUME NEW j \in 1..Len(f) PROVE w[Len(u) + j] = f[j]
  <2>1. PICK i \in 1..(Len(u) + Len(f)) : i = Len(u) + j /\ ~(i <= Len(u)) /\ i - Len(u) = j BY <1>2
  <2>2. w[i] = f[i - Len(u)] BY <1>1, <2>1, Zenon
  <2>3. QED BY <2>1, <2>2, Zenon
<1>5. QED BY <1>1, <1>2, <1>3, <1>4, Zenon DEF w

\* The part of a concatenation that comes second, one item.
LEMMA ConcatAt ==
  ASSUME NEW S, NEW u \in Seq(S), NEW f \in Seq(S), NEW j \in 1..Len(f)
  PROVE  (u \o f)[Len(u) + j] = f[j]
BY Concat

\* The payloads WriteFrame is called with and ReadFrame accepts.
Framable == {p \in Seq(Nat) : Len(p) <= MaxFrameSize}

\* A payload that ReadFrame accepts, written.
LEMMA FrameTyped ==
  ASSUME NEW p \in Framable
  PROVE  /\ Framed(WriteFrame(p), p) /\ p \in Seq(Nat) /\ Len(p) \in Nat
         /\ Len(p) <= MaxFrameSize /\ Len(p) < Huge
<1>1. p \in Seq(Nat) /\ Len(p) <= MaxFrameSize BY DEF Framable
<1>2. Len(p) \in Nat BY <1>1, LenProperties
<1>3. Len(p) < Huge BY <1>1, <1>2, Limit
<1>4. QED BY <1>1, <1>2, <1>3, WriteIs

\* A stream of frames, frame by frame.
LEMMA WrittenIs ==
  ASSUME NEW P \in Seq(Framable)
  PROVE  /\ Written(P) \in [0..Len(P) -> Seq(Nat)]
         /\ Written(P)[0] = <<>>
         /\ \A n \in 1..Len(P) : Written(P)[n] = Written(P)[n - 1] \o WriteFrame(P[n])
<1> DEFINE L == Len(P)
           S == Seq(Nat)
           d == [p \in S \X (1..L) |-> p[1] \o WriteFrame(P[p[2]])]
<1>1. L \in Nat /\ \A i \in 1..L : P[i] \in Framable OBVIOUS
<1>2. <<>> \in S OBVIOUS
<1>3. \A s \in S, i \in 1..L : s \o WriteFrame(P[i]) \in S
  <2>1. \A i \in 1..L : WriteFrame(P[i]) \in S BY <1>1, FrameTyped DEF Framed
  <2>2. QED BY <2>1, ConcatProperties
<1> HIDE DEF S, L
<1>4. d \in [S \X (1..L) -> S] BY <1>3
<1>5. \A s \in S, i \in 1..L : d[<<s, i>>] = s \o WriteFrame(P[i]) OBVIOUS
<1> HIDE DEF d
<1>6. PICK f \in [0..L -> S] : f[0] = <<>> /\ \A i \in 1..L : f[i] = d[<<f[i - 1], i>>]
  <2>1. Steps(S, <<>>, L, d) # {} BY <1>1, <1>2, <1>4, Iterates
  <2>2. QED BY <2>1 DEF Steps
<1>7. \A i \in 1..L : f[i] = f[i - 1] \o WriteFrame(P[i])
  <2>1. \A i \in 1..L : f[i - 1] \in S BY <1>1, <1>6
  <2>2. QED BY <1>5, <1>6, <2>1
<1> DEFINE Is(g) == g = [n \in 0..L |-> IF n = 0 THEN <<>> ELSE g[n - 1] \o WriteFrame(P[n])]
<1>8. Is(f)
  <2>1. f = [n \in 0..L |-> f[n]] BY <1>6
  <2>2. \A n \in 0..L : f[n] = IF n = 0 THEN <<>> ELSE f[n - 1] \o WriteFrame(P[n])
    BY <1>1, <1>6, <1>7
  <2>3. QED BY <2>1, <2>2
<1>9. Written(P) = CHOOSE g : Is(g) BY Zenon DEF Written, L
<1>10. Is(Written(P))
  <2> HIDE DEF Is
  <2>1. QED BY <1>8, <1>9, Zenon
<1> DEFINE s == Written(P)
<1>11. s[0] = <<>> /\ \A i \in 1..L : s[i] = s[i - 1] \o WriteFrame(P[i])
  BY <1>1, <1>10
<1>12. s = [n \in 0..L |-> s[n]] BY <1>10
<1> HIDE DEF s, Is
<1>13. s \in [0..L -> S]
  <2>1. Follows(s, S, <<>>, L, d) BY <1>1, <1>5, <1>11, <1>12 DEF Follows
  <2>2. QED BY <1>1, <1>2, <1>4, <2>1, StaysIn
<1>14. QED BY <1>11, <1>13 DEF L, S, s

\* Where each frame starts and ends.
EndOf(P, n) == Len(Written(P)[n])

\* A frame ends four bytes and its payload after the one before it.
LEMMA EndsAt ==
  ASSUME NEW P \in Seq(Framable)
  PROVE  /\ EndOf(P, 0) = 0
         /\ \A n \in 0..Len(P) : EndOf(P, n) \in Nat
         /\ \A n \in 1..Len(P) : EndOf(P, n) = EndOf(P, n - 1) + 4 + Len(P[n]) /\ Len(P[n]) \in Nat
<1> DEFINE w == Written(P)
<1>0. Len(P) \in Nat /\ \A n \in 1..Len(P) : P[n] \in Framable OBVIOUS
<1>1. /\ w \in [0..Len(P) -> Seq(Nat)] /\ w[0] = <<>>
      /\ \A n \in 1..Len(P) : w[n] = w[n - 1] \o WriteFrame(P[n])
  BY WrittenIs
<1> HIDE DEF w
<1>2. Len(w[0]) = 0 BY <1>1
<1>3. \A n \in 0..Len(P) : Len(w[n]) \in Nat BY <1>1, LenProperties
<1>4. ASSUME NEW n \in 1..Len(P) PROVE Len(w[n]) = Len(w[n - 1]) + 4 + Len(P[n]) /\ Len(P[n]) \in Nat
  <2> DEFINE f == WriteFrame(P[n])
             u == w[n - 1]
  <2>1. Framed(f, P[n]) /\ Len(P[n]) \in Nat BY <1>0, FrameTyped
  <2>2. u \in Seq(Nat) /\ w[n] = u \o f
    <3>1. n - 1 \in 0..Len(P) BY <1>0
    <3>2. QED BY <1>1, <3>1
  <2> HIDE DEF f, u
  <2>3. f \in Seq(Nat) /\ Len(f) = 4 + Len(P[n]) BY <2>1 DEF Framed
  <2>4. Len(u \o f) = Len(u) + Len(f) BY <2>2, <2>3, ConcatProperties, Zenon
  <2>5. Len(u) \in Nat BY <2>2, LenProperties
  <2>a. Len(w[n]) = Len(u) + Len(f) BY <2>2, <2>4, Zenon
  <2>b. Len(P[n]) \in Nat BY <2>1, Zenon
  <2>c. \A x, y, z \in Nat : y = 4 + z => x + y = x + 4 + z OBVIOUS
  <2>d. Len(f) \in Nat BY <2>3, LenProperties
  <2>6. Len(w[n]) = Len(u) + 4 + Len(P[n]) BY <2>3, <2>5, <2>a, <2>b, <2>c, <2>d, Zenon
  <2>7. QED BY <2>1, <2>6, Zenon DEF u
<1>5. QED BY <1>2, <1>3, <1>4 DEF EndOf, w

\* A frame is at least four bytes.
LEMMA EndsGrow ==
  ASSUME NEW P \in Seq(Framable), NEW i \in 0..Len(P), NEW j \in i..Len(P)
  PROVE  EndOf(P, j) >= EndOf(P, i) + 4 * (j - i)
<1> DEFINE Reached == {m \in Nat : i + m <= Len(P) => EndOf(P, i + m) >= EndOf(P, i) + 4 * m}
<1>0. Len(P) \in Nat /\ i \in Nat OBVIOUS
<1>1. 0 \in Reached
  <2>1. EndOf(P, i) \in Nat BY EndsAt
  <2>2. i + 0 = i BY <1>0
  <2>3. QED BY <2>1, <2>2
<1>2. ASSUME NEW m \in Nat, m \in Reached PROVE m + 1 \in Reached
  <2> SUFFICES ASSUME i + (m + 1) <= Len(P) PROVE EndOf(P, i + (m + 1)) >= EndOf(P, i) + 4 * (m + 1)
    OBVIOUS
  <2>1. i + (m + 1) \in 1..Len(P) /\ (i + (m + 1)) - 1 = i + m /\ i + m \in 0..Len(P) /\ i + m <= Len(P) BY <1>0
  <2>2. EndOf(P, i + m) >= EndOf(P, i) + 4 * m BY <1>2, <2>1
  <2>3. EndOf(P, i + (m + 1)) = EndOf(P, i + m) + 4 + Len(P[i + (m + 1)]) /\ Len(P[i + (m + 1)]) \in Nat
    BY <2>1, EndsAt
  <2>4. EndOf(P, i) \in Nat /\ EndOf(P, i + m) \in Nat BY <2>1, EndsAt
  <2>5. QED BY <2>2, <2>3, <2>4
<1> HIDE DEF Reached
<1>3. \A m \in Nat : m \in Reached BY <1>1, <1>2, NatSetInduction
<1>4. j - i \in Nat /\ i + (j - i) = j /\ j <= Len(P) BY <1>0
<1>5. j - i \in Reached BY <1>3, <1>4
<1>6. QED BY <1>4, <1>5 DEF Reached

\* The stream of all the frames starts with the stream of the first ones.
LEMMA WrittenStarts ==
  ASSUME NEW P \in Seq(Framable), NEW n \in 0..Len(P)
  PROVE  Starts(Written(P)[Len(P)], Written(P)[n])
<1> DEFINE w == Written(P)
           L == Len(P)
           Reached == {m \in Nat : m <= L => Starts(w[L], w[L - m])}
<1>0. L \in Nat /\ \A i \in 1..L : P[i] \in Framable OBVIOUS
<1>1. /\ w \in [0..L -> Seq(Nat)]
      /\ \A i \in 1..L : w[i] = w[i - 1] \o WriteFrame(P[i])
  BY WrittenIs
<1> HIDE DEF w, L
<1>2. 0 \in Reached
  <2>1. w[L] \in Seq(Nat) /\ L - 0 = L BY <1>0, <1>1
  <2>2. Len(w[L]) \in Nat BY <2>1, LenProperties
  <2>3. Starts(w[L], w[L]) BY <2>2 DEF Starts
  <2>4. QED BY <2>1, <2>3
<1>3. ASSUME NEW m \in Nat, m \in Reached PROVE m + 1 \in Reached
  <2> SUFFICES ASSUME m + 1 <= L PROVE Starts(w[L], w[L - (m + 1)])
    OBVIOUS
  <2> DEFINE k == L - m
             u == w[k - 1]
             f == WriteFrame(P[k])
  <2>1. k \in 1..L /\ k - 1 \in 0..L /\ L - (m + 1) = k - 1 /\ m <= L /\ L \in 0..L BY <1>0
  <2>2. Starts(w[L], w[k]) BY <1>3, <2>1
  <2> HIDE DEF k
  <2> HIDE DEF u, f
  <2>a. u \in Seq(Nat) BY <1>1, <2>1 DEF u
  <2>b. w[k] = u \o f BY <1>1, <2>1, Zenon DEF u, f
  <2>c. k \in 0..L BY <1>0, <2>1
  <2>3. u \in Seq(Nat) /\ w[k] \in Seq(Nat) /\ w[L] \in Seq(Nat) /\ w[k] = u \o f BY <1>1, <2>1, <2>a, <2>b, <2>c
  <2>4. f \in Seq(Nat) BY <1>0, <2>1, FrameTyped DEF Framed, f
  <2>5. /\ Len(u \o f) = Len(u) + Len(f)
        /\ \A i \in 1..(Len(u) + Len(f)) : (u \o f)[i] = IF i <= Len(u) THEN u[i] ELSE f[i - Len(u)]
    BY <2>3, <2>4, ConcatProperties, Zenon
  <2>6. Len(u) \in Nat /\ Len(f) \in Nat BY <2>3, <2>4, LenProperties
  <2>7. Starts(w[k], u)
    <3>1. \A i \in 1..Len(u) : i \in 1..(Len(u) + Len(f)) /\ i <= Len(u) BY <2>6
    <3>2. \A i \in 1..Len(u) : w[k][i] = u[i] BY <2>3, <2>5, <3>1, Zenon
    <3>3. QED BY <2>3, <2>5, <2>6, <3>2 DEF Starts
  <2>8. Starts(w[L], u) BY <2>2, <2>3, <2>7, StartsVia
  <2>9. QED BY <2>1, <2>8 DEF u
<1> HIDE DEF Reached
<1>4. \A m \in Nat : m \in Reached BY <1>2, <1>3, NatSetInduction
<1>5. L - n \in Nat /\ L - n <= L /\ L - (L - n) = n BY <1>0 DEF L
<1>6. L - n \in Reached BY <1>4, <1>5
<1>7. QED BY <1>5, <1>6 DEF Reached, L, w

\* The n-th frame's bytes in the stream of all.
LEMMA FrameInside ==
  ASSUME NEW P \in Seq(Framable), NEW n \in 1..Len(P)
  PROVE  /\ EndOf(P, n) <= EndOf(P, Len(P))
         /\ \A j \in 1..(4 + Len(P[n])) :
              Written(P)[Len(P)][EndOf(P, n - 1) + j] = WriteFrame(P[n])[j]
<1> DEFINE w == Written(P)
           s == w[Len(P)]
           u == w[n - 1]
           f == WriteFrame(P[n])
<1>0. Len(P) \in Nat /\ P[n] \in Framable /\ n \in 0..Len(P) /\ n - 1 \in 0..Len(P) OBVIOUS
<1>2. Framed(f, P[n]) /\ Len(P[n]) \in Nat BY <1>0, FrameTyped
<1>3. Starts(s, w[n]) BY <1>0, WrittenStarts
<1>a. w \in [0..Len(P) -> Seq(Nat)] /\ \A i \in 1..Len(P) : w[i] = w[i - 1] \o WriteFrame(P[i]) BY WrittenIs
<1> HIDE DEF w, s, u, f
<1>b. w[n] = u \o f BY <1>a, Zenon DEF u, f
<1>c. f \in Seq(Nat) /\ Len(f) = 4 + Len(P[n]) BY <1>2 DEF Framed
<1>d. u \in Seq(Nat) BY <1>0, <1>a DEF u
<1>e. f \in Seq(Nat) BY <1>c
<1>f. Len(u) \in Nat /\ Len(f) \in Nat BY <1>d, <1>e, LenProperties
<1>g. Len(u \o f) = Len(u) + Len(f) BY <1>d, <1>e, Concat, Zenon
<1>h. \A j \in 1..Len(f) : (u \o f)[Len(u) + j] = f[j] BY <1>d, <1>e, ConcatAt
<1>5. /\ Len(u \o f) = Len(u) + Len(f) /\ Len(u) \in Nat /\ Len(f) \in Nat
      /\ \A j \in 1..Len(f) : (u \o f)[Len(u) + j] = f[j]
  BY <1>f, <1>g, <1>h, Zenon
<1>7. ASSUME NEW j \in 1..(4 + Len(P[n])) PROVE s[Len(u) + j] = f[j]
  <2>1. Len(u) + j \in 1..(Len(u) + Len(f)) /\ j \in 1..Len(f) BY <1>2, <1>5, <1>c
  <2>2. w[n][Len(u) + j] = f[j] BY <1>5, <1>b, <2>1, Zenon
  <2>3. Len(w[n]) = Len(u) + Len(f) BY <1>5, <1>b, Zenon
  <2>4. s[Len(u) + j] = w[n][Len(u) + j] BY <1>3, <2>1, <2>3, Zenon DEF Starts
  <2>5. QED BY <2>2, <2>4
<1>8. Len(w[n]) <= Len(s) BY <1>3 DEF Starts
<1>9. QED BY <1>7, <1>8 DEF EndOf, u, s, f, w

-----------------------------------------------------------------------------
\* The loop that reads a stream.

\* One turn of a read loop.
Turn(at) ==
  LET r == ReadFrame(at.rest) IN
  IF at.last.status # "ok" THEN at
  ELSE IF r.status # "ok" THEN [at EXCEPT !.last = r]
  ELSE [frames |-> Append(at.frames, r.bytes), rest |-> Drop(at.rest, 4 + Len(r.bytes)), last |-> r]

\* What is left of a stream after n bytes.
LEMMA DropIs ==
  ASSUME NEW s \in Seq(Nat), NEW n \in Nat
  PROVE  /\ Drop(s, n) \in Seq(Nat)
         /\ n <= Len(s) => Len(Drop(s, n)) = Len(s) - n
         /\ n <= Len(s) => \A j \in 1..(Len(s) - n) : Drop(s, n)[j] = s[n + j]
<1> DEFINE q == SubSeq(s, n + 1, Len(s))
<1>1. Len(s) \in Nat BY LenProperties
<1>2. n + 1 \in Int /\ Len(s) \in Int /\ \A i \in (n + 1)..Len(s) : s[i] \in Nat
  <2>1. \A i \in (n + 1)..Len(s) : i \in 1..Len(s) BY <1>1
  <2>2. QED BY <1>1, <2>1, ElementOfSeq
<1>3. q \in Seq(Nat) BY <1>2, SubSeqProperties
<1>4. ASSUME n <= Len(s) PROVE Len(q) = Len(s) - n BY <1>1, <1>4
<1>5. ASSUME NEW j \in 1..(Len(s) - n) PROVE q[j] = s[n + j] BY <1>1
<1> HIDE DEF q
<1>6. QED BY <1>3, <1>4, <1>5, Zenon DEF Drop, q

\* A turn of a read loop makes a read loop's state.
LEMMA TurnTyped ==
  ASSUME NEW at \in Loops
  PROVE  Turn(at) \in Loops
<1> DEFINE r == ReadFrame(at.rest)
<1>1. at.frames \in Seq(Seq(Nat)) /\ at.rest \in Seq(Nat) /\ at.last \in Results BY DEF Loops
<1>2. r \in Results BY <1>1, ReadTyped
<1> HIDE DEF r
<1>3. r.bytes \in Seq(Nat) BY <1>2 DEF Results
<1>4. Append(at.frames, r.bytes) \in Seq(Seq(Nat)) BY <1>1, <1>3, AppendProperties
<1>5. Drop(at.rest, 4 + Len(r.bytes)) \in Seq(Nat)
  <2>1. 4 + Len(r.bytes) \in Nat BY <1>3, LenProperties
  <2>2. QED BY <1>1, <2>1, DropIs
<1>6. [at EXCEPT !.last = r] \in Loops BY <1>2 DEF Loops
<1>7. [frames |-> Append(at.frames, r.bytes), rest |-> Drop(at.rest, 4 + Len(r.bytes)), last |-> r] \in Loops
  BY <1>2, <1>4, <1>5 DEF Loops
<1>8. QED BY <1>6, <1>7 DEF Turn, r

\* The state a read loop starts in, and how many turns it can take.
LoopStart(s) == [frames |-> <<>>, rest |-> s, last |-> Res("ok", <<>>)]
Turns(s) == Len(s) \div 4 + 1

\* The read loop over a stream, turn by turn.
LEMMA LoopIs ==
  ASSUME NEW s \in Seq(Nat)
  PROVE  /\ Turns(s) \in Nat /\ ReadLoop(s) \in [0..Turns(s) -> Loops]
         /\ ReadLoop(s)[0] = LoopStart(s)
         /\ \A n \in 1..Turns(s) : ReadLoop(s)[n] = Turn(ReadLoop(s)[n - 1])
<1> DEFINE L == Turns(s)
           S == Loops
           d == [p \in S \X (1..L) |-> Turn(p[1])]
<1>1. L \in Nat
  <2>1. Len(s) \in Nat BY LenProperties
  <2>2. \A m \in Nat : m \div 4 + 1 \in Nat OBVIOUS
  <2>3. QED BY <2>1, <2>2 DEF Turns
<1>2. LoopStart(s) \in S
  <2>1. <<>> \in Seq(Nat) /\ <<>> \in Seq(Seq(Nat)) /\ "ok" \in Statuses BY EmptySeq DEF Statuses
  <2>2. QED BY <2>1 DEF LoopStart, Loops, Results, Res
<1>3. \A t \in S : Turn(t) \in S BY TurnTyped
<1> HIDE DEF S, L
<1>4. d \in [S \X (1..L) -> S] BY <1>3
<1>5. \A t \in S, i \in 1..L : d[<<t, i>>] = Turn(t) OBVIOUS
<1> HIDE DEF d
<1>6. PICK f \in [0..L -> S] : f[0] = LoopStart(s) /\ \A i \in 1..L : f[i] = d[<<f[i - 1], i>>]
  <2>1. Steps(S, LoopStart(s), L, d) # {} BY <1>1, <1>2, <1>4, Iterates
  <2>2. QED BY <2>1 DEF Steps
<1>7. \A i \in 1..L : f[i] = Turn(f[i - 1])
  <2>1. \A i \in 1..L : f[i - 1] \in S BY <1>1, <1>6
  <2>2. QED BY <1>5, <1>6, <2>1
<1> DEFINE Is(g) == g = [n \in 0..L |-> IF n = 0 THEN LoopStart(s) ELSE Turn(g[n - 1])]
<1>8. Is(f)
  <2>1. f = [n \in 0..L |-> f[n]] BY <1>6
  <2>2. \A n \in 0..L : f[n] = IF n = 0 THEN LoopStart(s) ELSE Turn(f[n - 1])
    BY <1>1, <1>6, <1>7
  <2>3. QED BY <2>1, <2>2
<1>9. ReadLoop(s) = CHOOSE g : Is(g) BY Zenon DEF ReadLoop, L, Turns, LoopStart, Turn
<1>10. Is(ReadLoop(s))
  <2> HIDE DEF Is
  <2>1. QED BY <1>8, <1>9, Zenon
<1> DEFINE w == ReadLoop(s)
<1>11. w[0] = LoopStart(s) /\ \A i \in 1..L : w[i] = Turn(w[i - 1])
  BY <1>1, <1>10
<1>12. w = [n \in 0..L |-> w[n]] BY <1>10
<1> HIDE DEF w, Is
<1>13. w \in [0..L -> S]
  <2>1. Follows(w, S, LoopStart(s), L, d) BY <1>1, <1>5, <1>11, <1>12 DEF Follows
  <2>2. QED BY <1>1, <1>2, <1>4, <2>1, StaysIn
<1>14. QED BY <1>1, <1>11, <1>13, Zenon DEF L, S, w

\* A stream of frames cut at any place.
CutStream(P, cut) == Take(Written(P)[Len(P)], cut)

\* The cut stream has the first bytes of the whole one.
LEMMA CutIs ==
  ASSUME NEW P \in Seq(Framable), NEW cut \in Nat, cut <= EndOf(P, Len(P))
  PROVE  /\ CutStream(P, cut) \in Seq(Nat) /\ Len(CutStream(P, cut)) = cut
         /\ \A j \in 1..cut : CutStream(P, cut)[j] = Written(P)[Len(P)][j]
<1> DEFINE s == Written(P)[Len(P)]
           t == SubSeq(s, 1, cut)
<1>1. Len(P) \in 0..Len(P) BY LenProperties
<1>2. s \in Seq(Nat) BY <1>1, WrittenIs
<1>3. cut <= Len(s) BY DEF EndOf
<1> HIDE DEF s
<1>4. Len(s) \in Nat BY <1>2, LenProperties
<1>5. \A i \in 1..cut : s[i] \in Nat
  <2>1. \A i \in 1..cut : i \in 1..Len(s) BY <1>3, <1>4
  <2>2. QED BY <1>2, <2>1, ElementOfSeq
<1>6. t \in Seq(Nat) BY <1>5, SubSeqProperties
<1>7. Len(t) = cut BY <1>3, <1>4
<1>8. ASSUME NEW j \in 1..cut PROVE t[j] = s[j] BY <1>3, <1>4
<1> HIDE DEF t
<1>9. QED BY <1>6, <1>7, <1>8 DEF CutStream, Take, s, t

\* What a loop holds at a frame boundary before the cut.
LEMMA AtBoundary ==
  ASSUME NEW P \in Seq(Framable), NEW cut \in Nat, cut <= EndOf(P, Len(P)),
         NEW n \in 0..Len(P), EndOf(P, n) <= cut,
         NEW b, b = Drop(CutStream(P, cut), EndOf(P, n))
  PROVE  /\ b \in Seq(Nat) /\ Len(b) = cut - EndOf(P, n)
         /\ \A j \in 1..(cut - EndOf(P, n)) : b[j] = Written(P)[Len(P)][EndOf(P, n) + j]
<1> DEFINE t == CutStream(P, cut)
           e == EndOf(P, n)
           s == Written(P)[Len(P)]
<1>1. e \in Nat /\ e <= cut BY EndsAt
<1>2. t \in Seq(Nat) /\ Len(t) = cut /\ \A j \in 1..cut : t[j] = s[j] BY CutIs
<1>3. b = Drop(t, e) OBVIOUS
<1> HIDE DEF t, e, s
<1>a. t \in Seq(Nat) /\ Len(t) = cut /\ e <= Len(t) BY <1>1, <1>2
<1>b. b \in Seq(Nat) BY <1>1, <1>3, <1>a, DropIs
<1>c. Len(b) = cut - e BY <1>1, <1>3, <1>a, DropIs
<1>d. \A j \in 1..(Len(t) - e) : Drop(t, e)[j] = t[e + j] BY <1>1, <1>a, DropIs
<1>4. /\ b \in Seq(Nat) /\ Len(b) = cut - e
      /\ \A j \in 1..(cut - e) : b[j] = t[e + j]
  BY <1>3, <1>a, <1>b, <1>c, <1>d
<1>5. ASSUME NEW j \in 1..(cut - e) PROVE b[j] = s[e + j]
  <2>1. e + j \in 1..cut BY <1>1
  <2>2. QED BY <1>2, <1>4, <2>1
<1>6. QED BY <1>4, <1>5 DEF t, e, s

\* Before the cut, the next ReadFrame gives the next payload.
LEMMA NextWhole ==
  ASSUME NEW P \in Seq(Framable), NEW cut \in Nat, cut <= EndOf(P, Len(P)),
         NEW n \in 1..Len(P), EndOf(P, n) <= cut
  PROVE  ReadFrame(Drop(CutStream(P, cut), EndOf(P, n - 1))) = Res("ok", P[n])
<1> DEFINE b == Drop(CutStream(P, cut), EndOf(P, n - 1))
           f == WriteFrame(P[n])
           e == EndOf(P, n - 1)
           s == Written(P)[Len(P)]
<1>0. Len(P) \in Nat /\ n - 1 \in 0..Len(P) /\ P[n] \in Framable OBVIOUS
<1>1. EndOf(P, n) = e + 4 + Len(P[n]) /\ Len(P[n]) \in Nat /\ e \in Nat BY <1>0, EndsAt
<1>2. e <= cut BY <1>1
<1>3. b \in Seq(Nat) /\ Len(b) = cut - e /\ \A j \in 1..(cut - e) : b[j] = s[e + j] BY <1>0, <1>2, AtBoundary
<1>4. \A j \in 1..(4 + Len(P[n])) : s[e + j] = f[j] BY FrameInside
<1>5. Framed(f, P[n]) /\ P[n] \in Seq(Nat) /\ Len(P[n]) <= MaxFrameSize BY <1>0, FrameTyped DEF Framable
<1> HIDE DEF b, f, e, s
<1>6. Len(f) = 4 + Len(P[n]) BY <1>5 DEF Framed
<1>7. \A j \in 1..(4 + Len(P[n])) : j \in 1..(cut - e)
  <2>1. ASSUME NEW a \in Nat, NEW m \in Nat, NEW c \in Nat, a + 4 + m <= c
        PROVE  \A j \in 1..(4 + m) : j \in 1..(c - a)
    BY <2>1
  <2>2. e + 4 + Len(P[n]) <= cut BY <1>1, Zenon
  <2>3. QED BY <1>1, <2>1, <2>2, Zenon
<1>8. \A j \in 1..Len(f) : b[j] = f[j] BY <1>3, <1>4, <1>6, <1>7
<1>9. Len(f) <= Len(b)
  <2>1. ASSUME NEW a \in Nat, NEW m \in Nat, NEW c \in Nat, a + 4 + m <= c
        PROVE  4 + m <= c - a
    BY <2>1
  <2>2. e + 4 + Len(P[n]) <= cut BY <1>1, Zenon
  <2>3. 4 + Len(P[n]) <= cut - e BY <1>1, <2>1, <2>2, Zenon
  <2>4. QED BY <1>3, <1>6, <2>3, Zenon
<1>10. Starts(b, f) BY <1>8, <1>9 DEF Starts
<1>11. QED BY <1>3, <1>5, <1>10, ReadsWhole DEF b, f

\* At the last boundary before the cut, ReadFrame names the place of the cut.
LEMMA NextCut ==
  ASSUME NEW P \in Seq(Framable), NEW cut \in Nat, cut <= EndOf(P, Len(P)),
         NEW n \in 0..Len(P), EndOf(P, n) <= cut, n < Len(P) => cut < EndOf(P, n + 1)
  PROVE  CutAt(ReadFrame(Drop(CutStream(P, cut), EndOf(P, n))), cut - EndOf(P, n))
<1> DEFINE b == Drop(CutStream(P, cut), EndOf(P, n))
           e == EndOf(P, n)
           s == Written(P)[Len(P)]
<1>1. e \in Nat /\ e <= cut /\ Len(P) \in Nat BY EndsAt
<1>2. b \in Seq(Nat) /\ Len(b) = cut - e /\ \A j \in 1..(cut - e) : b[j] = s[e + j] BY AtBoundary
<1>3. CASE n = Len(P)
  <2>1. cut - e = 0 BY <1>1, <1>3
  <2> HIDE DEF b, e
  <2>2. Len(b) = 0 BY <1>2, <2>1
  <2>3. b = <<>> BY <1>2, <2>2, EmptySeq
  <2>4. ReadFrame(b).status = "EOF" BY <2>3 DEF ReadFrame, Res
  <2>a. 0 = 0 /\ 0 # 4 OBVIOUS
  <2>5. CutAt(ReadFrame(b), 0) BY <2>4, <2>a, Zenon DEF CutAt
  <2>6. QED BY <2>1, <2>5 DEF b, e
<1>4. CASE n < Len(P)
  <2> DEFINE p == P[n + 1]
             f == WriteFrame(p)
  <2>0. n + 1 \in 1..Len(P) /\ (n + 1) - 1 = n /\ p \in Framable BY <1>1, <1>4
  <2>1. EndOf(P, n + 1) = e + 4 + Len(p) /\ Len(p) \in Nat BY <2>0, EndsAt
  <2>2. cut < EndOf(P, n + 1) BY <1>4
  <2>3. \A j \in 1..(4 + Len(p)) : s[e + j] = f[j] BY <2>0, FrameInside
  <2>4. Framed(f, p) /\ p \in Seq(Nat) /\ Len(p) <= MaxFrameSize BY <2>0, FrameTyped DEF Framable
  <2> HIDE DEF b, p, f, e, s
  <2>5. f \in Seq(Nat) /\ Len(f) = 4 + Len(p) BY <2>4 DEF Framed
  <2>6. cut - e \in Nat /\ cut - e < 4 + Len(p) BY <1>1, <2>1, <2>2
  <2>7. \A j \in 1..(cut - e) : j \in 1..(4 + Len(p)) BY <2>1, <2>6
  <2>8. \A j \in 1..Len(b) : f[j] = b[j] BY <1>2, <2>3, <2>7
  <2>9. Len(b) <= Len(f) BY <1>2, <2>1, <2>5, <2>6
  <2>10. Starts(f, b) BY <2>8, <2>9 DEF Starts
  <2>11. Len(b) < 4 + Len(p) BY <1>2, <2>6
  <2>12. CutAt(ReadFrame(b), Len(b)) BY <1>2, <2>4, <2>10, <2>11, ReadsCut DEF f
  <2>13. QED BY <1>2, <2>12 DEF b, e
<1>5. QED BY <1>1, <1>3, <1>4

-----------------------------------------------------------------------------
\* What that loop gives.

\* The last frame boundary at or before the cut.
LEMMA LastBoundary ==
  ASSUME NEW P \in Seq(Framable), NEW cut \in Nat
  PROVE  \E n \in 0..Len(P) : EndOf(P, n) <= cut /\ (n < Len(P) => cut < EndOf(P, n + 1))
<1> DEFINE L == Len(P)
           Reached == {m \in Nat : m <= L /\ EndOf(P, L - m) <= cut}
<1>0. L \in Nat BY LenProperties
<1>1. L \in Reached
  <2>1. L - L = 0 /\ EndOf(P, 0) <= cut BY <1>0, EndsAt
  <2>2. QED BY <1>0, <2>1
<1>2. PICK m \in Reached : \A k \in Reached : m <= k BY <1>1, LeastNat
<1> DEFINE n == L - m
<1>3. m \in Nat /\ m <= L /\ n \in 0..L /\ EndOf(P, n) <= cut BY <1>0, <1>2
<1>4. ASSUME n < L PROVE cut < EndOf(P, n + 1)
  <2>1. m - 1 \in Nat /\ m - 1 <= L /\ L - (m - 1) = n + 1 /\ ~(m <= m - 1) BY <1>0, <1>3, <1>4
  <2>2. m - 1 \notin Reached BY <1>2, <2>1
  <2>3. ~(EndOf(P, n + 1) <= cut) BY <2>1, <2>2
  <2>4. n + 1 \in 0..L BY <1>0, <1>3, <1>4
  <2>5. EndOf(P, n + 1) \in Nat BY <2>4, EndsAt
  <2>6. QED BY <2>3, <2>5
<1> HIDE DEF n
<1>5. QED BY <1>3, <1>4 DEF L

\* The first n items of a sequence.
LEMMA TakeIs ==
  ASSUME NEW S, NEW P \in Seq(S), NEW n \in 0..Len(P)
  PROVE  /\ Take(P, n) \in Seq(S) /\ Len(Take(P, n)) = n
         /\ \A j \in 1..n : Take(P, n)[j] = P[j]
<1> DEFINE q == SubSeq(P, 1, n)
<1>1. Len(P) \in Nat /\ n \in Nat /\ n <= Len(P) BY LenProperties
<1>2. \A i \in 1..n : P[i] \in S
  <2>1. \A i \in 1..n : i \in 1..Len(P) BY <1>1
  <2>2. QED BY <2>1, ElementOfSeq
<1>3. q \in Seq(S)
  <2>1. 1 \in Int /\ n \in Int BY <1>1
  <2>2. QED BY <1>2, <2>1, SubSeqProperties
<1>4. Len(q) = n BY <1>1
<1>5. ASSUME NEW j \in 1..n PROVE q[j] = P[j] BY <1>1
<1> HIDE DEF q
<1>6. QED BY <1>3, <1>4, <1>5 DEF Take, q

\* And one more of them.
LEMMA TakeMore ==
  ASSUME NEW S, NEW P \in Seq(S), NEW n \in 1..Len(P)
  PROVE  Append(Take(P, n - 1), P[n]) = Take(P, n)
<1> DEFINE a == Take(P, n - 1)
           b == Take(P, n)
           c == Append(a, P[n])
<1>1. Len(P) \in Nat /\ n \in Nat /\ n - 1 \in 0..Len(P) /\ n \in 0..Len(P) /\ (n - 1) + 1 = n BY LenProperties
<1>2. P[n] \in S BY ElementOfSeq
<1>3. a \in Seq(S) /\ Len(a) = n - 1 /\ \A j \in 1..(n - 1) : a[j] = P[j] BY <1>1, TakeIs
<1>4. b \in Seq(S) /\ Len(b) = n /\ \A j \in 1..n : b[j] = P[j] BY <1>1, TakeIs
<1> HIDE DEF a, b
<1>5. c \in Seq(S) /\ Len(c) = Len(a) + 1 /\ (\A i \in 1..Len(a) : c[i] = a[i]) /\ c[Len(a) + 1] = P[n]
  BY <1>2, <1>3, AppendProperties
<1> HIDE DEF c
<1>6. Len(c) = n /\ c[n] = P[n] BY <1>1, <1>3, <1>5
<1>7. ASSUME NEW j \in 1..n PROVE c[j] = b[j]
  <2>1. CASE j = n BY <1>4, <1>6, <2>1
  <2>2. CASE j # n
    <3>1. j \in 1..(n - 1) BY <1>1, <2>2
    <3>2. QED BY <1>3, <1>4, <1>5, <3>1
  <2>3. QED BY <2>1, <2>2
<1>8. c = b BY <1>4, <1>5, <1>6, <1>7, SeqEqual
<1>9. QED BY <1>8 DEF a, b, c

\* Dropping twice is dropping once.
LEMMA DropTwice ==
  ASSUME NEW s \in Seq(Nat), NEW a \in Nat, NEW b \in Nat, a + b <= Len(s)
  PROVE  Drop(Drop(s, a), b) = Drop(s, a + b)
<1> DEFINE t == Drop(s, a)
           u == Drop(t, b)
           v == Drop(s, a + b)
<1>0. Len(s) \in Nat /\ a <= Len(s) /\ a + b \in Nat BY LenProperties
<1>1. t \in Seq(Nat) /\ Len(t) = Len(s) - a /\ \A j \in 1..(Len(s) - a) : t[j] = s[a + j] BY <1>0, DropIs
<1>2. v \in Seq(Nat) /\ Len(v) = Len(s) - (a + b) /\ \A j \in 1..(Len(s) - (a + b)) : v[j] = s[a + b + j]
  BY <1>0, DropIs
<1> HIDE DEF t, v
<1>3. b <= Len(t) BY <1>0, <1>1
<1>4. u \in Seq(Nat) /\ Len(u) = Len(t) - b /\ \A j \in 1..(Len(t) - b) : u[j] = t[b + j] BY <1>1, <1>3, DropIs
<1> HIDE DEF u
<1>5. Len(u) = Len(v) BY <1>0, <1>1, <1>2, <1>4
<1>6. ASSUME NEW j \in 1..Len(u) PROVE u[j] = v[j]
  <2>1. j \in 1..(Len(t) - b) /\ b + j \in 1..(Len(s) - a) /\ j \in 1..(Len(s) - (a + b)) /\ a + (b + j) = a + b + j
    BY <1>0, <1>1, <1>4
  <2>2. u[j] = t[b + j] /\ t[b + j] = s[a + (b + j)] /\ v[j] = s[a + b + j] BY <1>1, <1>2, <1>4, <2>1, Zenon
  <2>3. QED BY <2>1, <2>2
<1>7. u = v BY <1>2, <1>4, <1>5, <1>6, SeqEqual
<1>8. QED BY <1>7 DEF t, u, v

\* What a read loop holds at the n-th boundary.
LoopSo(P, cut, n) ==
  LET at == ReadLoop(CutStream(P, cut))[n] IN
  /\ at.frames = Take(P, n) /\ at.last.status = "ok"
  /\ at.rest = Drop(CutStream(P, cut), EndOf(P, n))

\* At every boundary before the cut a read loop has exactly the payloads so far.
LEMMA LoopReads ==
  ASSUME NEW P \in Seq(Framable), NEW cut \in Nat, cut <= EndOf(P, Len(P)),
         NEW n \in 0..Len(P), EndOf(P, n) <= cut, n <= Turns(CutStream(P, cut))
  PROVE  LoopSo(P, cut, n)
<1> DEFINE t == CutStream(P, cut)
           Reached == {m \in Nat : m <= n => LoopSo(P, cut, m)}
<1>0. Len(P) \in Nat /\ n \in Nat /\ n <= Len(P) BY LenProperties
<1>1. t \in Seq(Nat) /\ Len(t) = cut BY CutIs
<1>2. /\ Turns(t) \in Nat /\ ReadLoop(t) \in [0..Turns(t) -> Loops]
      /\ ReadLoop(t)[0] = LoopStart(t)
      /\ \A m \in 1..Turns(t) : ReadLoop(t)[m] = Turn(ReadLoop(t)[m - 1])
  BY <1>1, LoopIs
<1>3. 0 \in Reached
  <2>1. EndOf(P, 0) = 0 BY EndsAt
  <2>2. Take(P, 0) = <<>>
    <3>1. 0 \in 0..Len(P) BY <1>0
    <3>2. Take(P, 0) \in Seq(Framable) /\ Len(Take(P, 0)) = 0 BY <3>1, TakeIs
    <3>3. QED BY <3>2, EmptySeq
  <2>3. Drop(t, 0) = t
    <3>1. SubSeq(t, 1, Len(t)) = t BY <1>1, SubSeqFull
    <3>2. 0 + 1 = 1 OBVIOUS
    <3>3. QED BY <3>1, <3>2 DEF Drop
  <2> HIDE DEF t
  <2>4. ReadLoop(t)[0].frames = <<>> /\ ReadLoop(t)[0].rest = t /\ ReadLoop(t)[0].last.status = "ok"
    BY <1>2 DEF LoopStart, Res
  <2>5. LoopSo(P, cut, 0) BY <2>1, <2>2, <2>3, <2>4 DEF LoopSo, t
  <2>6. QED BY <2>5
<1>4. ASSUME NEW m \in Nat, m \in Reached PROVE m + 1 \in Reached
  <2> SUFFICES ASSUME m + 1 <= n PROVE LoopSo(P, cut, m + 1)
    OBVIOUS
  <2> DEFINE at == ReadLoop(t)[m]
             nx == ReadLoop(t)[m + 1]
             p == P[m + 1]
  <2>1. /\ m + 1 \in 1..Len(P) /\ (m + 1) - 1 = m /\ m + 1 \in 0..Len(P) /\ m \in 0..Len(P)
        /\ m + 1 \in 1..Turns(t) /\ m <= n /\ n \in (m + 1)..Len(P)
    BY <1>0, <1>2
  <2>2. EndOf(P, m + 1) <= cut
    <3>1. EndOf(P, n) >= EndOf(P, m + 1) + 4 * (n - (m + 1)) BY <2>1, EndsGrow
    <3>2. n - (m + 1) \in Nat /\ EndOf(P, n) \in Nat /\ EndOf(P, m + 1) \in Nat BY <1>0, <2>1, EndsAt
    <3>3. QED BY <3>1, <3>2
  <2>3. ReadFrame(Drop(t, EndOf(P, m))) = Res("ok", p) BY <2>1, <2>2, NextWhole
  <2>4. at.frames = Take(P, m) /\ at.last.status = "ok" /\ at.rest = Drop(t, EndOf(P, m))
    BY <1>4, <2>1 DEF LoopSo
  <2>5. nx = Turn(at) BY <1>2, <2>1
  <2>6. EndOf(P, m + 1) = EndOf(P, m) + (4 + Len(p)) /\ Len(p) \in Nat /\ EndOf(P, m) \in Nat
    <3>1. EndOf(P, m + 1) = EndOf(P, m) + 4 + Len(p) /\ Len(p) \in Nat /\ EndOf(P, m) \in Nat BY <2>1, EndsAt
    <3>2. \A x, y \in Nat : x + 4 + y = x + (4 + y) OBVIOUS
    <3>3. QED BY <3>1, <3>2, Zenon
  <2>7. Drop(Drop(t, EndOf(P, m)), 4 + Len(p)) = Drop(t, EndOf(P, m + 1))
    <3>1. 4 + Len(p) \in Nat BY <2>6
    <3>2. EndOf(P, m) + (4 + Len(p)) <= Len(t) BY <1>1, <2>2, <2>6, Zenon
    <3> HIDE DEF t, p
    <3>3. Drop(Drop(t, EndOf(P, m)), 4 + Len(p)) = Drop(t, EndOf(P, m) + (4 + Len(p)))
      BY <1>1, <2>6, <3>1, <3>2, DropTwice
    <3>4. QED BY <2>6, <3>3, Zenon
  <2>8. Append(Take(P, m), p) = Take(P, m + 1) BY <2>1, TakeMore
  <2> HIDE DEF at, nx, p, t
  <2>9. nx = [frames |-> Append(at.frames, p), rest |-> Drop(at.rest, 4 + Len(p)), last |-> Res("ok", p)]
    BY <2>3, <2>4, <2>5 DEF Turn, Res
  <2>10. nx.frames = Take(P, m + 1) /\ nx.last.status = "ok" /\ nx.rest = Drop(t, EndOf(P, m + 1))
    BY <2>4, <2>7, <2>8, <2>9 DEF Res
  <2>11. QED BY <2>10 DEF LoopSo, nx, t
<1> HIDE DEF Reached
<1>5. \A m \in Nat : m \in Reached BY <1>3, <1>4, NatSetInduction
<1>6. QED BY <1>0, <1>5 DEF Reached

\* Where a read loop ends.
LEMMA LoopEnds ==
  ASSUME NEW P \in Seq(Framable), NEW cut \in Nat, cut <= EndOf(P, Len(P)),
         NEW n \in 0..Len(P), EndOf(P, n) <= cut, n < Len(P) => cut < EndOf(P, n + 1),
         NEW r, r = ReadAll(CutStream(P, cut))
  PROVE  r.frames = Take(P, n) /\ CutAt(r.last, cut - EndOf(P, n))
<1> DEFINE t == CutStream(P, cut)
           N == Turns(t)
           loop == ReadLoop(t)
           e == ReadFrame(Drop(t, EndOf(P, n)))
           end == [loop[n] EXCEPT !.last = e]
           Reached == {m \in Nat : n + 1 + m <= N => loop[n + 1 + m] = end}
<1>0. Len(P) \in Nat /\ n \in Nat /\ 0 \in 0..Len(P) /\ n \in 0..Len(P) BY LenProperties
<1>1. t \in Seq(Nat) /\ Len(t) = cut BY CutIs
<1>2. /\ N \in Nat /\ loop \in [0..N -> Loops]
      /\ \A m \in 1..N : loop[m] = Turn(loop[m - 1])
  BY <1>1, LoopIs
<1>3. n + 1 <= N
  <2>1. EndOf(P, n) >= EndOf(P, 0) + 4 * (n - 0) BY <1>0, EndsGrow
  <2>2. EndOf(P, 0) = 0 /\ EndOf(P, n) \in Nat BY EndsAt
  <2>3. 4 * n <= cut BY <1>0, <2>1, <2>2
  <2>4. \A x, y \in Nat : 4 * x <= y => x + 1 <= y \div 4 + 1 OBVIOUS
  <2>5. n + 1 <= cut \div 4 + 1 BY <1>0, <2>3, <2>4
  <2>6. QED BY <1>1, <2>5 DEF Turns
<1>4. CutAt(e, cut - EndOf(P, n)) BY NextCut
<1>5. LoopSo(P, cut, n)
  <2>1. n <= Turns(CutStream(P, cut)) BY <1>0, <1>2, <1>3
  <2>2. QED BY <2>1, LoopReads
<1>6. loop[n].frames = Take(P, n) /\ loop[n].last.status = "ok" /\ loop[n].rest = Drop(t, EndOf(P, n))
  BY <1>5 DEF LoopSo
<1>7. ReadAll(t) = loop[N] BY DEF ReadAll, Turns
<1>a. loop[n] \in Loops BY <1>0, <1>2, <1>3
<1> HIDE DEF t, N, loop
<1>8. e.status # "ok" BY <1>4 DEF CutAt
<1>9. end.last = e /\ end.frames = loop[n].frames
  <2> HIDE DEF e
  <2>1. QED BY <1>a DEF Loops
<1>b. Turn(loop[n]) = end
  <2>1. ReadFrame(loop[n].rest) = e BY <1>6
  <2> HIDE DEF e
  <2>2. QED BY <1>6, <1>8, <2>1 DEF Turn
<1> HIDE DEF e
<1>c. Turn(end) = end
  <2> HIDE DEF end
  <2>1. QED BY <1>8, <1>9 DEF Turn
<1> HIDE DEF end
<1>10. 0 \in Reached
  <2>1. n + 1 + 0 \in 1..N /\ (n + 1 + 0) - 1 = n BY <1>0, <1>2, <1>3
  <2>2. QED BY <1>2, <1>b, <2>1
<1>11. ASSUME NEW m \in Nat, m \in Reached PROVE m + 1 \in Reached
  <2> SUFFICES ASSUME n + 1 + (m + 1) <= N PROVE loop[n + 1 + (m + 1)] = end
    OBVIOUS
  <2>1. n + 1 + (m + 1) \in 1..N /\ (n + 1 + (m + 1)) - 1 = n + 1 + m /\ n + 1 + m <= N BY <1>0, <1>2
  <2>2. QED BY <1>2, <1>11, <1>c, <2>1
<1> HIDE DEF Reached
<1>12. \A m \in Nat : m \in Reached BY <1>10, <1>11, NatSetInduction
<1>13. N - (n + 1) \in Nat /\ n + 1 + (N - (n + 1)) = N /\ N <= N BY <1>0, <1>2, <1>3
<1>14. N - (n + 1) \in Reached BY <1>12, <1>13
<1>15. loop[N] = end BY <1>13, <1>14 DEF Reached
<1>16. r = end BY <1>7, <1>15 DEF t
<1>17. QED BY <1>4, <1>6, <1>9, <1>16

-----------------------------------------------------------------------------
\* Streams, oversized headers and length prefixes.

\* A boundary at the cut is the last one before it.
LEMMA BoundaryAt ==
  ASSUME NEW P \in Seq(Framable), NEW cut \in Nat,
         NEW n \in 0..Len(P), EndOf(P, n) <= cut, n < Len(P) => cut < EndOf(P, n + 1),
         NEW k \in 0..Len(P), EndOf(P, k) <= cut
  PROVE  k = n \/ (k < n /\ EndOf(P, k) + 4 <= EndOf(P, n))
<1>0. Len(P) \in Nat /\ n \in Nat /\ k \in Nat /\ EndOf(P, k) \in Nat /\ EndOf(P, n) \in Nat BY EndsAt, LenProperties
<1>1. CASE k < n
  <2>1. n \in k..Len(P) BY <1>0, <1>1
  <2>2. EndOf(P, n) >= EndOf(P, k) + 4 * (n - k) BY <2>1, EndsGrow
  <2>3. QED BY <1>0, <1>1, <2>2
<1>2. CASE k > n
  <2>1. n + 1 \in 0..Len(P) /\ k \in (n + 1)..Len(P) /\ n < Len(P) BY <1>0, <1>2
  <2>2. EndOf(P, k) >= EndOf(P, n + 1) + 4 * (k - (n + 1)) BY <2>1, EndsGrow
  <2>3. EndOf(P, n + 1) \in Nat /\ k - (n + 1) \in Nat BY <1>0, <2>1, EndsAt
  <2>4. cut < EndOf(P, n + 1) BY <2>1
  <2>5. QED BY <1>0, <2>2, <2>3, <2>4
<1>3. QED BY <1>0, <1>1, <1>2

\* ReadFrame in a loop gives back exactly the payloads that WriteFrame wrote before
\* the cut and names the place of the cut, for every stream of payloads up to
\* MaxFrameSize and every cut.
THEOREM StreamsSurvive ==
  ASSUME NEW P \in Seq(Framable), NEW cut \in Nat
  PROVE  FramesSurvive(P, cut)
<1> DEFINE w == Written(P)
           L == Len(P)
           stream == w[L]
           r == ReadAll(Take(stream, cut))
           ends == {Len(w[k]) : k \in 0..L}
           headers == {e + 4 : e \in ends}
<1> SUFFICES ASSUME cut <= Len(stream)
             PROVE  /\ \E n \in 0..L : /\ r.frames = Take(P, n)
                                       /\ Len(w[n]) <= cut
                                       /\ n < L => cut < Len(w[n + 1])
                    /\ (r.last.status = "EOF") <=> (cut \in ends)
                    /\ IsEOF(r.last) <=> (cut \in ends \cup headers)
  BY Zenon DEF FramesSurvive
<1>0. cut <= EndOf(P, L) BY DEF EndOf
<1>1. PICK n \in 0..L : EndOf(P, n) <= cut /\ (n < L => cut < EndOf(P, n + 1)) BY LastBoundary
<1>2. r.frames = Take(P, n) /\ CutAt(r.last, cut - EndOf(P, n)) BY <1>0, <1>1, LoopEnds DEF CutStream
<1>3. \A k \in 0..L : EndOf(P, k) = Len(w[k]) BY DEF EndOf
<1>4. \A k \in 0..L : EndOf(P, k) \in Nat BY EndsAt
<1>5. \A k \in 0..L : EndOf(P, k) <= cut => k = n \/ (k < n /\ EndOf(P, k) + 4 <= EndOf(P, n)) BY <1>1, BoundaryAt
<1>6. cut \in ends <=> cut = EndOf(P, n)
  <2>1. ASSUME cut \in ends PROVE cut = EndOf(P, n)
    <3>1. PICK k \in 0..L : cut = EndOf(P, k) BY <1>3, <2>1
    <3>2. QED BY <1>1, <1>4, <1>5, <3>1
  <2>2. ASSUME cut = EndOf(P, n) PROVE cut \in ends BY <1>3, <2>2
  <2>3. QED BY <2>1, <2>2
<1>7. cut \in ends \cup headers <=> cut = EndOf(P, n) \/ cut = EndOf(P, n) + 4
  <2>1. ASSUME cut \in headers PROVE cut = EndOf(P, n) \/ cut = EndOf(P, n) + 4
    <3>1. PICK k \in 0..L : cut = EndOf(P, k) + 4 BY <1>3, <2>1
    <3>2. EndOf(P, k) <= cut BY <1>4, <3>1
    <3>3. CASE k = n BY <3>1, <3>3
    <3>4. CASE k # n
      <4>1. EndOf(P, k) + 4 <= EndOf(P, n) BY <1>5, <3>2, <3>4
      <4>2. QED BY <1>1, <1>4, <3>1, <4>1
    <3>5. QED BY <3>3, <3>4
  <2>2. ASSUME cut = EndOf(P, n) + 4 PROVE cut \in headers BY <1>3, <2>2
  <2> HIDE DEF ends, headers
  <2>3. QED BY <1>6, <2>1, <2>2
<1> DEFINE c == cut - EndOf(P, n)
<1>8. (c = 0 <=> cut = EndOf(P, n)) /\ (c = 4 <=> cut = EndOf(P, n) + 4) BY <1>4
<1> HIDE DEF r, ends, headers, c
<1>9. (r.last.status = "EOF" <=> c = 0) /\ (r.last.status = "payload EOF" <=> c = 4) BY <1>2 DEF CutAt, c
<1>10. (r.last.status = "EOF") <=> (cut \in ends) BY <1>6, <1>8, <1>9, Zenon
<1>11. IsEOF(r.last) <=> (cut \in ends \cup headers)
  <2>1. IsEOF(r.last) <=> r.last.status = "EOF" \/ r.last.status = "payload EOF" BY Zenon DEF IsEOF
  <2>2. QED BY <1>7, <1>8, <1>9, <2>1, Zenon
<1>12. r.frames = Take(P, n) /\ Len(w[n]) <= cut /\ (n < L => cut < Len(w[n + 1])) BY <1>1, <1>2 DEF EndOf
<1>13. QED BY <1>10, <1>11, <1>12

\* ReadFrame refuses exactly the headers that announce more than MaxFrameSize,
\* before it reads any of the payload.
THEOREM OversizedRefused ==
  ASSUME NEW b \in Seq(Nat), Len(b) >= 4
  PROVE  OversizeRefused(b)
<1> DEFINE n == Uint32(b)
<1>1. b # <<>> /\ ~(Len(b) < 4) OBVIOUS
<1>2. n \in Nat BY Uint32Typed
<1> HIDE DEF n
<1>3. ReadFrame(b) = IF n = 0 THEN Res("ok", <<>>)
                       ELSE IF n > MaxFrameSize THEN Res("oversized", <<>>)
                       ELSE IF Len(b) - 4 < n THEN Res(IF Len(b) = 4 THEN "payload EOF" ELSE "payload cut", <<>>)
                       ELSE Res("ok", SubSeq(b, 5, n + 4))
  BY <1>1 DEF ReadFrame, n
<1>4. n > MaxFrameSize => n # 0 BY <1>2, Limit
<1>5. (ReadFrame(b).status = "oversized") <=> n > MaxFrameSize
  <2>1. CASE n > MaxFrameSize BY <1>3, <1>4, <2>1 DEF Res
  <2>2. CASE ~(n > MaxFrameSize)
    <3>1. \A st, x : Res(st, x).status = st BY DEF Res
    <3>2. CASE n = 0 BY <1>3, <2>2, <3>1, <3>2
    <3>3. CASE n # 0 /\ Len(b) - 4 < n /\ Len(b) = 4
      <4>1. ReadFrame(b) = Res("payload EOF", <<>>) BY <1>3, <2>2, <3>3, Zenon
      <4>2. ReadFrame(b).status = "payload EOF" BY <3>1, <4>1
      <4>3. QED BY <2>2, <4>2, Zenon
    <3>4. CASE n # 0 /\ Len(b) - 4 < n /\ Len(b) # 4
      <4>1. ReadFrame(b) = Res("payload cut", <<>>) BY <1>3, <2>2, <3>4, Zenon
      <4>2. ReadFrame(b).status = "payload cut" BY <3>1, <4>1
      <4>3. QED BY <2>2, <4>2, Zenon
    <3>5. CASE n # 0 /\ ~(Len(b) - 4 < n) BY <1>3, <2>2, <3>1, <3>5
    <3>6. QED BY <3>2, <3>3, <3>4, <3>5
  <2>3. QED BY <2>1, <2>2
<1>6. QED BY <1>5 DEF OversizeRefused, n

\* What starts with another byte than 0 announces 2^24 bytes or more.
LEMMA Announces ==
  ASSUME NEW b \in Seq(Nat), Len(b) >= 4, b[1] # 0
  PROVE  Uint32(b) > MaxFrameSize + MaxFrameSize
<1> DEFINE c1 == b[1]
           c2 == b[2]
           c3 == b[3]
           c4 == b[4]
<1>1. c1 \in Nat /\ c2 \in Nat /\ c3 \in Nat /\ c4 \in Nat /\ c1 # 0 BY ElementOfSeq
<1>2. 2^24 = 16777216 /\ 2^16 = 65536 /\ 2^8 = 256 /\ 2^30 = 1073741824 BY SMT
<1>3. Uint32(b) = IF c1 >= 64 THEN Huge ELSE c1 * 16777216 + c2 * 65536 + c3 * 256 + c4
  BY <1>2, SMT DEF Uint32
<1> HIDE DEF c1, c2, c3, c4
<1>4. Huge = 1073741824 BY <1>2, SMT DEF Huge
<1>5. QED BY <1>1, <1>3, <1>4, SMT DEF MaxFrameSize

\* stripLengthPrefix leaves every protobuf frame up to MaxFrameSize as it is, framed
\* or relayed bare: a field number is never 0, so no bare frame looks framed.
THEOREM PrefixesTransparent ==
  ASSUME NEW proto \in Framable, proto # <<>> => proto[1] # 0
  PROVE  PrefixTransparent(proto)
<1> DEFINE w == lengthPrefix(proto)
           n == Len(proto)
<1>0. proto \in Seq(Nat) /\ n \in Nat /\ n <= MaxFrameSize /\ Framed(w, proto)
  <2>1. w = WriteFrame(proto) BY DEF lengthPrefix, WriteFrame
  <2>2. QED BY <2>1, FrameTyped DEF Framable
<1>1. Direct(proto) = proto
  <2>1. CASE n < 4 BY <2>1 DEF Direct, stripLengthPrefix
  <2>2. CASE n >= 4
    <3>1. proto # <<>> BY <1>0, <2>2
    <3>2. Uint32(proto) > MaxFrameSize + MaxFrameSize BY <1>0, <2>2, <3>1, Announces
    <3>3. Uint32(proto) \in Nat BY <1>0, <2>2, Uint32Typed
    <3> HIDE DEF n
    <3>4. 4 + Uint32(proto) > n BY <1>0, <3>2, <3>3, Limit
    <3>5. QED BY <3>4 DEF Direct, stripLengthPrefix, n
  <2>3. QED BY <1>0, <2>1, <2>2
<1>2. w \in Seq(Nat) /\ Len(w) = 4 + n /\ Uint32(w) = n
  <2>1. w \in Seq(Nat) /\ Len(w) = 4 + n /\ Starts(w, PutUint32(n)) BY <1>0 DEF Framed
  <2>2. n < Huge BY <1>0, Limit
  <2> HIDE DEF w, n
  <2>3. Uint32(w) = n BY <1>0, <2>1, <2>2, Announced
  <2>4. QED BY <2>1, <2>3
<1>3. CASE proto = <<>>
  <2>1. n = 0 BY <1>3
  <2>2. Direct(w) = w
    <3> HIDE DEF w, n
    <3>1. QED BY <1>2, <2>1 DEF Direct, stripLengthPrefix
  <2>3. Relayed(w) = Direct(w) BY <2>2 DEF Relayed, Direct
  <2>4. w = <<0, 0, 0, 0>>
    <3>1. 0 \div 16777216 = 0 /\ (0 \div 65536) % 256 = 0 /\ (0 \div 256) % 256 = 0 /\ 0 % 256 = 0 BY SMT
    <3>2. 2^24 = 16777216 /\ 2^16 = 65536 /\ 2^8 = 256 BY SMT
    <3>3. PutUint32(0) = <<0, 0, 0, 0>> BY <3>1, <3>2, SMT DEF PutUint32
    <3>4. w = <<0, 0, 0, 0>> \o <<>> BY <1>3, <2>1, <3>3 DEF lengthPrefix
    <3>5. <<0, 0, 0, 0>> \in Seq(Nat) OBVIOUS
    <3>6. QED BY <3>4, <3>5, ConcatEmptySeq
  <2> HIDE DEF w
  <2>5. QED BY <1>1, <1>3, <2>2, <2>3, <2>4 DEF PrefixTransparent, w
<1>4. CASE proto # <<>>
  <2>1. n # 0 BY <1>0, <1>4, EmptySeq
  <2>2. SubSeq(w, 5, 4 + n) = proto
    <3>1. Len(proto) < Huge BY <1>0, Limit
    <3>2. QED BY <1>0, <3>1, Unframed
  <2>3. stripLengthPrefix(w) = proto
    <3> HIDE DEF w, n
    <3>1. ~(Len(w) < 4) /\ Uint32(w) # 0 /\ ~(4 + Uint32(w) > Len(w)) BY <1>0, <1>2, <2>1
    <3>2. QED BY <1>2, <2>2, <3>1 DEF stripLengthPrefix
  <2>4. Direct(w) = proto /\ Relayed(w) = proto BY <1>1, <2>3 DEF Direct, Relayed
  <2> HIDE DEF w
  <2>5. QED BY <1>1, <1>4, <2>4 DEF PrefixTransparent, w
<1>5. QED BY <1>3, <1>4

-----------------------------------------------------------------------------
\* Signaling messages over the WebSocket.

\* What Marshal gives: an encoding of its own per body.
Marshals(codec) ==
  /\ \A k \in DOMAIN codec : codec[k] \in Framable
  /\ \A k, l \in DOMAIN codec : codec[k] = codec[l] => k = l
  /\ \A i \in 1..6 : BodyKinds[i] \in DOMAIN codec

\* The six bodies of a signaling message.
LEMMA SixKinds ==
  /\ DOMAIN BodyKinds = 1..6
  /\ Range(BodyKinds) = {BodyKinds[i] : i \in 1..6}
<1>1. DOMAIN BodyKinds = 1..6 BY DEF BodyKinds
<1>2. Range(BodyKinds) = {BodyKinds[i] : i \in DOMAIN BodyKinds} BY Zenon DEF Range
<1>3. QED BY <1>1, <1>2, Zenon

\* One body over the WebSocket: marshalled, sent, unmarshalled, with the room
\* the server fills in.
LEMMA HopKeeps ==
  ASSUME NEW codec, Marshals(codec), NEW room, NEW i \in 1..6
  PROVE  readFrame(codec, room, writeFrame(codec, [service |-> "", body |-> BodyKinds[i]]))
           = [ok |-> TRUE, pb |-> [service |-> room, body |-> BodyKinds[i]]]
<1> DEFINE k == BodyKinds[i]
           p == codec[k]
           data == writeFrame(codec, [service |-> "", body |-> k])
           n == Uint32(data)
           is == {l \in DOMAIN codec : codec[l] = SubSeq(data, 5, 4 + n)}
<1>1. k \in DOMAIN codec /\ p \in Framable BY DEF Marshals
<1>2. data = WriteFrame(p) BY DEF writeFrame, WriteFrame
<1>3. Framed(data, p) /\ p \in Seq(Nat) /\ Len(p) \in Nat 
  BY <1>1, <1>2, FrameTyped
<1>4. Len(p) < Huge BY <1>1, FrameTyped
<1> HIDE DEF data, p, k
<1>5. Len(data) = 4 + Len(p) /\ n = Len(p) /\ SubSeq(data, 5, 4 + Len(p)) = p BY <1>3, <1>4, Unframed
<1>6. is = {k}
  <2>1. is = {l \in DOMAIN codec : codec[l] = codec[k]} BY <1>5 DEF p
  <2>2. QED BY <1>1, <2>1 DEF Marshals
<1>7. (CHOOSE l \in is : TRUE) = k
  <2> HIDE DEF is
  <2>1. \E l \in is : TRUE BY <1>6
  <2>2. (CHOOSE l \in is : TRUE) \in is BY <2>1
  <2>3. QED BY <1>6, <2>2
<1>8. ~(Len(data) < 4) /\ ~(Len(data) - 4 < n) /\ is # {}
  <2>1. \A x \in Nat : ~(4 + x < 4) /\ ~(4 + x - 4 < x) OBVIOUS
  <2>2. is # {} BY <1>6
  <2> HIDE DEF is, n
  <2>3. ~(4 + Len(p) < 4) /\ ~(4 + Len(p) - 4 < Len(p)) BY <1>3, <2>1, Zenon
  <2>4. Len(data) = 4 + Len(p) BY <1>5
  <2>5. n = Len(p) BY <1>5
  <2>6. ~(Len(data) < 4) BY <2>3, <2>4, Zenon
  <2>7. ~(Len(data) - 4 < n) BY <2>3, <2>4, <2>5
  <2>8. QED BY <2>2, <2>6, <2>7, Zenon
<1> HIDE DEF is, n
<1>9. readFrame(codec, room, data)
        = IF Len(data) < 4 \/ Len(data) - 4 < n \/ is = {} THEN [ok |-> FALSE]
          ELSE [ok |-> TRUE, pb |-> [service |-> room, body |-> CHOOSE l \in is : TRUE]]
  BY Zenon DEF readFrame, is, n
<1>10. readFrame(codec, room, data) = [ok |-> TRUE, pb |-> [service |-> room, body |-> k]]
  BY <1>7, <1>8, <1>9
<1>11. QED BY <1>10 DEF data, k

\* A signaling message keeps its body over the WebSocket, for every codec that
\* marshals different bodies differently, every room and every set of bodies.
THEOREM BodiesArrive ==
  ASSUME NEW codec, Marshals(codec), NEW room, NEW msg, msg.bodies \subseteq Range(BodyKinds)
  PROVE  BodiesSurvive(codec, room, msg)
<1> DEFINE Bs == msg.bodies
           set == {i \in DOMAIN BodyKinds : BodyKinds[i] \in Bs}
           i0 == CHOOSE i \in set : \A j \in set : i <= j
           out == toProtoMessage(msg)
           got == SignalHop(codec, room, msg)
<1>1. set = {} <=> Bs = {} BY SixKinds
<1>2. CASE Bs = {}
  <2>1. out = [ok |-> FALSE] BY <1>1, <1>2 DEF toProtoMessage
  <2>2. ~out.ok BY <2>1
  <2> HIDE DEF out
  <2>3. got = [ok |-> FALSE] BY <2>2, Zenon DEF SignalHop, out
  <2>4. ~got.ok BY <2>3
  <2> HIDE DEF got
  <2>5. QED BY <1>2, <2>4, Zenon DEF BodiesSurvive, got
<1>3. CASE Bs # {}
  <2>1. set # {} /\ set \in SUBSET Nat BY <1>1, <1>3, SixKinds
  <2>2. \E i \in set : \A j \in set : i <= j
    <3> HIDE DEF set
    <3>1. QED BY <2>1, LeastNat
  <2>3. i0 \in set
    <3> HIDE DEF set
    <3>1. QED BY <2>2
  <2>4. i0 \in 1..6 /\ BodyKinds[i0] \in Bs BY <2>3, SixKinds
  <2> DEFINE k == BodyKinds[i0]
             pb == [service |-> "", body |-> k]
             up == readFrame(codec, room, writeFrame(codec, pb))
  <2>5. out = [ok |-> TRUE, pb |-> pb] BY <2>1, Zenon DEF toProtoMessage
  <2> HIDE DEF set, i0
  <2>6. up = [ok |-> TRUE, pb |-> [service |-> room, body |-> k]] BY <2>4, HopKeeps
  <2>7. k \in Range(BodyKinds) BY <2>4, SixKinds
  <2> HIDE DEF pb, out, k
  <2>8. out.ok /\ out.pb = pb BY <2>5
  <2>9. up.ok /\ up.pb = [service |-> room, body |-> k] BY <2>6
  <2> HIDE DEF up
  <2>10. got = fromProtoMessage(up.pb)
    <3>1. got = IF ~out.ok THEN [ok |-> FALSE]
                ELSE LET u == readFrame(codec, room, writeFrame(codec, out.pb)) IN
                     IF ~u.ok THEN [ok |-> FALSE] ELSE fromProtoMessage(u.pb)
      BY Zenon DEF SignalHop, out
    <3>2. readFrame(codec, room, writeFrame(codec, out.pb)) = up BY <2>8 DEF up
    <3> HIDE DEF got
    <3>3. QED BY <2>8, <2>9, <3>1, <3>2, Zenon
  <2>11. got = [ok |-> TRUE, msg |-> [service |-> room, bodies |-> {k}]]
    <3>1. up.pb.body = k /\ up.pb.service = room BY <2>9
    <3> HIDE DEF got
    <3>2. QED BY <2>7, <2>10, <3>1 DEF fromProtoMessage
  <2>12. got.ok /\ got.msg.service = room /\ got.msg.bodies = {k}
    <3> HIDE DEF got
    <3>1. QED BY <2>11
  <2>13. Cardinality(Bs) = 1 => Bs = {k}
    <3>1. Cardinality(Bs) = Cardinality(Bs) BY Zenon DEF Cardinality, Cardinality
    <3>2. Bs \subseteq {BodyKinds[i] : i \in 1..6} BY SixKinds
    <3>3. IsFiniteSet(Bs)
      <4> DEFINE K == {BodyKinds[i] : i \in 1..6}
      <4>1. BodyKinds \in Seq(K) /\ Len(BodyKinds) = 6 BY DEF BodyKinds
      <4>a. \A x \in K : \E i \in 1..Len(BodyKinds) : BodyKinds[i] = x BY <4>1
      <4> HIDE DEF K
      <4>2. IsFiniteSet(K) BY <4>1, <4>a, Zenon DEF IsFiniteSet
      <4>3. QED BY <3>2, <4>2, FS_Subset DEF K
    <3>4. ASSUME Cardinality(Bs) = 1 PROVE Bs = {k}
      <4>1. PICK x : Bs = {x} BY <3>3, <3>4, FS_Singleton
      <4>2. k \in Bs BY <2>4 DEF k
      <4>3. QED BY <4>1, <4>2
    <3>5. QED BY <3>1, <3>4
  <2>14. k \in Bs BY <2>4 DEF k
  <2> HIDE DEF got
  <2>15. got.msg.bodies \subseteq Bs BY <2>12, <2>14
  <2>16. QED BY <1>3, <2>12, <2>13, <2>15, Zenon DEF BodiesSurvive, got
<1>4. QED BY <1>2, <1>3

-----------------------------------------------------------------------------
\* Sealing.

\* Bytes, and the contexts that EncryptionContext keeps.
Bytes == 0..255
Keyed == [ok : BOOLEAN, key : Nat, prefix : Nat, counter : Nat]

\* The digest is a number.
LEMMA DigestTyped ==
  ASSUME NEW text \in Seq(Bytes)
  PROVE  Digest(text)[Len(text)] \in Nat
<1> DEFINE L == Len(text)
           S == Nat
           d == [p \in S \X (1..L) |-> 7 * p[1] + text[p[2]] + 1]
<1>1. L \in Nat /\ \A i \in 1..L : text[i] \in Nat
  <2>1. L \in Nat BY LenProperties
  <2>2. \A i \in 1..L : text[i] \in Bytes BY ElementOfSeq
  <2>3. \A x \in Bytes : x \in Nat BY DEF Bytes
  <2> HIDE DEF L
  <2>4. QED BY <2>1, <2>2, <2>3, Zenon
<1>2. 0 \in S OBVIOUS
<1>3. \A s \in S, i \in 1..L : 7 * s + text[i] + 1 \in S BY <1>1
<1> HIDE DEF S, L
<1>4. d \in [S \X (1..L) -> S] BY <1>3
<1>5. \A s \in S, i \in 1..L : d[<<s, i>>] = 7 * s + text[i] + 1 OBVIOUS
<1> HIDE DEF d
<1>6. PICK f \in [0..L -> S] : f[0] = 0 /\ \A i \in 1..L : f[i] = d[<<f[i - 1], i>>]
  <2>1. Steps(S, 0, L, d) # {} BY <1>1, <1>2, <1>4, Iterates
  <2>2. QED BY <2>1 DEF Steps
<1>7. \A i \in 1..L : f[i] = 7 * f[i - 1] + text[i] + 1
  <2>1. \A i \in 1..L : f[i - 1] \in S BY <1>1, <1>6
  <2>2. QED BY <1>5, <1>6, <2>1
<1> DEFINE Is(g) == g = [n \in 0..L |-> IF n = 0 THEN 0 ELSE 7 * g[n - 1] + text[n] + 1]
<1>8. Is(f)
  <2>1. f = [n \in 0..L |-> f[n]] BY <1>6
  <2>2. \A n \in 0..L : f[n] = IF n = 0 THEN 0 ELSE 7 * f[n - 1] + text[n] + 1
    BY <1>1, <1>6, <1>7
  <2>3. QED BY <2>1, <2>2
<1>9. Digest(text) = CHOOSE g : Is(g) BY Zenon DEF Digest, L
<1>10. Is(Digest(text))
  <2> HIDE DEF Is
  <2>1. QED BY <1>8, <1>9, Zenon
<1> DEFINE s == Digest(text)
<1>11. s[0] = 0 /\ \A i \in 1..L : s[i] = 7 * s[i - 1] + text[i] + 1
  BY <1>1, <1>10
<1>12. s = [n \in 0..L |-> s[n]] BY <1>10
<1> HIDE DEF s, Is
<1>13. s \in [0..L -> S]
  <2>1. Follows(s, S, 0, L, d) BY <1>1, <1>5, <1>11, <1>12 DEF Follows
  <2>2. QED BY <1>1, <1>2, <1>4, <2>1, StaysIn
<1>14. s[L] \in S BY <1>1, <1>13
<1>15. QED BY <1>14 DEF L, S, s

\* The ciphertext without its tag.
Masked(ec, text) == [i \in DOMAIN text |-> (text[i] + ec.key) % 256]

\* The tag depends on the key, both parts of the nonce and the text.
LEMMA TagIs ==
  ASSUME NEW ec \in Keyed, NEW tail, tail[4] \in Nat, NEW text \in Seq(Bytes)
  PROVE  /\ Tag(ec, tail, text) \in Seq(Nat) /\ Len(Tag(ec, tail, text)) = 16
         /\ Tag(ec, tail, text)[1] = (ec.key + 3 * ec.prefix + 5 * tail[4] + Digest(text)[Len(text)]) % 251
<1> DEFINE dig == Digest(text)[Len(text)]
           B1 == ec.key + 3 * ec.prefix + 5 * tail[4]
           tag == [i \in 1..16 |-> (i * B1 + dig) % 251]
<1>1. dig \in Nat BY DigestTyped
<1>2. ec.key \in Nat /\ ec.prefix \in Nat BY DEF Keyed
<1>3. B1 \in Nat
  <2>1. \A x, y, z \in Nat : x + 3 * y + 5 * z \in Nat OBVIOUS
  <2>2. QED BY <1>2, <2>1, Zenon
<1>4. Tag(ec, tail, text) = tag BY DEF Tag, TagSize
<1> HIDE DEF dig, B1
<1>5. \A i \in 1..16 : (i * B1 + dig) % 251 \in Nat
  <2>1. \A i \in 1..16 : i * B1 + dig \in Nat BY <1>1, <1>3
  <2>2. \A x \in Nat : x % 251 \in Nat OBVIOUS
  <2>3. QED BY <2>1, <2>2
<1>6. tag \in Seq(Nat) /\ Len(tag) = 16 BY <1>5
<1>7. tag[1] = (B1 + dig) % 251 BY <1>3
<1>8. QED BY <1>4, <1>6, <1>7 DEF B1, dig

\* Quotient and remainder of a byte.
LEMMA DivMod ==
  ASSUME NEW z \in Nat
  PROVE  z = 256 * (z \div 256) + (z % 256) /\ z \div 256 \in Nat /\ z % 256 \in 0..255
OBVIOUS

\* Adding and subtracting the same key in 8 bits.
LEMMA Unmask ==
  ASSUME NEW x \in 0..255, NEW k \in Nat
  PROVE  (((x + k) % 256) + 256 - k) % 256 = x
<1> DEFINE y == (x + k) % 256
           q == (x + k) \div 256
<1>1. x + k \in Nat OBVIOUS
<1>2. x + k = 256 * q + y /\ q \in Nat /\ y \in 0..255 BY <1>1, DivMod
<1> HIDE DEF y, q
<1>3. y + 256 - k = 256 * (1 - q) + x /\ 1 - q \in Int BY <1>2
<1>4. \A z \in Int : (256 * z + x) % 256 = x OBVIOUS
<1>5. (y + 256 - k) % 256 = x BY <1>3, <1>4
<1>6. QED BY <1>5 DEF y

\* The ciphertext is as long as the text and masks it byte by byte.
LEMMA MaskedIs ==
  ASSUME NEW ec \in Keyed, NEW text \in Seq(Bytes)
  PROVE  /\ Masked(ec, text) \in Seq(Nat) /\ Len(Masked(ec, text)) = Len(text) /\ Len(text) \in Nat
         /\ \A i \in 1..Len(text) : (Masked(ec, text)[i] + 256 - ec.key) % 256 = text[i]
<1> DEFINE k == ec.key
           m == [i \in 1..Len(text) |-> (text[i] + k) % 256]
<1>1. k \in Nat BY DEF Keyed
<1>2. Len(text) \in Nat /\ DOMAIN text = 1..Len(text) BY LenProperties
<1>3. \A i \in 1..Len(text) : text[i] \in 0..255 BY ElementOfSeq DEF Bytes
<1>4. Masked(ec, text) = m BY <1>2 DEF Masked
<1> HIDE DEF k
<1>5. \A x \in 0..255 : (x + k) % 256 \in Nat BY <1>1
<1>6. \A x \in 0..255 : (((x + k) % 256) + 256 - k) % 256 = x BY <1>1, Unmask
<1>a. m \in [1..Len(text) -> Nat] BY <1>3, <1>5
<1>7. m \in Seq(Nat) /\ Len(m) = Len(text)
  <2> HIDE DEF m
  <2>1. QED BY <1>2, <1>a
<1>8. \A i \in 1..Len(text) : (m[i] + 256 - k) % 256 = text[i] BY <1>3, <1>6
<1>9. QED BY <1>2, <1>4, <1>7, <1>8 DEF k

\* Seal is the masked text and then the tag.
LEMMA SealIs ==
  ASSUME NEW ec \in Keyed, NEW tail, tail[4] \in Nat, NEW text \in Seq(Bytes)
  PROVE  /\ Seal(ec, tail, text) = Masked(ec, text) \o Tag(ec, tail, text)
         /\ Seal(ec, tail, text) \in Seq(Nat) /\ Len(Seal(ec, tail, text)) = Len(text) + 16
         /\ \A i \in 1..Len(text) : Seal(ec, tail, text)[i] = Masked(ec, text)[i]
         /\ Seal(ec, tail, text)[Len(text) + 1] = Tag(ec, tail, text)[1]
<1> DEFINE u == Masked(ec, text)
           f == Tag(ec, tail, text)
<1>1. Seal(ec, tail, text) = u \o f BY DEF Seal, Masked
<1>2. u \in Seq(Nat) /\ Len(u) = Len(text) /\ Len(text) \in Nat BY MaskedIs
<1>3. f \in Seq(Nat) /\ Len(f) = 16 BY TagIs
<1> HIDE DEF u, f
<1>4. u \in Seq(Nat) BY <1>2
<1>5. f \in Seq(Nat) BY <1>3
<1>6. u \o f \in Seq(Nat) BY <1>4, <1>5, Concat, Zenon
<1>7. Len(u \o f) = Len(u) + Len(f) BY <1>4, <1>5, Concat, Zenon
<1>8. \A i \in 1..Len(u) : (u \o f)[i] = u[i] BY <1>4, <1>5, Concat
<1>9. 1 \in 1..Len(f) BY <1>3
<1>10. (u \o f)[Len(u) + 1] = f[1] BY <1>4, <1>5, <1>9, ConcatAt
<1>11. Len(u \o f) = Len(text) + 16 BY <1>2, <1>3, <1>7
<1>12. QED BY <1>1, <1>2, <1>6, <1>8, <1>10, <1>11 DEF u, f

\* Open with the key that sealed gives the text back exactly if the tags agree.
LEMMA Opens ==
  ASSUME NEW ec \in Keyed, NEW fc \in Keyed, fc.key = ec.key, NEW tail, tail[4] \in Nat, NEW text \in Seq(Bytes)
  PROVE  Open(fc, tail, Seal(ec, tail, text))
           = IF Seal(fc, tail, text) = Seal(ec, tail, text) THEN Res("ok", text) ELSE Res("GCM", <<>>)
<1> DEFINE c == Seal(ec, tail, text)
           n == Len(c) - 16
           back == [i \in 1..n |-> (c[i] + 256 - fc.key) % 256]
<1>1. /\ Len(c) = Len(text) + 16
      /\ \A i \in 1..Len(text) : c[i] = Masked(ec, text)[i]
  BY SealIs
<1>2. Len(text) \in Nat /\ \A i \in 1..Len(text) : (Masked(ec, text)[i] + 256 - ec.key) % 256 = text[i] BY MaskedIs
<1> HIDE DEF c
<1>3. n = Len(text) /\ ~(Len(c) < 16) BY <1>1, <1>2
<1>4. \A i \in 1..Len(text) : (c[i] + 256 - fc.key) % 256 = text[i] BY <1>1, <1>2
<1>5. text = [i \in 1..Len(text) |-> text[i]] BY LenProperties
<1>6. back = text
  <2> HIDE DEF n
  <2>1. back = [i \in 1..Len(text) |-> text[i]] BY <1>3, <1>4
  <2>2. QED BY <1>5, <2>1
<1> HIDE DEF n
<1>7. Open(fc, tail, c) = IF Len(c) < 16 \/ Seal(fc, tail, back) # c THEN Res("GCM", <<>>) ELSE Res("ok", back)
  BY Zenon DEF Open, TagSize, n
<1> HIDE DEF back
<1>8. QED BY <1>3, <1>6, <1>7 DEF c

\* Two contexts of one direction seal alike.
LEMMA SealsAlike ==
  ASSUME NEW ec \in Keyed, NEW fc \in Keyed, fc.key = ec.key, fc.prefix = ec.prefix, NEW tail, NEW text
  PROVE  Seal(fc, tail, text) = Seal(ec, tail, text)
BY DEF Seal, Tag

\* A context with the other direction's nonce prefix has another tag.
LEMMA SealsDiffer ==
  ASSUME NEW ec \in Keyed, NEW fc \in Keyed, fc.key = ec.key, fc.prefix = ec.prefix + 1,
         NEW tail, tail[4] \in Nat, NEW text \in Seq(Bytes)
  PROVE  Seal(fc, tail, text) # Seal(ec, tail, text)
<1> DEFINE x == ec.key + 3 * ec.prefix + 5 * tail[4] + Digest(text)[Len(text)]
           y == fc.key + 3 * fc.prefix + 5 * tail[4] + Digest(text)[Len(text)]
<1>1. Seal(ec, tail, text)[Len(text) + 1] = x % 251
  <2>1. Seal(ec, tail, text)[Len(text) + 1] = Tag(ec, tail, text)[1] BY SealIs
  <2>2. QED BY <2>1, TagIs
<1>2. Seal(fc, tail, text)[Len(text) + 1] = y % 251
  <2>1. Seal(fc, tail, text)[Len(text) + 1] = Tag(fc, tail, text)[1] BY SealIs
  <2>2. Tag(fc, tail, text)[1] = y % 251 BY TagIs
  <2>3. QED BY <2>1, <2>2
<1>3. ec.key \in Nat /\ ec.prefix \in Nat BY DEF Keyed
<1>4. x \in Nat /\ y = x + 3
  <2> DEFINE a == ec.key
             b == ec.prefix
             c == tail[4]
             d == Digest(text)[Len(text)]
  <2>1. a \in Nat /\ b \in Nat /\ c \in Nat /\ d \in Nat BY <1>3, DigestTyped
  <2>2. x = a + 3 * b + 5 * c + d /\ y = a + 3 * (b + 1) + 5 * c + d OBVIOUS
  <2> HIDE DEF a, b, c, d, x, y
  <2>3. QED BY <2>1, <2>2
<1> HIDE DEF x, y
<1>5. (x + 3) % 251 # x % 251 BY <1>4
<1>6. QED BY <1>1, <1>2, <1>4, <1>5

-----------------------------------------------------------------------------
\* Encrypt and Decrypt.

\* The second part of a concatenation.
LEMMA SecondPart ==
  ASSUME NEW u \in Seq(Nat), NEW f \in Seq(Nat)
  PROVE  \A j \in 1..Len(f) : (u \o f)[Len(u) + j] = f[j]
<1>1. ASSUME NEW j \in 1..Len(f) PROVE (u \o f)[Len(u) + j] = f[j] BY ConcatAt
<1>2. QED BY <1>1

\* Decrypt on what another layer framed.
LEMMA DecryptIs ==
  ASSUME NEW fc, NEW tail \in Seq(Nat), Len(tail) = 4, NEW c \in Seq(Nat), 4 + Len(c) < Huge
  PROVE  Decrypt(fc, WriteFrame(tail \o c)) = Open(fc, tail, c)
<1> DEFINE body == tail \o c
           w == WriteFrame(body)
           n == Uint32(w)
<1>1. Len(c) \in Nat BY LenProperties
<1>2. body \in Seq(Nat) BY Concat, Zenon
<1>3. Len(body) = Len(tail) + Len(c) BY Concat, Zenon
<1>a. \A i \in 1..Len(tail) : body[i] = tail[i] BY Concat
<1>b. \A j \in 1..Len(c) : body[Len(tail) + j] = c[j] BY SecondPart
<1>4. /\ \A i \in 1..4 : body[i] = tail[i]
      /\ \A j \in 1..Len(c) : body[4 + j] = c[j]
  BY <1>a, <1>b
<1> HIDE DEF body
<1>5. Len(body) = 4 + Len(c) /\ Len(body) < Huge BY <1>3
<1>6. Framed(w, body) BY <1>2, <1>5, WriteIs
<1>7. Len(w) = 4 + Len(body) /\ n = Len(body) /\ SubSeq(w, 5, 4 + Len(body)) = body BY <1>2, <1>5, <1>6, Unframed
<1> HIDE DEF w, n
<1>8. Take(body, 4) = tail
  <2>1. Len(body) \in Nat /\ 4 \in 0..Len(body) BY <1>1, <1>5
  <2>2. Take(body, 4) \in Seq(Nat) /\ Len(Take(body, 4)) = 4 /\ \A j \in 1..4 : Take(body, 4)[j] = body[j]
    BY <1>2, <2>1, TakeIs
  <2>3. \A j \in 1..Len(Take(body, 4)) : Take(body, 4)[j] = tail[j] BY <1>4, <2>2
  <2>4. QED BY <2>2, <2>3, SeqEqual
<1>9. Drop(body, 4) = c
  <2>1. 4 \in Nat /\ 4 <= Len(body) /\ Len(body) - 4 = Len(c) BY <1>1, <1>5
  <2>2. Drop(body, 4) \in Seq(Nat) /\ Len(Drop(body, 4)) = Len(body) - 4 BY <1>2, <2>1, DropIs
  <2>3. \A j \in 1..(Len(body) - 4) : Drop(body, 4)[j] = body[4 + j] BY <1>2, <2>1, DropIs
  <2>4. \A j \in 1..Len(Drop(body, 4)) : Drop(body, 4)[j] = c[j] BY <1>4, <2>1, <2>2, <2>3
  <2>5. QED BY <2>1, <2>2, <2>4, SeqEqual
<1>10. ~(Len(w) < 4) /\ ~(Len(w) < 4 + n) /\ ~(Len(body) < 4)
  <2>1. Len(body) \in Nat BY <1>2, LenProperties
  <2>2. Len(w) = 4 + Len(body) /\ n = Len(body) BY <1>7
  <2>3. QED BY <1>1, <1>5, <2>1, <2>2
<1>11. Decrypt(fc, w) = LET b == SubSeq(w, 5, 4 + n) IN
                          IF Len(w) < 4 \/ Len(w) < 4 + n \/ Len(b) < 4 THEN Res("short", <<>>)
                          ELSE Open(fc, Take(b, 4), Drop(b, 4))
  BY Zenon DEF Decrypt, n
<1>12. SubSeq(w, 5, 4 + n) = body BY <1>7
<1>13. QED BY <1>8, <1>9, <1>10, <1>11, <1>12 DEF w, body

\* What announces less than a nonce tail and a tag does not decrypt.
LEMMA TooShort ==
  ASSUME NEW fc, NEW w \in Seq(Nat), Len(w) >= 4, Uint32(w) < 20
  PROVE  Decrypt(fc, w).status # "ok"
<1> DEFINE n == Uint32(w)
           b == SubSeq(w, 5, 4 + n)
           c == Drop(b, 4)
<1>1. n \in Nat /\ n < 20 BY Uint32Typed
<1>2. Decrypt(fc, w) = IF Len(w) < 4 \/ Len(w) < 4 + n \/ Len(b) < 4 THEN Res("short", <<>>)
                         ELSE Open(fc, Take(b, 4), c)
  BY Zenon DEF Decrypt
<1>3. CASE Len(w) < 4 \/ Len(w) < 4 + n \/ Len(b) < 4
  <2>1. Decrypt(fc, w) = Res("short", <<>>) BY <1>2, <1>3, Zenon
  <2>2. QED BY <2>1 DEF Res
<1>4. CASE ~(Len(w) < 4 \/ Len(w) < 4 + n \/ Len(b) < 4)
  <2> HIDE DEF n
  <2>1. b \in Seq(Nat) /\ Len(b) = n BY <1>1, <1>4
  <2>2. 4 <= Len(b) BY <1>1, <1>4, <2>1
  <2> HIDE DEF b
  <2>3. Len(c) = n - 4
    <3>1. 4 \in Nat OBVIOUS
    <3>2. QED BY <2>1, <2>2, <3>1, DropIs
  <2> HIDE DEF c
  <2>4. Len(c) < 16 BY <1>1, <2>3
  <2>5. Open(fc, Take(b, 4), c) = Res("GCM", <<>>) BY <2>4, Zenon DEF Open, TagSize
  <2>6. Decrypt(fc, w) = Res("GCM", <<>>) BY <1>2, <1>4, <2>5, Zenon
  <2>7. QED BY <2>6 DEF Res
<1>5. QED BY <1>3, <1>4

\* Decrypt undoes Encrypt for every text that fits a frame, within the direction and
\* until the counter is spent, and never behind transport.Channel.Recv.
THEOREM SealsHold ==
  ASSUME NEW a \in Nat, NEW b \in Nat, NEW info \in Nat, NEW text \in Seq(Bytes), NEW counter \in 0..18,
         Len(text) + 20 <= MaxFrameSize
  PROVE  SealedTravels(a, b, info, text, counter)
<1> DEFINE ka == DeriveKey(a, b, info)
           kb == DeriveKey(b, a, info)
           kc == DeriveKey(b, a, info + 1)
           ec == [NewEncryptedChannel(ka.key, ka.prefix) EXCEPT !.counter = counter]
           eb == NewEncryptedChannel(kb.key, kb.prefix)
           ew == NewEncryptedChannel(kc.key, kc.prefix)
           sealed == Encrypt(ec, text)
           tail == PutUint32(counter + 1)
           c == Seal(ec, tail, text)
           body == tail \o c
<1>1. /\ ec \in Keyed /\ ec.key = 1 + a + b /\ ec.prefix = info /\ ec.counter = counter
      /\ eb \in Keyed /\ eb.key = ec.key /\ eb.prefix = ec.prefix
      /\ ew \in Keyed /\ ew.key = ec.key /\ ew.prefix = ec.prefix + 1
  <2>1. ka = [key |-> 1 + a + b, prefix |-> info] /\ kb = [key |-> 1 + a + b, prefix |-> info]
        /\ kc = [key |-> 1 + a + b, prefix |-> info + 1]
    BY DEF DeriveKey
  <2>2. \A k \in Nat, p \in Nat : /\ NewEncryptedChannel(k, p) \in Keyed
                                  /\ NewEncryptedChannel(k, p).key = k /\ NewEncryptedChannel(k, p).prefix = p
    BY DEF NewEncryptedChannel, Keyed
  <2>3. ka.key = 1 + a + b /\ ka.prefix = info /\ kb.key = 1 + a + b /\ kb.prefix = info
        /\ kc.key = 1 + a + b /\ kc.prefix = info + 1
    BY <2>1
  <2> HIDE DEF ka, kb, kc
  <2>4. 1 + a + b \in Nat /\ info + 1 \in Nat /\ counter \in Nat OBVIOUS
  <2> DEFINE e0 == NewEncryptedChannel(ka.key, ka.prefix)
  <2>5. e0 \in Keyed /\ e0.key = 1 + a + b /\ e0.prefix = info BY <2>2, <2>3, <2>4
  <2>6. eb \in Keyed /\ eb.key = 1 + a + b /\ eb.prefix = info BY <2>2, <2>3, <2>4
  <2>7. ew \in Keyed /\ ew.key = 1 + a + b /\ ew.prefix = info + 1 BY <2>2, <2>3, <2>4
  <2>8. ec \in Keyed /\ ec.key = e0.key /\ ec.prefix = e0.prefix /\ ec.counter = counter
    <3>1. \A x \in Keyed, n \in Nat : LET y == [x EXCEPT !.counter = n] IN
            y \in Keyed /\ y.key = x.key /\ y.prefix = x.prefix /\ y.counter = n
      BY DEF Keyed
    <3>2. ec = [e0 EXCEPT !.counter = counter] OBVIOUS
    <3> HIDE DEF e0, ec
    <3>3. QED BY <2>4, <2>5, <3>1, <3>2
  <2> HIDE DEF ec, eb, ew, e0
  <2>9. QED BY <2>5, <2>6, <2>7, <2>8
<1> DEFINE m == counter + 1
<1>2. m \in Nat /\ m \in 1..19 /\ m < Huge
  <2>1. m \in Nat /\ m < 20 OBVIOUS
  <2>2. Huge > 20
    <3>1. 2^30 = 1073741824 BY SMT
    <3>2. QED BY <3>1, SMT DEF Huge
  <2>3. Huge \in Nat BY Limit
  <2> HIDE DEF m
  <2>4. m < Huge BY <2>1, <2>2, <2>3
  <2>5. QED BY <2>4 DEF m
<1>3. tail \in Seq(Nat) /\ Len(tail) = 4 BY <1>2, PutGet
<1>4. sealed = WriteFrame(body)
  <2>1. ec.counter = counter BY <1>1
  <2> HIDE DEF ec
  <2>2. QED BY <2>1, Zenon DEF Encrypt, WriteFrame
<1> HIDE DEF ka, kb, kc, ec, eb, ew, sealed, tail, c, body, m
<1>5. tail[4] \in Nat
  <2>1. 4 \in 1..Len(tail) BY <1>3
  <2>2. QED BY <1>3, <2>1, ElementOfSeq
<1>6. c \in Seq(Nat) /\ Len(c) = Len(text) + 16 BY <1>1, <1>5, SealIs DEF c
<1>7. Len(text) \in Nat /\ 4 + Len(c) = Len(text) + 20 /\ 4 + Len(c) <= MaxFrameSize /\ 4 + Len(c) < Huge
  <2>1. Len(text) \in Nat BY LenProperties
  <2>2. Len(c) = Len(text) + 16 BY <1>6
  <2>3. QED BY <2>1, <2>2, Limit
<1>8. \A fc \in Keyed : Decrypt(fc, sealed) = Open(fc, tail, c) BY <1>3, <1>4, <1>6, <1>7, DecryptIs DEF body
<1>9. Open(eb, tail, c) = Res("ok", text) /\ Open(ec, tail, c) = Res("ok", text)
  <2>1. Seal(eb, tail, text) = Seal(ec, tail, text) BY <1>1, SealsAlike
  <2>2. QED BY <1>1, <1>5, <2>1, Opens DEF c
<1>10. Open(ew, tail, c).status # "ok"
  <2>1. Seal(ew, tail, text) # Seal(ec, tail, text) BY <1>1, <1>5, SealsDiffer
  <2>2. Open(ew, tail, c) = Res("GCM", <<>>) BY <1>1, <1>5, <2>1, Opens DEF c
  <2>3. QED BY <2>2 DEF Res
<1>11. body \in Seq(Nat) /\ Len(body) = 4 + Len(c) /\ Starts(body, tail)
  <2>1. body \in Seq(Nat) BY <1>3, <1>6, Concat DEF body
  <2>2. Len(body) = Len(tail) + Len(c) BY <1>3, <1>6, Concat DEF body
  <2>3. \A i \in 1..Len(tail) : body[i] = tail[i] BY <1>3, <1>6, Concat DEF body
  <2>4. Len(tail) <= Len(body) BY <1>3, <1>7, <2>2
  <2>5. QED BY <1>3, <2>1, <2>2, <2>3, <2>4 DEF Starts
<1>12. Uint32(body) = m /\ Len(body) >= 4 BY <1>2, <1>11, Announced DEF tail, m
<1>13. stripLengthPrefix(sealed) = body
  <2>1. Len(body) < Huge BY <1>7, <1>11
  <2>2. Framed(sealed, body) BY <1>4, <1>11, <2>1, WriteIs
  <2>3. Len(sealed) = 4 + Len(body) /\ Len(body) \in Nat /\ Uint32(sealed) = Len(body) /\ SubSeq(sealed, 5, 4 + Len(body)) = body
    BY <1>11, <2>1, <2>2, Unframed
  <2>4. ~(Len(sealed) < 4) /\ Uint32(sealed) # 0 /\ ~(4 + Uint32(sealed) > Len(sealed)) BY <1>12, <2>3
  <2>5. QED BY <2>3, <2>4 DEF stripLengthPrefix
<1>14. Decrypt(ec, Direct(sealed)).status # "ok"
  <2>1. Direct(sealed) = body BY <1>13 DEF Direct
  <2>2. m < 20 BY <1>2
  <2>3. QED BY <1>11, <1>12, <2>1, <2>2, TooShort
<1>15. Decrypt(ec, lengthPrefix(Direct(sealed))) = Res("ok", text)
  <2>1. lengthPrefix(body) = sealed BY <1>4 DEF lengthPrefix, WriteFrame
  <2>2. Direct(sealed) = body BY <1>13 DEF Direct
  <2>3. QED BY <1>1, <1>8, <1>9, <2>1, <2>2
<1>16. ASSUME m <= Len(text) + TagSize PROVE Decrypt(ec, lengthPrefix(Relayed(sealed))).status # "ok"
  <2> DEFINE u == SubSeq(body, 5, 4 + m)
             x == lengthPrefix(u)
  <2>1. m \in Nat /\ m # 0 /\ m < 20 /\ 4 + m <= Len(body)
    <3>1. m <= Len(text) + 16 BY <1>16 DEF TagSize
    <3>2. Len(body) = Len(text) + 20 BY <1>7, <1>11
    <3>3. QED BY <1>2, <1>7, <3>1, <3>2
  <2>2. Relayed(sealed) = u
    <3>1. Relayed(sealed) = stripLengthPrefix(body) BY <1>13 DEF Relayed
    <3>2. ~(Len(body) < 4) /\ ~(4 + m > Len(body)) BY <1>11, <1>12, <2>1
    <3>3. QED BY <1>12, <2>1, <3>1, <3>2 DEF stripLengthPrefix
  <2>3. u \in Seq(Nat) /\ Len(u) = m BY <1>11, <2>1
  <2> HIDE DEF u
  <2>4. x = WriteFrame(u) BY DEF lengthPrefix, WriteFrame
  <2>5. Len(u) < Huge BY <1>2, <2>3
  <2>6. Framed(x, u) BY <2>3, <2>4, <2>5, WriteIs
  <2> HIDE DEF x
  <2>7. x \in Seq(Nat) /\ Len(x) = 4 + Len(u) /\ Uint32(x) = Len(u) BY <2>3, <2>5, <2>6, Unframed
  <2>8. Len(x) >= 4 /\ Uint32(x) < 20 BY <2>1, <2>3, <2>7
  <2>9. Decrypt(ec, x).status # "ok" BY <2>7, <2>8, TooShort
  <2>10. QED BY <2>2, <2>9 DEF x
<1>17. /\ Decrypt(eb, sealed) = Res("ok", text)
       /\ Decrypt(ew, sealed).status # "ok"
  BY <1>1, <1>8, <1>9, <1>10
<1>18. QED BY <1>14, <1>15, <1>16, <1>17, Zenon DEF SealedTravels, ka, kb, kc, ec, eb, ew, sealed, m
=============================================================================
