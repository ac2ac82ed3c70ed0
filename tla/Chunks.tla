------------------------------- MODULE Chunks -------------------------------
(***************************************************************************)
(* Messages larger than one frame: sendPayload (and ServerStream.Send)     *)
(* splits them into Data.chunk frames, the frames of all streams share one *)
(* ordered channel, and the receiver's transport.Reassembler joins them.   *)
(* The b-th byte of the n-th message of a stream is the triple <<s, n, b>>.*)
(***************************************************************************)
EXTENDS Integers, Sequences

CONSTANTS
  Streams,      \* sequence numbers in use
  Sizes,        \* message lengths an application sends
  ChunkSize,    \* bytes per frame: MessageMax = ChunkSize in the code
  MaxMsgs,      \* bound: messages sent on one stream
  WireCap,      \* frames the channel holds
  Cancellable,  \* streams whose ctx may be done while the channel is full
  None,         \* no assembler for a sequence
  Zero          \* a byte of a fresh buffer

\* A byte of a message, or of a fresh buffer.
Byte == (Streams \X Nat \X Nat) \cup {Zero}

ASSUME ChunksAssumption ==
  /\ None \notin Nat /\ None \notin [buf : Seq(Byte), got : Nat, total : Nat]
  /\ Sizes \subseteq Nat \ {0} /\ ChunkSize \in Nat \ {0}
  /\ MaxMsgs \in Nat /\ WireCap \in Nat \ {0}
  /\ Cancellable \subseteq Streams

VARIABLES
  sent,        \* history: lengths of the messages given to sendPayload
  offset,      \* sendPayload's loop variable; None outside sendPayload
  ctxDone,     \* the stream's ctx
  wire,        \* frames on the channel
  chunks,      \* Reassembler.chunks
  delivered    \* history: payloads handed to deliver

vars == <<sent, offset, ctxDone, wire, chunks, delivered>>

\* The smaller of two numbers; b[lo:hi] of the n-th message of s; and the
\* whole of it.
MinOf(i, j) == IF i < j THEN i ELSE j
Slice(s, n, lo, hi) == [i \in 1 .. (hi - lo) |-> <<s, n, lo + i>>]
Whole(s, n) == Slice(s, n, 0, sent[s][n])

TypeOK ==
  /\ \A s \in Streams : /\ \A i \in DOMAIN sent[s] : sent[s][i] \in Sizes
                        /\ offset[s] # None => offset[s] < sent[s][Len(sent[s])]
                        /\ chunks[s] # None => /\ Len(chunks[s].buf) = chunks[s].total
                                               /\ chunks[s].got \in 0 .. (chunks[s].total - 1)
  /\ \A i \in DOMAIN wire : /\ wire[i].seq \in Streams
                            /\ Len(wire[i].data) \in 1 .. ChunkSize
                            /\ wire[i].offset + Len(wire[i].data) <= wire[i].total

Init ==
  /\ sent = [s \in Streams |-> <<>>]
  /\ offset = [s \in Streams |-> None]
  /\ ctxDone = [s \in Streams |-> FALSE]
  /\ wire = <<>>
  /\ chunks = [s \in Streams |-> None]
  /\ delivered = [s \in Streams |-> <<>>]

-----------------------------------------------------------------------------
\* The application sends a message.
Send(s) ==
  /\ offset[s] = None /\ Len(sent[s]) < MaxMsgs
  /\ \E n \in Sizes : sent' = [sent EXCEPT ![s] = Append(@, n)]
  /\ offset' = [offset EXCEPT ![s] = 0]
  /\ UNCHANGED <<ctxDone, wire, chunks, delivered>>

\* The frame for the current offset: b[offset:end], end clipped to len(b).
\* A message of one frame goes as Data.message: total_size is not sent, and
\* the receiver does not reassemble.
NextFrame(s) ==
  LET n == Len(sent[s])
      hi == MinOf(offset[s] + ChunkSize, sent[s][n])
  IN [seq |-> s, total |-> sent[s][n], offset |-> offset[s], data |-> Slice(s, n, offset[s], hi)]

\* One round of sendPayload's loop.  A done ctx makes SendFrame on a full
\* channel fail; the error is ignored and the loop goes on.
SendPart(s) ==
  /\ offset[s] # None
  /\ \/ Len(wire) < WireCap /\ wire' = Append(wire, NextFrame(s))
     \/ ctxDone[s] /\ Len(wire) >= WireCap /\ wire' = wire
  /\ offset' = [offset EXCEPT ![s] =
       IF @ + ChunkSize < sent[s][Len(sent[s])] THEN @ + ChunkSize ELSE None]
  /\ UNCHANGED <<sent, ctxDone, chunks, delivered>>

CtxCancel(s) ==
  /\ s \in Cancellable /\ ~ctxDone[s]
  /\ ctxDone' = [ctxDone EXCEPT ![s] = TRUE]
  /\ UNCHANGED <<sent, offset, wire, chunks, delivered>>

-----------------------------------------------------------------------------
\* make([]byte, total), and copy(buf[offset:], data).
Fresh(total) == [buf |-> [i \in 1 .. total |-> Zero], got |-> 0, total |-> total]

\* Faulty variant: every chunk is copied to the start of the buffer.
CopiedAtStart(buf, at, data) ==
  [i \in 1 .. Len(buf) |-> IF i <= Len(data) THEN data[i] ELSE buf[i]]

Copied(buf, at, data) ==
  [i \in 1 .. Len(buf) |-> IF i > at /\ i <= at + Len(data) THEN data[i - at] ELSE buf[i]]

\* The assembler a chunk goes to: a new one for a new sequence or when the
\* total differs.
AssemblerFor(f) ==
  IF chunks[f.seq] = None \/ chunks[f.seq].total # f.total THEN Fresh(f.total) ELSE chunks[f.seq]

\* Faulty variant: complete only once more bytes than the total have come.
ReassembleLate(f) ==
  LET a == AssemblerFor(f)
      b == [a EXCEPT !.buf = Copied(a.buf, f.offset, f.data), !.got = @ + Len(f.data)]
  IN /\ chunks' = [chunks EXCEPT ![f.seq] = IF b.got > b.total THEN None ELSE b]
     /\ delivered' = IF b.got > b.total
                     THEN [delivered EXCEPT ![f.seq] = Append(@, b.buf)] ELSE delivered

\* Reassemble, under the Reassembler's mu: a chunk past the end is ignored;
\* the message is complete when as many bytes as its total have come.
Reassemble(f) ==
  LET a == AssemblerFor(f)
      past == f.offset + Len(f.data) > Len(a.buf)
      b == IF past THEN a
           ELSE [a EXCEPT !.buf = Copied(a.buf, f.offset, f.data), !.got = @ + Len(f.data)]
      complete == ~past /\ b.got >= b.total
  IN \/ /\ ~complete
        /\ chunks' = [chunks EXCEPT ![f.seq] = b]
        /\ UNCHANGED delivered
     \/ /\ complete
        /\ chunks' = [chunks EXCEPT ![f.seq] = None]
        /\ delivered' = [delivered EXCEPT ![f.seq] = Append(@, b.buf)]

\* dispatch, or deliverData, for one Data frame.
Dispatch ==
  /\ wire # <<>>
  /\ wire' = Tail(wire)
  /\ LET f == Head(wire)
     IN \/ /\ f.total <= ChunkSize
           /\ delivered' = [delivered EXCEPT ![f.seq] = Append(@, f.data)]
           /\ UNCHANGED chunks
        \/ f.total > ChunkSize /\ Reassemble(f)
  /\ UNCHANGED <<sent, offset, ctxDone>>

Next == (\E s \in Streams : Send(s) \/ SendPart(s) \/ CtxCancel(s)) \/ Dispatch

Spec == Init /\ [][Next]_vars

-----------------------------------------------------------------------------
\* "A large Send is observed as one message by the peer's Recv": the n-th
\* message of a stream that arrives is the n-th that was sent, byte for byte.
MessagesIntact ==
  \A s \in Streams : ~ctxDone[s] =>
    \A n \in DOMAIN delivered[s] : n <= Len(sent[s]) /\ delivered[s][n] = Whole(s, n)

\* When nothing is left to send or to dispatch, every message has arrived
\* and no assembler is left behind.
NothingStuck ==
  \A s \in Streams : ~ctxDone[s] /\ offset[s] = None /\ wire = <<>> =>
    Len(delivered[s]) = Len(sent[s]) /\ chunks[s] = None
=============================================================================
