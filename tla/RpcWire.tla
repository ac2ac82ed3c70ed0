------------------------------ MODULE RpcWire ------------------------------
(***************************************************************************)
(* The connection an rpc.Client and an rpc.Server share: one ordered,      *)
(* reliable DataChannel, seen through transport.Channel at each end.       *)
(* c2s and s2c hold what one end has put on the channel and the other end  *)
(* has not taken off it (the SCTP buffers and the receiver's recv queue    *)
(* together); cclosed and sclosed are the `closed` channel of each end.    *)
(***************************************************************************)
EXTENDS Integers, Sequences

CONSTANTS
  Calls,      \* the invocations of one run; a call is also its ghost identity
  None,       \* Go's nil
  SeqSpace,   \* number of sequence numbers: 2^31 in the code
  WireCap,    \* frames the channel holds before senders wait (BufferedAmountHigh)
  Faults      \* which of FaultKinds may happen in a run

FaultKinds == {"conn_close", "server_close", "serve_cancel"}

ASSUME WireAssumption ==
  /\ None \notin Calls
  /\ SeqSpace \in Nat /\ SeqSpace >= 2 /\ SeqSpace % 2 = 0
  /\ WireCap \in Nat \ {0}
  /\ Faults \subseteq FaultKinds

Seqs == 0 .. (SeqSpace - 1)

\* A payload is named by the call it belongs to and its position.
Payload == Calls \X Nat

FrameTypes == {"call", "data", "close", "cancel", "begin", "end"}

\* seq is Routing.sequence; id, the call that emitted the frame, is a ghost
\* no receiver reads; val is a message's position or an End's status code.
Frame == [seq : Seqs, type : FrameTypes, id : Calls, val : Nat]

Fr(s, t, c, v) == [seq |-> s, type |-> t, id |-> c, val |-> v]

VARIABLES c2s, s2c, cclosed, sclosed

wireVars == <<c2s, s2c, cclosed, sclosed>>

WireTypeOK ==
  /\ c2s \in Seq(Frame)
  /\ s2c \in Seq(Frame)
  /\ cclosed \in BOOLEAN
  /\ sclosed \in BOOLEAN

WireInit ==
  /\ c2s = <<>>
  /\ s2c = <<>>
  /\ cclosed = FALSE
  /\ sclosed = FALSE

(***************************************************************************)
(* Channel.SendFrame: an error, and no frame, once this end is closed;     *)
(* otherwise wait in awaitBufferLow until the channel has room, or give up *)
(* when ctx is done.  ctx is consulted only while waiting.                 *)
(***************************************************************************)
ClientSendFrame(f, ctx) ==
  /\ \/ ~cclosed /\ Len(c2s) < WireCap /\ c2s' = Append(c2s, f)
     \/ (cclosed \/ (ctx /\ Len(c2s) >= WireCap)) /\ c2s' = c2s
  /\ UNCHANGED <<s2c, cclosed, sclosed>>

ServerSendFrame(f, ctx) ==
  /\ \/ ~sclosed /\ Len(s2c) < WireCap /\ s2c' = Append(s2c, f)
     \/ (sclosed \/ (ctx /\ Len(s2c) >= WireCap)) /\ s2c' = s2c
  /\ UNCHANGED <<c2s, cclosed, sclosed>>

\* The successful branch of Channel.Recv at each end.
ClientTake ==
  /\ s2c # <<>>
  /\ s2c' = Tail(s2c)
  /\ UNCHANGED <<c2s, cclosed, sclosed>>

ServerTake ==
  /\ c2s # <<>>
  /\ c2s' = Tail(c2s)
  /\ UNCHANGED <<s2c, cclosed, sclosed>>

\* Channel.Close at one end (ServerConn.Close, or the last part of Conn.Close).
ServerConnClose ==
  /\ "server_close" \in Faults
  /\ ~sclosed
  /\ sclosed' = TRUE
  /\ UNCHANGED <<c2s, s2c, cclosed>>

\* The DataChannel's OnClose callback, after the other end closed.
OnClose ==
  \/ cclosed /\ ~sclosed /\ sclosed' = TRUE /\ UNCHANGED <<c2s, s2c, cclosed>>
  \/ sclosed /\ ~cclosed /\ cclosed' = TRUE /\ UNCHANGED <<c2s, s2c, sclosed>>
=============================================================================
