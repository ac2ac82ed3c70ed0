----------------------------- MODULE Transport -----------------------------
(***************************************************************************)
(* One direction of a transport.Channel pair: the goroutines that call     *)
(* SendFrame or SendRaw at one end, pion's send buffer with its low-water  *)
(* callback, the network, and the OnMessage callback, recv queue and       *)
(* reader at the other end.  BufferedAmount is counted in frames.          *)
(***************************************************************************)
EXTENDS Integers, Sequences, FiniteSets

CONSTANTS
  Senders,      \* goroutines that send on the channel
  Cancellable,  \* the ones whose ctx may be done
  High,         \* BufferedAmountHigh, in frames
  RecvCap,      \* capacity of Channel.recv (256 in the code)
  MaxSend,      \* bound: frames one goroutine sends
  MayClose      \* whether either end may be closed in a run

ASSUME TransportAssumption ==
  /\ IsFiniteSet(Senders) /\ Cancellable \subseteq Senders
  /\ High \in Nat \ {0} /\ RecvCap \in Nat \ {0} /\ MaxSend \in Nat
  /\ MayClose \in BOOLEAN

VARIABLES
  spc,       \* where each sender is in SendRaw
  nsent,     \* frames each sender has handed to SendRaw
  ctxDone,   \* the sender's ctx
  dcOpen,    \* the sending DataChannel accepts Send
  closed,    \* Channel.closed of the sending end
  buf,       \* pion's send buffer; its length is BufferedAmount
  fire,      \* the buffer crossed the threshold: the callback is running
  low,       \* the token in bufferedLow, a channel of capacity 1
  net,       \* released by the buffer, not yet handed to OnMessage
  recv,      \* Channel.recv of the receiving end
  rclosed,   \* Channel.closed of the receiving end
  reading,   \* the reader has had no error yet
  got        \* history: frames Recv returned

sendVars == <<spc, nsent, ctxDone>>
dcVars == <<dcOpen, closed, buf, fire, low>>
recvVars == <<recv, rclosed, reading, got>>
vars == <<sendVars, dcVars, net, recvVars>>

Message == Senders \X Nat

TypeOK ==
  /\ spc \in [Senders -> {"idle", "check", "wait", "send"}]
  /\ nsent \in [Senders -> Nat]
  /\ ctxDone \in [Senders -> BOOLEAN]
  /\ dcOpen \in BOOLEAN /\ closed \in BOOLEAN /\ fire \in BOOLEAN /\ low \in BOOLEAN
  /\ buf \in Seq(Message) /\ net \in Seq(Message) /\ recv \in Seq(Message)
  /\ rclosed \in BOOLEAN /\ reading \in BOOLEAN
  /\ got \in Seq(Message)
  /\ Len(recv) <= RecvCap

Init ==
  /\ spc = [s \in Senders |-> "idle"]
  /\ nsent = [s \in Senders |-> 0]
  /\ ctxDone = [s \in Senders |-> FALSE]
  /\ dcOpen = TRUE /\ closed = FALSE /\ fire = FALSE /\ low = FALSE
  /\ buf = <<>> /\ net = <<>> /\ recv = <<>>
  /\ rclosed = FALSE /\ reading = TRUE
  /\ got = <<>>

-----------------------------------------------------------------------------
\* SendRaw.

\* SendRaw begins: an error once closed, otherwise on to awaitBufferLow.
SendRaw(s) ==
  /\ spc[s] = "idle" /\ nsent[s] < MaxSend
  /\ nsent' = [nsent EXCEPT ![s] = @ + 1]
  /\ spc' = IF closed THEN spc ELSE [spc EXCEPT ![s] = "check"]
  /\ UNCHANGED <<ctxDone, dcVars, net, recvVars>>

\* Faulty variant: the buffered amount is not checked.
CheckBufferSkip(s) ==
  /\ spc[s] = "check"
  /\ spc' = [spc EXCEPT ![s] = "send"]
  /\ UNCHANGED <<nsent, ctxDone, dcVars, net, recvVars>>

\* awaitBufferLow: read BufferedAmount.  (bufferedLowActive is set here and
\* cleared by the callback, but nothing depends on it.)
CheckBuffer(s) ==
  /\ spc[s] = "check"
  /\ spc' = [spc EXCEPT ![s] = IF Len(buf) < High THEN "send" ELSE "wait"]
  /\ UNCHANGED <<nsent, ctxDone, dcVars, net, recvVars>>

\* awaitBufferLow: its select.  The token wakes one waiter, which re-checks;
\* closed and ctx end SendRaw with an error.
AwaitBufferLow(s) ==
  /\ spc[s] = "wait"
  /\ \/ /\ low
        /\ low' = FALSE
        /\ spc' = [spc EXCEPT ![s] = "check"]
     \/ /\ closed \/ ctxDone[s]
        /\ low' = low
        /\ spc' = [spc EXCEPT ![s] = "idle"]
  /\ UNCHANGED <<nsent, ctxDone, dcOpen, closed, buf, fire, net, recvVars>>

\* dc.Send: an error once the DataChannel is closed.
DcSend(s) ==
  /\ spc[s] = "send"
  /\ buf' = IF dcOpen THEN Append(buf, <<s, nsent[s]>>) ELSE buf
  /\ spc' = [spc EXCEPT ![s] = "idle"]
  /\ UNCHANGED <<nsent, ctxDone, dcOpen, closed, fire, low, net, recvVars>>

CtxCancel(s) ==
  /\ s \in Cancellable /\ ~ctxDone[s]
  /\ ctxDone' = [ctxDone EXCEPT ![s] = TRUE]
  /\ UNCHANGED <<spc, nsent, dcVars, net, recvVars>>

-----------------------------------------------------------------------------
\* pion: the buffer drains in order and reports, once per crossing, that the
\* amount dropped below the threshold.

Drain ==
  /\ buf # <<>> /\ ~fire
  /\ buf' = Tail(buf)
  /\ net' = Append(net, Head(buf))
  /\ fire' = (Len(buf) = High)
  /\ UNCHANGED <<sendVars, dcOpen, closed, low, recvVars>>

\* Faulty variant: the callback gives no token.
OnBufferedAmountLowSilent ==
  /\ fire
  /\ fire' = FALSE
  /\ UNCHANGED <<sendVars, dcOpen, closed, buf, low, net, recvVars>>

\* The callback New registers: give the token, unless one is already there.
OnBufferedAmountLow ==
  /\ fire
  /\ fire' = FALSE
  /\ low' = TRUE
  /\ UNCHANGED <<sendVars, dcOpen, closed, buf, net, recvVars>>

-----------------------------------------------------------------------------
\* The receiving end.

\* Faulty variant: a full queue drops the message.
OnMessageDropping ==
  /\ net # <<>>
  /\ net' = Tail(net)
  /\ recv' = IF Len(recv) < RecvCap THEN Append(recv, Head(net)) ELSE recv
  /\ UNCHANGED <<sendVars, dcVars, rclosed, reading, got>>

\* The OnMessage callback: wait for room in recv; once closed, drop.
OnMessage ==
  /\ net # <<>>
  /\ net' = Tail(net)
  /\ \/ Len(recv) < RecvCap /\ recv' = Append(recv, Head(net))
     \/ rclosed /\ recv' = recv
  /\ UNCHANGED <<sendVars, dcVars, rclosed, reading, got>>

\* Recv: the select picks at random between a queued frame and closed; the
\* RPC loops stop at the first error.
Recv ==
  /\ reading
  /\ \/ /\ recv # <<>>
        /\ recv' = Tail(recv)
        /\ got' = Append(got, Head(recv))
        /\ UNCHANGED reading
     \/ /\ rclosed
        /\ reading' = FALSE
        /\ UNCHANGED <<recv, got>>
  /\ UNCHANGED <<sendVars, dcVars, net, rclosed>>

-----------------------------------------------------------------------------
\* Closing.

\* Channel.Close at the sending end: dc.Close, then shutdown.
Close ==
  /\ MayClose /\ dcOpen
  /\ dcOpen' = FALSE
  /\ UNCHANGED <<sendVars, closed, buf, fire, low, net, recvVars>>

Shutdown ==
  /\ ~dcOpen /\ ~closed
  /\ closed' = TRUE
  /\ UNCHANGED <<sendVars, dcOpen, buf, fire, low, net, recvVars>>

\* What the buffer still held is gone when the connection goes with it.
Abandon ==
  /\ ~dcOpen /\ buf # <<>>
  /\ buf' = <<>>
  /\ UNCHANGED <<sendVars, dcOpen, closed, fire, low, net, recvVars>>

\* Channel.Close at the receiving end, or its OnClose callback.
RemoteClose ==
  /\ MayClose /\ ~rclosed
  /\ rclosed' = TRUE
  /\ UNCHANGED <<sendVars, dcVars, net, recv, reading, got>>

\* The sending end's OnClose, after the other end closed: shutdown.
OnClose ==
  /\ rclosed /\ dcOpen
  /\ dcOpen' = FALSE
  /\ closed' = TRUE
  /\ UNCHANGED <<sendVars, buf, fire, low, net, recvVars>>

-----------------------------------------------------------------------------
SendStep(s) == CheckBuffer(s) \/ AwaitBufferLow(s) \/ DcSend(s)

Next ==
  \/ \E s \in Senders :
       SendRaw(s) \/ CheckBuffer(s) \/ AwaitBufferLow(s) \/ DcSend(s) \/ CtxCancel(s)
  \/ Drain \/ OnBufferedAmountLow \/ OnMessage \/ Recv
  \/ Close \/ Shutdown \/ Abandon \/ RemoteClose \/ OnClose

Spec == Init /\ [][Next]_vars

\* Goroutines are scheduled, the network delivers and the reader reads.
FairSpec ==
  /\ Spec
  /\ \A s \in Senders : WF_vars(SendStep(s))
  /\ WF_vars(Drain) /\ WF_vars(OnBufferedAmountLow) /\ WF_vars(OnMessage) /\ WF_vars(Recv)
  /\ WF_vars(Shutdown) /\ WF_vars(OnClose)

-----------------------------------------------------------------------------
\* The high-water mark is checked before dc.Send and not held while sending:
\* concurrent senders overshoot it, by no more than one frame each.
OvershootBounded == Len(buf) <= High - 1 + Cardinality(Senders)

\* While both ends are up the channel is a queue; afterwards it only loses.
Fifo == INSTANCE FifoChannel
          WITH q <- recv \o net \o buf, up <- dcOpen /\ ~rclosed

ImplementsFifo == Fifo!Spec

(***************************************************************************)
(* bufferedLow holds one token for any number of waiting goroutines.  A    *)
(* goroutine that is alone in SendRaw and has found the buffer full is not *)
(* left waiting for ever, as long as it stays alone; the server's writer   *)
(* always is.  (Among several waiters a wake-up can be lost.)              *)
(***************************************************************************)
Alone(s) == \A t \in Senders \ {s} : spc[t] = "idle"

SoleSenderReturns ==
  \A s \in Senders :
    (Alone(s) /\ spc[s] = "wait" /\ Len(buf) >= High) ~> (~Alone(s) \/ spc[s] = "idle")
=============================================================================
