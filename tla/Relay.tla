------------------------------- MODULE Relay -------------------------------
(***************************************************************************)
(* relay.Server for one room: Serve, which may be called again after it    *)
(* returned, accepts two channels, pairs them and pumps payloads both      *)
(* ways.  Channels are numbered in the order they were accepted.  The      *)
(* negotiation inside p.Accept is the module Negotiation; here it is the   *)
(* goroutine acceptOne starts, in the three stages that matter to it.      *)
(***************************************************************************)
EXTENDS Integers, Sequences, Functions

CONSTANTS
  None,        \* Go's nil
  MaxServes,   \* bound: calls of Serve
  MaxChans,    \* bound: channels accepted
  MaxSends,    \* bound: payloads the clients send, together
  Buf          \* ForwardBufferSize

ASSUME RelayAssumption ==
  /\ MaxServes \in Nat /\ MaxChans \in Nat /\ MaxSends \in Nat /\ Buf \in Nat \ {0}
  /\ None \notin 1..MaxChans /\ None \notin (1..MaxChans) \X Nat

VARIABLES
  serves, failed,    \* Serve calls made, and those that failed with a slot bound
  spc,               \* Serve: "idle", "accept", "pump", or how it ended badly
  sig,               \* relaySig is open
  accepted,          \* accepts of this Serve that succeeded
  acc,               \* the p.Accept goroutine: "none", "offer", "send" or "open"
  ctx,               \* ctx is canceled
  slots,             \* sess.peers of the room's session
  mate,              \* channel -> the channel it is paired with, or None
  owner,             \* channel -> the Serve call that accepted it
  up,                \* channel -> its client is still connected
  sent,              \* channel -> number of payloads its client has sent
  inq,               \* channel -> payloads received from its client, not yet read
  hold,              \* channel -> payload its reader has taken and not yet queued
  outq,              \* channel -> peerSlot.outbound
  got,               \* channel -> payloads its client has received
  reader, writer     \* channel -> "off", "run" or "done"

serveVars == <<serves, failed, spc, sig, accepted, acc, slots, mate, owner>>
pumpVars == <<inq, hold, outq, got, reader, writer>>
vars == <<serveVars, ctx, up, sent, pumpVars>>

Chans == DOMAIN owner
\* A payload: the channel it came in on and its number there.
Payload == (1..MaxChans) \X Nat

\* The types of the state; a relayed payload waits in a bounded queue.
TypeOK ==
  /\ serves \in 0..MaxServes /\ failed \in 0..MaxServes
  /\ spc \in {"idle", "accept", "pump", "incomplete", "crashed"} /\ accepted \in 0..2
  /\ sig \in BOOLEAN /\ ctx \in BOOLEAN
  /\ acc \in {"none", "offer", "send", "open"}
  /\ owner \in Seq(1..MaxServes) /\ Len(owner) <= MaxChans
  /\ slots \in [1..2 -> Chans \cup {None}]
  /\ mate \in [Chans -> Chans \cup {None}]
  /\ up \in [Chans -> BOOLEAN] /\ sent \in [Chans -> Nat]
  /\ \A c \in Chans : /\ {inq[c], outq[c], got[c]} \subseteq Seq(Payload)
                      /\ Len(outq[c]) <= Buf
  /\ hold \in [Chans -> Payload \cup {None}]
  /\ reader \in [Chans -> {"off", "run", "done"}]
  /\ writer \in [Chans -> {"off", "run", "done"}]

Init ==
  /\ serves = 0 /\ failed = 0 /\ spc = "idle" /\ sig = FALSE /\ accepted = 0
  /\ acc = "none" /\ ctx = FALSE
  /\ slots = <<None, None>> /\ owner = <<>> /\ mate = <<>>
  /\ up = <<>> /\ sent = <<>> /\ inq = <<>> /\ hold = <<>> /\ outq = <<>>
  /\ got = <<>> /\ reader = <<>> /\ writer = <<>>

-----------------------------------------------------------------------------
\* Serve joins the room and enters its accept loop.  closed is not looked at.
Serve ==
  /\ spc = "idle" /\ acc = "none" /\ ~ctx /\ serves < MaxServes
  /\ serves' = serves + 1
  /\ spc' = "accept" /\ sig' = TRUE /\ accepted' = 0 /\ acc' = "offer"
  /\ UNCHANGED <<failed, slots, mate, owner, ctx, up, sent, pumpVars>>

\* The p.Accept goroutine: an offer comes and is gathered for; the answer is
\* sent; AcceptOne is the channel opening.
AcceptAdvances ==
  /\ \/ acc = "offer" /\ sig /\ acc' = "send"
     \/ acc = "send" /\ sig /\ acc' = "open"
  /\ UNCHANGED <<serves, failed, spc, sig, accepted, slots, mate, owner, ctx, up, sent, pumpVars>>

\* It returns an error, a timeout while it gathers or opens or a closed
\* session: acceptOne returns it, and so does Serve, which closes its session
\* and leaves the room's session, with what was bound, in the map.
AcceptFails ==
  /\ acc \in {"send", "open"} \/ (acc = "offer" /\ ~sig)
  /\ acc' = "none"
  /\ IF spc = "accept"
       THEN /\ spc' = "idle" /\ sig' = FALSE
            /\ failed' = IF accepted = 0 THEN failed ELSE failed + 1
       ELSE UNCHANGED <<spc, sig, failed>>
  /\ UNCHANGED <<serves, accepted, slots, mate, owner, ctx, up, sent, pumpVars>>

\* Session.Send on signal.Local after Close has closed `out`: a panic.
SendPanics ==
  /\ acc = "send" /\ ~sig
  /\ spc' = "crashed" /\ acc' = "none"
  /\ UNCHANGED <<serves, failed, sig, accepted, slots, mate, owner, ctx, up, sent, pumpVars>>

\* Faulty variant: with both taken, the last index is overwritten.
BindSlotLast(slot) ==
  IF slots[1] = None THEN [slots EXCEPT ![1] = slot] ELSE [slots EXCEPT ![2] = slot]

\* bindSlot: the first free index, or the first one when both are taken.
BindSlot(slot) ==
  IF slots[1] = None THEN [slots EXCEPT ![1] = slot]
  ELSE IF slots[2] = None THEN [slots EXCEPT ![2] = slot]
  ELSE [slots EXCEPT ![1] = slot]

\* acceptOne has a channel and binds it to a slot; Serve accepts again or, with
\* two, pairs the slots and starts a reader and a writer on each.
AcceptOne ==
  /\ spc = "accept" /\ acc = "open" /\ Len(owner) < MaxChans
  /\ LET c == Len(owner) + 1
         both == accepted = 1 /\ None \notin {slots'[1], slots'[2]}
         Pump(f) == [d \in 1..c |-> IF both /\ d \in {slots'[1], slots'[2]} THEN "run"
                                    ELSE IF d = c THEN "off" ELSE f[d]]
     IN /\ owner' = Append(owner, serves)
        /\ slots' = BindSlot(c)
        /\ up' = Append(up, TRUE) /\ sent' = Append(sent, 0)
        /\ inq' = Append(inq, <<>>) /\ hold' = Append(hold, None)
        /\ outq' = Append(outq, <<>>) /\ got' = Append(got, <<>>)
        /\ accepted' = accepted + 1
        /\ reader' = Pump(reader) /\ writer' = Pump(writer)
        /\ mate' = [d \in 1..c |->
             IF both /\ d = slots'[1] THEN slots'[2]
             ELSE IF both /\ d = slots'[2] THEN slots'[1]
             ELSE IF d = c THEN None ELSE mate[d]]
        /\ spc' = IF accepted = 0 THEN "accept" ELSE IF both THEN "pump" ELSE "incomplete"
        /\ acc' = IF accepted = 0 THEN "offer" ELSE "none"
  /\ UNCHANGED <<serves, failed, sig, ctx>>

\* Faulty variant: acceptOne stops waiting on a timer of its own.
AcceptAbandonedByTimer ==
  /\ spc = "accept" /\ acc \in {"offer", "send", "open"}
  /\ spc' = "idle" /\ sig' = FALSE
  /\ UNCHANGED <<serves, failed, accepted, acc, slots, mate, owner, ctx, up, sent, pumpVars>>

\* acceptOne's ctx case: Serve returns and closes the session while the
\* p.Accept goroutine still runs.
AcceptAbandoned ==
  /\ spc = "accept" /\ ctx
  /\ spc' = "idle" /\ sig' = FALSE
  /\ UNCHANGED <<serves, failed, accepted, acc, slots, mate, owner, ctx, up, sent, pumpVars>>

-----------------------------------------------------------------------------
Ends == {slots[1], slots[2]} \ {None}

\* forwardBytes' reader of src: Recv, then the select on dst.outbound.
ReaderRecv(c) ==
  /\ reader[c] = "run" /\ hold[c] = None /\ inq[c] # <<>>
  /\ hold' = [hold EXCEPT ![c] = Head(inq[c])]
  /\ inq' = [inq EXCEPT ![c] = Tail(@)]
  /\ UNCHANGED <<serveVars, ctx, up, sent, outq, got, reader, writer>>

\* Faulty variant: a full outbound queue drops the payload.
ReaderPushDropping(c, d) ==
  /\ reader[c] = "run" /\ hold[c] # None
  /\ outq' = [outq EXCEPT ![d] = IF Len(@) < Buf THEN Append(@, hold[c]) ELSE @]
  /\ hold' = [hold EXCEPT ![c] = None]
  /\ UNCHANGED <<serveVars, ctx, up, sent, inq, got, reader, writer>>

\* Faulty variant: the reader is not a loop.
ReaderPushOnce(c, d) ==
  /\ reader[c] = "run" /\ hold[c] # None /\ Len(outq[d]) < Buf
  /\ outq' = [outq EXCEPT ![d] = Append(@, hold[c])]
  /\ hold' = [hold EXCEPT ![c] = None]
  /\ reader' = [reader EXCEPT ![c] = "done"]
  /\ UNCHANGED <<serveVars, ctx, up, sent, inq, got, writer>>

ReaderPush(c, d) ==
  /\ reader[c] = "run" /\ hold[c] # None /\ Len(outq[d]) < Buf
  /\ outq' = [outq EXCEPT ![d] = Append(@, hold[c])]
  /\ hold' = [hold EXCEPT ![c] = None]
  /\ UNCHANGED <<serveVars, ctx, up, sent, inq, got, reader, writer>>

\* Faulty variant: the reader only notices the other client's end.
ReaderExitOnDst(c, d) ==
  /\ reader[c] = "run"
  /\ ctx \/ ~up[d]
  /\ reader' = [reader EXCEPT ![c] = "done"]
  /\ hold' = [hold EXCEPT ![c] = None]
  /\ UNCHANGED <<serveVars, ctx, up, sent, inq, outq, got, writer>>

ReaderExit(c, d) ==
  /\ reader[c] = "run"
  /\ ctx \/ (hold[c] = None /\ ~up[c]) \/ (hold[c] # None /\ ~up[d])
  /\ reader' = [reader EXCEPT ![c] = "done"]
  /\ hold' = [hold EXCEPT ![c] = None]
  /\ UNCHANGED <<serveVars, ctx, up, sent, inq, outq, got, writer>>

\* forwardBytes' writer onto dst: SendRaw what is queued.
WriterSend(d) ==
  /\ writer[d] = "run" /\ outq[d] # <<>> /\ up[d]
  /\ got' = [got EXCEPT ![d] = Append(@, Head(outq[d]))]
  /\ outq' = [outq EXCEPT ![d] = Tail(@)]
  /\ UNCHANGED <<serveVars, ctx, up, sent, inq, hold, reader, writer>>

\* Faulty variant: the writer looks at its client alone, not at ctx.
WriterExitOnDone(d) ==
  /\ writer[d] = "run" /\ ~up[d]
  /\ writer' = [writer EXCEPT ![d] = "done"]
  /\ UNCHANGED <<serveVars, ctx, up, sent, inq, hold, outq, got, reader>>

\* dst.done, ctx, or a SendRaw that failed for either.
WriterExit(d) ==
  /\ writer[d] = "run"
  /\ ~up[d] \/ ctx
  /\ writer' = [writer EXCEPT ![d] = "done"]
  /\ UNCHANGED <<serveVars, ctx, up, sent, inq, hold, outq, got, reader>>

\* pairAndPump: after the first done, wait for both writers; then drop the
\* room's session, and Serve returns.
PumpEnds ==
  /\ spc = "pump" /\ \A c \in Ends : writer[c] = "done"
  /\ spc' = "idle" /\ sig' = FALSE /\ slots' = <<None, None>>
  /\ UNCHANGED <<serves, failed, accepted, acc, mate, owner, ctx, up, sent, pumpVars>>

-----------------------------------------------------------------------------
\* The clients and the process around the relay.
ClientSends(c) ==
  /\ up[c] /\ FoldFunction(+, 0, sent) < MaxSends
  /\ sent' = [sent EXCEPT ![c] = @ + 1]
  /\ inq' = [inq EXCEPT ![c] = Append(@, <<c, sent'[c]>>)]
  /\ UNCHANGED <<serveVars, ctx, up, hold, outq, got, reader, writer>>

ClientGone(c) ==
  /\ up[c] /\ up' = [up EXCEPT ![c] = FALSE]
  /\ UNCHANGED <<serveVars, ctx, sent, pumpVars>>

CtxCancel ==
  /\ ~ctx /\ serves > 0 /\ ctx' = TRUE
  /\ UNCHANGED <<serveVars, up, sent, pumpVars>>

\* The pumps of the pairing a channel was started in.
PumpStep(c) ==
  \/ ReaderRecv(c) \/ WriterSend(c) \/ WriterExit(c)
  \/ mate[c] # None /\ (ReaderPush(c, mate[c]) \/ ReaderExit(c, mate[c]))

ServeStep ==
  \/ AcceptAdvances \/ AcceptFails \/ SendPanics \/ AcceptOne
  \/ AcceptAbandoned \/ PumpEnds

Next ==
  /\ spc # "crashed"
  /\ \/ Serve \/ ServeStep \/ CtxCancel
     \/ \E c \in Chans : PumpStep(c) \/ ClientSends(c) \/ ClientGone(c)

Spec == Init /\ [][Next]_vars

\* Serve and its goroutines are scheduled and ctx is noticed; nothing makes a
\* client call, send or leave.
Fairness ==
  /\ WF_vars(spc # "crashed" /\ (AcceptAbandoned \/ PumpEnds))
  /\ \A c \in 1..MaxChans : WF_vars(spc # "crashed" /\ c \in Chans /\ PumpStep(c))

LiveSpec == Spec /\ Fairness

-----------------------------------------------------------------------------
(* "pumps bytes between them": what a client receives is what the client   *)
(* it is paired with sent, complete and in order from the first payload,   *)
(* however the readers, queues and writers interleave and whoever leaves.  *)
RelayInOrder ==
  \A c \in Chans : \A i \in DOMAIN got[c] : got[c][i] = <<mate[c], i>>

(* Two accepts fill both slots whatever earlier calls of Serve left in      *)
(* them, so Serve's "incomplete session after accept loop" cannot happen;   *)
(* and the two are channels it accepted itself as long as at most one       *)
(* earlier Serve of the room failed with a channel bound.  After two such   *)
(* failures bindSlot writes index 0 twice and pairs a channel of a dead     *)
(* call: the bound is exact.                                                *)
PairedFresh ==
  /\ spc # "incomplete"
  /\ spc = "pump" /\ failed <= 1 => \A c \in Ends : owner[c] = serves

(* Only a canceled ctx lets Serve close its signaling session under a       *)
(* p.Accept that has yet to Send on it: without one no interleaving         *)
(* reaches Send's panic.                                                    *)
PanicNeedsCancel == (spc = "crashed" \/ (acc = "send" /\ ~sig)) => ctx

(* What Serve started ends.  Serve returns once ctx is canceled or both     *)
(* clients are gone (one is not enough: the writer to the other one keeps   *)
(* wg.Wait, contrary to "until one side closes"), and no reader goroutine   *)
(* outlives its client.                                                     *)
ServeEnds ==
  /\ (ctx \/ (spc = "pump" /\ \A c \in Ends : ~up[c])) ~> (spc \notin {"accept", "pump"})
  /\ \A c \in 1..MaxChans :
       (c \in Chans /\ ~up[c]) ~> (spc = "crashed" \/ (c \in Chans => reader[c] # "run"))

\* The n-th payload of c is on its way between two clients that are both there.
Owed(c, n) ==
  /\ c \in Chans /\ mate[c] # None /\ ~ctx /\ up[c] /\ up[mate[c]]
  /\ sent[c] >= n /\ Len(got[mate[c]]) < n

(* A payload sent into a pairing reaches the other client unless someone    *)
(* leaves or ctx is canceled: no reader, queue or writer stays blocked.     *)
RelayDelivers ==
  \A c \in 1..MaxChans : \A n \in 1..MaxSends : Owed(c, n) ~> ~Owed(c, n)
-----------------------------------------------------------------------------
(* What the client of c has sent and the client it is paired with has not   *)
(* received: the mate's outbound queue, the reader's hand, the channel.     *)
InFlight(c) ==
  IF c \notin Chans THEN <<>>
  ELSE (IF mate[c] = None THEN <<>> ELSE outq[mate[c]])
         \o (IF hold[c] = None THEN <<>> ELSE <<hold[c]>>) \o inq[c]
Delivered(c) == IF c \in Chans /\ mate[c] # None THEN got[mate[c]] ELSE <<>>
Intact(c) == ~ctx /\ (c \in Chans => up[c] /\ (mate[c] # None => up[mate[c]]))

Path(c) == INSTANCE FifoChannel WITH
  Message <- Payload, q <- InFlight(c), got <- Delivered(c), up <- Intact(c)

(* Each direction of a relayed pair is itself the channel the RPC layer     *)
(* relies on: ordered and lossless while both clients are connected and ctx *)
(* lives, from before the channel is accepted, across the pairing, and      *)
(* never reordered, altered or repeated afterwards.                         *)
RelayIsFifo ==
  /\ \A c \in 1..MaxChans : Path(c)!Init
  /\ [][\A c \in 1..MaxChans : [Path(c)!Next]_(Path(c)!fifoVars)]_vars
=============================================================================
