---------------------------- MODULE Negotiation ----------------------------
(***************************************************************************)
(* peer.Peer: the offer and answer flows (Dial, Accept) that turn a        *)
(* signaling session into an open DataChannel.  pc says where the flow of  *)
(* a session is; the module Facade gives it the values before and after    *)
(* the flow.  The PeerConnection is external: what the flow asks of it is  *)
(* kept in gather, remote, conn and opened.                                *)
(***************************************************************************)
EXTENDS Signaling, Functions

CONSTANTS
  RoleChoices,   \* the possible sets of sessions that Dial; the rest Accept
  SlowIce        \* the sessions whose ICE gathering is not done at once

VARIABLES
  dialers,   \* the sessions with signal.RoleClient
  pc,        \* where the call of each session is
  gather,    \* ICEGatheringState of its PeerConnection
  conn,      \* the PeerConnection: "none", "open" or "closed"
  remote,    \* the remote description: the message it came in, or None
  opened     \* openCh has been given the channel

negVars == <<dialers, pc, gather, conn, remote, opened>>
\* What no step of a flow but Send touches.
signalRest == <<idVars, roomVars, spc, sock, ctx, inbox, inp, outp, trouble>>

FlowPcs == {"check", "arm", "wait", "missed", "send", "answer", "offer", "open"}

NegotiationTypeOK ==
  /\ dialers \in RoleChoices
  /\ gather \in [Sessions -> {"new", "gathering", "complete"}]
  /\ conn \in [Sessions -> {"none", "open", "closed"}]
  /\ remote \in [Sessions -> Message \cup {None}]
  /\ opened \in [Sessions -> BOOLEAN]

NegotiationInit ==
  /\ dialers \in RoleChoices
  /\ pc = [s \in Sessions |-> "idle"]
  /\ gather = [s \in Sessions |-> "new"]
  /\ conn = [s \in Sessions |-> "none"]
  /\ remote = [s \in Sessions |-> None]
  /\ opened = [s \in Sessions |-> FALSE]

Goto(s, label) == pc' = [pc EXCEPT ![s] = label]

-----------------------------------------------------------------------------
\* New: a PeerConnection with its handlers, not yet connected.
New(s) == conn' = [conn EXCEPT ![s] = "open"]

GatherBegins(s) ==
  gather' = [gather EXCEPT ![s] = IF s \in SlowIce THEN "gathering" ELSE "complete"]

\* Dial up to SetLocalDescription(offer), which starts gathering; Accept
\* starts by waiting for an offer.
DialBegins(s) ==
  /\ s \in dialers
  /\ GatherBegins(s)
  /\ Goto(s, "check")

AcceptBegins(s) == s \notin dialers /\ Goto(s, "offer") /\ UNCHANGED gather

\* Peer.Close: nothing of the PeerConnection is left.
Close(s) ==
  /\ conn' = [conn EXCEPT ![s] = "closed"]
  /\ gather' = [gather EXCEPT ![s] = "new"]
  /\ remote' = [remote EXCEPT ![s] = None]
  /\ opened' = [opened EXCEPT ![s] = FALSE]

\* Session.Receive: the next message of the session.
Receive(s) ==
  /\ in[s] # <<>>
  /\ in' = [in EXCEPT ![s] = Tail(@)]
  /\ enroute' = [enroute EXCEPT ![Head(in[s]).from] = @ \ {s}]

\* waitForOffer takes the next message; an offer becomes the remote
\* description and the answer the local one, which starts gathering.
AcceptOffer(s) ==
  /\ pc[s] = "offer" /\ Receive(s)
  /\ \/ /\ Head(in[s]).kind = "offer"
        /\ remote' = [remote EXCEPT ![s] = Head(in[s])]
        /\ GatherBegins(s)
        /\ Goto(s, "check")
     \/ /\ Head(in[s]).kind # "offer"
        /\ UNCHANGED <<remote, gather, pc>>
  /\ UNCHANGED <<signalRest, out, dialers, conn, opened>>

\* waitForAnswer, likewise: the first answer, to whatever offer.
DialAnswer(s) ==
  /\ pc[s] = "answer" /\ Receive(s)
  /\ \/ /\ Head(in[s]).kind = "answer"
        /\ remote' = [remote EXCEPT ![s] = Head(in[s])]
        /\ Goto(s, "open")
     \/ /\ Head(in[s]).kind # "answer"
        /\ UNCHANGED <<remote, pc>>
  /\ UNCHANGED <<signalRest, out, dialers, gather, conn, opened>>

-----------------------------------------------------------------------------
\* waitICEGathering: read the state, then install the handler.  A gathering
\* that completes in between is missed, and the wait can only time out.
GatherCheck(s) ==
  /\ pc[s] = "check"
  /\ Goto(s, IF gather[s] = "complete" THEN "send" ELSE "arm")
  /\ UNCHANGED <<signalVars, dialers, gather, conn, remote, opened>>

GatherArm(s) ==
  /\ pc[s] = "arm"
  /\ Goto(s, IF gather[s] = "complete" THEN "missed" ELSE "wait")
  /\ UNCHANGED <<signalVars, dialers, gather, conn, remote, opened>>

\* Faulty variant: any gathering state change ends the wait.
GatherWaitEager(s) ==
  /\ pc[s] = "wait" /\ gather[s] # "new"
  /\ Goto(s, "send")
  /\ UNCHANGED <<signalVars, dialers, gather, conn, remote, opened>>

GatherWait(s) ==
  /\ pc[s] = "wait" /\ gather[s] = "complete"
  /\ Goto(s, "send")
  /\ UNCHANGED <<signalVars, dialers, gather, conn, remote, opened>>

\* The ICE agent has its candidates.
IceGathered(s) ==
  /\ gather[s] = "gathering" /\ conn[s] = "open"
  /\ gather' = [gather EXCEPT ![s] = "complete"]
  /\ UNCHANGED <<signalVars, dialers, pc, conn, remote, opened>>

\* sig.Send of the local description.
SendSdp(s) ==
  /\ pc[s] = "send"
  /\ SendQueues(s, [from |-> s,
                    kind |-> IF s \in dialers THEN "offer" ELSE "answer",
                    to |-> IF s \in dialers THEN None ELSE remote[s].from])
  /\ Goto(s, IF s \in dialers THEN "answer" ELSE "open")
  /\ UNCHANGED <<signalRest, in, enroute, dialers, gather, conn, remote, opened>>

-----------------------------------------------------------------------------
\* The two PeerConnections each hold the other's description: ICE and DTLS
\* succeed only then.
Linked(s, t) ==
  /\ conn[s] = "open" /\ conn[t] = "open"
  /\ s \in dialers /\ t \notin dialers /\ remote[s] # None /\ remote[t] # None
  /\ remote[s].from = t /\ remote[s].to = s /\ remote[t].from = s
LinkedTo(s) == {t \in Sessions : Linked(s, t) \/ Linked(t, s)}

\* handleDataChannel's OnOpen: the channel goes into openCh.
OnOpen(s) ==
  /\ ~opened[s] /\ LinkedTo(s) # {}
  /\ opened' = [opened EXCEPT ![s] = TRUE]
  /\ UNCHANGED <<signalVars, dialers, pc, gather, conn, remote>>

\* waitForOpen has the channel: the flow returns it.
WaitForOpen(s, label) ==
  /\ pc[s] = "open" /\ opened[s]
  /\ Goto(s, label)
  /\ UNCHANGED <<signalVars, dialers, gather, conn, remote, opened>>

\* The flow returns an error: ctx where it selects on ctx, the timeout while
\* gathering or opening, a closed `in`, or a failed call of the PeerConnection.
FlowFails(s) ==
  \/ /\ pc[s] \in {"wait", "missed", "send", "offer", "answer", "open"} /\ ctx[s]
     /\ trouble' = trouble
  \/ /\ pc[s] \in {"wait", "missed", "open"} /\ Trouble
  \/ /\ pc[s] \in {"offer", "answer"} /\ ~inp[s] /\ in[s] = <<>>
     /\ trouble' = trouble
  \/ /\ pc[s] = "check" /\ Trouble

NegotiationStep(s) ==
  \/ AcceptOffer(s) \/ DialAnswer(s)
  \/ GatherCheck(s) \/ GatherArm(s) \/ GatherWait(s) \/ IceGathered(s)
  \/ SendSdp(s) \/ OnOpen(s)

-----------------------------------------------------------------------------
(* Signaling loses nothing between the backend and the flow: a message the  *)
(* backend put into a session stays on its way until the session reads it,  *)
(* unless the WebSocket fails.                                              *)
NothingLost ==
  \A s, t \in Sessions :
    t \in enroute[s] /\ (backend = "ws" => sock[t]) =>
      \E m \in Range(in[t]) \cup Range(inbox[t]) : m.from = s

(* Non-trickle ICE: a description is sent, and so can be applied by the    *)
(* other side, only once it holds every candidate (waitICEGathering).      *)
OnlyGathered ==
  \A s \in Sessions :
    /\ conn[s] = "open"
    /\ out[s] # <<>> \/ \E t \in Sessions : remote[t] # None /\ remote[t].from = s
    => gather[s] = "complete"
=============================================================================
