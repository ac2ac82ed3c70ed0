---------------------------- MODULE FacadeProofs ----------------------------
(***************************************************************************)
(* Proofs about rendezvous and teardown, for every number of sessions:     *)
(* Facade with the modules Signaling and Negotiation under it.             *)
(***************************************************************************)
EXTENDS Facade, TLAPS, SequenceTheorems, FiniteSetTheorems

-----------------------------------------------------------------------------
(* Types.  They are not inductive alone: an Exchange of Local works on a    *)
(* service it has looked up, a pump runs for an Exchange that was made, and *)
(* an Accept past its offer has the offer's sender to answer.               *)

SvcKnown ==
  \A s \in Sessions : /\ backend = "local" /\ spc[s] # "none" => svcOf[s] # None
                      /\ spc[s] \in {"join", "gc"} => backend = "local"
OutKnown == \A s \in Sessions : outp[s] => spc[s] # "none"
Answering ==
  \A s \in Sessions \ dialers :
    pc[s] \in {"check", "arm", "wait", "missed", "send", "open"} => remote[s] # None

SignalTypes == SignalingTypeOK /\ SvcKnown /\ OutKnown
FlowTypes == NegotiationTypeOK /\ pc \in [Sessions -> CallPcs] /\ Answering
FacadeTypes ==
  /\ attach \in [Sessions -> BOOLEAN]
  /\ lpc \in {"open", "sweeping", "closed"}
  /\ conns \subseteq Sessions /\ late \subseteq Sessions

TypeInv == SignalTypes /\ FlowTypes /\ FacadeTypes

\* What a step does not touch keeps its type.
LEMMA KeepSignalTypes == SignalTypes /\ UNCHANGED signalVars => SignalTypes'
  BY DEF SignalTypes, SignalingTypeOK, SvcKnown, OutKnown, signalVars, idVars, roomVars, queueVars, Message

LEMMA KeepFlowTypes == FlowTypes /\ UNCHANGED negVars => FlowTypes'
  BY DEF FlowTypes, NegotiationTypeOK, Answering, negVars, CallPcs, FlowPcs, Message

LEMMA KeepFacadeTypes == FacadeTypes /\ UNCHANGED facadeVars => FacadeTypes'
  BY DEF FacadeTypes, facadeVars

\* A move of one flow to a place where it owes no answer.
LEMMA GotoTypes ==
  ASSUME FlowTypes, NEW s \in Sessions, NEW p \in CallPcs, pc' = [pc EXCEPT ![s] = p],
         UNCHANGED <<dialers, gather, conn, remote, opened>>,
         p \in {"check", "arm", "wait", "missed", "send", "open"} => s \in dialers \/ remote[s] # None
  PROVE  FlowTypes'
  BY DEF FlowTypes, NegotiationTypeOK, Answering, Message

\* Session.Close keeps the types.
LEMMA CloseBeginTypes ==
  ASSUME SignalTypes, NEW s \in Sessions, CloseBegin(s), trouble' \in 0..MaxTrouble
  PROVE  SignalTypes' /\ spc'[s] \in {"gc", "closed"}
<1> USE DEF SignalTypes, SignalingTypeOK
<1>1. spc[s] = "open" /\ UNCHANGED <<backend, ids, service, svcOf, ctx, out, outp>>
  BY DEF CloseBegin, idVars
<1>2. inp' \in [Sessions -> BOOLEAN] BY DEF CloseBegin
<1>3. in' \in [Sessions -> Seq(Message)] /\ inbox' \in [Sessions -> Seq(Message)]
  BY EmptySeq DEF CloseBegin
<1>4. enroute' \in [Sessions -> SUBSET Sessions] BY DEF CloseBegin
<1>5. members' \in [Sessions -> SUBSET Sessions]
  <2>1. backend = "local" => svcOf[s] \in Sessions BY <1>1 DEF SvcKnown
  <2>2. CASE backend = "local" /\ members' = [members EXCEPT ![svcOf[s]] = @ \ {s}]
    BY <2>1, <2>2
  <2>3. CASE members' = members BY <2>3
  <2>4. QED BY <2>2, <2>3 DEF CloseBegin
<1>6. sock' \in [Sessions -> BOOLEAN] BY DEF CloseBegin
<1>7. PICK p \in {"gc", "closed"} : spc' = [spc EXCEPT ![s] = p] /\ (p = "gc" => backend = "local")
  BY DEF CloseBegin
<1>8. SvcKnown' /\ OutKnown' BY <1>1, <1>7 DEF SvcKnown, OutKnown
<1>9. QED BY <1>1, <1>2, <1>3, <1>4, <1>5, <1>6, <1>7, <1>8

\* Peer.Close, and where its caller goes.
LEMMA CloseTypes ==
  ASSUME FlowTypes, NEW s \in Sessions, Close(s), dialers' = dialers,
         NEW p \in {"unwind", "failed", "teardown", "closed"}, pc' = [pc EXCEPT ![s] = p]
  PROVE  FlowTypes'
  BY DEF FlowTypes, NegotiationTypeOK, Answering, Close, CallPcs, Message

LEMMA GotoClosedPc ==
  ASSUME NEW s \in Sessions, NEW waiting, NEW done, GotoClosed(s, waiting, done)
  PROVE  \E p \in {waiting, done} : pc' = [pc EXCEPT ![s] = p]
  BY DEF GotoClosed, Goto

LEMMA TypeInit == Init => TypeInv
  BY SignalingAssumption
  DEF Init, SignalingInit, NegotiationInit, TypeInv, SignalTypes, FlowTypes, FacadeTypes,
      SvcKnown, OutKnown, Answering, SignalingTypeOK, NegotiationTypeOK, CallPcs, Message

\* The backend and the pumps.
LEMMA SignalStepTypes ==
  ASSUME SignalTypes, NEW s \in Sessions, SignalStep(s)
  PROVE  SignalTypes'
<1> USE SignalingAssumption DEF SignalTypes, SignalingTypeOK, idVars, roomVars, queueVars
<1>1. CASE LocalJoin(s)
  <2>1. UNCHANGED <<backend, ids, service, svcOf, sock, ctx, inbox, in, out, enroute, trouble>> /\ spc[s] = "join"
    BY <1>1 DEF LocalJoin
  <2>2. PICK p \in {"refused", "open"} : spc' = [spc EXCEPT ![s] = p] BY <1>1 DEF LocalJoin
  <2>3. members' \in [Sessions -> SUBSET Sessions]
    <3>1. svcOf[s] \in Sessions BY <2>1 DEF SvcKnown
    <3>2. CASE members' = [members EXCEPT ![svcOf[s]] = @ \cup {s}] BY <3>1, <3>2
    <3>3. CASE members' = members BY <3>3
    <3>4. QED BY <1>1, <3>2, <3>3 DEF LocalJoin
  <2>4. /\ inp' \in [Sessions -> BOOLEAN] /\ outp' \in [Sessions -> BOOLEAN]
        /\ \A t \in Sessions : t # s => outp'[t] = outp[t]
    BY <1>1 DEF LocalJoin
  <2>5. SvcKnown' /\ OutKnown' BY <2>1, <2>2, <2>4 DEF SvcKnown, OutKnown
  <2>6. QED BY <2>1, <2>2, <2>3, <2>4, <2>5
<1>2. CASE ServerJoin(s)
  <2>1. UNCHANGED <<backend, ids, spc, ctx, inbox, in, inp, out, outp, enroute, trouble>> /\ backend = "ws"
    BY <1>2 DEF ServerJoin
  <2>2. service' \in Sessions BY <1>2 DEF ServerJoin
  <2>3. sock' \in [Sessions -> BOOLEAN] BY <1>2 DEF ServerJoin
  <2>4. svcOf' \in [Sessions -> Sessions \cup {None}] /\ members' \in [Sessions -> SUBSET Sessions]
    <3>1. CASE UNCHANGED <<svcOf, members>> BY <3>1
    <3>2. CASE /\ svcOf' = [svcOf EXCEPT ![s] = service']
               /\ members' = [members EXCEPT ![service'] = @ \cup {s}]
      BY <2>2, <3>2
    <3>3. QED BY <1>2, <3>1, <3>2 DEF ServerJoin
  <2>5. SvcKnown' /\ OutKnown' BY <2>1 DEF SvcKnown, OutKnown
  <2>6. QED BY <2>1, <2>2, <2>3, <2>4, <2>5
<1>3. CASE ServerLeave(s) BY <1>3 DEF ServerLeave, SvcKnown, OutKnown
<1>4. CASE SocketFails(s) BY <1>4 DEF SocketFails, Trouble, SvcKnown, OutKnown
<1>5. CASE CtxCancel(s) BY <1>5 DEF CtxCancel, Trouble, SvcKnown, OutKnown
<1>6. CASE OutPump(s)
  <2>1. /\ UNCHANGED <<backend, ids, service, svcOf, members, spc, sock, ctx, in, inp, trouble>>
        /\ outp[s] /\ out[s] # <<>>
    BY <1>6 DEF OutPump
  <2>2. Head(out[s]) \in Message /\ Tail(out[s]) \in Seq(Message) BY <2>1, HeadTailProperties
  <2>3. out' \in [Sessions -> Seq(Message)] BY <1>6, <2>2 DEF OutPump
  <2>4. svcOf[s] # None => Receivers(s) \subseteq Sessions BY DEF Receivers
  <2>5. /\ inbox' \in [Sessions -> Seq(Message)] /\ enroute' \in [Sessions -> SUBSET Sessions]
        /\ outp' \in [Sessions -> BOOLEAN] /\ \A t \in Sessions : outp'[t] => outp[t]
    <3>1. CASE /\ backend = "local" \/ (sock[s] /\ Joined(s))
               /\ inbox' = [t \in Sessions |->
                    IF t \in Receivers(s) THEN Append(inbox[t], Head(out[s])) ELSE inbox[t]]
               /\ enroute' = [enroute EXCEPT ![s] = Receivers(s)]
               /\ outp' = outp
      <4>1. svcOf[s] # None BY <2>1, <3>1 DEF Joined, SvcKnown, OutKnown
      <4>2. \A t \in Sessions : Append(inbox[t], Head(out[s])) \in Seq(Message)
        BY <2>2, AppendProperties
      <4>3. QED BY <2>4, <3>1, <4>1, <4>2
    <3>2. CASE outp' = [outp EXCEPT ![s] = FALSE] /\ UNCHANGED <<inbox, enroute>> BY <3>2
    <3>3. QED BY <1>6, <3>1, <3>2 DEF OutPump
  <2>6. SvcKnown' /\ OutKnown' BY <2>1, <2>5 DEF SvcKnown, OutKnown
  <2>7. QED BY <2>1, <2>3, <2>5, <2>6
<1>7. CASE OutExit(s) BY <1>7 DEF OutExit, SvcKnown, OutKnown
<1>8. CASE InForward(s)
  <2>1. /\ UNCHANGED <<backend, ids, service, svcOf, members, spc, sock, ctx, inp, out, outp, enroute, trouble>>
        /\ inbox[s] # <<>>
    BY <1>8 DEF InForward
  <2>2. Head(inbox[s]) \in Message /\ Tail(inbox[s]) \in Seq(Message) BY <2>1, HeadTailProperties
  <2>3. Append(in[s], Head(inbox[s])) \in Seq(Message) BY <2>2, AppendProperties
  <2>4. inbox' \in [Sessions -> Seq(Message)] /\ in' \in [Sessions -> Seq(Message)]
    BY <1>8, <2>2, <2>3 DEF InForward
  <2>5. SvcKnown' /\ OutKnown' BY <2>1 DEF SvcKnown, OutKnown
  <2>6. QED BY <2>1, <2>4, <2>5
<1>9. CASE InExit(s) BY <1>9 DEF InExit, SvcKnown, OutKnown
<1>10. CASE CloseGC(s) BY <1>10 DEF CloseGC, SvcKnown, OutKnown
<1>11. QED
  BY <1>1, <1>2, <1>3, <1>4, <1>5, <1>6, <1>7, <1>8, <1>9, <1>10 DEF SignalStep

\* Session.Receive.
LEMMA ReceiveTypes ==
  ASSUME SignalTypes, NEW s \in Sessions, Receive(s),
         UNCHANGED <<signalRest, out>>
  PROVE  SignalTypes' /\ Head(in[s]) \in Message
<1> USE DEF SignalTypes, SignalingTypeOK
<1>1. in[s] # <<>> BY DEF Receive
<1>2. Head(in[s]) \in Message /\ Tail(in[s]) \in Seq(Message) BY <1>1, HeadTailProperties
<1>3. in' \in [Sessions -> Seq(Message)] BY <1>2 DEF Receive
<1>4. enroute' \in [Sessions -> SUBSET Sessions] BY DEF Receive
<1>5. UNCHANGED <<backend, ids, service, svcOf, members, spc, sock, ctx, inbox, inp, out, outp, trouble>>
  BY DEF signalRest, idVars, roomVars
<1>6. SvcKnown' /\ OutKnown' BY <1>5 DEF SvcKnown, OutKnown
<1>7. QED BY <1>2, <1>3, <1>4, <1>5, <1>6

LEMMA NegotiationStepTypes ==
  ASSUME SignalTypes, FlowTypes, NEW s \in Sessions, NegotiationStep(s)
  PROVE  SignalTypes' /\ FlowTypes'
<1>1. CASE AcceptOffer(s)
  <2>1. SignalTypes' /\ Head(in[s]) \in Message BY <1>1, ReceiveTypes DEF AcceptOffer
  <2>2. UNCHANGED <<dialers, conn, opened>> BY <1>1 DEF AcceptOffer
  <2>3. CASE /\ remote' = [remote EXCEPT ![s] = Head(in[s])]
             /\ GatherBegins(s) /\ Goto(s, "check")
    <3>1. Head(in[s]) # None BY MessageAssumption, <2>1
    <3>2. remote' \in [Sessions -> Message \cup {None}] BY <2>1, <2>3 DEF FlowTypes, NegotiationTypeOK
    <3>3. gather' \in [Sessions -> {"new", "gathering", "complete"}]
      BY <2>3 DEF FlowTypes, NegotiationTypeOK, GatherBegins
    <3>4. pc' \in [Sessions -> CallPcs] BY <2>3 DEF FlowTypes, Goto, CallPcs, FlowPcs
    <3>5. Answering' BY <2>2, <2>3, <3>1, <3>2 DEF FlowTypes, NegotiationTypeOK, Answering, Goto
    <3>6. QED BY <2>1, <2>2, <3>2, <3>3, <3>4, <3>5 DEF FlowTypes, NegotiationTypeOK
  <2>4. CASE UNCHANGED <<remote, gather, pc>> BY <2>1, <2>2, <2>4, KeepFlowTypes DEF negVars
  <2>5. QED BY <1>1, <2>3, <2>4 DEF AcceptOffer
<1>2. CASE DialAnswer(s)
  <2>1. SignalTypes' /\ Head(in[s]) \in Message BY <1>2, ReceiveTypes DEF DialAnswer
  <2>2. UNCHANGED <<dialers, gather, conn, opened>> BY <1>2 DEF DialAnswer
  <2>3. CASE remote' = [remote EXCEPT ![s] = Head(in[s])] /\ Goto(s, "open")
    <3>1. Head(in[s]) # None BY MessageAssumption, <2>1
    <3>2. remote' \in [Sessions -> Message \cup {None}] BY <2>1, <2>3 DEF FlowTypes, NegotiationTypeOK
    <3>3. pc' \in [Sessions -> CallPcs] BY <2>3 DEF FlowTypes, Goto, CallPcs, FlowPcs
    <3>4. Answering' BY <2>2, <2>3, <3>1, <3>2 DEF FlowTypes, NegotiationTypeOK, Answering, Goto
    <3>5. QED BY <2>1, <2>2, <3>2, <3>3, <3>4 DEF FlowTypes, NegotiationTypeOK
  <2>4. CASE UNCHANGED <<remote, pc>> BY <2>1, <2>2, <2>4, KeepFlowTypes DEF negVars
  <2>5. QED BY <1>2, <2>3, <2>4 DEF DialAnswer
<1>3. CASE GatherCheck(s) \/ GatherArm(s) \/ GatherWait(s)
  <2>1. PICK p \in {"send", "arm", "missed", "wait"} : pc' = [pc EXCEPT ![s] = p]
    BY <1>3 DEF GatherCheck, GatherArm, GatherWait, Goto
  <2>2. UNCHANGED <<signalVars, dialers, gather, conn, remote, opened>> /\ pc[s] \in {"check", "arm", "wait"}
    BY <1>3 DEF GatherCheck, GatherArm, GatherWait
  <2>3. p \in CallPcs BY DEF CallPcs, FlowPcs
  <2>4. s \in dialers \/ remote[s] # None BY <2>2 DEF FlowTypes, Answering
  <2>5. QED BY <2>1, <2>2, <2>3, <2>4, GotoTypes, KeepSignalTypes
<1>4. CASE IceGathered(s)
  BY <1>4, KeepSignalTypes DEF IceGathered, FlowTypes, NegotiationTypeOK, Answering, Message
<1>5. CASE SendSdp(s)
  <2>1. pc[s] = "send" /\ UNCHANGED <<signalRest, in, enroute, dialers, gather, conn, remote, opened>>
    BY <1>5 DEF SendSdp
  <2> DEFINE m == [from |-> s, kind |-> IF s \in dialers THEN "offer" ELSE "answer",
                   to |-> IF s \in dialers THEN None ELSE remote[s].from]
  <2>2. m \in Message
    <3>1. s \notin dialers => remote[s] \in Message BY <2>1 DEF FlowTypes, NegotiationTypeOK, Answering
    <3>2. s \notin dialers => remote[s].from \in Sessions BY <3>1 DEF Message
    <3>3. QED BY <3>2 DEF Message
  <2>3. Append(out[s], m) \in Seq(Message) BY <2>2, AppendProperties DEF SignalTypes, SignalingTypeOK
  <2>4. out' = [out EXCEPT ![s] = Append(out[s], m)] BY <1>5 DEF SendSdp, SendQueues
  <2> HIDE DEF m
  <2>5. out' \in [Sessions -> Seq(Message)] BY <2>3, <2>4 DEF SignalTypes, SignalingTypeOK
  <2>6. SignalTypes'
    BY <2>1, <2>5 DEF SignalTypes, SignalingTypeOK, SvcKnown, OutKnown, signalRest, idVars, roomVars
  <2>7. PICK p \in {"answer", "open"} : pc' = [pc EXCEPT ![s] = p] BY <1>5 DEF SendSdp, Goto
  <2>8. s \in dialers \/ remote[s] # None BY <2>1 DEF FlowTypes, Answering
  <2>9. FlowTypes' BY <2>1, <2>7, <2>8, GotoTypes DEF CallPcs, FlowPcs
  <2>10. QED BY <2>6, <2>9
<1>6. CASE OnOpen(s)
  BY <1>6, KeepSignalTypes DEF OnOpen, FlowTypes, NegotiationTypeOK, Answering, Message
<1>7. QED BY <1>1, <1>2, <1>3, <1>4, <1>5, <1>6 DEF NegotiationStep

\* A whole teardown of one call: Peer.Close and Session.Close.
LEMMA TeardownTypes ==
  ASSUME TypeInv, NEW s \in Sessions, Close(s), CloseBegin(s), trouble' \in 0..MaxTrouble,
         NEW waiting \in {"unwind", "teardown"}, NEW done \in {"failed", "closed"},
         GotoClosed(s, waiting, done), UNCHANGED <<dialers, facadeVars>>
  PROVE  TypeInv'
<1>1. SignalTypes' BY CloseBeginTypes DEF TypeInv
<1>2. PICK p \in {waiting, done} : pc' = [pc EXCEPT ![s] = p] BY GotoClosedPc
<1>3. FlowTypes' BY <1>2, CloseTypes DEF TypeInv
<1>4. QED BY <1>1, <1>3, KeepFacadeTypes DEF TypeInv

LEMMA FacadeStepTypes ==
  ASSUME TypeInv, NEW s \in Sessions, FacadeStep(s)
  PROVE  TypeInv'
<1>t. SignalTypes /\ FlowTypes /\ FacadeTypes /\ trouble \in 0..MaxTrouble
  BY DEF TypeInv, SignalTypes, SignalingTypeOK
<1>1. CASE Resolve(s)
  <2>1. UNCHANGED <<dialers, gather, conn, remote, opened, facadeVars>> /\ pc' = [pc EXCEPT ![s] = "resolve"]
    BY <1>1 DEF Resolve, Goto
  <2>2. FlowTypes' BY <1>t, <2>1, GotoTypes DEF CallPcs
  <2>3. ASSUME LocalLookup(s) PROVE SignalTypes'
    BY <1>t, <2>3, SignalingAssumption DEF LocalLookup, SignalTypes, SignalingTypeOK, SvcKnown, OutKnown, idVars, queueVars
  <2>4. ASSUME WsExchange(s) PROVE SignalTypes'
    <3> USE <1>t DEF SignalTypes, SignalingTypeOK
    <3>1. /\ UNCHANGED <<backend, ids, service, svcOf, members, ctx, inbox, in, out, enroute>>
          /\ backend = "ws"
      BY <2>4 DEF WsExchange, idVars, roomVars
    <3>2. PICK p \in {"refused", "open"} : spc' = [spc EXCEPT ![s] = p] BY <2>4 DEF WsExchange
    <3>3. /\ sock' \in [Sessions -> BOOLEAN] /\ inp' \in [Sessions -> BOOLEAN]
          /\ outp' \in [Sessions -> BOOLEAN] /\ \A t \in Sessions : t # s => outp'[t] = outp[t]
      BY <2>4 DEF WsExchange
    <3>4. trouble' \in 0..MaxTrouble BY <2>4, SignalingAssumption DEF WsExchange, Trouble
    <3>5. SvcKnown' /\ OutKnown' BY <3>1, <3>2, <3>3 DEF SvcKnown, OutKnown
    <3>6. QED BY <3>1, <3>2, <3>3, <3>4, <3>5
  <2>5. SignalTypes'
    BY <1>1, <2>3, <2>4 DEF Resolve
  <2>6. QED BY <1>t, <2>1, <2>2, <2>5, KeepFacadeTypes DEF TypeInv
<1>2. CASE AcceptClosed(s) \/ CloseReturns(s) \/ ConnCancel(s) \/ NewServerConn(s)
  <2>1. UNCHANGED <<signalVars, dialers, gather, conn, remote, opened, facadeVars>>
    BY <1>2 DEF AcceptClosed, CloseReturns, ConnCancel, NewServerConn, WaitForOpen
  <2>2. PICK p \in {"failed", "closed", "closing", "ready"} : pc' = [pc EXCEPT ![s] = p]
    BY <1>2 DEF AcceptClosed, CloseReturns, ConnCancel, NewServerConn, WaitForOpen, Goto
  <2>3. FlowTypes' BY <1>t, <2>1, <2>2, GotoTypes DEF CallPcs
  <2>4. QED BY <1>t, <2>1, <2>3, KeepSignalTypes, KeepFacadeTypes DEF TypeInv
<1>3. CASE ResolveFails(s)
  <2>1. UNCHANGED <<dialers, gather, conn, remote, opened, facadeVars>> BY <1>3 DEF ResolveFails
  <2>2. CASE Goto(s, "failed") /\ UNCHANGED signalVars
    <3>1. FlowTypes' BY <1>t, <2>1, <2>2, GotoTypes DEF CallPcs, Goto
    <3>2. QED BY <1>t, <2>1, <2>2, <3>1, KeepSignalTypes, KeepFacadeTypes DEF TypeInv
  <2>3. CASE Trouble /\ CloseBegin(s) /\ GotoClosed(s, "unwind", "failed")
    <3>1. trouble' \in 0..MaxTrouble BY <1>t, <2>3, SignalingAssumption DEF Trouble
    <3>2. SignalTypes' BY <1>t, <2>3, <3>1, CloseBeginTypes
    <3>3. PICK p \in {"unwind", "failed"} : pc' = [pc EXCEPT ![s] = p] BY <2>3, GotoClosedPc
    <3>4. FlowTypes' BY <1>t, <2>1, <3>3, GotoTypes DEF CallPcs
    <3>5. QED BY <1>t, <2>1, <3>2, <3>4, KeepFacadeTypes DEF TypeInv
  <2>4. QED BY <1>3, <2>2, <2>3 DEF ResolveFails
<1>4. CASE NewPeer(s)
  <2>1. UNCHANGED <<signalVars, dialers, remote, opened, facadeVars>> BY <1>4 DEF NewPeer
  <2>2. conn' \in [Sessions -> {"none", "open", "closed"}]
    BY <1>t, <1>4 DEF NewPeer, New, FlowTypes, NegotiationTypeOK
  <2>3. gather' \in [Sessions -> {"new", "gathering", "complete"}]
    BY <1>t, <1>4 DEF NewPeer, DialBegins, AcceptBegins, GatherBegins, FlowTypes, NegotiationTypeOK
  <2>4. PICK p \in {"check", "offer"} : pc' = [pc EXCEPT ![s] = p] /\ (p = "check" => s \in dialers)
    BY <1>4 DEF NewPeer, DialBegins, AcceptBegins, Goto
  <2>5. pc' \in [Sessions -> CallPcs] BY <1>t, <2>4 DEF FlowTypes, CallPcs, FlowPcs
  <2>6. Answering' BY <1>t, <2>1, <2>4 DEF FlowTypes, Answering
  <2>7. FlowTypes' BY <1>t, <2>1, <2>2, <2>3, <2>5, <2>6 DEF FlowTypes, NegotiationTypeOK
  <2>8. QED BY <1>t, <2>1, <2>7, KeepSignalTypes, KeepFacadeTypes DEF TypeInv
<1>5. CASE cleanupDial(s)
  <2>1. trouble' \in 0..MaxTrouble BY <1>t, <1>5, SignalingAssumption DEF cleanupDial, FlowFails, Trouble
  <2>2. QED BY <1>5, <2>1, TeardownTypes DEF cleanupDial
<1>6. CASE ConnClose(s) BY <1>6, <1>t, TeardownTypes DEF ConnClose
<1>7. CASE ServerConnClose(s) \/ Sweep(s)
  BY <1>7, <1>t, TeardownTypes DEF ServerConnClose, Sweep, ServerConnTeardown
<1>8. CASE NewConn(s)
  <2>1. UNCHANGED <<signalVars, dialers, gather, conn, remote, opened>> /\ pc' = [pc EXCEPT ![s] = "conn"]
    BY <1>8 DEF NewConn, WaitForOpen, Goto
  <2>2. FlowTypes' BY <1>t, <2>1, GotoTypes DEF CallPcs
  <2>3. FacadeTypes' BY <1>t, <1>8 DEF NewConn, FacadeTypes
  <2>4. QED BY <1>t, <2>1, <2>2, <2>3, KeepSignalTypes DEF TypeInv
<1>9. CASE AttachReturns(s)
  <2>1. FacadeTypes' BY <1>t, <1>9 DEF AttachReturns, FacadeTypes
  <2>2. QED BY <1>t, <1>9, <2>1, KeepSignalTypes, KeepFlowTypes DEF AttachReturns, TypeInv
<1>10. CASE Track(s) \/ ServeReturns(s)
  <2>1. UNCHANGED <<signalVars, dialers, gather, conn, remote, opened>>
    BY <1>10 DEF Track, ServeReturns
  <2>2. PICK p \in {"conn", "serving", "loose"} : pc' = [pc EXCEPT ![s] = p]
    BY <1>10 DEF Track, ServeReturns, Goto
  <2>3. FlowTypes' BY <1>t, <2>1, <2>2, GotoTypes DEF CallPcs
  <2>4. FacadeTypes' BY <1>t, <1>10 DEF Track, ServeReturns, FacadeTypes
  <2>5. QED BY <1>t, <2>1, <2>3, <2>4, KeepSignalTypes DEF TypeInv
<1>11. QED BY <1>1, <1>2, <1>3, <1>4, <1>5, <1>6, <1>7, <1>8, <1>9, <1>10 DEF FacadeStep

LEMMA TypeStep == TypeInv /\ [Next]_vars => TypeInv'
<1> SUFFICES ASSUME TypeInv, [Next]_vars PROVE TypeInv'
  OBVIOUS
<1>t. SignalTypes /\ FlowTypes /\ FacadeTypes BY DEF TypeInv
<1>1. ASSUME NEW s \in Sessions, SignalStep(s), UNCHANGED <<negVars, facadeVars>> PROVE TypeInv'
  BY <1>t, <1>1, SignalStepTypes, KeepFlowTypes, KeepFacadeTypes DEF TypeInv
<1>2. ASSUME NEW s \in Sessions, NegotiationStep(s), UNCHANGED facadeVars PROVE TypeInv'
  BY <1>t, <1>2, NegotiationStepTypes, KeepFacadeTypes DEF TypeInv
<1>3. ASSUME NEW s \in Sessions, FacadeStep(s) PROVE TypeInv'
  BY <1>3, FacadeStepTypes
<1>4. CASE ListenerClose \/ SweepEnd
  <2>1. FacadeTypes' BY <1>t, <1>4 DEF ListenerClose, SweepEnd, FacadeTypes
  <2>2. UNCHANGED <<signalVars, negVars>> BY <1>4 DEF ListenerClose, SweepEnd
  <2>3. QED BY <1>t, <2>1, <2>2, KeepSignalTypes, KeepFlowTypes DEF TypeInv
<1>5. CASE UNCHANGED vars
  BY <1>t, <1>5, KeepSignalTypes, KeepFlowTypes, KeepFacadeTypes DEF vars, TypeInv
<1>6. QED BY <1>1, <1>2, <1>3, <1>4, <1>5 DEF Next

\* Every session, flow and connection has what its place in Exchange, Dial,
\* Accept or Close dereferences.
THEOREM FacadeTypeCorrect == Spec => []TypeOK
<1>1. TypeInv => TypeOK BY DEF TypeInv, SignalTypes, FlowTypes, FacadeTypes, TypeOK
<1>2. QED BY <1>1, TypeInit, TypeStep, PTL DEF Spec

-----------------------------------------------------------------------------
UsedPcs == FlowPcs \cup {"ready", "conn", "serving", "loose", "closing"}

\* Where the call is says how far its session is ...
SessionLife ==
  \A s \in Sessions :
    /\ pc[s] = "idle" => spc[s] = "none"
    /\ pc[s] = "resolve" => spc[s] \in {"join", "open", "refused"}
    /\ pc[s] \in UsedPcs => spc[s] = "open"
    /\ pc[s] \in {"unwind", "teardown"} => spc[s] \in {"gc", "closed"}
    /\ pc[s] = "failed" => spc[s] \in {"none", "refused", "closed"}
    /\ pc[s] = "closed" => spc[s] = "closed"

\* ... and whether its PeerConnection is open.
PeerLife ==
  \A s \in Sessions : /\ pc[s] \in {"idle", "resolve"} => conn[s] = "none"
                      /\ pc[s] \in UsedPcs <=> conn[s] = "open"

\* Only a dialer's Conn has an Attach pump, until Close has waited for it.
AttachLife ==
  \A s \in Sessions : attach[s] => s \in dialers /\ pc[s] \in {"conn", "closing"}

\* A working WebSocket belongs to an open session; Local lists open sessions
\* only, each in the room it looked up.
RoomLife ==
  \A s \in Sessions :
    /\ sock[s] => backend = "ws" /\ spc[s] = "open"
    /\ backend = "local" => \A g \in Sessions : s \in members[g] => g = svcOf[s] /\ spc[s] = "open"

\* An accepted connection is in conns, unless track came after Close.
Tracked ==
  /\ conns \subseteq Acceptors /\ (lpc = "closed" => conns = {})
  /\ \A s \in Acceptors : pc[s] \in {"conn", "serving"} => s \in conns \cup late

LifeInv == SessionLife /\ PeerLife /\ AttachLife /\ RoomLife /\ Tracked

LEMMA LifeStep == TypeInv /\ LifeInv /\ [Next]_vars => LifeInv'
<1> SUFFICES ASSUME TypeInv, LifeInv, [Next]_vars PROVE LifeInv'
  OBVIOUS
<1>t. /\ backend \in {"local", "ws"} /\ svcOf \in [Sessions -> Sessions \cup {None}]
      /\ members \in [Sessions -> SUBSET Sessions] /\ sock \in [Sessions -> BOOLEAN]
      /\ spc \in [Sessions -> {"none", "join", "open", "refused", "gc", "closed"}]
      /\ pc \in [Sessions -> CallPcs] /\ conn \in [Sessions -> {"none", "open", "closed"}]
      /\ attach \in [Sessions -> BOOLEAN] /\ lpc \in {"open", "sweeping", "closed"}
      /\ SvcKnown
  BY DEF TypeInv, SignalTypes, SignalingTypeOK, FlowTypes, NegotiationTypeOK, FacadeTypes
<1>i. LifeInv OBVIOUS
<1> USE DEF LifeInv, SessionLife, PeerLife, AttachLife, RoomLife, Tracked, UsedPcs, FlowPcs, CallPcs, Acceptors, SvcKnown,
  signalVars, idVars, roomVars, queueVars, negVars, signalRest, facadeVars
<1>1. ASSUME NEW s \in Sessions, LocalJoin(s), UNCHANGED <<negVars, facadeVars>> PROVE LifeInv'
  BY <1>t, <1>i, <1>1 DEF LocalJoin
<1>2. ASSUME NEW s \in Sessions, ServerJoin(s), UNCHANGED <<negVars, facadeVars>> PROVE LifeInv'
  BY <1>t, <1>i, <1>2 DEF ServerJoin
<1>3. ASSUME NEW s \in Sessions, ServerLeave(s), UNCHANGED <<negVars, facadeVars>> PROVE LifeInv'
  BY <1>t, <1>i, <1>3 DEF ServerLeave
<1>4. ASSUME NEW s \in Sessions, SocketFails(s), UNCHANGED <<negVars, facadeVars>> PROVE LifeInv'
  BY <1>t, <1>i, <1>4 DEF SocketFails, Trouble
<1>5. ASSUME NEW s \in Sessions, CtxCancel(s), UNCHANGED <<negVars, facadeVars>> PROVE LifeInv'
  BY <1>t, <1>i, <1>5 DEF CtxCancel, Trouble
<1>6. ASSUME NEW s \in Sessions, OutPump(s), UNCHANGED <<negVars, facadeVars>> PROVE LifeInv'
  BY <1>t, <1>i, <1>6 DEF OutPump, Receivers
<1>7. ASSUME NEW s \in Sessions, OutExit(s), UNCHANGED <<negVars, facadeVars>> PROVE LifeInv'
  BY <1>t, <1>i, <1>7 DEF OutExit
<1>8. ASSUME NEW s \in Sessions, InForward(s), UNCHANGED <<negVars, facadeVars>> PROVE LifeInv'
  BY <1>t, <1>i, <1>8 DEF InForward
<1>9. ASSUME NEW s \in Sessions, InExit(s), UNCHANGED <<negVars, facadeVars>> PROVE LifeInv'
  BY <1>t, <1>i, <1>9 DEF InExit
<1>10. ASSUME NEW s \in Sessions, CloseGC(s), UNCHANGED <<negVars, facadeVars>> PROVE LifeInv'
  BY <1>t, <1>i, <1>10 DEF CloseGC
<1>11. ASSUME NEW s \in Sessions, AcceptOffer(s), UNCHANGED facadeVars PROVE LifeInv'
  BY <1>t, <1>i, <1>11 DEF AcceptOffer, Receive, GatherBegins, Goto
<1>12. ASSUME NEW s \in Sessions, DialAnswer(s), UNCHANGED facadeVars PROVE LifeInv'
  BY <1>t, <1>i, <1>12 DEF DialAnswer, Receive, Goto
<1>13. ASSUME NEW s \in Sessions, GatherCheck(s), UNCHANGED facadeVars PROVE LifeInv'
  BY <1>t, <1>i, <1>13 DEF GatherCheck, Goto
<1>14. ASSUME NEW s \in Sessions, GatherArm(s), UNCHANGED facadeVars PROVE LifeInv'
  BY <1>t, <1>i, <1>14 DEF GatherArm, Goto
<1>15. ASSUME NEW s \in Sessions, GatherWait(s), UNCHANGED facadeVars PROVE LifeInv'
  BY <1>t, <1>i, <1>15 DEF GatherWait, Goto
<1>16. ASSUME NEW s \in Sessions, IceGathered(s), UNCHANGED facadeVars PROVE LifeInv'
  BY <1>t, <1>i, <1>16 DEF IceGathered
<1>17. ASSUME NEW s \in Sessions, SendSdp(s), UNCHANGED facadeVars PROVE LifeInv'
  BY <1>t, <1>i, <1>17 DEF SendSdp, SendQueues, Goto
<1>18. ASSUME NEW s \in Sessions, OnOpen(s), UNCHANGED facadeVars PROVE LifeInv'
  BY <1>t, <1>i, <1>18 DEF OnOpen
<1>19. ASSUME NEW s \in Sessions, Resolve(s) PROVE LifeInv'
  BY <1>t, <1>i, <1>19 DEF Resolve, LocalLookup, WsExchange, Goto, Trouble
<1>20. ASSUME NEW s \in Sessions, AcceptClosed(s) PROVE LifeInv'
  BY <1>t, <1>i, <1>20 DEF AcceptClosed, Goto
<1>21. ASSUME NEW s \in Sessions, ResolveFails(s) PROVE LifeInv'
  BY <1>t, <1>i, <1>21 DEF ResolveFails, Goto, GotoClosed, CloseBegin, Trouble
<1>22. ASSUME NEW s \in Sessions, NewPeer(s) PROVE LifeInv'
  BY <1>t, <1>i, <1>22 DEF NewPeer, New, DialBegins, AcceptBegins, GatherBegins, Goto
<1>23. ASSUME NEW s \in Sessions, cleanupDial(s) PROVE LifeInv'
  <2>1. pc[s] \in FlowPcs BY <1>23 DEF cleanupDial, FlowFails
  <2>2. Close(s) /\ CloseBegin(s) /\ GotoClosed(s, "unwind", "failed") /\ UNCHANGED <<dialers, facadeVars>>
    BY <1>23 DEF cleanupDial
  <2>3. QED BY <1>t, <1>i, <2>1, <2>2 DEF Close, CloseBegin, GotoClosed, Goto
<1>24. ASSUME NEW s \in Sessions, CloseReturns(s) PROVE LifeInv'
  BY <1>t, <1>i, <1>24 DEF CloseReturns, Goto
<1>25. ASSUME NEW s \in Sessions, NewConn(s) PROVE LifeInv'
  BY <1>t, <1>i, <1>25 DEF NewConn, WaitForOpen, Goto
<1>26. ASSUME NEW s \in Sessions, AttachReturns(s) PROVE LifeInv'
  BY <1>t, <1>i, <1>26 DEF AttachReturns
<1>27. ASSUME NEW s \in Sessions, ConnCancel(s) PROVE LifeInv'
  BY <1>t, <1>i, <1>27 DEF ConnCancel, Goto
<1>28. ASSUME NEW s \in Sessions, ConnClose(s) PROVE LifeInv'
  BY <1>t, <1>i, <1>28 DEF ConnClose, Close, CloseBegin, GotoClosed, Goto
<1>29. ASSUME NEW s \in Sessions, NewServerConn(s) PROVE LifeInv'
  BY <1>t, <1>i, <1>29 DEF NewServerConn, WaitForOpen, Goto
<1>30. ASSUME NEW s \in Sessions, Track(s) PROVE LifeInv'
  BY <1>t, <1>i, <1>30 DEF Track, Goto
<1>31. ASSUME NEW s \in Sessions, ServeReturns(s) PROVE LifeInv'
  BY <1>t, <1>i, <1>31 DEF ServeReturns, Goto
<1>32. ASSUME NEW s \in Sessions, ServerConnClose(s) PROVE LifeInv'
  BY <1>t, <1>i, <1>32 DEF ServerConnClose, ServerConnTeardown, Close, CloseBegin, GotoClosed, Goto
<1>33. ASSUME NEW s \in Sessions, Sweep(s) PROVE LifeInv'
  BY <1>t, <1>i, <1>33 DEF Sweep, ServerConnTeardown, Close, CloseBegin, GotoClosed, Goto
<1>34. CASE ListenerClose BY <1>34, <1>t DEF ListenerClose
<1>35. CASE SweepEnd BY <1>35, <1>t DEF SweepEnd
<1>36. CASE UNCHANGED vars BY <1>36, <1>t DEF vars
<1>37. QED
  BY <1>1, <1>2, <1>3, <1>4, <1>5, <1>6, <1>7, <1>8, <1>9, <1>10, <1>11, <1>12, <1>13, <1>14, <1>15, <1>16, <1>17, <1>18,
     <1>19, <1>20, <1>21, <1>22, <1>23, <1>24, <1>25, <1>26, <1>27, <1>28, <1>29, <1>30, <1>31, <1>32, <1>33, <1>34, <1>35, <1>36
  DEF Next, SignalStep, NegotiationStep, FacadeStep

LEMMA LifeInit == Init => LifeInv
  BY SignalingAssumption
  DEF Init, SignalingInit, NegotiationInit, LifeInv, SessionLife, PeerLife, AttachLife, RoomLife, Tracked,
      UsedPcs, FlowPcs, Acceptors

LEMMA LifeHolds == Spec => [](TypeInv /\ LifeInv)
  BY TypeInit, TypeStep, LifeInit, LifeStep, PTL DEF Spec

\* dial.go: "On any failure we release the stack so the server doesn't leak a
\* phantom peer"; conn.go: the parts go in the order the stack needs.
THEOREM CallsLeaveNoPhantom == Spec => []NoPhantom
<1>1. TypeInv /\ LifeInv => NoPhantom
  <2> SUFFICES ASSUME TypeInv, LifeInv, NEW s \in Sessions
               PROVE  /\ Ended(s) => conn[s] # "open" /\ (Joined(s) => backend = "ws" /\ ~sock[s])
                      /\ attach[s] => conn[s] = "open" /\ spc[s] = "open"
    BY DEF NoPhantom
  <2>1. backend \in {"local", "ws"} /\ svcOf \in [Sessions -> Sessions \cup {None}]
    BY DEF TypeInv, SignalTypes, SignalingTypeOK
  <2>2. QED
    BY <2>1 DEF LifeInv, SessionLife, PeerLife, AttachLife, RoomLife, UsedPcs, FlowPcs, Ended, Joined
<1>2. QED BY <1>1, LifeHolds, PTL

\* No Send of a flow meets a session the facade has closed, so the panic of
\* Local's Send (signal/local.go) is out of reach.
THEOREM FacadeNeverSendsClosed == Spec => []NoSendAfterClose
<1>1. LifeInv => NoSendAfterClose BY DEF LifeInv, SessionLife, UsedPcs, NoSendAfterClose
<1>2. QED BY <1>1, LifeHolds, PTL

\* Listener.Close closes every connection that track gave it.
THEOREM ListenerCloseSweeps == Spec => []SweepComplete
<1>1. LifeInv => SweepComplete
  BY DEF LifeInv, PeerLife, Tracked, UsedPcs, FlowPcs, Acceptors, SweepComplete
<1>2. QED BY <1>1, LifeHolds, PTL

-----------------------------------------------------------------------------
(* What travels.  Each flow sends one description, after gathering, and     *)
(* nothing it sent is anywhere before it did.                               *)

\* The senders of the messages in a queue; no sender twice.
From(q) == {q[i].from : i \in 1..Len(q)}
Distinct(q) == \A i, j \in 1..Len(q) : q[i].from = q[j].from => i = j

LEMMA FromEmpty == From(<<>>) = {} /\ Distinct(<<>>)
  BY DEF From, Distinct

LEMMA FromTail ==
  ASSUME NEW q \in Seq(Message), q # <<>>
  PROVE  /\ From(q) = From(Tail(q)) \cup {Head(q).from}
         /\ Distinct(q) => Distinct(Tail(q)) /\ Head(q).from \notin From(Tail(q))
<1>1. Len(q) \in Nat \ {0} BY EmptySeq
<1>2. Head(q) = q[1] /\ Len(Tail(q)) = Len(q) - 1 /\ \A i \in 1..Len(Tail(q)) : Tail(q)[i] = q[i + 1]
  BY HeadTailProperties
<1>3. ASSUME NEW f \in From(q) PROVE f \in From(Tail(q)) \cup {Head(q).from}
  <2>1. PICK i \in 1..Len(q) : f = q[i].from BY <1>3 DEF From
  <2>2. CASE i = 1 BY <1>2, <2>1, <2>2
  <2>3. CASE i # 1
    <3>1. i - 1 \in 1..Len(Tail(q)) /\ Tail(q)[i - 1] = q[i] BY <1>1, <1>2, <2>3
    <3>2. QED BY <2>1, <3>1 DEF From
  <2>4. QED BY <2>2, <2>3
<1>4. ASSUME NEW f \in From(Tail(q)) PROVE f \in From(q)
  <2>1. PICK i \in 1..Len(Tail(q)) : f = Tail(q)[i].from BY <1>4 DEF From
  <2>2. i + 1 \in 1..Len(q) BY <1>1, <1>2
  <2>3. QED BY <1>2, <2>1, <2>2 DEF From
<1>5. Head(q).from \in From(q) BY <1>1, <1>2 DEF From
<1>6. ASSUME Distinct(q) PROVE Distinct(Tail(q)) /\ Head(q).from \notin From(Tail(q))
  <2>1. \A i \in 1..Len(Tail(q)) : i + 1 \in 1..Len(q) /\ i + 1 # 1 BY <1>1, <1>2
  <2>2. Distinct(Tail(q)) BY <1>2, <1>6, <2>1 DEF Distinct
  <2>3. Head(q).from \notin From(Tail(q)) BY <1>1, <1>2, <1>6, <2>1 DEF Distinct, From
  <2>4. QED BY <2>2, <2>3
<1>7. QED BY <1>3, <1>4, <1>5, <1>6

LEMMA FromAppend ==
  ASSUME NEW q \in Seq(Message), NEW m \in Message
  PROVE  /\ From(Append(q, m)) = From(q) \cup {m.from}
         /\ Distinct(q) /\ m.from \notin From(q) => Distinct(Append(q, m))
<1>1. /\ Len(Append(q, m)) = Len(q) + 1 /\ Len(q) \in Nat
      /\ \A i \in 1..Len(q) : Append(q, m)[i] = q[i]
      /\ Append(q, m)[Len(q) + 1] = m
  BY AppendProperties, LenProperties
<1>2. \A i \in 1..(Len(q) + 1) : i \in 1..Len(q) \/ i = Len(q) + 1 BY <1>1
<1>3. From(Append(q, m)) \subseteq From(q) \cup {m.from} BY <1>1, <1>2 DEF From
<1>4. From(q) \subseteq From(Append(q, m)) BY <1>1 DEF From
<1>5. m.from \in From(Append(q, m)) BY <1>1 DEF From
<1>6. ASSUME Distinct(q), m.from \notin From(q) PROVE Distinct(Append(q, m))
  <2>1. \A i \in 1..Len(q) : q[i].from # m.from BY <1>6 DEF From
  <2>2. QED BY <1>1, <1>2, <1>6, <2>1 DEF Distinct
<1>7. QED BY <1>3, <1>4, <1>5, <1>6

\* A queue without two messages of one sender is no longer than the number of
\* its possible senders.
LEMMA DistinctIsShort ==
  ASSUME NEW q \in Seq(Message), Distinct(q), NEW T, IsFiniteSet(T), From(q) \subseteq T
  PROVE  Len(q) <= Cardinality(T)
<1> DEFINE f == [i \in 1..Len(q) |-> q[i].from]
<1>1. f \in Injection(1..Len(q), T) BY DEF Injection, IsInjective, Distinct, From
<1>2. Cardinality(1..Len(q)) <= Cardinality(T) BY <1>1, FS_Injection
<1>3. Len(q) \in Nat /\ 1 \in Int /\ Len(q) \in Int BY LenProperties
<1>4. Cardinality(1..Len(q)) = IF 1 > Len(q) THEN 0 ELSE Len(q) - 1 + 1 BY ONLY <1>3, FS_Interval
<1>5. Cardinality(1..Len(q)) = Len(q) BY <1>3, <1>4
<1>6. QED BY <1>2, <1>5

EarlyPcs == {"idle", "resolve", "offer", "check", "arm", "wait", "missed", "send"}
LatePcs == {"send", "answer", "open", "ready", "conn", "serving", "loose", "closing"}
\* The flow has sent its description.
Spoke(s) == pc[s] \notin EarlyPcs

\* waitICEGathering has seen "complete" before anything is sent.
GatherLife == \A s \in Sessions : pc[s] \in LatePcs => gather[s] = "complete"

\* Whatever is queued or applied was sent by a flow that has spoken.
Heard ==
  \A s \in Sessions :
    /\ From(out[s]) \subseteq {s} /\ (out[s] # <<>> => Spoke(s))
    /\ \A f \in From(in[s]) \cup From(inbox[s]) : Spoke(f)
    /\ remote[s] # None => Spoke(remote[s].from)

\* A session has at most one message of each other session before it.
Once ==
  \A t \in Sessions :
    /\ Len(out[t]) <= 1
    /\ Distinct(in[t]) /\ Distinct(inbox[t]) /\ From(in[t]) \cap From(inbox[t]) = {}
    /\ \A f \in From(in[t]) \cup From(inbox[t]) : f # t /\ out[f] = <<>>

MessageInv == GatherLife /\ Heard /\ Once

LEMMA FlowStep ==
  ASSUME TypeInv, LifeInv, GatherLife, [Next]_vars
  PROVE  GatherLife' /\ \A t \in Sessions : Spoke(t) => Spoke(t)'
<1>t. pc \in [Sessions -> CallPcs] /\ gather \in [Sessions -> {"new", "gathering", "complete"}]
  BY DEF TypeInv, FlowTypes, NegotiationTypeOK
<1> USE <1>t DEF GatherLife, Spoke, EarlyPcs, LatePcs
<1>1. CASE UNCHANGED <<pc, gather>> BY <1>1
<1>2. ASSUME NEW s \in Sessions, AcceptOffer(s) \/ NewPeer(s)
      PROVE  GatherLife' /\ \A t \in Sessions : Spoke(t) => Spoke(t)'
  <2>1. pc[s] \in {"offer", "resolve"} BY <1>2 DEF AcceptOffer, NewPeer
  <2>2. \A t \in Sessions : t # s => pc'[t] = pc[t] /\ gather'[t] = gather[t]
    BY <1>2 DEF AcceptOffer, NewPeer, DialBegins, AcceptBegins, GatherBegins, Goto
  <2>3. pc'[s] \in {"offer", "check"} BY <1>2, <2>1 DEF AcceptOffer, NewPeer, DialBegins, AcceptBegins, Goto
  <2>4. QED BY <2>1, <2>2, <2>3
<1>3. ASSUME NEW s \in Sessions, GatherCheck(s) \/ GatherArm(s) \/ GatherWait(s) \/ IceGathered(s) \/ SendSdp(s)
      PROVE  GatherLife' /\ \A t \in Sessions : Spoke(t) => Spoke(t)'
  BY <1>3 DEF GatherCheck, GatherArm, GatherWait, IceGathered, SendSdp, Goto
<1>4. ASSUME NEW s \in Sessions, DialAnswer(s) \/ NewConn(s) \/ ConnCancel(s) \/ NewServerConn(s) \/ Track(s) \/ ServeReturns(s)
      PROVE  GatherLife' /\ \A t \in Sessions : Spoke(t) => Spoke(t)'
  BY <1>4 DEF DialAnswer, NewConn, ConnCancel, NewServerConn, WaitForOpen, Track, ServeReturns, Goto
<1>5. ASSUME NEW s \in Sessions, Resolve(s) \/ AcceptClosed(s) \/ CloseReturns(s)
      PROVE  GatherLife' /\ \A t \in Sessions : Spoke(t) => Spoke(t)'
  BY <1>5 DEF Resolve, AcceptClosed, CloseReturns, Goto
<1>6. ASSUME NEW s \in Sessions, ResolveFails(s) \/ cleanupDial(s) \/ ConnClose(s) \/ ServerConnClose(s) \/ Sweep(s)
      PROVE  GatherLife' /\ \A t \in Sessions : Spoke(t) => Spoke(t)'
  <2>1. PICK p \in {"failed", "unwind", "teardown", "closed"} : pc' = [pc EXCEPT ![s] = p]
    BY <1>6 DEF ResolveFails, cleanupDial, ConnClose, ServerConnClose, Sweep, ServerConnTeardown, GotoClosed, Goto
  <2>2. \A t \in Sessions : t # s => gather'[t] = gather[t]
    BY <1>6 DEF ResolveFails, cleanupDial, ConnClose, ServerConnClose, Sweep, ServerConnTeardown, Close
  <2>3. QED BY <2>1, <2>2
<1>7. ASSUME NEW s \in Sessions, OnOpen(s) \/ AttachReturns(s) PROVE UNCHANGED <<pc, gather>>
  BY <1>7 DEF OnOpen, AttachReturns, negVars
<1>8. CASE ListenerClose \/ SweepEnd \/ UNCHANGED vars
  BY <1>1, <1>8 DEF ListenerClose, SweepEnd, vars, negVars
<1>9. ASSUME NEW s \in Sessions, UNCHANGED <<negVars, facadeVars>> PROVE UNCHANGED <<pc, gather>>
  BY <1>9 DEF negVars
<1>10. QED
  BY <1>1, <1>2, <1>3, <1>4, <1>5, <1>6, <1>7, <1>8, <1>9 DEF Next, NegotiationStep, FacadeStep

MessageTypes ==
  /\ in \in [Sessions -> Seq(Message)] /\ inbox \in [Sessions -> Seq(Message)]
  /\ out \in [Sessions -> Seq(Message)] /\ remote \in [Sessions -> Message \cup {None}]

LEMMA FromSessions == ASSUME NEW q \in Seq(Message) PROVE From(q) \subseteq Sessions
<1>1. \A i \in 1..Len(q) : q[i] \in Message BY ElementOfSeq
<1>2. QED BY <1>1 DEF From, Message

LEMMA OnlyMessage ==
  ASSUME NEW S, NEW q \in Seq(S), q # <<>>, Len(q) <= 1
  PROVE  Tail(q) = <<>>
<1>1. Len(q) \in Nat \ {0} BY EmptySeq
<1>2. Tail(q) \in Seq(S) /\ Len(Tail(q)) = Len(q) - 1 BY HeadTailProperties
<1>3. Len(q) = 1 BY <1>1
<1>4. Len(Tail(q)) \notin Nat \ {0} BY <1>2, <1>3
<1>5. QED BY <1>2, <1>4, EmptySeq

\* A step that only moves messages towards their reader, or drops them.
LEMMA MessagesMove ==
  ASSUME MessageTypes, MessageTypes', Heard, Once,
         \A t \in Sessions : Spoke(t) => Spoke(t)',
         \A t \in Sessions :
           /\ out'[t] = out[t] \/ out'[t] = <<>>
           /\ remote'[t] = remote[t] \/ remote'[t] = None \/ remote'[t].from \in From(in[t])
           /\ From(in'[t]) \cup From(inbox'[t]) \subseteq From(in[t]) \cup From(inbox[t])
           /\ Distinct(in'[t]) /\ Distinct(inbox'[t]) /\ From(in'[t]) \cap From(inbox'[t]) = {}
  PROVE  Heard' /\ Once'
<1>1. \A t \in Sessions : From(in[t]) \subseteq Sessions /\ From(inbox[t]) \subseteq Sessions
  BY FromSessions DEF MessageTypes
<1>2. \A t \in Sessions : Len(out[t]) <= 1 => Len(out'[t]) <= 1 OBVIOUS
<1>3. \A t \in Sessions : remote[t] # None => remote[t].from \in Sessions BY DEF MessageTypes, Message
<1>4. Heard'
  <2> SUFFICES ASSUME NEW t \in Sessions
               PROVE  /\ From(out'[t]) \subseteq {t} /\ (out'[t] # <<>> => Spoke(t)')
                      /\ \A f \in From(in'[t]) \cup From(inbox'[t]) : Spoke(f)'
                      /\ remote'[t] # None => pc'[remote'[t].from] \notin EarlyPcs
    BY DEF Heard, Spoke
  <2>1. From(out'[t]) \subseteq {t} /\ (out'[t] # <<>> => Spoke(t)') BY FromEmpty DEF Heard
  <2>2. \A f \in From(in'[t]) \cup From(inbox'[t]) : Spoke(f)' BY <1>1 DEF Heard
  <2>3. ASSUME remote'[t] # None PROVE pc'[remote'[t].from] \notin EarlyPcs
    BY <1>1, <1>3, <2>3 DEF Heard, Spoke
  <2>4. QED BY <2>1, <2>2, <2>3
<1>5. Once' BY <1>1, <1>2 DEF Once
<1>6. QED BY <1>4, <1>5

\* The queues of a session the step does not touch.
LEMMA SameQueues ==
  ASSUME Once, NEW t \in Sessions, in'[t] = in[t], inbox'[t] = inbox[t]
  PROVE  /\ From(in'[t]) \cup From(inbox'[t]) \subseteq From(in[t]) \cup From(inbox[t])
         /\ Distinct(in'[t]) /\ Distinct(inbox'[t]) /\ From(in'[t]) \cap From(inbox'[t]) = {}
  BY DEF Once

LEMMA MessageStep == TypeInv /\ LifeInv /\ MessageInv /\ [Next]_vars => MessageInv'
<1> SUFFICES ASSUME TypeInv, LifeInv, MessageInv, [Next]_vars PROVE MessageInv'
  OBVIOUS
<1>g. GatherLife' /\ \A t \in Sessions : Spoke(t) => Spoke(t)' BY FlowStep DEF MessageInv
<1>t. MessageTypes /\ MessageTypes'
  <2>1. TypeInv' BY TypeStep
  <2>2. QED BY <2>1 DEF TypeInv, SignalTypes, SignalingTypeOK, FlowTypes, NegotiationTypeOK, MessageTypes
<1>i. Heard /\ Once BY DEF MessageInv
<1> SUFFICES Heard' /\ Once' BY <1>g DEF MessageInv
<1>q. \A t \in Sessions : in'[t] = in[t] /\ inbox'[t] = inbox[t] =>
        /\ From(in'[t]) \cup From(inbox'[t]) \subseteq From(in[t]) \cup From(inbox[t])
        /\ Distinct(in'[t]) /\ Distinct(inbox'[t]) /\ From(in'[t]) \cap From(inbox'[t]) = {}
  BY <1>i, SameQueues
<1>1. CASE UNCHANGED <<out, in, inbox, remote>>
  BY <1>1, <1>g, <1>t, <1>i, <1>q, MessagesMove
<1>2. ASSUME NEW s \in Sessions, OutExit(s), UNCHANGED negVars PROVE Heard' /\ Once'
  <2>1. UNCHANGED <<in, inbox, remote>> /\ out' = [out EXCEPT ![s] = <<>>] BY <1>2 DEF OutExit, negVars
  <2>2. QED BY <2>1, <1>g, <1>t, <1>i, <1>q, MessagesMove DEF MessageTypes
<1>3. ASSUME NEW s \in Sessions, InForward(s), UNCHANGED negVars PROVE Heard' /\ Once'
  <2>1. UNCHANGED <<out, remote>> /\ inbox' = [inbox EXCEPT ![s] = Tail(inbox[s])] /\ inbox[s] # <<>>
    BY <1>3 DEF InForward, negVars
  <2>2. inbox[s] \in Seq(Message) /\ Head(inbox[s]) \in Message /\ in[s] \in Seq(Message)
    BY <1>t, <2>1, HeadTailProperties DEF MessageTypes
  <2>3. /\ From(inbox[s]) = From(Tail(inbox[s])) \cup {Head(inbox[s]).from}
        /\ Distinct(Tail(inbox[s])) /\ Head(inbox[s]).from \notin From(Tail(inbox[s]))
    BY <1>i, <2>1, <2>2, FromTail DEF Once
  <2>4. PICK q \in {in[s], Append(in[s], Head(inbox[s]))} : in' = [in EXCEPT ![s] = q]
    BY <1>3 DEF InForward
  <2>5. From(q) \subseteq From(in[s]) \cup {Head(inbox[s]).from} /\ Distinct(q)
    <3>1. Distinct(in[s]) /\ Head(inbox[s]).from \notin From(in[s]) BY <1>i, <2>3 DEF Once
    <3>2. CASE q = in[s] BY <3>1, <3>2
    <3>3. CASE q = Append(in[s], Head(inbox[s])) BY <2>2, <3>1, <3>3, FromAppend
    <3>4. QED BY <3>2, <3>3
  <2>6. in'[s] = q /\ inbox'[s] = Tail(inbox[s]) BY <1>t, <2>1, <2>4 DEF MessageTypes
  <2>7. /\ From(in'[s]) \cup From(inbox'[s]) \subseteq From(in[s]) \cup From(inbox[s])
        /\ Distinct(in'[s]) /\ Distinct(inbox'[s]) /\ From(in'[s]) \cap From(inbox'[s]) = {}
    BY <1>i, <2>3, <2>5, <2>6 DEF Once
  <2>8. \A t \in Sessions : t # s => in'[t] = in[t] /\ inbox'[t] = inbox[t]
    BY <1>t, <2>1, <2>4 DEF MessageTypes
  <2>9. QED BY <1>g, <1>t, <1>i, <1>q, <2>1, <2>7, <2>8, MessagesMove
<1>4. ASSUME NEW s \in Sessions, AcceptOffer(s) \/ DialAnswer(s) PROVE Heard' /\ Once'
  <2>1. /\ UNCHANGED <<out, inbox>> /\ in[s] # <<>> /\ in' = [in EXCEPT ![s] = Tail(in[s])]
        /\ remote' = [remote EXCEPT ![s] = Head(in[s])] \/ remote' = remote
    BY <1>4 DEF AcceptOffer, DialAnswer, Receive, signalRest
  <2>2. /\ From(in[s]) = From(Tail(in[s])) \cup {Head(in[s]).from}
        /\ Distinct(Tail(in[s]))
    BY <1>t, <1>i, <2>1, FromTail DEF MessageTypes, Once
  <2>3. in'[s] = Tail(in[s]) BY <1>t, <2>1 DEF MessageTypes
  <2>4. \A t \in Sessions : t # s => in'[t] = in[t] /\ inbox'[t] = inbox[t] BY <1>t, <2>1 DEF MessageTypes
  <2>5. /\ From(in'[s]) \cup From(inbox'[s]) \subseteq From(in[s]) \cup From(inbox[s])
        /\ Distinct(in'[s]) /\ Distinct(inbox'[s]) /\ From(in'[s]) \cap From(inbox'[s]) = {}
    BY <1>i, <2>1, <2>2, <2>3 DEF Once
  <2>6. \A t \in Sessions : remote'[t] = remote[t] \/ remote'[t].from \in From(in[t])
    BY <1>t, <2>1, <2>2 DEF MessageTypes
  <2>7. QED BY <1>g, <1>t, <1>i, <1>q, <2>1, <2>4, <2>5, <2>6, MessagesMove
<1>5. ASSUME NEW s \in Sessions, CloseBegin(s), Close(s) \/ remote' = remote PROVE Heard' /\ Once'
  <2>1. /\ out' = out /\ in' = [in EXCEPT ![s] = <<>>] /\ inbox' = [inbox EXCEPT ![s] = <<>>]
        /\ remote' = [remote EXCEPT ![s] = None] \/ remote' = remote
    BY <1>5 DEF CloseBegin, Close
  <2>2. in'[s] = <<>> /\ inbox'[s] = <<>> BY <1>t, <2>1 DEF MessageTypes
  <2>3. \A t \in Sessions : t # s => in'[t] = in[t] /\ inbox'[t] = inbox[t] BY <1>t, <2>1 DEF MessageTypes
  <2>4. /\ From(in'[s]) \cup From(inbox'[s]) \subseteq From(in[s]) \cup From(inbox[s])
        /\ Distinct(in'[s]) /\ Distinct(inbox'[s]) /\ From(in'[s]) \cap From(inbox'[s]) = {}
    BY <2>2, FromEmpty
  <2>5. \A t \in Sessions : remote'[t] = remote[t] \/ remote'[t] = None BY <1>t, <2>1 DEF MessageTypes
  <2>6. QED BY <1>g, <1>t, <1>i, <1>q, <2>1, <2>3, <2>4, <2>5, MessagesMove
<1>6. ASSUME NEW s \in Sessions, OutPump(s), UNCHANGED negVars PROVE Heard' /\ Once'
  <2> DEFINE m == Head(out[s])
  <2>1. UNCHANGED <<in, remote, ids, pc>> /\ out' = [out EXCEPT ![s] = Tail(out[s])] /\ out[s] # <<>>
    BY <1>6 DEF OutPump, negVars, idVars
  <2>2. m \in Message /\ out[s] \in Seq(Message) /\ Tail(out[s]) = <<>>
    <3>1. out[s] \in Seq(Message) /\ Len(out[s]) <= 1 BY <1>t, <1>i DEF MessageTypes, Once
    <3>2. QED BY <2>1, <3>1, OnlyMessage, HeadTailProperties
  <2>3. m.from = s /\ Spoke(s) /\ \A t \in Sessions : s \notin From(in[t]) /\ s \notin From(inbox[t])
    <3>1. m.from \in From(out[s]) BY <2>1, <2>2, FromTail
    <3>2. QED BY <1>i, <2>1, <3>1 DEF Heard, Once
  <2>4. ASSUME NEW R, s \notin R,
               inbox' = [t \in Sessions |-> IF t \in R THEN Append(inbox[t], m) ELSE inbox[t]]
        PROVE  Heard' /\ Once'
    <3> HIDE DEF m
    <3>1. \A t \in Sessions : out'[t] = IF t = s THEN <<>> ELSE out[t]
      BY <1>t, <2>1, <2>2 DEF MessageTypes
    <3>2. \A t \in Sessions : t \notin R => inbox'[t] = inbox[t] BY <2>4
    <3>3. \A t \in Sessions : t \in R => From(inbox'[t]) = From(inbox[t]) \cup {s} /\ Distinct(inbox'[t])
      BY <1>t, <1>i, <2>2, <2>3, <2>4, FromAppend DEF MessageTypes, Once
    <3>4. Heard'
      <4> SUFFICES ASSUME NEW t \in Sessions
                   PROVE  /\ From(out'[t]) \subseteq {t} /\ (out'[t] # <<>> => Spoke(t)')
                          /\ \A f \in From(in'[t]) \cup From(inbox'[t]) : Spoke(f)'
                          /\ remote'[t] # None => pc'[remote'[t].from] \notin EarlyPcs
        BY DEF Heard, Spoke
      <4>1. From(out'[t]) \subseteq {t} /\ (out'[t] # <<>> => Spoke(t)') BY <1>g, <1>i, <3>1, FromEmpty DEF Heard
      <4>2. \A f \in From(in'[t]) : Spoke(f)' BY <1>i, <2>1 DEF Heard, Spoke
      <4>3. \A f \in From(inbox'[t]) : Spoke(f)'
        <5>1. CASE t \in R BY <1>i, <2>1, <2>3, <3>3, <5>1 DEF Heard, Spoke
        <5>2. CASE t \notin R BY <1>i, <2>1, <3>2, <5>2 DEF Heard, Spoke
        <5>3. QED BY <5>1, <5>2
      <4>4. remote'[t] # None => pc'[remote'[t].from] \notin EarlyPcs BY <1>i, <2>1 DEF Heard, Spoke
      <4>5. QED BY <4>1, <4>2, <4>3, <4>4
    <3>5. Once'
      <4> SUFFICES ASSUME NEW t \in Sessions
                   PROVE  /\ Len(out'[t]) <= 1
                          /\ Distinct(in'[t]) /\ Distinct(inbox'[t]) /\ From(in'[t]) \cap From(inbox'[t]) = {}
                          /\ \A f \in From(in'[t]) \cup From(inbox'[t]) : f # t /\ out'[f] = <<>>
        BY DEF Once
      <4>1. Len(out'[t]) <= 1 BY <1>i, <3>1 DEF Once
      <4>2. From(in[t]) \subseteq Sessions /\ From(inbox[t]) \subseteq Sessions BY <1>t, FromSessions DEF MessageTypes
      <4>3. CASE t \in R
        <5>1. t # s /\ out'[s] = <<>> BY <2>4, <3>1, <4>3
        <5>2. From(inbox'[t]) = From(inbox[t]) \cup {s} /\ Distinct(inbox'[t]) BY <3>3, <4>3
        <5>3. Distinct(in'[t]) /\ From(in'[t]) \cap From(inbox'[t]) = {} BY <1>i, <2>1, <2>3, <5>2 DEF Once
        <5>4. \A f \in From(in[t]) \cup From(inbox[t]) : f # t /\ out'[f] = <<>> BY <1>i, <3>1, <4>2 DEF Once
        <5>5. QED BY <2>1, <4>1, <5>1, <5>2, <5>3, <5>4
      <4>4. CASE t \notin R BY <1>i, <2>1, <3>1, <3>2, <4>1, <4>2, <4>4 DEF Once
      <4>5. QED BY <4>3, <4>4
    <3>6. QED BY <3>4, <3>5
  <2>5. s \notin Receivers(s) BY DEF Receivers
  <2>6. inbox' = [t \in Sessions |-> IF t \in {} THEN Append(inbox[t], m) ELSE inbox[t]]
        \/ inbox' = [t \in Sessions |-> IF t \in Receivers(s) THEN Append(inbox[t], m) ELSE inbox[t]]
    BY <1>6, <1>t DEF OutPump, MessageTypes
  <2>7. QED BY <2>4, <2>5, <2>6
<1>7. ASSUME NEW s \in Sessions, SendSdp(s) PROVE Heard' /\ Once'
  <2> DEFINE m == [from |-> s, kind |-> IF s \in dialers THEN "offer" ELSE "answer",
                   to |-> IF s \in dialers THEN None ELSE remote[s].from]
  <2>1. UNCHANGED <<in, inbox, remote>> /\ pc[s] = "send" /\ out' = [out EXCEPT ![s] = Append(out[s], m)]
    BY <1>7 DEF SendSdp, SendQueues, signalRest
  <2>2. ~Spoke(s) BY <2>1 DEF Spoke, EarlyPcs
  <2>3. out[s] = <<>> /\ \A t \in Sessions : s \notin From(in[t]) /\ s \notin From(inbox[t])
    BY <1>i, <2>2 DEF Heard
  <2>4. Spoke(s)'
    <3>1. pc \in [Sessions -> CallPcs] BY DEF TypeInv, FlowTypes
    <3>2. pc'[s] \in {"answer", "open"} BY <1>7, <3>1 DEF SendSdp, Goto
    <3>3. QED BY <3>2 DEF Spoke, EarlyPcs
  <2>5. out'[s] = Append(<<>>, m) BY <1>t, <2>1, <2>3 DEF MessageTypes
  <2>6. out'[s] \in Seq(Message) BY <1>t DEF MessageTypes
  <2>7. Len(out'[s]) = 1 /\ out'[s][1].from = s BY <2>5
  <2>8. From(out'[s]) = {s} BY <2>7 DEF From
  <2> HIDE DEF m
  <2>9. \A t \in Sessions : t # s => out'[t] = out[t] BY <1>t, <2>1 DEF MessageTypes
  <2>10. \A t \in Sessions : From(in[t]) \subseteq Sessions /\ From(inbox[t]) \subseteq Sessions
    BY <1>t, FromSessions DEF MessageTypes
  <2>11. \A t \in Sessions : remote[t] # None => remote[t].from \in Sessions BY <1>t DEF MessageTypes, Message
  <2>12. Heard'
    <3> SUFFICES ASSUME NEW t \in Sessions
                 PROVE  /\ From(out'[t]) \subseteq {t} /\ (out'[t] # <<>> => Spoke(t)')
                        /\ \A f \in From(in'[t]) \cup From(inbox'[t]) : Spoke(f)'
                        /\ remote'[t] # None => pc'[remote'[t].from] \notin EarlyPcs
      BY DEF Heard, Spoke
    <3>1. From(out'[t]) \subseteq {t} /\ (out'[t] # <<>> => Spoke(t)') BY <1>g, <1>i, <2>4, <2>8, <2>9 DEF Heard
    <3>2. \A f \in From(in'[t]) \cup From(inbox'[t]) : Spoke(f)' BY <1>g, <1>i, <2>1, <2>10 DEF Heard
    <3>3. remote'[t] # None => pc'[remote'[t].from] \notin EarlyPcs BY <1>g, <1>i, <2>1, <2>11 DEF Heard, Spoke
    <3>4. QED BY <3>1, <3>2, <3>3
  <2>13. Once' BY <1>i, <2>1, <2>3, <2>7, <2>9, <2>10 DEF Once
  <2>14. QED BY <2>12, <2>13
<1>8. ASSUME NEW s \in Sessions,
             \/ LocalJoin(s) \/ ServerJoin(s) \/ ServerLeave(s) \/ SocketFails(s) \/ CtxCancel(s) \/ InExit(s) \/ CloseGC(s),
             UNCHANGED <<negVars, facadeVars>>
      PROVE  Heard' /\ Once'
  BY <1>1, <1>8 DEF LocalJoin, ServerJoin, ServerLeave, SocketFails, CtxCancel, InExit, CloseGC, negVars, queueVars
<1>9. ASSUME NEW s \in Sessions,
             GatherCheck(s) \/ GatherArm(s) \/ GatherWait(s) \/ IceGathered(s) \/ OnOpen(s)
      PROVE  Heard' /\ Once'
  BY <1>1, <1>9 DEF GatherCheck, GatherArm, GatherWait, IceGathered, OnOpen, signalVars, queueVars
<1>10. ASSUME NEW s \in Sessions,
             \/ Resolve(s) \/ AcceptClosed(s) \/ NewPeer(s) \/ CloseReturns(s) \/ NewConn(s) \/ AttachReturns(s)
             \/ ConnCancel(s) \/ NewServerConn(s) \/ Track(s) \/ ServeReturns(s)
      PROVE  Heard' /\ Once'
  BY <1>1, <1>10
  DEF Resolve, LocalLookup, WsExchange, AcceptClosed, NewPeer, CloseReturns, NewConn, AttachReturns, ConnCancel,
      NewServerConn, WaitForOpen, Track, ServeReturns, signalVars, queueVars, negVars
<1>11. ASSUME NEW s \in Sessions,
             ResolveFails(s) \/ cleanupDial(s) \/ ConnClose(s) \/ ServerConnClose(s) \/ Sweep(s)
      PROVE  Heard' /\ Once'
  <2>1. CASE UNCHANGED signalVars /\ remote' = remote BY <1>1, <2>1 DEF signalVars, queueVars
  <2>2. CASE CloseBegin(s) /\ (Close(s) \/ remote' = remote) BY <1>5, <2>2
  <2>3. QED BY <1>11, <2>1, <2>2 DEF ResolveFails, cleanupDial, ConnClose, ServerConnClose, Sweep, ServerConnTeardown
<1>12. CASE ListenerClose \/ SweepEnd \/ UNCHANGED vars
  BY <1>1, <1>12 DEF ListenerClose, SweepEnd, vars, signalVars, negVars, queueVars
<1>13. QED
  BY <1>2, <1>3, <1>4, <1>6, <1>7, <1>8, <1>9, <1>10, <1>11, <1>12
  DEF Next, SignalStep, NegotiationStep, FacadeStep

LEMMA MessageInit == Init => MessageInv
  BY FromEmpty, SignalingAssumption
  DEF Init, SignalingInit, NegotiationInit, MessageInv, GatherLife, Heard, Once, Spoke, EarlyPcs, LatePcs

LEMMA MessagesHold == Spec => [](TypeInv /\ LifeInv /\ MessageInv)
  BY TypeInit, TypeStep, LifeInit, LifeStep, MessageInit, MessageStep, PTL DEF Spec

\* waitICEGathering: no description leaves, and none is applied by the other
\* side, before gathering is complete, even though waitICEGathering reads the
\* state and installs its handler in two steps.
THEOREM DescriptionsComplete == Spec => []OnlyGathered
<1>1. TypeInv /\ LifeInv /\ MessageInv => OnlyGathered
  <2> SUFFICES ASSUME TypeInv, LifeInv, MessageInv, NEW s \in Sessions, conn[s] = "open",
                      out[s] # <<>> \/ \E t \in Sessions : remote[t] # None /\ remote[t].from = s
               PROVE  gather[s] = "complete"
    BY DEF OnlyGathered
  <2>1. Spoke(s) BY DEF MessageInv, Heard
  <2>2. pc[s] \in UsedPcs BY DEF LifeInv, PeerLife
  <2>3. pc[s] \in LatePcs BY <2>1, <2>2 DEF Spoke, EarlyPcs, LatePcs, UsedPcs, FlowPcs
  <2>4. QED BY <2>3 DEF MessageInv, GatherLife
<1>2. QED BY <1>1, MessagesHold, PTL

-----------------------------------------------------------------------------
(* Nothing lost.  The ws inbound pump drops what finds `in` full; that this *)
(* never happens is a matter of counting: with at most one message of each  *)
(* other session before it, a queue of Cap slots is never full while one    *)
(* more of them is waiting to enter it.                                     *)

\* Before its Exchange a session is in no room and nothing is on its way to it.
Listed ==
  \A t \in Sessions : spc[t] = "none" =>
    \A s \in Sessions : t \notin members[s] /\ t \notin enroute[s]

\* NothingLost, by senders.
Delivered ==
  \A s, t \in Sessions :
    t \in enroute[s] /\ (backend = "ws" => sock[t]) => s \in From(in[t]) \cup From(inbox[t])

FewSessions == IsFiniteSet(Sessions) /\ Cardinality(Sessions) <= Cap + 1

LEMMA InHasRoom ==
  ASSUME FewSessions, MessageTypes, Once, NEW t \in Sessions, inbox[t] # <<>>
  PROVE  Len(in[t]) < Cap
<1> DEFINE f == Head(inbox[t]).from
           T == (Sessions \ {t}) \ {f}
<1>1. inbox[t] \in Seq(Message) /\ in[t] \in Seq(Message) BY DEF MessageTypes
<1>2. f \in From(inbox[t]) BY <1>1, FromTail
<1>3. f \in Sessions /\ f # t /\ f \notin From(in[t]) BY <1>1, <1>2, FromSessions DEF Once
<1>4. From(in[t]) \subseteq T BY <1>1, <1>3, FromSessions DEF Once
<1>5. IsFiniteSet(Sessions \ {t}) /\ Cardinality(Sessions \ {t}) = Cardinality(Sessions) - 1
  BY FS_RemoveElement DEF FewSessions
<1>6. IsFiniteSet(T) /\ Cardinality(T) = Cardinality(Sessions) - 2
  <2>1. f \in Sessions \ {t} BY <1>3
  <2> HIDE DEF f
  <2>2. IsFiniteSet(T) /\ Cardinality(T) = Cardinality(Sessions \ {t}) - 1 BY <1>5, <2>1, FS_RemoveElement
  <2>3. Cardinality(Sessions) \in Nat BY FS_CardinalityType DEF FewSessions
  <2>4. QED BY <1>5, <2>2, <2>3
<1>7. Distinct(in[t]) BY DEF Once
<1> HIDE DEF T, f
<1>8. Len(in[t]) <= Cardinality(T) BY <1>1, <1>4, <1>6, <1>7, DistinctIsShort
<1>9. Len(in[t]) \in Nat /\ Cardinality(Sessions) \in Nat BY <1>1, LenProperties, FS_CardinalityType DEF FewSessions
<1>10. QED BY <1>6, <1>8, <1>9, SignalingAssumption DEF FewSessions

LEMMA ListedStep == TypeInv /\ LifeInv /\ Listed /\ [Next]_vars => Listed'
<1> SUFFICES ASSUME TypeInv, LifeInv, Listed, [Next]_vars PROVE Listed'
  OBVIOUS
<1>t. /\ svcOf \in [Sessions -> Sessions \cup {None}] /\ members \in [Sessions -> SUBSET Sessions]
      /\ spc \in [Sessions -> {"none", "join", "open", "refused", "gc", "closed"}]
      /\ sock \in [Sessions -> BOOLEAN] /\ enroute \in [Sessions -> SUBSET Sessions]
      /\ backend \in {"local", "ws"} /\ service \in Sessions \cup {None}
  BY DEF TypeInv, SignalTypes, SignalingTypeOK
<1>r. RoomLife /\ SvcKnown /\ OutKnown BY DEF TypeInv, SignalTypes, LifeInv
<1> USE DEF Listed
<1>1. CASE UNCHANGED <<spc, members, enroute>> BY <1>1
<1>2. ASSUME NEW s \in Sessions, spc'[s] # "none", UNCHANGED <<members, enroute>>,
             \A t \in Sessions : t # s => spc'[t] = spc[t]
      PROVE  Listed'
  BY <1>2
<1>3. ASSUME NEW s \in Sessions, LocalJoin(s) PROVE Listed'
  <2>1. spc'[s] # "none" /\ enroute' = enroute /\ spc[s] # "none" /\ \A t \in Sessions : t # s => spc'[t] = spc[t]
    BY <1>3, <1>t DEF LocalJoin
  <2>2. \A g, t \in Sessions : t \in members'[g] => t \in members[g] \/ t = s BY <1>3, <1>t DEF LocalJoin
  <2>3. QED BY <2>1, <2>2
<1>4. ASSUME NEW s \in Sessions, ServerJoin(s) PROVE Listed'
  <2>1. spc[s] # "none" /\ UNCHANGED <<enroute, spc>> BY <1>4, <1>t, <1>r DEF ServerJoin, queueVars, RoomLife
  <2>2. \A g, t \in Sessions : t \in members'[g] => t \in members[g] \/ t = s BY <1>4, <1>t DEF ServerJoin
  <2>3. QED BY <2>1, <2>2
<1>5. ASSUME NEW s \in Sessions, ServerLeave(s) PROVE Listed'
  BY <1>5, <1>t DEF ServerLeave, queueVars
<1>6. ASSUME NEW s \in Sessions, OutPump(s) PROVE Listed'
  <2>1. UNCHANGED <<spc, members>> /\ outp[s] BY <1>6 DEF OutPump, roomVars
  <2>2. CASE enroute' = enroute BY <2>1, <2>2
  <2>3. CASE enroute' = [enroute EXCEPT ![s] = Receivers(s)] /\ (backend = "local" \/ Joined(s))
    <3>1. svcOf[s] \in Sessions BY <1>t, <1>r, <2>1, <2>3 DEF Joined, SvcKnown, OutKnown
    <3>2. \A t \in Receivers(s) : t \in members[svcOf[s]] BY DEF Receivers
    <3>3. QED BY <1>t, <2>1, <2>3, <3>1, <3>2
  <2>4. QED BY <1>6, <2>2, <2>3 DEF OutPump
<1>7. ASSUME NEW s \in Sessions, AcceptOffer(s) \/ DialAnswer(s) PROVE Listed'
  <2>1. UNCHANGED <<spc, members>> BY <1>7 DEF AcceptOffer, DialAnswer, signalRest, roomVars
  <2>2. \A t \in Sessions : enroute'[t] \subseteq enroute[t] BY <1>7, <1>t DEF AcceptOffer, DialAnswer, Receive
  <2>3. QED BY <2>1, <2>2
<1>8. ASSUME NEW s \in Sessions, CloseBegin(s) PROVE Listed'
  <2>1. \A t \in Sessions : enroute'[t] \subseteq enroute[t] /\ members'[t] \subseteq members[t]
    BY <1>8, <1>t DEF CloseBegin
  <2>2. spc[s] # "none" /\ \A t \in Sessions : t # s => spc'[t] = spc[t] BY <1>8, <1>t DEF CloseBegin
  <2>3. \A t \in Sessions : spc'[t] = "none" => t # s /\ spc[t] = "none" BY <1>8, <1>t, <2>2 DEF CloseBegin
  <2>4. QED BY <2>1, <2>3
<1>9. ASSUME NEW s \in Sessions, SocketFails(s) \/ CtxCancel(s) \/ OutExit(s) \/ InForward(s) \/ InExit(s) PROVE Listed'
  BY <1>1, <1>9 DEF SocketFails, CtxCancel, OutExit, InForward, InExit, roomVars, queueVars
<1>10. ASSUME NEW s \in Sessions, CloseGC(s) \/ Resolve(s) PROVE Listed'
  <2>1. /\ UNCHANGED <<members, enroute>> /\ spc'[s] # "none"
        /\ \A t \in Sessions : t # s => spc'[t] = spc[t]
    BY <1>10, <1>t DEF CloseGC, Resolve, LocalLookup, WsExchange, roomVars, queueVars
  <2>2. QED BY <1>2, <2>1
<1>11. ASSUME NEW s \in Sessions,
             GatherCheck(s) \/ GatherArm(s) \/ GatherWait(s) \/ IceGathered(s) \/ SendSdp(s) \/ OnOpen(s)
       PROVE Listed'
  BY <1>1, <1>11 DEF GatherCheck, GatherArm, GatherWait, IceGathered, SendSdp, OnOpen, signalVars, signalRest, roomVars, queueVars
<1>12. ASSUME NEW s \in Sessions,
             \/ AcceptClosed(s) \/ NewPeer(s) \/ CloseReturns(s) \/ NewConn(s) \/ AttachReturns(s)
             \/ ConnCancel(s) \/ NewServerConn(s) \/ Track(s) \/ ServeReturns(s)
       PROVE Listed'
  BY <1>1, <1>12
  DEF AcceptClosed, NewPeer, CloseReturns, NewConn, AttachReturns, ConnCancel, NewServerConn, WaitForOpen, Track,
      ServeReturns, signalVars, roomVars, queueVars
<1>13. ASSUME NEW s \in Sessions,
             ResolveFails(s) \/ cleanupDial(s) \/ ConnClose(s) \/ ServerConnClose(s) \/ Sweep(s)
       PROVE Listed'
  <2>1. CASE UNCHANGED signalVars BY <1>1, <2>1 DEF signalVars, roomVars, queueVars
  <2>2. CASE CloseBegin(s) BY <1>8, <2>2
  <2>3. QED BY <1>13, <2>1, <2>2 DEF ResolveFails, cleanupDial, ConnClose, ServerConnClose, Sweep, ServerConnTeardown
<1>14. CASE ListenerClose \/ SweepEnd \/ UNCHANGED vars
  BY <1>1, <1>14 DEF ListenerClose, SweepEnd, vars, signalVars, roomVars, queueVars
<1>15. QED
  BY <1>3, <1>4, <1>5, <1>6, <1>7, <1>9, <1>10, <1>11, <1>12, <1>13, <1>14
  DEF Next, SignalStep, NegotiationStep, FacadeStep

LEMMA DeliveredStep ==
  FewSessions /\ TypeInv /\ LifeInv /\ MessageInv /\ Listed /\ Delivered /\ [Next]_vars => Delivered'
<1> SUFFICES ASSUME FewSessions, TypeInv, LifeInv, MessageInv, Listed, Delivered, [Next]_vars PROVE Delivered'
  OBVIOUS
<1>t. /\ MessageTypes /\ sock \in [Sessions -> BOOLEAN] /\ enroute \in [Sessions -> SUBSET Sessions]
      /\ backend \in {"local", "ws"} /\ svcOf \in [Sessions -> Sessions \cup {None}]
      /\ members \in [Sessions -> SUBSET Sessions]
  BY DEF TypeInv, SignalTypes, SignalingTypeOK, FlowTypes, NegotiationTypeOK, MessageTypes
<1>i. Heard /\ Once BY DEF MessageInv
\* Most steps move no message and open no WebSocket.
<1>1. ASSUME backend' = backend, UNCHANGED <<in, inbox>>,
             \A t \in Sessions : (sock'[t] => sock[t]) /\ enroute'[t] \subseteq enroute[t]
      PROVE  Delivered'
  BY <1>1 DEF Delivered
<1>2. ASSUME NEW s \in Sessions, OutPump(s) PROVE Delivered'
  <2>1. UNCHANGED <<backend, sock, in>> /\ out[s] # <<>> /\ outp[s] BY <1>2 DEF OutPump, idVars
  <2>2. CASE UNCHANGED <<inbox, enroute>> BY <1>1, <2>1, <2>2
  <2>3. CASE /\ inbox' = [t \in Sessions |-> IF t \in Receivers(s) THEN Append(inbox[t], Head(out[s])) ELSE inbox[t]]
             /\ enroute' = [enroute EXCEPT ![s] = Receivers(s)]
    <3>1. Head(out[s]) \in Message /\ Head(out[s]).from = s
      <4>1. out[s] \in Seq(Message) BY <1>t DEF MessageTypes
      <4>2. Head(out[s]).from \in From(out[s]) BY <2>1, <4>1, FromTail
      <4>3. QED BY <1>i, <2>1, <4>1, <4>2, HeadTailProperties DEF Heard
    <3>2. \A t \in Sessions : From(inbox[t]) \subseteq From(inbox'[t]) /\ (t \in Receivers(s) => s \in From(inbox'[t]))
      BY <1>t, <2>3, <3>1, FromAppend DEF MessageTypes
    <3>3. QED BY <1>t, <2>1, <2>3, <3>2 DEF Delivered
  <2>4. QED BY <1>2, <2>2, <2>3 DEF OutPump
<1>3. ASSUME NEW s \in Sessions, InForward(s) PROVE Delivered'
  <2>1. UNCHANGED <<backend, sock, enroute>> /\ inbox[s] # <<>> /\ inbox' = [inbox EXCEPT ![s] = Tail(inbox[s])]
    BY <1>3 DEF InForward, idVars
  <2>2. Len(in[s]) < Cap BY <1>t, <1>i, <2>1, InHasRoom
  <2>3. in' = [in EXCEPT ![s] = Append(in[s], Head(inbox[s]))] BY <1>3, <2>2 DEF InForward
  <2>4. inbox[s] \in Seq(Message) /\ Head(inbox[s]) \in Message /\ in[s] \in Seq(Message)
    BY <1>t, <2>1, HeadTailProperties DEF MessageTypes
  <2>5. From(in'[s]) \cup From(inbox'[s]) = From(in[s]) \cup From(inbox[s])
    <3>1. in'[s] = Append(in[s], Head(inbox[s])) /\ inbox'[s] = Tail(inbox[s]) BY <1>t, <2>1, <2>3 DEF MessageTypes
    <3>2. From(inbox[s]) = From(Tail(inbox[s])) \cup {Head(inbox[s]).from} BY <2>1, <2>4, FromTail
    <3>3. From(Append(in[s], Head(inbox[s]))) = From(in[s]) \cup {Head(inbox[s]).from} BY <2>4, FromAppend
    <3>4. QED BY <3>1, <3>2, <3>3
  <2>6. \A t \in Sessions : t # s => in'[t] = in[t] /\ inbox'[t] = inbox[t] BY <1>t, <2>1, <2>3 DEF MessageTypes
  <2>7. QED BY <2>1, <2>5, <2>6 DEF Delivered
<1>4. ASSUME NEW s \in Sessions, AcceptOffer(s) \/ DialAnswer(s) PROVE Delivered'
  <2>1. /\ UNCHANGED <<backend, sock, inbox>> /\ in[s] # <<>> /\ in' = [in EXCEPT ![s] = Tail(in[s])]
        /\ enroute' = [enroute EXCEPT ![Head(in[s]).from] = @ \ {s}]
    BY <1>4 DEF AcceptOffer, DialAnswer, Receive, signalRest, idVars
  <2>2. From(in[s]) = From(Tail(in[s])) \cup {Head(in[s]).from} BY <1>t, <2>1, FromTail DEF MessageTypes
  <2>3. in'[s] = Tail(in[s]) /\ \A t \in Sessions : t # s => in'[t] = in[t] BY <1>t, <2>1 DEF MessageTypes
  <2>4. \A f \in Sessions : /\ enroute'[f] \subseteq enroute[f]
                            /\ f = Head(in[s]).from => s \notin enroute'[f]
    BY <1>t, <2>1
  <2>5. QED BY <2>1, <2>2, <2>3, <2>4 DEF Delivered
<1>5. ASSUME NEW s \in Sessions, CloseBegin(s) PROVE Delivered'
  <2>1. /\ backend' = backend /\ in' = [in EXCEPT ![s] = <<>>] /\ inbox' = [inbox EXCEPT ![s] = <<>>]
        /\ enroute' = [t \in Sessions |-> enroute[t] \ {s}]
    BY <1>5 DEF CloseBegin, idVars
  <2>2. \A t \in Sessions : sock'[t] => sock[t] BY <1>5, <1>t DEF CloseBegin
  <2>3. \A t \in Sessions : t # s => in'[t] = in[t] /\ inbox'[t] = inbox[t] BY <1>t, <2>1 DEF MessageTypes
  <2>4. QED BY <2>1, <2>2, <2>3 DEF Delivered
<1>6. ASSUME NEW s \in Sessions, Resolve(s) PROVE Delivered'
  <2>1. CASE LocalLookup(s) BY <1>1, <2>1 DEF LocalLookup, idVars, queueVars
  <2>2. CASE WsExchange(s)
    <3>1. UNCHANGED <<backend, in, inbox, enroute>> /\ spc[s] = "none" BY <2>2 DEF WsExchange, idVars
    <3>2. \A t \in Sessions : t # s => sock'[t] = sock[t] BY <1>t, <2>2 DEF WsExchange
    <3>3. QED BY <3>1, <3>2 DEF Listed, Delivered
  <2>3. QED BY <1>6, <2>1, <2>2 DEF Resolve
<1>7. ASSUME NEW s \in Sessions,
             \/ LocalJoin(s) \/ ServerJoin(s) \/ ServerLeave(s) \/ SocketFails(s) \/ CtxCancel(s) \/ OutExit(s)
             \/ InExit(s) \/ CloseGC(s)
      PROVE  Delivered'
  <2>1. backend' = backend /\ UNCHANGED <<in, inbox, enroute>>
    BY <1>7 DEF LocalJoin, ServerJoin, ServerLeave, SocketFails, CtxCancel, OutExit, InExit, CloseGC, queueVars, idVars
  <2>2. \A t \in Sessions : sock'[t] => sock[t]
    BY <1>7, <1>t DEF LocalJoin, ServerJoin, ServerLeave, SocketFails, CtxCancel, OutExit, InExit, CloseGC
  <2>3. QED BY <1>1, <2>1, <2>2
<1>8. ASSUME NEW s \in Sessions,
             GatherCheck(s) \/ GatherArm(s) \/ GatherWait(s) \/ IceGathered(s) \/ SendSdp(s) \/ OnOpen(s)
      PROVE  Delivered'
  BY <1>1, <1>8 DEF GatherCheck, GatherArm, GatherWait, IceGathered, SendSdp, OnOpen, signalVars, signalRest, idVars, queueVars
<1>9. ASSUME NEW s \in Sessions,
             \/ AcceptClosed(s) \/ NewPeer(s) \/ CloseReturns(s) \/ NewConn(s) \/ AttachReturns(s)
             \/ ConnCancel(s) \/ NewServerConn(s) \/ Track(s) \/ ServeReturns(s)
      PROVE  Delivered'
  BY <1>1, <1>9
  DEF AcceptClosed, NewPeer, CloseReturns, NewConn, AttachReturns, ConnCancel, NewServerConn, WaitForOpen, Track,
      ServeReturns, signalVars, idVars, queueVars
<1>10. ASSUME NEW s \in Sessions,
             ResolveFails(s) \/ cleanupDial(s) \/ ConnClose(s) \/ ServerConnClose(s) \/ Sweep(s)
      PROVE  Delivered'
  <2>1. CASE UNCHANGED signalVars BY <1>1, <2>1 DEF signalVars, idVars, queueVars
  <2>2. CASE CloseBegin(s) BY <1>5, <2>2
  <2>3. QED BY <1>10, <2>1, <2>2 DEF ResolveFails, cleanupDial, ConnClose, ServerConnClose, Sweep, ServerConnTeardown
<1>11. CASE ListenerClose \/ SweepEnd \/ UNCHANGED vars
  BY <1>1, <1>11 DEF ListenerClose, SweepEnd, vars, signalVars, idVars, queueVars
<1>12. QED
  BY <1>2, <1>3, <1>4, <1>6, <1>7, <1>8, <1>9, <1>10, <1>11
  DEF Next, SignalStep, NegotiationStep, FacadeStep

\* The Backend interface's "Each peer in a service receives every other peer's
\* messages", as far as the client's queues go: what the backend handed to a
\* session waits there until it is read, whatever interleaving of pumps,
\* Receives and Closes, as long as one service has at most one session more
\* than a queue has slots.  (With more, the ws inbound pump's default case can
\* drop a message.)
THEOREM SignalsReachTheFlow ==
  ASSUME FewSessions
  PROVE  Spec => []NothingLost
<1>1. Init => Listed /\ Delivered
  BY DEF Init, SignalingInit, Listed, Delivered
<1>2. TypeInv /\ Delivered => NothingLost
  <2> SUFFICES ASSUME TypeInv, Delivered, NEW s \in Sessions, NEW t \in Sessions,
                      t \in enroute[s], backend = "ws" => sock[t]
               PROVE  \E m \in Range(in[t]) \cup Range(inbox[t]) : m.from = s
    BY DEF NothingLost
  <2>1. s \in From(in[t]) \cup From(inbox[t]) BY DEF Delivered
  <2>2. in[t] \in Seq(Message) /\ inbox[t] \in Seq(Message) BY DEF TypeInv, SignalTypes, SignalingTypeOK
  <2>3. DOMAIN in[t] = 1..Len(in[t]) /\ DOMAIN inbox[t] = 1..Len(inbox[t]) BY <2>2, LenProperties
  <2>4. QED BY <2>1, <2>3 DEF From, Range
<1>3. TypeInv /\ LifeInv /\ MessageInv /\ Listed /\ Delivered /\ [Next]_vars => Delivered'
  BY DeliveredStep
<1>4. QED
  BY <1>1, <1>2, <1>3, TypeInit, TypeStep, LifeInit, LifeStep, MessageInit, MessageStep, ListedStep, PTL
  DEF Spec
=============================================================================
