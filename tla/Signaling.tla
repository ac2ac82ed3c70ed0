----------------------------- MODULE Signaling -----------------------------
(***************************************************************************)
(* signal.Session over its two backends: signal.Local, the in-process      *)
(* broadcast domain, and signal.WS, the client of the signaling server     *)
(* (whose store is the module SignalStore).  One service; each session is  *)
(* one Exchange call.  A localService is named by the session that created *)
(* it.                                                                     *)
(***************************************************************************)
EXTENDS Integers, Sequences, FiniteSets

CONSTANTS
  Sessions,    \* the Exchange calls of one run
  IdChoices,   \* the ways the sessions may have been given their peer_ids
  None,        \* Go's nil
  Cap,         \* capacity of inbox, in and out (32 in the code)
  MaxTrouble   \* bound: cancellations and failures of one run

ASSUME SignalingAssumption ==
  None \notin Sessions /\ Cap \in Nat \ {0} /\ MaxTrouble \in Nat

VARIABLES
  backend,   \* "local" or "ws"
  ids,       \* the peer_id of each session
  service,   \* Local.services at the one name: a service, None when absent
  svcOf,     \* the localService an Exchange works on
  members,   \* localService.peers
  spc,       \* where Exchange or Close of the session is
  sock,      \* ws: the WebSocket works
  ctx,       \* the ctx given to Exchange is canceled
  inbox,     \* localPeer.inbox; ws: frames the server has for the session
  in, inp,   \* Session.in, and whether the pump that fills it runs
  out, outp, \* Session.out, and whether the pump that empties it runs
  enroute,   \* history: the sessions sent a session's message that have not read it
  trouble    \* cancellations and failures so far

idVars == <<backend, ids>>
roomVars == <<service, svcOf, members>>
queueVars == <<inbox, in, inp, out, outp, enroute>>
signalVars == <<idVars, roomVars, spc, sock, ctx, queueVars, trouble>>

\* A message: its sender, its kind, and for an answer the offerer whose offer
\* it answers (what the SDP text stands for).
Message == [from : Sessions, kind : {"offer", "answer"}, to : Sessions \cup {None}]

ASSUME MessageAssumption == None \notin Message

SignalingTypeOK ==
  /\ backend \in {"local", "ws"} /\ ids \in IdChoices
  /\ service \in Sessions \cup {None}
  /\ svcOf \in [Sessions -> Sessions \cup {None}]
  /\ members \in [Sessions -> SUBSET Sessions]
  /\ spc \in [Sessions -> {"none", "join", "open", "refused", "gc", "closed"}]
  /\ sock \in [Sessions -> BOOLEAN] /\ ctx \in [Sessions -> BOOLEAN]
  /\ inbox \in [Sessions -> Seq(Message)] /\ in \in [Sessions -> Seq(Message)]
  /\ out \in [Sessions -> Seq(Message)]
  /\ inp \in [Sessions -> BOOLEAN] /\ outp \in [Sessions -> BOOLEAN]
  /\ enroute \in [Sessions -> SUBSET Sessions]
  /\ trouble \in 0..MaxTrouble

SignalingInit ==
  /\ backend \in {"local", "ws"} /\ ids \in IdChoices
  /\ service = None
  /\ svcOf = [s \in Sessions |-> None]
  /\ members = [s \in Sessions |-> {}]
  /\ spc = [s \in Sessions |-> "none"]
  /\ sock = [s \in Sessions |-> FALSE] /\ ctx = [s \in Sessions |-> FALSE]
  /\ inbox = [s \in Sessions |-> <<>>] /\ in = [s \in Sessions |-> <<>>]
  /\ out = [s \in Sessions |-> <<>>]
  /\ inp = [s \in Sessions |-> FALSE] /\ outp = [s \in Sessions |-> FALSE]
  /\ enroute = [s \in Sessions |-> {}]
  /\ trouble = 0

Joined(s) == svcOf[s] # None /\ s \in members[svcOf[s]]
Taken(g, s) == \E t \in members[g] : ids[t] = ids[s]
\* The ctx the pumps select on: Local's is canceled by Close alone; the ws one
\* also by the caller's ctx and by the inbound pump's return.
PumpCanceled(s) ==
  \/ spc[s] \in {"gc", "closed"}
  \/ backend = "ws" /\ (ctx[s] \/ (spc[s] = "open" /\ ~inp[s]))
\* One more cancellation or failure, within the bound.
Trouble == trouble < MaxTrouble /\ trouble' = trouble + 1

-----------------------------------------------------------------------------
\* Exchange.

\* serviceForExchange, under Local.mu.
LocalLookup(s) ==
  /\ backend = "local" /\ spc[s] = "none"
  /\ service' = IF service = None THEN s ELSE service
  /\ svcOf' = [svcOf EXCEPT ![s] = service']
  /\ spc' = [spc EXCEPT ![s] = "join"]
  /\ UNCHANGED <<idVars, members, sock, ctx, queueVars, trouble>>

\* The rest of Local.Exchange, under the service's mu: a taken id is an
\* error, otherwise both pumps start.
LocalJoin(s) ==
  /\ spc[s] = "join"
  /\ \/ /\ Taken(svcOf[s], s)
        /\ spc' = [spc EXCEPT ![s] = "refused"]
        /\ UNCHANGED <<members, inp, outp>>
     \/ /\ ~Taken(svcOf[s], s)
        /\ spc' = [spc EXCEPT ![s] = "open"]
        /\ members' = [members EXCEPT ![svcOf[s]] = @ \cup {s}]
        /\ inp' = [inp EXCEPT ![s] = TRUE]
        /\ outp' = [outp EXCEPT ![s] = TRUE]
  /\ UNCHANGED <<idVars, service, svcOf, sock, ctx, inbox, in, out, enroute, trouble>>

\* WS.Exchange: dial, write the Announce frame and start both pumps.  It does
\* not wait for the server.
WsExchange(s) ==
  /\ backend = "ws" /\ spc[s] = "none"
  /\ \/ /\ Trouble                                  \* the dial or the write fails
        /\ spc' = [spc EXCEPT ![s] = "refused"]
        /\ UNCHANGED <<sock, inp, outp>>
     \/ /\ spc' = [spc EXCEPT ![s] = "open"]
        /\ sock' = [sock EXCEPT ![s] = TRUE]
        /\ inp' = [inp EXCEPT ![s] = TRUE]
        /\ outp' = [outp EXCEPT ![s] = TRUE]
        /\ trouble' = trouble
  /\ UNCHANGED <<idVars, roomVars, ctx, inbox, in, out, enroute>>

\* The server reads the Announce: it joins the peer or, when the id is taken,
\* hangs up.
ServerJoin(s) ==
  /\ backend = "ws" /\ sock[s] /\ svcOf[s] = None
  /\ service' = IF service = None THEN s ELSE service
  /\ \/ /\ Taken(service', s)
        /\ sock' = [sock EXCEPT ![s] = FALSE]
        /\ UNCHANGED <<svcOf, members>>
     \/ /\ ~Taken(service', s)
        /\ svcOf' = [svcOf EXCEPT ![s] = service']
        /\ members' = [members EXCEPT ![service'] = @ \cup {s}]
        /\ sock' = sock
  /\ UNCHANGED <<idVars, spc, ctx, queueVars, trouble>>

\* The server notices a dead WebSocket and removes the peer.
ServerLeave(s) ==
  /\ backend = "ws" /\ ~sock[s] /\ Joined(s)
  /\ members' = [members EXCEPT ![svcOf[s]] = @ \ {s}]
  /\ UNCHANGED <<idVars, service, svcOf, spc, sock, ctx, queueVars, trouble>>

-----------------------------------------------------------------------------
\* The pumps.

\* broadcast under the service's mu: every member with another id and with
\* room in its inbox.
Receivers(s) ==
  {t \in members[svcOf[s]] : ids[t] # ids[s] /\ Len(inbox[t]) < Cap}

\* The outbound pump takes a message and broadcasts it, or writes it to the
\* WebSocket, behind the Announce, for the server to send on.
OutPump(s) ==
  /\ outp[s] /\ out[s] # <<>>
  /\ out' = [out EXCEPT ![s] = Tail(@)]
  /\ \/ /\ backend = "local" \/ (sock[s] /\ Joined(s))
        /\ inbox' = [t \in Sessions |->
             IF t \in Receivers(s) THEN Append(inbox[t], Head(out[s])) ELSE inbox[t]]
        /\ enroute' = [enroute EXCEPT ![s] = Receivers(s)]
        /\ outp' = outp
     \/ /\ backend = "ws" /\ ~sock[s]               \* the write fails
        /\ outp' = [outp EXCEPT ![s] = FALSE]
        /\ UNCHANGED <<inbox, enroute>>
  /\ UNCHANGED <<idVars, roomVars, spc, sock, ctx, in, inp, trouble>>

\* A canceled outbound pump may return and leave what is in `out`.  (With
\* nothing there its return has no effect and is not a step.)
OutExit(s) ==
  /\ outp[s] /\ PumpCanceled(s) /\ out[s] # <<>>
  /\ outp' = [outp EXCEPT ![s] = FALSE]
  /\ out' = [out EXCEPT ![s] = <<>>]
  /\ UNCHANGED <<idVars, roomVars, spc, sock, ctx, inbox, in, inp, enroute, trouble>>

\* Faulty variant: the pump keeps only what an unbuffered `in` would take.
InForwardUnbuffered(s) ==
  /\ inp[s] /\ inbox[s] # <<>>
  /\ inbox' = [inbox EXCEPT ![s] = Tail(@)]
  /\ in' = [in EXCEPT ![s] = IF @ = <<>> THEN Append(@, Head(inbox[s])) ELSE @]
  /\ UNCHANGED <<idVars, roomVars, spc, sock, ctx, inp, out, outp, enroute, trouble>>

\* The inbound pump: the local one blocks on a full `in`, the ws one drops.
InForward(s) ==
  /\ inp[s] /\ inbox[s] # <<>>
  /\ IF backend = "local" THEN Len(in[s]) < Cap ELSE sock[s]
  /\ inbox' = [inbox EXCEPT ![s] = Tail(@)]
  /\ in' = [in EXCEPT ![s] = IF Len(@) < Cap THEN Append(@, Head(inbox[s])) ELSE @]
  /\ UNCHANGED <<idVars, roomVars, spc, sock, ctx, inp, out, outp, enroute, trouble>>

\* The ws inbound pump returns and closes `in` when the WebSocket fails; a
\* canceled ctx does not end it.
InExit(s) ==
  /\ inp[s] /\ backend = "ws" /\ ~sock[s]
  /\ inp' = [inp EXCEPT ![s] = FALSE]
  /\ UNCHANGED <<idVars, roomVars, spc, sock, ctx, inbox, in, out, outp, enroute, trouble>>

-----------------------------------------------------------------------------
\* Session.Send, when its select queues the message.
SendQueues(s, m) == Len(out[s]) < Cap /\ out' = [out EXCEPT ![s] = Append(@, m)]

\* Session.Close: Local's cleanup cancels and leaves the service, the ws one
\* cancels and closes the WebSocket.  The inbound pump ends; nobody reads what
\* it leaves behind.
CloseBegin(s) ==
  /\ spc[s] = "open"
  /\ inp' = [inp EXCEPT ![s] = FALSE]
  /\ in' = [in EXCEPT ![s] = <<>>] /\ inbox' = [inbox EXCEPT ![s] = <<>>]
  /\ enroute' = [t \in Sessions |-> enroute[t] \ {s}]
  /\ UNCHANGED <<idVars, service, svcOf, ctx, out, outp>>
  /\ \/ /\ backend = "local"
        /\ members' = [members EXCEPT ![svcOf[s]] = @ \ {s}]
        /\ spc' = [spc EXCEPT ![s] = IF members'[svcOf[s]] = {} THEN "gc" ELSE "closed"]
        /\ sock' = sock
     \/ /\ backend = "ws"
        /\ sock' = [sock EXCEPT ![s] = FALSE]
        /\ spc' = [spc EXCEPT ![s] = "closed"]
        /\ members' = members

\* leave, having emptied its service, drops the registered service if that is
\* empty, under Local.mu.
CloseGC(s) ==
  /\ spc[s] = "gc"
  /\ service' = IF service # None /\ members[service] = {} THEN None ELSE service
  /\ spc' = [spc EXCEPT ![s] = "closed"]
  /\ UNCHANGED <<idVars, svcOf, members, sock, ctx, queueVars, trouble>>

\* The network drops a WebSocket; the caller's ctx is canceled.
SocketFails(s) ==
  /\ sock[s] /\ Trouble
  /\ sock' = [sock EXCEPT ![s] = FALSE]
  /\ UNCHANGED <<idVars, roomVars, spc, ctx, queueVars>>

CtxCancel(s) ==
  /\ ~ctx[s] /\ spc[s] # "none" /\ Trouble
  /\ ctx' = [ctx EXCEPT ![s] = TRUE]
  /\ UNCHANGED <<idVars, roomVars, spc, sock, queueVars>>

\* Steps of the backend and of the pumps, which no caller takes itself.
SignalStep(s) ==
  \/ LocalJoin(s) \/ ServerJoin(s) \/ ServerLeave(s) \/ SocketFails(s) \/ CtxCancel(s)
  \/ OutPump(s) \/ OutExit(s) \/ InForward(s) \/ InExit(s) \/ CloseGC(s)

-----------------------------------------------------------------------------
(* The Backend interface's first promise, "Each peer in a service receives  *)
(* every other peer's messages": two sessions that have joined the service  *)
(* are in the same room, so each one's broadcast reaches the other.  Local  *)
(* breaks it: Exchange looks the localService up and joins it in two locked *)
(* steps, and between them the last member's leave unregisters it.          *)
OneRoom ==
  \A s, t \in Sessions : Joined(s) /\ Joined(t) => svcOf[s] = svcOf[t]
=============================================================================
