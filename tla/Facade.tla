------------------------------- MODULE Facade -------------------------------
(***************************************************************************)
(* package peerrpc: Dial and Listen over a resolver, a signaling session   *)
(* and a peer, up to the Conn or ServerConn they return, and the order in  *)
(* which Close takes it apart.  A session of the run is one DialTarget or  *)
(* one Listener.Accept; all Accepts are of one Listener.                   *)
(***************************************************************************)
EXTENDS Negotiation

VARIABLES
  attach,   \* the Conn's Attach pump runs
  lpc,      \* Listener: "open", "sweeping" (Close holds mu) or "closed"
  conns,    \* Listener.conns (empty once nil)
  late      \* history: ServerConns that track found conns nil for

facadeVars == <<attach, lpc, conns, late>>
vars == <<signalVars, negVars, facadeVars>>

CallPcs == FlowPcs \cup {"idle", "resolve", "ready", "unwind", "failed",
                         "conn", "serving", "loose", "closing", "teardown", "closed"}

\* The type invariant.
TypeOK ==
  /\ SignalingTypeOK /\ NegotiationTypeOK
  /\ pc \in [Sessions -> CallPcs]
  /\ attach \in [Sessions -> BOOLEAN]
  /\ lpc \in {"open", "sweeping", "closed"}
  /\ conns \subseteq Sessions /\ late \subseteq Sessions

Init ==
  /\ SignalingInit /\ NegotiationInit
  /\ \A s, t \in Sessions \ dialers : s # t => ids[s] # ids[t]   \* Accept suffixes its peer_id
  /\ attach = [s \in Sessions |-> FALSE]
  /\ lpc = "open" /\ conns = {} /\ late = {}

Acceptors == Sessions \ dialers

-----------------------------------------------------------------------------
\* dialTarget or Accept up to the resolver's Exchange.
Resolve(s) ==
  /\ pc[s] = "idle"
  /\ s \in Acceptors => lpc = "open"
  /\ LocalLookup(s) \/ WsExchange(s)
  /\ Goto(s, "resolve")
  /\ UNCHANGED <<dialers, gather, conn, remote, opened, facadeVars>>

\* Accept on a closed Listener.
AcceptClosed(s) ==
  /\ pc[s] = "idle" /\ s \in Acceptors /\ lpc # "open"
  /\ Goto(s, "failed")
  /\ UNCHANGED <<signalVars, dialers, gather, conn, remote, opened, facadeVars>>

\* The call that closes its session ends with it: at once, or when CloseGC has
\* taken Local.mu.
GotoClosed(s, waiting, done) == Goto(s, IF spc'[s] = "closed" THEN done ELSE waiting)

\* The resolver failed, or peer.New: only the session is there to close.
ResolveFails(s) ==
  /\ pc[s] = "resolve"
  /\ \/ /\ spc[s] = "refused" /\ Goto(s, "failed") /\ UNCHANGED signalVars
     \/ /\ Trouble /\ CloseBegin(s) /\ GotoClosed(s, "unwind", "failed")
  /\ UNCHANGED <<dialers, gather, conn, remote, opened, facadeVars>>

NewPeer(s) ==
  /\ pc[s] = "resolve" /\ spc[s] = "open"
  /\ New(s) /\ (DialBegins(s) \/ AcceptBegins(s))
  /\ UNCHANGED <<signalVars, dialers, remote, opened, facadeVars>>

\* Faulty variant: a failed dial closes the peer and forgets the session.
cleanupDialPeerOnly(s) ==
  /\ FlowFails(s)
  /\ Close(s)
  /\ Goto(s, "failed")
  /\ UNCHANGED <<idVars, roomVars, spc, sock, ctx, queueVars, dialers, facadeVars>>

\* The flow failed: close the peer, then the session.
cleanupDial(s) ==
  /\ FlowFails(s)
  /\ Close(s) /\ CloseBegin(s)
  /\ GotoClosed(s, "unwind", "failed")
  /\ UNCHANGED <<dialers, facadeVars>>

\* A Session.Close that waited has returned, and with it the call that made it.
CloseReturns(s) ==
  /\ pc[s] \in {"unwind", "teardown"} /\ spc[s] = "closed"
  /\ Goto(s, IF pc[s] = "unwind" THEN "failed" ELSE "closed")
  /\ UNCHANGED <<signalVars, dialers, gather, conn, remote, opened, facadeVars>>

-----------------------------------------------------------------------------
\* newConn: the caller has a Conn, whose Attach pump runs.
NewConn(s) ==
  /\ s \in dialers /\ WaitForOpen(s, "conn")
  /\ attach' = [attach EXCEPT ![s] = TRUE]
  /\ UNCHANGED <<lpc, conns, late>>

\* Attach returns: canceled by Close, or its channel's other end is gone.
AttachReturns(s) ==
  /\ attach[s]
  /\ pc[s] = "closing" \/ LinkedTo(s) = {}
  /\ attach' = [attach EXCEPT ![s] = FALSE]
  /\ UNCHANGED <<signalVars, negVars, lpc, conns, late>>

\* Conn.Close: cancel Attach and wait for it ...
ConnCancel(s) ==
  /\ pc[s] = "conn" /\ s \in dialers
  /\ Goto(s, "closing")
  /\ UNCHANGED <<signalVars, dialers, gather, conn, remote, opened, facadeVars>>

\* Faulty variant: Close does not wait for Attach.
ConnCloseNoWait(s) ==
  /\ pc[s] = "closing"
  /\ Close(s) /\ CloseBegin(s)
  /\ GotoClosed(s, "teardown", "closed")
  /\ UNCHANGED <<trouble, dialers, facadeVars>>

\* ... then the channel, the peer and the session.
ConnClose(s) ==
  /\ pc[s] = "closing" /\ ~attach[s]
  /\ Close(s) /\ CloseBegin(s)
  /\ GotoClosed(s, "teardown", "closed")
  /\ UNCHANGED <<trouble, dialers, facadeVars>>

-----------------------------------------------------------------------------
\* newServerConn.
NewServerConn(s) ==
  /\ s \in Acceptors /\ WaitForOpen(s, "ready")
  /\ UNCHANGED facadeVars

\* Faulty variant: track puts the connection into conns whatever Close does.
TrackUnlocked(s) ==
  /\ pc[s] = "ready" /\ s \in Acceptors
  /\ conns' = conns \cup {s}
  /\ Goto(s, "conn")
  /\ UNCHANGED <<signalVars, dialers, gather, conn, remote, opened, attach, lpc, late>>

\* track, which waits for mu: Accept returns the ServerConn
\* to its caller, or to Serve, whose goroutine runs an rpc.Server on it.
Track(s) ==
  /\ pc[s] = "ready" /\ s \in Acceptors /\ lpc # "sweeping"
  /\ conns' = IF lpc = "closed" THEN conns ELSE conns \cup {s}
  /\ late' = IF lpc = "closed" THEN late \cup {s} ELSE late
  /\ Goto(s, "conn") \/ Goto(s, "serving")
  /\ UNCHANGED <<signalVars, dialers, gather, conn, remote, opened, attach, lpc>>

\* srv.Serve returns because the channel or ctx ended: the goroutine untracks
\* the ServerConn and does not close it.
ServeReturns(s) ==
  /\ pc[s] = "serving" /\ lpc # "sweeping"
  /\ ctx[s] \/ LinkedTo(s) = {}
  /\ conns' = conns \ {s}
  /\ Goto(s, "loose")
  /\ UNCHANGED <<signalVars, dialers, gather, conn, remote, opened, attach, lpc, late>>

\* ServerConn.Close: channel, peer, session.
ServerConnTeardown(s) ==
  /\ Close(s) /\ CloseBegin(s)
  /\ GotoClosed(s, "teardown", "closed")
  /\ UNCHANGED <<trouble, dialers, facadeVars>>

\* By its owner.
ServerConnClose(s) == pc[s] = "conn" /\ s \in Acceptors /\ ServerConnTeardown(s)

\* Listener.Close: close(closed), take mu, close every connection, drop conns.
ListenerClose ==
  /\ lpc = "open"
  /\ lpc' = "sweeping"
  /\ UNCHANGED <<signalVars, negVars, attach, conns, late>>

\* Faulty variant: Close also takes the sessions of Accepts still under way.
SweepPending(s) ==
  /\ lpc = "sweeping" /\ s \in Acceptors /\ spc[s] = "open"
  /\ CloseBegin(s)
  /\ UNCHANGED <<trouble, negVars, facadeVars>>

Sweep(s) ==
  /\ lpc = "sweeping" /\ s \in conns /\ pc[s] \in {"conn", "serving"}
  /\ ServerConnTeardown(s)

SweepEnd ==
  /\ lpc = "sweeping" /\ \A s \in conns : pc[s] = "closed"
  /\ lpc' = "closed" /\ conns' = {}
  /\ UNCHANGED <<signalVars, negVars, attach, late>>

-----------------------------------------------------------------------------
FacadeStep(s) ==
  \/ Resolve(s) \/ AcceptClosed(s) \/ ResolveFails(s) \/ NewPeer(s)
  \/ cleanupDial(s) \/ CloseReturns(s)
  \/ NewConn(s) \/ AttachReturns(s) \/ ConnCancel(s) \/ ConnClose(s)
  \/ NewServerConn(s) \/ Track(s) \/ ServeReturns(s) \/ ServerConnClose(s) \/ Sweep(s)

Next ==
  \/ \E s \in Sessions :
       \/ SignalStep(s) /\ UNCHANGED <<negVars, facadeVars>>
       \/ NegotiationStep(s) /\ UNCHANGED facadeVars
       \/ FacadeStep(s)
  \/ ListenerClose \/ SweepEnd

Spec == Init /\ [][Next]_vars

-----------------------------------------------------------------------------
Ended(s) == pc[s] \in {"failed", "closed"}

(* "On any failure we release the stack so the server doesn't leak a        *)
(* phantom peer" (dial.go), and Close's last step leaves the service: the   *)
(* PeerConnection of an ended call is closed, and a room still lists its    *)
(* session only while the signaling server has yet to notice the hang-up.   *)
(* Until then the parts go in the "strictest order required by the          *)
(* underlying stack" (conn.go): no Attach pump outlives what it runs on.    *)
NoPhantom ==
  \A s \in Sessions :
    /\ Ended(s) => conn[s] # "open" /\ (Joined(s) => backend = "ws" /\ ~sock[s])
    /\ attach[s] => conn[s] = "open" /\ spc[s] = "open"

(* The facade never closes a session whose flow may still Send on it, so    *)
(* Send's write to a closed `out` (a panic, signal/local.go) is out of      *)
(* reach of Dial, Accept and every Close, in whatever order they run.       *)
NoSendAfterClose ==
  \A s \in Sessions : pc[s] \in FlowPcs => spc[s] = "open"

(* Listener.Close "tears down any active ones" exactly as far as conns      *)
(* knows them: once it has returned, a ServerConn that someone still uses   *)
(* was accepted behind its back.                                            *)
SweepComplete ==
  lpc = "closed" =>
    \A s \in Acceptors : pc[s] \in {"conn", "serving", "teardown"} /\ conn[s] = "open" => s \in late

=============================================================================
