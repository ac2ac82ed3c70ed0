---------------------------- MODULE SignalStore ----------------------------
(***************************************************************************)
(* The rendezvous store of the signaling server, store.Memory, under the   *)
(* WebSocket handlers that use it.  All sockets announce the same service. *)
(* Each step is one critical section of Memory.mu, of a service's mu or of *)
(* a peer's closeMu.  A memoryService is named by the socket whose Join    *)
(* created it, a memoryPeer by the socket that joined.                     *)
(***************************************************************************)
EXTENDS Integers, Sequences, FiniteSets

CONSTANTS
  Sockets,     \* the WebSocket connections of one run
  Ids,         \* peer_id values
  IdOf,        \* the peer_id each socket announces; a reconnect reuses it
  None,        \* Go's nil
  MaxPeers,    \* MaxPeersPerService (10 in the code)
  InboxCap,    \* capacity of memoryPeer.inbox (32 in the code)
  MaxMsgs      \* bound: frames a client sends on each socket

ASSUME StoreAssumption ==
  /\ IdOf \in [Sockets -> Ids]
  /\ None \notin Sockets
  /\ MaxPeers \in Nat \ {0} /\ InboxCap \in Nat \ {0} /\ MaxMsgs \in [Sockets -> Nat]

VARIABLES
  services,     \* Memory.services at the one name: a service, None when absent
  peers,        \* memoryService.peers: service -> peer_id -> peer
  svc,          \* the service a handler's Join works on, later Sender.service
  inbox,        \* memoryPeer.inbox
  inboxClosed,  \* memoryPeer.inboxClosed
  up,           \* the WebSocket still works
  pc,           \* where serveWebSocket is
  lsvc, mp,     \* Leave's locals: the service it found, the peer it removed
  empty,        \* Leave's local of the same name
  again,        \* the Leave in progress is the deferred one
  pump,         \* the goroutine that writes the inbox to the WebSocket
  nsent,        \* frames the client has sent
  written       \* history: messages written to the WebSocket

leaveVars == <<lsvc, mp, empty, again>>
vars == <<services, peers, svc, inbox, inboxClosed, up, pc, leaveVars, pump, nsent, written>>

Pcs == {"new", "join", "read", "leave", "remove", "close", "gc", "wait", "done"}
Message == Sockets \X Nat

TypeOK ==
  /\ services \in Sockets \cup {None}
  /\ peers \in [Sockets -> [Ids -> Sockets \cup {None}]]
  /\ svc \in [Sockets -> Sockets \cup {None}]
  /\ inbox \in [Sockets -> Seq(Message)]
  /\ inboxClosed \in [Sockets -> BOOLEAN]
  /\ up \in [Sockets -> BOOLEAN]
  /\ pc \in [Sockets -> Pcs]
  /\ lsvc \in [Sockets -> Sockets \cup {None}]
  /\ mp \in [Sockets -> Sockets \cup {None}]
  /\ empty \in [Sockets -> BOOLEAN]
  /\ again \in [Sockets -> BOOLEAN]
  /\ pump \in [Sockets -> {"none", "run", "exited"}]
  /\ nsent \in [Sockets -> Nat]
  /\ written \in [Sockets -> Seq(Message)]
  /\ \A k \in Sockets : /\ pc[k] \in {"join", "read"} => svc[k] \in Sockets
                        /\ pc[k] = "remove" => lsvc[k] \in Sockets
                        /\ pc[k] = "close" => mp[k] \in Sockets

Init ==
  /\ services = None
  /\ peers = [g \in Sockets |-> [i \in Ids |-> None]]
  /\ svc = [k \in Sockets |-> None]
  /\ inbox = [k \in Sockets |-> <<>>]
  /\ inboxClosed = [k \in Sockets |-> FALSE]
  /\ up = [k \in Sockets |-> TRUE]
  /\ pc = [k \in Sockets |-> "new"]
  /\ lsvc = [k \in Sockets |-> None]
  /\ mp = [k \in Sockets |-> None]
  /\ empty = [k \in Sockets |-> FALSE]
  /\ again = [k \in Sockets |-> FALSE]
  /\ pump = [k \in Sockets |-> "none"]
  /\ nsent = [k \in Sockets |-> 0]
  /\ written = [k \in Sockets |-> <<>>]

\* len(service.peers)
Members(g) == {i \in Ids : peers[g][i] # None}
Count(g) == Cardinality(Members(g))

-----------------------------------------------------------------------------
\* Join.

\* The Announce frame has been read; serviceForJoin, under Memory.mu.
serviceForJoin(k) ==
  /\ pc[k] = "new"
  /\ services' = IF services = None THEN k ELSE services
  /\ svc' = [svc EXCEPT ![k] = services']
  /\ pc' = [pc EXCEPT ![k] = "join"]
  /\ UNCHANGED <<peers, inbox, inboxClosed, up, leaveVars, pump, nsent, written>>

\* The rest of Join, under the service's mu.  A refused peer's handler
\* returns; otherwise the handler starts its pump and reads.
Join(k) ==
  /\ pc[k] = "join"
  /\ LET g == svc[k]
         refused == peers[g][IdOf[k]] # None \/ Count(g) >= MaxPeers
     IN \/ /\ refused
           /\ pc' = [pc EXCEPT ![k] = "done"]
           /\ UNCHANGED <<peers, pump>>
        \/ /\ ~refused
           /\ peers' = [peers EXCEPT ![g][IdOf[k]] = k]
           /\ pc' = [pc EXCEPT ![k] = "read"]
           /\ pump' = [pump EXCEPT ![k] = "run"]
  /\ UNCHANGED <<services, svc, inbox, inboxClosed, up, leaveVars, nsent, written>>

-----------------------------------------------------------------------------
\* Broadcasting, and the pump that writes an inbox to its WebSocket.

\* Faulty variant: a later message overtakes an earlier one.
SendReordered(k) ==
  /\ pc[k] = "read" /\ up[k] /\ nsent[k] < MaxMsgs[k]
  /\ nsent' = [nsent EXCEPT ![k] = @ + 1]
  /\ inbox' = [j \in Sockets |->
       IF IdOf[j] # IdOf[k] /\ peers[svc[k]][IdOf[j]] = j /\ Len(inbox[j]) < InboxCap
       THEN <<<<k, nsent'[k]>>>> \o inbox[j] ELSE inbox[j]]
  /\ UNCHANGED <<services, peers, svc, inboxClosed, up, pc, leaveVars, pump, written>>

\* A frame from the client: memorySender.Send, under the service's mu, to
\* every other id of the sender's service; a full inbox drops it.
Send(k) ==
  /\ pc[k] = "read" /\ up[k] /\ nsent[k] < MaxMsgs[k]
  /\ nsent' = [nsent EXCEPT ![k] = @ + 1]
  /\ inbox' = [j \in Sockets |->
       IF IdOf[j] # IdOf[k] /\ peers[svc[k]][IdOf[j]] = j /\ Len(inbox[j]) < InboxCap
       THEN Append(inbox[j], <<k, nsent'[k]>>) ELSE inbox[j]]
  /\ UNCHANGED <<services, peers, svc, inboxClosed, up, pc, leaveVars, pump, written>>

\* One round of the pump: a failed write ends it, and so does a closed inbox
\* that has been drained.
Pump(k) ==
  /\ pump[k] = "run"
  /\ \/ /\ inbox[k] # <<>>
        /\ inbox' = [inbox EXCEPT ![k] = Tail(@)]
        /\ \/ /\ up[k]
              /\ written' = [written EXCEPT ![k] = Append(@, Head(inbox[k]))]
              /\ pump' = pump
           \/ /\ ~up[k]
              /\ written' = written
              /\ pump' = [pump EXCEPT ![k] = "exited"]
     \/ /\ inbox[k] = <<>> /\ inboxClosed[k]
        /\ pump' = [pump EXCEPT ![k] = "exited"]
        /\ UNCHANGED <<inbox, written>>
  /\ UNCHANGED <<services, peers, svc, inboxClosed, up, pc, leaveVars, nsent>>

\* The client goes away.
Disconnect(k) ==
  /\ up[k]
  /\ up' = [up EXCEPT ![k] = FALSE]
  /\ UNCHANGED <<services, peers, svc, inbox, inboxClosed, pc, leaveVars, pump, nsent, written>>

-----------------------------------------------------------------------------
\* Leave, called by Sender.Close when the read fails and again by the
\* handler's defer once the pump is done.

ReadFails(k) ==
  /\ pc[k] = "read" /\ ~up[k]
  /\ pc' = [pc EXCEPT ![k] = "leave"]
  /\ UNCHANGED <<services, peers, svc, inbox, inboxClosed, up, leaveVars, pump, nsent, written>>

\* Where the handler goes when a Leave returns.
AfterLeave(k) == IF again[k] THEN "done" ELSE "wait"

\* Find the service, under Memory.mu.
LeaveLookup(k) ==
  /\ pc[k] = "leave"
  /\ lsvc' = [lsvc EXCEPT ![k] = services]
  /\ pc' = [pc EXCEPT ![k] = IF services = None THEN AfterLeave(k) ELSE "remove"]
  /\ UNCHANGED <<services, peers, svc, inbox, inboxClosed, up, mp, empty, again, pump, nsent, written>>

\* Faulty variant: the peer's entry stays in the table.
LeaveRemoveKeep(k) ==
  /\ pc[k] = "remove"
  /\ LET p == peers[lsvc[k]][IdOf[k]]
     IN /\ mp' = [mp EXCEPT ![k] = p]
        /\ pc' = [pc EXCEPT ![k] = IF p = None THEN AfterLeave(k) ELSE "close"]
  /\ UNCHANGED <<services, peers, svc, inbox, inboxClosed, up, lsvc, empty, again, pump, nsent, written>>

\* Remove whoever holds the id, under the service's mu.
LeaveRemove(k) ==
  /\ pc[k] = "remove"
  /\ LET g == lsvc[k]
         p == peers[g][IdOf[k]]
     IN \/ /\ p = None
           /\ pc' = [pc EXCEPT ![k] = AfterLeave(k)]
           /\ UNCHANGED <<peers, mp, empty>>
        \/ /\ p # None
           /\ peers' = [peers EXCEPT ![g][IdOf[k]] = None]
           /\ mp' = [mp EXCEPT ![k] = p]
           /\ empty' = [empty EXCEPT ![k] = Members(g) = {IdOf[k]}]
           /\ pc' = [pc EXCEPT ![k] = "close"]
  /\ UNCHANGED <<services, svc, inbox, inboxClosed, up, lsvc, again, pump, nsent, written>>

\* Close the removed peer's inbox once, under its closeMu.
LeaveClose(k) ==
  /\ pc[k] = "close"
  /\ inboxClosed' = [inboxClosed EXCEPT ![mp[k]] = TRUE]
  /\ pc' = [pc EXCEPT ![k] = IF empty[k] THEN "gc" ELSE AfterLeave(k)]
  /\ UNCHANGED <<services, peers, svc, inbox, up, leaveVars, pump, nsent, written>>

\* Drop the service if it is still empty, under Memory.mu.
LeaveCollect(k) ==
  /\ pc[k] = "gc"
  /\ services' = IF services # None /\ Members(services) = {} THEN None ELSE services
  /\ pc' = [pc EXCEPT ![k] = AfterLeave(k)]
  /\ UNCHANGED <<peers, svc, inbox, inboxClosed, up, leaveVars, pump, nsent, written>>

\* The pump is done: the deferred Leave begins.
PumpDone(k) ==
  /\ pc[k] = "wait" /\ pump[k] = "exited"
  /\ pc' = [pc EXCEPT ![k] = "leave"]
  /\ again' = [again EXCEPT ![k] = TRUE]
  /\ UNCHANGED <<services, peers, svc, inbox, inboxClosed, up, lsvc, mp, empty, pump, nsent, written>>

Handler(k) ==
  \/ serviceForJoin(k) \/ Join(k) \/ ReadFails(k)
  \/ LeaveLookup(k) \/ LeaveRemove(k) \/ LeaveClose(k) \/ LeaveCollect(k) \/ PumpDone(k)

Next ==
  \E k \in Sockets :
    \/ serviceForJoin(k) \/ Join(k) \/ Send(k) \/ Pump(k) \/ Disconnect(k) \/ ReadFails(k)
    \/ LeaveLookup(k) \/ LeaveRemove(k) \/ LeaveClose(k) \/ LeaveCollect(k) \/ PumpDone(k)

Spec == Init /\ [][Next]_vars

\* Handlers and pumps are scheduled; clients need do nothing.
FairSpec == Spec /\ \A k \in Sockets : WF_vars(Handler(k)) /\ WF_vars(Pump(k))

-----------------------------------------------------------------------------
\* Send on a closed channel panics.  memorySender.Send only reaches peers in
\* a service's table, and none of those has a closed inbox.
NoSendOnClosed ==
  \A g \in Sockets, i \in Ids : peers[g][i] # None => ~inboxClosed[peers[g][i]]

\* What a client receives: never a message of its own id, even across its
\* own reconnects, and the messages of one sender in the order it sent them.
ReceivedInOrder ==
  \A k \in Sockets : LET q == written[k] \o inbox[k]
    IN /\ \A i \in DOMAIN q : IdOf[q[i][1]] # IdOf[k]
       /\ \A i, j \in DOMAIN q : i < j /\ q[i][1] = q[j][1] => q[i][2] < q[j][2]

\* A peer that left is not in the table of the service it left: once its
\* handler waits for the pump, the id is free for a reconnect.
LeftIsGone ==
  \A k \in Sockets : pc[k] \in {"wait", "done"} /\ svc[k] = services => peers[svc[k]][IdOf[k]] # k
=============================================================================
