------------------------- MODULE SignalStoreProofs -------------------------
(***************************************************************************)
(* store.Memory never sends on a closed inbox, forgets the peers that left *)
(* and keeps a sender's messages in order: for any number of sockets, ids, *)
(* caps and reconnects.                                                    *)
(***************************************************************************)
EXTENDS SignalStore, TLAPS

\* Writing one slot of one service's table.
PeerTable == [Sockets -> [Ids -> Sockets \cup {None}]]

LEMMA SetSlot ==
  ASSUME peers \in PeerTable, NEW g \in Sockets, NEW i \in Ids, NEW v \in Sockets \cup {None},
         peers' = [peers EXCEPT ![g][i] = v]
  PROVE  /\ peers' \in PeerTable
         /\ \A h \in Sockets, j \in Ids : peers'[h][j] = IF h = g /\ j = i THEN v ELSE peers[h][j]
<1>1. [peers[g] EXCEPT ![i] = v] \in [Ids -> Sockets \cup {None}] BY DEF PeerTable
<1>2. peers' \in PeerTable BY <1>1 DEF PeerTable
<1>3. QED BY <1>2 DEF PeerTable

\* Moving one handler.
LEMMA SetPc ==
  ASSUME pc \in [Sockets -> Pcs], NEW k \in Sockets, NEW p \in Pcs, pc' = [pc EXCEPT ![k] = p]
  PROVE  pc' \in [Sockets -> Pcs] /\ \A j \in Sockets : pc'[j] = IF j = k THEN p ELSE pc[j]
OBVIOUS

LEMMA TypeStep == TypeOK /\ [Next]_vars => TypeOK'
<1> SUFFICES ASSUME TypeOK, [Next]_vars PROVE TypeOK'
  OBVIOUS
<1> USE StoreAssumption DEF TypeOK, Pcs
<1>1. CASE UNCHANGED vars BY <1>1 DEF vars, leaveVars
<1>2. ASSUME NEW k \in Sockets, serviceForJoin(k) PROVE TypeOK'
  <2>1. services' \in Sockets BY <1>2 DEF serviceForJoin
  <2>2. svc' = [svc EXCEPT ![k] = services'] BY <1>2 DEF serviceForJoin
  <2>3. svc' \in [Sockets -> Sockets \cup {None}] /\ svc'[k] \in Sockets BY <2>1, <2>2
  <2>4. \A j \in Sockets : j # k => svc'[j] = svc[j] BY <2>2
  <2>5. QED BY <1>2, <2>1, <2>3, <2>4 DEF serviceForJoin, leaveVars
<1>3. ASSUME NEW k \in Sockets, Join(k) PROVE TypeOK'
  <2>1. svc[k] \in Sockets /\ IdOf[k] \in Ids BY <1>3 DEF Join
  <2>7. peers' = peers \/ peers' = [peers EXCEPT ![svc[k]][IdOf[k]] = k] BY <1>3, Zenon DEF Join
  <2>2. /\ pc' = [pc EXCEPT ![k] = "done"] \/ pc' = [pc EXCEPT ![k] = "read"]
        /\ pump' = pump \/ pump' = [pump EXCEPT ![k] = "run"]
    BY <1>3, Zenon DEF Join
  <2>8. peers \in PeerTable BY DEF PeerTable
  <2>3. peers' \in PeerTable BY <2>1, <2>7, <2>8, SetSlot
  <2>4. pc' \in [Sockets -> Pcs] /\ \A j \in Sockets : pc'[j] = pc[j] \/ (j = k /\ pc'[j] \in {"done", "read"})
    <3>1. CASE pc' = [pc EXCEPT ![k] = "done"] BY <3>1, SetPc
    <3>2. CASE pc' = [pc EXCEPT ![k] = "read"] BY <3>2, SetPc
    <3>3. QED BY <2>2, <3>1, <3>2
  <2>5. pump' \in [Sockets -> {"none", "run", "exited"}] BY <2>2
  <2>6. UNCHANGED <<services, svc, inbox, inboxClosed, up, lsvc, mp, empty, again, nsent, written>>
    BY <1>3 DEF Join, leaveVars
  <2>9. QED BY <2>1, <2>3, <2>4, <2>5, <2>6 DEF PeerTable
<1>4. ASSUME NEW k \in Sockets, Send(k) PROVE TypeOK'
  <2>1. \A j \in Sockets : Append(inbox[j], <<k, nsent[k] + 1>>) \in Seq(Message)
    BY DEF Message
  <2>2. nsent' \in [Sockets -> Nat] /\ nsent'[k] = nsent[k] + 1 BY <1>4 DEF Send
  <2>3. inbox' \in [Sockets -> Seq(Message)] BY <1>4, <2>1, <2>2 DEF Send
  <2>4. QED BY <1>4, <2>2, <2>3 DEF Send, leaveVars
<1>5. ASSUME NEW k \in Sockets, Pump(k) PROVE TypeOK'
  <2>1. inbox[k] # <<>> => /\ Tail(inbox[k]) \in Seq(Message)
                           /\ Append(written[k], Head(inbox[k])) \in Seq(Message)
    OBVIOUS
  <2>2. inbox' \in [Sockets -> Seq(Message)] BY <1>5, <2>1 DEF Pump
  <2>5. written' \in [Sockets -> Seq(Message)]
    <3>1. written' = written \/ (inbox[k] # <<>> /\ written' = [written EXCEPT ![k] = Append(@, Head(inbox[k]))])
      BY <1>5 DEF Pump
    <3>2. QED BY <2>1, <3>1
  <2>3. pump' \in [Sockets -> {"none", "run", "exited"}] BY <1>5 DEF Pump
  <2>6. QED BY <1>5, <2>2, <2>3, <2>5 DEF Pump, leaveVars
<1>6. ASSUME NEW k \in Sockets, Disconnect(k) PROVE TypeOK'
  BY <1>6 DEF Disconnect, leaveVars
<1>7. ASSUME NEW k \in Sockets, ReadFails(k) \/ LeaveLookup(k) \/ PumpDone(k) PROVE TypeOK'
  <2>1. CASE ReadFails(k) BY <2>1 DEF ReadFails, leaveVars
  <2>2. CASE LeaveLookup(k) BY <2>2 DEF LeaveLookup, AfterLeave
  <2>3. CASE PumpDone(k) BY <2>3 DEF PumpDone
  <2>4. QED BY <1>7, <2>1, <2>2, <2>3
<1>8. ASSUME NEW k \in Sockets, LeaveRemove(k) PROVE TypeOK'
  <2> DEFINE g == lsvc[k]
             p == peers[g][IdOf[k]]
             e == (Members(g) = {IdOf[k]})
  <2>1. g \in Sockets /\ IdOf[k] \in Ids BY <1>8 DEF LeaveRemove
  <2>2. e \in BOOLEAN BY Zenon
  <2>3. p \in Sockets \cup {None} BY <2>1
  <2>13. peers' = peers \/ peers' = [peers EXCEPT ![g][IdOf[k]] = None] BY <1>8, Zenon DEF LeaveRemove
  <2>4. \/ p = None /\ UNCHANGED <<mp, empty>> /\ pc' = [pc EXCEPT ![k] = AfterLeave(k)]
        \/ /\ p # None /\ mp' = [mp EXCEPT ![k] = p] /\ empty' = [empty EXCEPT ![k] = e]
           /\ pc' = [pc EXCEPT ![k] = "close"]
    BY <1>8, Zenon DEF LeaveRemove
  <2>12. peers \in PeerTable BY DEF PeerTable
  <2> HIDE DEF e, p, g
  <2>5. empty' \in [Sockets -> BOOLEAN] BY <2>2, <2>4
  <2>6. peers' \in PeerTable BY <2>1, <2>12, <2>13, SetSlot
  <2>7. mp' \in [Sockets -> Sockets \cup {None}] /\ \A j \in Sockets : mp'[j] = mp[j] \/ mp'[j] \in Sockets
    <3>1. mp' = mp \/ (p # None /\ mp' = [mp EXCEPT ![k] = p]) BY <2>4, Zenon
    <3>2. CASE mp' = mp BY <3>2
    <3>3. CASE p # None /\ mp' = [mp EXCEPT ![k] = p]
      <4>1. p \in Sockets BY <2>3, <3>3
      <4>2. QED BY <4>1, <3>3
    <3>4. QED BY <3>1, <3>2, <3>3
  <2>8. pc' \in [Sockets -> Pcs] /\ \A j \in Sockets : pc'[j] = pc[j] \/ (j = k /\ pc'[j] \in {"wait", "done", "close"})
    <3>1. pc' = [pc EXCEPT ![k] = AfterLeave(k)] \/ pc' = [pc EXCEPT ![k] = "close"] BY <2>4, Zenon
    <3>2. AfterLeave(k) = "wait" \/ AfterLeave(k) = "done" BY DEF AfterLeave
    <3>3. CASE pc' = [pc EXCEPT ![k] = AfterLeave(k)]
      <4>1. CASE pc' = [pc EXCEPT ![k] = "wait"] BY <4>1, SetPc
      <4>2. CASE pc' = [pc EXCEPT ![k] = "done"] BY <4>2, SetPc
      <4>3. QED BY <3>2, <3>3, <4>1, <4>2
    <3>4. CASE pc' = [pc EXCEPT ![k] = "close"] BY <3>4, SetPc
    <3>5. QED BY <3>1, <3>3, <3>4
  <2>9. pc'[k] = "close" => mp'[k] \in Sockets
    <3>1. pc' = [pc EXCEPT ![k] = AfterLeave(k)] \/ (p # None /\ mp' = [mp EXCEPT ![k] = p]) BY <2>4, Zenon
    <3>2. QED BY <2>3, <3>1 DEF AfterLeave
  <2>10. UNCHANGED <<services, svc, inbox, inboxClosed, up, lsvc, again, pump, nsent, written>>
    BY <1>8 DEF LeaveRemove
  <2>11. QED BY <2>5, <2>6, <2>7, <2>8, <2>9, <2>10 DEF PeerTable
<1>9. ASSUME NEW k \in Sockets, LeaveClose(k) \/ LeaveCollect(k) PROVE TypeOK'
  <2>1. CASE LeaveClose(k)
    <3>1. inboxClosed' \in [Sockets -> BOOLEAN] BY <2>1 DEF LeaveClose
    <3>2. pc' \in [Sockets -> Pcs] /\ \A j \in Sockets : pc'[j] = pc[j] \/ (j = k /\ pc'[j] \in {"gc", "wait", "done"})
      BY <2>1 DEF LeaveClose, AfterLeave
    <3>3. QED BY <2>1, <3>1, <3>2 DEF LeaveClose, leaveVars
  <2>2. CASE LeaveCollect(k) BY <2>2 DEF LeaveCollect, AfterLeave, leaveVars
  <2>3. QED BY <1>9, <2>1, <2>2
<1>10. QED BY <1>1, <1>2, <1>3, <1>4, <1>5, <1>6, <1>7, <1>8, <1>9 DEF Next

\* Every handler and its Leave have in hand what their place needs: Leave
\* never follows an absent service or closes an absent peer.
THEOREM StoreTypeCorrect == Spec => []TypeOK
<1>1. Init => TypeOK
  <2> SUFFICES ASSUME Init PROVE TypeOK
    OBVIOUS
  <2>1. /\ inboxClosed \in [Sockets -> BOOLEAN] /\ up \in [Sockets -> BOOLEAN]
        /\ empty \in [Sockets -> BOOLEAN] /\ again \in [Sockets -> BOOLEAN]
    BY Zenon DEF Init
  <2>2. inbox \in [Sockets -> Seq(Message)] /\ written \in [Sockets -> Seq(Message)]
    BY DEF Init
  <2>3. QED BY <2>1, <2>2 DEF Init, TypeOK, Pcs
<1>2. QED BY <1>1, TypeStep, PTL DEF Spec

-----------------------------------------------------------------------------
\* A registered peer is registered once, in the service it joined, and its
\* inbox is open.
Registered ==
  \A g \in Sockets, i \in Ids : peers[g][i] # None =>
    /\ g = svc[peers[g][i]] /\ i = IdOf[peers[g][i]]
    /\ pc[peers[g][i]] \notin {"new", "join"}
    /\ inboxClosed[peers[g][i]] = FALSE

\* A peer that has not joined has an open inbox.
Unjoined ==
  \A k \in Sockets : pc[k] \in {"new", "join"} => inboxClosed[k] = FALSE

\* A peer whose inbox a Leave is about to close is in no table, and joined.
Removed ==
  \A j \in Sockets : pc[j] = "close" =>
    /\ mp[j] \in Sockets /\ pc[mp[j]] \notin {"new", "join"}
    /\ \A g \in Sockets, i \in Ids : peers[g][i] # mp[j]

StoreInv == Registered /\ Unjoined /\ Removed

\* What moving one handler past its Join leaves true.
LEMMA MovePc ==
  ASSUME TypeOK, NEW k \in Sockets, NEW p \in Pcs \ {"new", "join"},
         pc' = [pc EXCEPT ![k] = p]
  PROVE  /\ pc'[k] = p /\ \A j \in Sockets : j # k => pc'[j] = pc[j]
         /\ \A j \in Sockets : pc'[j] \in {"new", "join"} => pc[j] \in {"new", "join"}
         /\ \A j \in Sockets : pc[j] \notin {"new", "join"} => pc'[j] \notin {"new", "join"}
<1>1. pc \in [Sockets -> Pcs] BY DEF TypeOK
<1>2. QED BY <1>1

\* A step that leaves tables, inboxes and removals alone and moves one
\* handler, not into its Join and not to "close".
LEMMA QuietStep ==
  ASSUME TypeOK, StoreInv, NEW k \in Sockets, NEW p \in Pcs \ {"new", "join", "close"},
         pc' = [pc EXCEPT ![k] = p], UNCHANGED <<peers, svc, inboxClosed, mp>>
  PROVE  StoreInv'
<1>1. /\ pc'[k] = p /\ \A j \in Sockets : j # k => pc'[j] = pc[j]
      /\ \A j \in Sockets : pc'[j] \in {"new", "join"} => pc[j] \in {"new", "join"}
      /\ \A j \in Sockets : pc[j] \notin {"new", "join"} => pc'[j] \notin {"new", "join"}
  BY MovePc
<1>2. peers \in PeerTable BY DEF TypeOK, PeerTable
<1>3. \A j \in Sockets : pc'[j] = "close" => pc[j] = "close" BY <1>1
<1>4. Registered' BY <1>1, <1>2 DEF StoreInv, Registered, PeerTable
<1>5. Unjoined' BY <1>1 DEF StoreInv, Unjoined
<1>6. Removed' BY <1>1, <1>3 DEF StoreInv, Removed
<1>7. QED BY <1>4, <1>5, <1>6 DEF StoreInv

LEMMA StoreStep == TypeOK /\ StoreInv /\ [Next]_vars => StoreInv'
<1> SUFFICES ASSUME TypeOK, StoreInv, [Next]_vars PROVE StoreInv'
  OBVIOUS
<1> USE StoreAssumption
<1>t. /\ peers \in PeerTable /\ pc \in [Sockets -> Pcs] /\ svc \in [Sockets -> Sockets \cup {None}]
      /\ mp \in [Sockets -> Sockets \cup {None}] /\ inboxClosed \in [Sockets -> BOOLEAN]
  BY DEF TypeOK, PeerTable
<1>i. Registered /\ Unjoined /\ Removed BY DEF StoreInv
<1>1. CASE UNCHANGED <<peers, svc, inboxClosed, pc, mp>>
  BY <1>1, <1>i DEF StoreInv, Registered, Unjoined, Removed
<1>2. ASSUME NEW k \in Sockets, serviceForJoin(k) PROVE StoreInv'
  <2>1. pc' = [pc EXCEPT ![k] = "join"] BY <1>2 DEF serviceForJoin
  <2>2. svc' = [svc EXCEPT ![k] = services'] BY <1>2 DEF serviceForJoin
  <2>3. UNCHANGED <<peers, inboxClosed, mp>> /\ pc[k] = "new" BY <1>2 DEF serviceForJoin, leaveVars
  <2>4. pc'[k] = "join" /\ \A j \in Sockets : j # k => pc'[j] = pc[j] BY <1>t, <2>1
  <2>5. \A j \in Sockets : j # k => svc'[j] = svc[j] BY <1>t, <2>2
  <2>6. Registered' BY <1>t, <1>i, <2>3, <2>4, <2>5 DEF Registered, PeerTable
  <2>7. Unjoined' BY <1>i, <2>3, <2>4 DEF Unjoined
  <2>8. Removed' BY <1>i, <2>3, <2>4 DEF Removed
  <2>9. QED BY <2>6, <2>7, <2>8 DEF StoreInv
<1>3. ASSUME NEW k \in Sockets, Join(k) PROVE StoreInv'
  <2>1. pc[k] = "join" /\ UNCHANGED <<svc, inboxClosed, mp>> BY <1>3 DEF Join, leaveVars
  <2>2. svc[k] \in Sockets /\ IdOf[k] \in Ids BY <2>1 DEF TypeOK
  <2>3. \/ peers' = peers /\ pc' = [pc EXCEPT ![k] = "done"]
        \/ peers' = [peers EXCEPT ![svc[k]][IdOf[k]] = k] /\ pc' = [pc EXCEPT ![k] = "read"]
    BY <1>3, Zenon DEF Join
  <2>4. CASE peers' = peers /\ pc' = [pc EXCEPT ![k] = "done"]
    BY <2>1, <2>4, QuietStep DEF Pcs
  <2>5. CASE peers' = [peers EXCEPT ![svc[k]][IdOf[k]] = k] /\ pc' = [pc EXCEPT ![k] = "read"]
    <3>1. \A h \in Sockets, j \in Ids : peers'[h][j] = IF h = svc[k] /\ j = IdOf[k] THEN k ELSE peers[h][j]
      BY <1>t, <2>2, <2>5, Z3 DEF PeerTable
    <3>2. pc'[k] = "read" /\ \A j \in Sockets : j # k => pc'[j] = pc[j] BY <1>t, <2>5
    <3>3. inboxClosed[k] = FALSE BY <1>i, <2>1 DEF Unjoined
    <3>4. \A j \in Sockets : pc[j] \notin {"new", "join"} => pc'[j] \notin {"new", "join"} BY <3>2
    <3>5. Registered'
      <4> SUFFICES ASSUME NEW g \in Sockets, NEW i \in Ids, peers'[g][i] # None
                   PROVE  /\ g = svc'[peers'[g][i]] /\ i = IdOf[peers'[g][i]]
                          /\ pc'[peers'[g][i]] \notin {"new", "join"}
                          /\ inboxClosed'[peers'[g][i]] = FALSE
        BY DEF Registered
      <4>1. CASE g = svc[k] /\ i = IdOf[k]
        <5>1. peers'[g][i] = k BY <3>1, <4>1
        <5>2. QED BY <5>1, <4>1, <2>1, <3>2, <3>3
      <4>2. CASE ~(g = svc[k] /\ i = IdOf[k])
        <5>1. peers'[g][i] = peers[g][i] BY <3>1, <4>2
        <5>2. peers[g][i] \in Sockets \cup {None} BY <1>t DEF PeerTable
        <5>3. QED BY <5>1, <5>2, <1>i, <2>1, <3>4 DEF Registered
      <4>3. QED BY <4>1, <4>2
    <3>6. Unjoined' BY <1>i, <2>1, <3>2 DEF Unjoined
    <3>7. Removed'
      <4> SUFFICES ASSUME NEW j \in Sockets, pc'[j] = "close"
                   PROVE  /\ mp'[j] \in Sockets /\ pc'[mp'[j]] \notin {"new", "join"}
                          /\ \A g \in Sockets, i \in Ids : peers'[g][i] # mp'[j]
        BY DEF Removed
      <4>1. pc[j] = "close" BY <3>2
      <4>2. mp'[j] = mp[j] /\ mp[j] \in Sockets /\ pc[mp[j]] \notin {"new", "join"}
        BY <4>1, <1>i, <2>1 DEF Removed
      <4>3. \A g \in Sockets, i \in Ids : peers[g][i] # mp[j] BY <4>1, <1>i DEF Removed
      <4>4. mp[j] # k BY <4>2, <2>1
      <4>5. QED BY <4>2, <4>3, <4>4, <3>1, <3>4
    <3>8. QED BY <3>5, <3>6, <3>7 DEF StoreInv
  <2>6. QED BY <2>3, <2>4, <2>5
<1>4. ASSUME NEW k \in Sockets, ReadFails(k) \/ LeaveLookup(k) \/ LeaveCollect(k) \/ PumpDone(k)
      PROVE  StoreInv'
  <2>1. AfterLeave(k) \in {"wait", "done"} BY DEF AfterLeave
  <2>2. UNCHANGED <<peers, svc, inboxClosed, mp>>
    BY <1>4 DEF ReadFails, LeaveLookup, LeaveCollect, PumpDone, leaveVars
  <2>3. PICK p \in {"leave", "remove", AfterLeave(k)} : pc' = [pc EXCEPT ![k] = p]
    BY <1>4 DEF ReadFails, LeaveLookup, LeaveCollect, PumpDone
  <2>4. p \in Pcs \ {"new", "join", "close"} BY <2>1, <2>3 DEF Pcs
  <2>5. QED BY <2>2, <2>3, <2>4, QuietStep
<1>5. ASSUME NEW k \in Sockets, LeaveRemove(k) PROVE StoreInv'
  <2> DEFINE g == lsvc[k]
             p == peers[g][IdOf[k]]
  <2>1. pc[k] = "remove" /\ UNCHANGED <<svc, inboxClosed>> BY <1>5 DEF LeaveRemove
  <2>2. g \in Sockets /\ IdOf[k] \in Ids BY <2>1 DEF TypeOK
  <2>3. \/ pc' = [pc EXCEPT ![k] = AfterLeave(k)] /\ UNCHANGED <<peers, mp>>
        \/ /\ p # None /\ peers' = [peers EXCEPT ![g][IdOf[k]] = None]
           /\ mp' = [mp EXCEPT ![k] = p] /\ pc' = [pc EXCEPT ![k] = "close"]
    BY <1>5, Zenon DEF LeaveRemove
  <2>4. CASE pc' = [pc EXCEPT ![k] = AfterLeave(k)] /\ UNCHANGED <<peers, mp>>
    <3>1. AfterLeave(k) \in Pcs \ {"new", "join", "close"} BY DEF AfterLeave, Pcs
    <3>2. QED BY <2>1, <2>4, <3>1, QuietStep
  <2>5. CASE /\ p # None /\ peers' = [peers EXCEPT ![g][IdOf[k]] = None]
             /\ mp' = [mp EXCEPT ![k] = p] /\ pc' = [pc EXCEPT ![k] = "close"]
    <3>1. \A h \in Sockets, j \in Ids : peers'[h][j] = IF h = g /\ j = IdOf[k] THEN None ELSE peers[h][j]
      BY <1>t, <2>2, <2>5, Z3 DEF PeerTable
    <3>2. p \in Sockets BY <1>t, <2>2, <2>5 DEF PeerTable
    <3>3. g = svc[p] /\ IdOf[k] = IdOf[p] /\ pc[p] \notin {"new", "join"} BY <1>i, <2>2, <2>5 DEF Registered
    <3>4. \A h \in Sockets, j \in Ids : peers[h][j] = p => h = g /\ j = IdOf[k]
      BY <1>i, <2>5, <3>3 DEF Registered
    <3> HIDE DEF p, g
    <3>5. mp'[k] = p /\ \A j \in Sockets : j # k => mp'[j] = mp[j] BY <1>t, <2>5, <3>2
    <3>6. pc'[k] = "close" /\ \A j \in Sockets : j # k => pc'[j] = pc[j] BY <1>t, <2>5
    <3>7. \A j \in Sockets : pc[j] \notin {"new", "join"} => pc'[j] \notin {"new", "join"} BY <3>6
    <3>8. \A h \in Sockets, j \in Ids : peers'[h][j] = None \/ peers'[h][j] = peers[h][j] BY <3>1
    <3>9. \A h \in Sockets, j \in Ids : peers'[h][j] # p
      BY <3>1, <3>2, <3>4
    <3>10. Registered'
      <4> SUFFICES ASSUME NEW h \in Sockets, NEW i \in Ids, peers'[h][i] # None
                   PROVE  /\ h = svc'[peers'[h][i]] /\ i = IdOf[peers'[h][i]]
                          /\ pc'[peers'[h][i]] \notin {"new", "join"}
                          /\ inboxClosed'[peers'[h][i]] = FALSE
        BY DEF Registered
      <4>1. peers'[h][i] = peers[h][i] BY <3>8
      <4>2. peers[h][i] \in Sockets BY <4>1, <1>t DEF PeerTable
      <4>3. QED BY <4>1, <4>2, <1>i, <2>1, <3>7 DEF Registered
    <3>11. Unjoined' BY <1>i, <2>1, <3>6 DEF Unjoined
    <3>12. Removed'
      <4> SUFFICES ASSUME NEW j \in Sockets, pc'[j] = "close"
                   PROVE  /\ mp'[j] \in Sockets /\ pc'[mp'[j]] \notin {"new", "join"}
                          /\ \A h \in Sockets, i \in Ids : peers'[h][i] # mp'[j]
        BY DEF Removed
      <4>1. CASE j = k BY <4>1, <3>2, <3>3, <3>5, <3>7, <3>9
      <4>2. CASE j # k
        <5>1. pc[j] = "close" /\ mp'[j] = mp[j] BY <4>2, <3>5, <3>6
        <5>2. /\ mp[j] \in Sockets /\ pc[mp[j]] \notin {"new", "join"}
              /\ \A h \in Sockets, i \in Ids : peers[h][i] # mp[j]
          BY <5>1, <1>i DEF Removed
        <5>3. mp[j] # None BY <5>2
        <5>4. QED BY <5>1, <5>2, <5>3, <3>7, <3>8
      <4>3. QED BY <4>1, <4>2
    <3>13. QED BY <3>10, <3>11, <3>12 DEF StoreInv
  <2>6. QED BY <2>3, <2>4, <2>5
<1>6. ASSUME NEW k \in Sockets, LeaveClose(k) PROVE StoreInv'
  <2>1. pc[k] = "close" /\ UNCHANGED <<peers, svc, mp>> BY <1>6 DEF LeaveClose, leaveVars
  <2>2. inboxClosed' = [inboxClosed EXCEPT ![mp[k]] = TRUE] BY <1>6 DEF LeaveClose
  <2>3. PICK q \in {"gc", "wait", "done"} : pc' = [pc EXCEPT ![k] = q]
    BY <1>6 DEF LeaveClose, AfterLeave
  <2>4. /\ mp[k] \in Sockets /\ pc[mp[k]] \notin {"new", "join"}
        /\ \A g \in Sockets, i \in Ids : peers[g][i] # mp[k]
    BY <1>i, <2>1 DEF Removed
  <2>5. \A j \in Sockets : j # mp[k] => inboxClosed'[j] = inboxClosed[j] BY <1>t, <2>2
  <2>6. pc'[k] = q /\ \A j \in Sockets : j # k => pc'[j] = pc[j] BY <1>t, <2>3
  <2>7. \A j \in Sockets : pc[j] \notin {"new", "join"} => pc'[j] \notin {"new", "join"} BY <2>6
  <2>8. Registered'
    <3> SUFFICES ASSUME NEW h \in Sockets, NEW i \in Ids, peers'[h][i] # None
                 PROVE  /\ h = svc'[peers'[h][i]] /\ i = IdOf[peers'[h][i]]
                        /\ pc'[peers'[h][i]] \notin {"new", "join"}
                        /\ inboxClosed'[peers'[h][i]] = FALSE
      BY DEF Registered
    <3>1. peers'[h][i] = peers[h][i] /\ peers[h][i] \in Sockets BY <1>t, <2>1 DEF PeerTable
    <3>2. QED BY <3>1, <1>i, <2>1, <2>4, <2>5, <2>7 DEF Registered
  <2>9. Unjoined'
    <3> SUFFICES ASSUME NEW j \in Sockets, pc'[j] \in {"new", "join"} PROVE inboxClosed'[j] = FALSE
      BY DEF Unjoined
    <3>1. pc[j] \in {"new", "join"} BY <2>7
    <3>2. j # mp[k] /\ inboxClosed[j] = FALSE BY <3>1, <2>4, <1>i DEF Unjoined
    <3>3. QED BY <3>2, <2>5
  <2>10. Removed'
    <3> SUFFICES ASSUME NEW j \in Sockets, pc'[j] = "close"
                 PROVE  /\ mp[j] \in Sockets /\ pc'[mp[j]] \notin {"new", "join"}
                        /\ \A h \in Sockets, i \in Ids : peers[h][i] # mp[j]
      BY <2>1 DEF Removed
    <3>1. pc[j] = "close" BY <2>6
    <3>2. QED BY <3>1, <1>i, <2>7 DEF Removed
  <2>11. QED BY <2>8, <2>9, <2>10 DEF StoreInv
<1>7. ASSUME NEW k \in Sockets, Send(k) \/ Pump(k) \/ Disconnect(k)
      PROVE  UNCHANGED <<peers, svc, inboxClosed, pc, mp>>
  BY <1>7 DEF Send, Pump, Disconnect, leaveVars
<1>8. CASE UNCHANGED vars
  <2>1. UNCHANGED <<peers, svc, inboxClosed, pc, mp>> BY <1>8 DEF vars, leaveVars
  <2>2. QED BY <2>1, <1>1
<1>9. QED BY <1>1, <1>2, <1>3, <1>4, <1>5, <1>6, <1>7, <1>8 DEF Next

\* memorySender.Send never sends on a closed channel, whatever Joins, Leaves
\* and second Leaves of other handlers it races with.
THEOREM StoreNeverPanics == Spec => []NoSendOnClosed
<1>1. Init => StoreInv
  BY StoreAssumption DEF Init, StoreInv, Registered, Unjoined, Removed
<1>2. TypeOK /\ StoreInv => NoSendOnClosed
  BY DEF StoreInv, Registered, NoSendOnClosed
<1>3. QED BY <1>1, <1>2, StoreStep, TypeStep, StoreTypeCorrect, PTL DEF Spec

-----------------------------------------------------------------------------
\* A service is named by a socket that has announced itself, and so is the
\* one a handler joined: a new service is never one that was left before.
NotNew ==
  /\ services # None => pc[services] # "new"
  /\ \A k \in Sockets : pc[k] # "new" => svc[k] \in Sockets /\ pc[svc[k]] # "new"

\* A Leave that found another service than the one joined is too late to
\* matter: the joined one has been collected.
Superseded ==
  \A k \in Sockets : pc[k] = "remove" /\ lsvc[k] # svc[k] => svc[k] # services

\* Past its removal, a peer is not in the table of the service it joined, if
\* that is still the service.
OutOfTable ==
  \A k \in Sockets : pc[k] \in {"close", "gc", "wait", "done"} /\ svc[k] = services =>
    peers[svc[k]][IdOf[k]] # k

LeaveInv == NotNew /\ Superseded /\ OutOfTable

\* One handler that has announced itself moves on.
LEMMA PastNew ==
  ASSUME TypeOK, NotNew, NEW k \in Sockets, NEW p \in Pcs \ {"new"}, pc[k] # "new",
         pc' = [pc EXCEPT ![k] = p], UNCHANGED svc, services' \in {services, None}
  PROVE  /\ pc'[k] = p /\ \A j \in Sockets : j # k => pc'[j] = pc[j]
         /\ NotNew'
<1>1. pc \in [Sockets -> Pcs] /\ services \in Sockets \cup {None} BY DEF TypeOK
<1>2. pc'[k] = p /\ \A j \in Sockets : j # k => pc'[j] = pc[j] BY <1>1
<1>3. \A j \in Sockets : pc'[j] = "new" <=> pc[j] = "new" BY <1>2
<1>4. services' # None => pc'[services'] # "new" BY <1>1, <1>3 DEF NotNew
<1>5. \A j \in Sockets : pc'[j] # "new" => svc'[j] \in Sockets /\ pc'[svc'[j]] # "new"
  BY <1>3 DEF NotNew
<1>6. QED BY <1>2, <1>4, <1>5 DEF NotNew

LEMMA LeaveStep == TypeOK /\ StoreInv /\ LeaveInv /\ [Next]_vars => LeaveInv'
<1> SUFFICES ASSUME TypeOK, StoreInv, LeaveInv, [Next]_vars PROVE LeaveInv'
  OBVIOUS
<1> USE StoreAssumption
<1>t. /\ peers \in PeerTable /\ pc \in [Sockets -> Pcs] /\ svc \in [Sockets -> Sockets \cup {None}]
      /\ lsvc \in [Sockets -> Sockets \cup {None}] /\ services \in Sockets \cup {None}
  BY DEF TypeOK, PeerTable
<1>i. NotNew /\ Superseded /\ OutOfTable BY DEF LeaveInv
<1>1. CASE UNCHANGED <<services, peers, svc, pc, lsvc>>
  BY <1>1, <1>i DEF LeaveInv, NotNew, Superseded, OutOfTable
<1>2. ASSUME NEW k \in Sockets, serviceForJoin(k) PROVE LeaveInv'
  <2>1. /\ pc[k] = "new" /\ pc' = [pc EXCEPT ![k] = "join"] /\ svc' = [svc EXCEPT ![k] = services']
        /\ services' = IF services = None THEN k ELSE services
        /\ UNCHANGED <<peers, lsvc>>
    BY <1>2 DEF serviceForJoin, leaveVars
  <2>2. pc'[k] = "join" /\ \A j \in Sockets : j # k => pc'[j] = pc[j] BY <1>t, <2>1
  <2>3. svc'[k] = services' /\ \A j \in Sockets : j # k => svc'[j] = svc[j] BY <1>t, <2>1
  <2>4. services' \in Sockets /\ pc'[services'] # "new" BY <1>t, <1>i, <2>1, <2>2 DEF NotNew
  <2>5. \A j \in Sockets : j # k /\ pc[j] # "new" => svc[j] # k BY <1>i, <2>1 DEF NotNew
  <2>6. NotNew'
    <3>1. \A j \in Sockets : pc'[j] # "new" => svc'[j] \in Sockets /\ pc'[svc'[j]] # "new"
      BY <1>i, <2>2, <2>3, <2>4 DEF NotNew
    <3>2. QED BY <2>4, <3>1 DEF NotNew
  <2>7. \A j \in Sockets : pc'[j] \in {"remove", "close", "gc", "wait", "done"} =>
          j # k /\ pc'[j] = pc[j] /\ svc'[j] = svc[j] /\ (svc'[j] = services' => svc[j] = services)
    <3> SUFFICES ASSUME NEW j \in Sockets, pc'[j] \in {"remove", "close", "gc", "wait", "done"}
                 PROVE  j # k /\ pc'[j] = pc[j] /\ svc'[j] = svc[j] /\ (svc'[j] = services' => svc[j] = services)
      OBVIOUS
    <3>1. j # k /\ pc'[j] = pc[j] /\ svc'[j] = svc[j] BY <2>2, <2>3
    <3>2. svc[j] # k BY <3>1, <2>5
    <3>3. QED BY <3>1, <3>2, <2>1
  <2>8. Superseded' BY <1>i, <2>1, <2>7 DEF Superseded
  <2>9. OutOfTable' BY <1>i, <2>1, <2>7 DEF OutOfTable
  <2>10. QED BY <2>6, <2>8, <2>9 DEF LeaveInv
<1>3. ASSUME NEW k \in Sockets, Join(k) PROVE LeaveInv'
  <2>1. pc[k] = "join" /\ UNCHANGED <<services, svc, lsvc>> BY <1>3 DEF Join, leaveVars
  <2>2. svc[k] \in Sockets /\ IdOf[k] \in Ids BY <2>1 DEF TypeOK
  <2>3. \/ peers' = peers /\ pc' = [pc EXCEPT ![k] = "done"]
        \/ peers' = [peers EXCEPT ![svc[k]][IdOf[k]] = k] /\ pc' = [pc EXCEPT ![k] = "read"]
    BY <1>3, Zenon DEF Join
  <2>4. CASE peers' = peers /\ pc' = [pc EXCEPT ![k] = "done"]
    <3>1. NotNew' /\ pc'[k] = "done" /\ \A j \in Sockets : j # k => pc'[j] = pc[j]
      BY <1>i, <2>1, <2>4, PastNew DEF Pcs
    <3>2. peers[svc[k]][IdOf[k]] # k BY <2>1, <2>2 DEF StoreInv, Registered
    <3>3. Superseded' BY <1>i, <2>1, <3>1 DEF Superseded
    <3>4. OutOfTable' BY <1>i, <2>1, <2>4, <3>1, <3>2 DEF OutOfTable
    <3>5. QED BY <3>1, <3>3, <3>4 DEF LeaveInv
  <2>5. CASE peers' = [peers EXCEPT ![svc[k]][IdOf[k]] = k] /\ pc' = [pc EXCEPT ![k] = "read"]
    <3>1. NotNew' /\ pc'[k] = "read" /\ \A j \in Sockets : j # k => pc'[j] = pc[j]
      BY <1>i, <2>1, <2>5, PastNew DEF Pcs
    <3>2. \A h \in Sockets, j \in Ids : peers'[h][j] = IF h = svc[k] /\ j = IdOf[k] THEN k ELSE peers[h][j]
      BY <1>t, <2>2, <2>5, Z3 DEF PeerTable
    <3>3. Superseded' BY <1>i, <2>1, <3>1 DEF Superseded
    <3>4. OutOfTable'
      <4> SUFFICES ASSUME NEW j \in Sockets, pc'[j] \in {"close", "gc", "wait", "done"}, svc'[j] = services'
                   PROVE  peers'[svc'[j]][IdOf[j]] # j
        BY DEF OutOfTable
      <4>1. j # k /\ pc'[j] = pc[j] BY <3>1
      <4>2. svc[j] \in Sockets /\ svc'[j] = svc[j] /\ svc[j] = services /\ IdOf[j] \in Ids
        BY <1>i, <2>1, <4>1 DEF NotNew
      <4>3. peers[svc[j]][IdOf[j]] # j BY <1>i, <4>1, <4>2 DEF OutOfTable
      <4>4. QED BY <3>2, <4>1, <4>2, <4>3
    <3>5. QED BY <3>1, <3>3, <3>4 DEF LeaveInv
  <2>6. QED BY <2>3, <2>4, <2>5
<1>4. ASSUME NEW k \in Sockets, ReadFails(k) \/ PumpDone(k) PROVE LeaveInv'
  <2>1. pc[k] # "new" /\ pc' = [pc EXCEPT ![k] = "leave"] /\ UNCHANGED <<services, peers, svc, lsvc>>
    BY <1>4 DEF ReadFails, PumpDone, leaveVars
  <2>2. NotNew' /\ pc'[k] = "leave" /\ \A j \in Sockets : j # k => pc'[j] = pc[j]
    BY <1>i, <2>1, PastNew DEF Pcs
  <2>3. Superseded' BY <1>i, <2>1, <2>2 DEF Superseded
  <2>4. OutOfTable' BY <1>i, <2>1, <2>2 DEF OutOfTable
  <2>5. QED BY <2>2, <2>3, <2>4 DEF LeaveInv
<1>5. ASSUME NEW k \in Sockets, LeaveLookup(k) PROVE LeaveInv'
  <2>1. /\ pc[k] = "leave" /\ lsvc' = [lsvc EXCEPT ![k] = services] /\ UNCHANGED <<services, peers, svc>>
        /\ pc' = [pc EXCEPT ![k] = IF services = None THEN AfterLeave(k) ELSE "remove"]
    BY <1>5 DEF LeaveLookup
  <2>2. AfterLeave(k) \in {"wait", "done"} BY DEF AfterLeave
  <2>3. PICK p \in {"wait", "done", "remove"} : /\ pc' = [pc EXCEPT ![k] = p]
                                                /\ services = None <=> p # "remove"
    <3>1. CASE services = None
      <4>1. pc' = [pc EXCEPT ![k] = AfterLeave(k)] BY <2>1, <3>1
      <4>2. QED BY <2>2, <3>1, <4>1
    <3>2. CASE services # None
      <4>1. pc' = [pc EXCEPT ![k] = "remove"] BY <2>1, <3>2
      <4>2. QED BY <3>2, <4>1
    <3>3. QED BY <3>1, <3>2
  <2>4. NotNew' /\ pc'[k] = p /\ \A j \in Sockets : j # k => pc'[j] = pc[j]
    BY <1>i, <2>1, <2>3, PastNew DEF Pcs
  <2>5. lsvc'[k] = services /\ \A j \in Sockets : j # k => lsvc'[j] = lsvc[j] BY <1>t, <2>1
  <2>6. svc[k] \in Sockets BY <1>i, <2>1 DEF NotNew
  <2>7. Superseded' BY <1>i, <2>1, <2>4, <2>5 DEF Superseded
  <2>8. OutOfTable' BY <1>i, <2>1, <2>3, <2>4, <2>6 DEF OutOfTable
  <2>9. QED BY <2>4, <2>7, <2>8 DEF LeaveInv
<1>6. ASSUME NEW k \in Sockets, LeaveRemove(k) PROVE LeaveInv'
  <2>1. pc[k] = "remove" /\ UNCHANGED <<services, svc, lsvc>> BY <1>6 DEF LeaveRemove
  <2>2. lsvc[k] \in Sockets /\ IdOf[k] \in Ids BY <2>1 DEF TypeOK
  <2>3. \/ /\ pc' = [pc EXCEPT ![k] = AfterLeave(k)] /\ UNCHANGED peers
           /\ peers[lsvc[k]][IdOf[k]] = None
        \/ peers' = [peers EXCEPT ![lsvc[k]][IdOf[k]] = None] /\ pc' = [pc EXCEPT ![k] = "close"]
    BY <1>6, Zenon DEF LeaveRemove
  <2>4. AfterLeave(k) \in {"wait", "done"} BY DEF AfterLeave
  <2>5. \A h \in Sockets, j \in Ids : peers'[h][j] = IF h = lsvc[k] /\ j = IdOf[k] THEN None ELSE peers[h][j]
    BY <1>t, <2>2, <2>3, SetSlot
  <2>6. PICK p \in {"wait", "done", "close"} : pc' = [pc EXCEPT ![k] = p] BY <2>3, <2>4
  <2>7. NotNew' /\ pc'[k] = p /\ \A j \in Sockets : j # k => pc'[j] = pc[j]
    BY <1>i, <2>1, <2>6, PastNew DEF Pcs
  <2>8. Superseded' BY <1>i, <2>1, <2>7 DEF Superseded
  <2>9. OutOfTable'
    <3> SUFFICES ASSUME NEW j \in Sockets, pc'[j] \in {"close", "gc", "wait", "done"}, svc'[j] = services'
                 PROVE  peers'[svc'[j]][IdOf[j]] # j
      BY DEF OutOfTable
    <3>1. svc[j] \in Sockets /\ svc'[j] = svc[j] /\ svc[j] = services /\ IdOf[j] \in Ids
      BY <1>i, <2>1, <2>7 DEF NotNew
    <3>2. CASE j = k BY <3>1, <3>2, <1>i, <2>1, <2>5 DEF Superseded
    <3>3. CASE j # k
      <4>1. peers[svc[j]][IdOf[j]] # j BY <1>i, <2>7, <3>1, <3>3 DEF OutOfTable
      <4>2. QED BY <4>1, <2>5, <3>1
    <3>4. QED BY <3>2, <3>3
  <2>10. QED BY <2>7, <2>8, <2>9 DEF LeaveInv
<1>7. ASSUME NEW k \in Sockets, LeaveClose(k) \/ LeaveCollect(k) PROVE LeaveInv'
  <2>1. /\ pc[k] \in {"close", "gc"} /\ UNCHANGED <<peers, svc, lsvc>> /\ services' \in {services, None}
    BY <1>7 DEF LeaveClose, LeaveCollect, leaveVars
  <2>2. PICK p \in {"gc", "wait", "done"} : pc' = [pc EXCEPT ![k] = p]
    BY <1>7 DEF LeaveClose, LeaveCollect, AfterLeave
  <2>3. NotNew' /\ pc'[k] = p /\ \A j \in Sockets : j # k => pc'[j] = pc[j]
    BY <1>i, <2>1, <2>2, PastNew DEF Pcs
  <2>4. \A j \in Sockets : pc'[j] # "new" => svc'[j] = svc[j] /\ (svc'[j] = services' => svc[j] = services)
    BY <1>i, <2>1, <2>3 DEF NotNew
  <2>5. Superseded' BY <1>i, <2>1, <2>3, <2>4 DEF Superseded
  <2>6. OutOfTable' BY <1>i, <2>1, <2>3, <2>4 DEF OutOfTable
  <2>7. QED BY <2>3, <2>5, <2>6 DEF LeaveInv
<1>8. ASSUME NEW k \in Sockets, Send(k) \/ Pump(k) \/ Disconnect(k)
      PROVE  UNCHANGED <<services, peers, svc, pc, lsvc>>
  BY <1>8 DEF Send, Pump, Disconnect, leaveVars
<1>9. CASE UNCHANGED vars
  <2>1. UNCHANGED <<services, peers, svc, pc, lsvc>> BY <1>9 DEF vars, leaveVars
  <2>2. QED BY <2>1, <1>1
<1>10. QED BY <1>1, <1>2, <1>3, <1>4, <1>5, <1>6, <1>7, <1>8, <1>9 DEF Next

\* A peer that has left holds no slot of the service it left: its id is free
\* for a reconnect, whichever Joins, Leaves and collections raced with it.
THEOREM LeaversGone == Spec => []LeftIsGone
<1>1. Init => StoreInv /\ LeaveInv
  BY StoreAssumption DEF Init, StoreInv, Registered, Unjoined, Removed, LeaveInv, NotNew, Superseded, OutOfTable
<1>2. LeaveInv => LeftIsGone
  BY DEF LeaveInv, OutOfTable, LeftIsGone
<1>3. QED BY <1>1, <1>2, StoreStep, LeaveStep, StoreTypeCorrect, PTL DEF Spec

-----------------------------------------------------------------------------
\* What was received so far: on the WebSocket, then in the inbox.
Received(k) == written[k] \o inbox[k]

\* A message received has been sent.
WasSent ==
  \A k \in Sockets : \A i \in DOMAIN Received(k) : Received(k)[i][2] <= nsent[Received(k)[i][1]]

OrderInv == WasSent /\ ReceivedInOrder

\* Taking the m-th element out of a sequence of messages, and adding one to it,
\* in terms of positions.
Drop(q, m) == [i \in 1 .. (Len(q) - 1) |-> IF i < m THEN q[i] ELSE q[i + 1]]

\* A sequence of messages as k may receive them, when each sender has got as
\* far as n says.
Fine(k, q, n) ==
  /\ \A i \in DOMAIN q : IdOf[q[i][1]] # IdOf[k] /\ q[i][2] <= n[q[i][1]]
  /\ \A i, j \in DOMAIN q : i < j /\ q[i][1] = q[j][1] => q[i][2] < q[j][2]

LEMMA OrderIsFine == OrderInv <=> \A k \in Sockets : Fine(k, Received(k), nsent)
BY DEF OrderInv, WasSent, ReceivedInOrder, Fine, Received

LEMMA FineDrop ==
  ASSUME NEW k, NEW q \in Seq(Message), NEW n, Fine(k, q, n), NEW m \in 1 .. Len(q)
  PROVE  Drop(q, m) \in Seq(Message) /\ Fine(k, Drop(q, m), n)
<1> DEFINE l == Len(q)
           r == Drop(q, m)
<1>1. l \in Nat /\ DOMAIN q = 1 .. l /\ m \in 1 .. l /\ \A i \in 1 .. l : q[i] \in Message OBVIOUS
<1>2. /\ DOMAIN r = 1 .. (l - 1) /\ l - 1 \in Nat
      /\ \A i \in 1 .. (l - 1) : r[i] = IF i < m THEN q[i] ELSE q[i + 1]
  BY <1>1 DEF Drop
<1> HIDE DEF l
<1>3. \A i \in 1 .. (l - 1) : r[i] \in Message BY <1>1, <1>2
<1>4. r \in [1 .. (l - 1) -> Message] BY <1>1, <1>3 DEF Drop, l
<1>5. r \in Seq(Message) BY <1>2, <1>4
<1> HIDE DEF r
<1>6. \A i \in 1 .. (l - 1) : IdOf[r[i][1]] # IdOf[k] /\ r[i][2] <= n[r[i][1]]
  <2> SUFFICES ASSUME NEW i \in 1 .. (l - 1) PROVE IdOf[r[i][1]] # IdOf[k] /\ r[i][2] <= n[r[i][1]]
    OBVIOUS
  <2>1. PICK a \in 1 .. l : r[i] = q[a]
    <3>1. CASE i < m BY <1>1, <1>2, <3>1
    <3>2. CASE ~(i < m) BY <1>1, <1>2, <3>2
    <3>3. QED BY <3>1, <3>2
  <2>2. QED BY <1>1, <2>1 DEF Fine
<1>7. \A i, j \in 1 .. (l - 1) : i < j /\ r[i][1] = r[j][1] => r[i][2] < r[j][2]
  <2> SUFFICES ASSUME NEW i \in 1 .. (l - 1), NEW j \in 1 .. (l - 1), i < j, r[i][1] = r[j][1]
               PROVE  r[i][2] < r[j][2]
    OBVIOUS
  <2>1. PICK a \in 1 .. l, b \in 1 .. l : a < b /\ r[i] = q[a] /\ r[j] = q[b]
    <3>1. CASE j < m BY <1>1, <1>2, <3>1
    <3>2. CASE ~(j < m) /\ i < m BY <1>1, <1>2, <3>2
    <3>3. CASE ~(i < m) BY <1>1, <1>2, <3>3
    <3>4. QED BY <3>1, <3>2, <3>3
  <2>2. QED BY <1>1, <2>1 DEF Fine
<1>8. QED BY <1>2, <1>5, <1>6, <1>7 DEF Fine, r

LEMMA FineAppend ==
  ASSUME NEW k, NEW q \in Seq(Message), NEW n \in [Sockets -> Nat], Fine(k, q, n),
         NEW j \in Sockets, IdOf[j] # IdOf[k]
  PROVE  Fine(k, Append(q, <<j, n[j] + 1>>), [n EXCEPT ![j] = @ + 1])
<1> DEFINE l == Len(q)
           e == <<j, n[j] + 1>>
           r == Append(q, e)
           w == [n EXCEPT ![j] = @ + 1]
<1>1. l \in Nat /\ DOMAIN q = 1 .. l /\ \A i \in 1 .. l : q[i][1] \in Sockets /\ q[i][2] \in Nat
  BY DEF Message
<1>2. DOMAIN r = 1 .. (l + 1) /\ r[l + 1] = e /\ \A i \in 1 .. l : r[i] = q[i] OBVIOUS
<1>3. w[j] = n[j] + 1 /\ \A i \in Sockets : n[i] \in Nat /\ n[i] <= w[i] /\ w[i] \in Nat OBVIOUS
<1>4. e[1] = j /\ e[2] = n[j] + 1 OBVIOUS
<1> HIDE DEF l, e, r, w
<1>5. \A i \in 1 .. (l + 1) : i = l + 1 \/ i \in 1 .. l BY <1>1
<1>6. \A i \in 1 .. (l + 1) : IdOf[r[i][1]] # IdOf[k] /\ r[i][2] <= w[r[i][1]]
  <2>1. \A i \in 1 .. l : IdOf[q[i][1]] # IdOf[k] /\ q[i][2] <= w[q[i][1]]
    BY <1>1, <1>3 DEF Fine
  <2>2. QED BY <1>1, <1>2, <1>3, <1>4, <1>5, <2>1
<1>7. \A a, b \in 1 .. (l + 1) : a < b /\ r[a][1] = r[b][1] => r[a][2] < r[b][2]
  <2> SUFFICES ASSUME NEW a \in 1 .. (l + 1), NEW b \in 1 .. (l + 1), a < b, r[a][1] = r[b][1]
               PROVE  r[a][2] < r[b][2]
    OBVIOUS
  <2>1. a \in 1 .. l /\ r[a] = q[a] BY <1>1, <1>2
  <2>2. CASE b \in 1 .. l BY <1>1, <1>2, <2>1, <2>2 DEF Fine
  <2>3. CASE b = l + 1
    <3>1. r[b][1] = j /\ r[b][2] = n[j] + 1 BY <1>2, <1>4, <2>3
    <3>2. q[a][2] <= n[j] /\ q[a][2] \in Nat /\ n[j] \in Nat BY <1>1, <1>3, <2>1, <3>1 DEF Fine
    <3>3. QED BY <2>1, <3>1, <3>2
  <2>4. QED BY <1>5, <2>2, <2>3
<1>8. QED BY <1>2, <1>6, <1>7 DEF Fine, e, r, w, l

LEMMA FineLater ==
  ASSUME NEW k, NEW q \in Seq(Message), NEW n \in [Sockets -> Nat], Fine(k, q, n), NEW j \in Sockets
  PROVE  Fine(k, q, [n EXCEPT ![j] = @ + 1])
<1>1. \A i \in DOMAIN q : q[i][1] \in Sockets /\ q[i][2] \in Nat BY DEF Message
<1>2. \A i \in Sockets : n[i] \in Nat /\ [n EXCEPT ![j] = @ + 1][i] \in Nat /\ n[i] <= [n EXCEPT ![j] = @ + 1][i] OBVIOUS
<1>3. QED BY <1>1, <1>2 DEF Fine

\* What the WebSocket and the inbox hold together, when the pump writes the
\* inbox's head, loses it, or Send adds to the inbox.
LEMMA Moved ==
  ASSUME NEW w \in Seq(Message), NEW b \in Seq(Message), b # <<>>
  PROVE  Append(w, Head(b)) \o Tail(b) = w \o b
OBVIOUS

LEMMA Lost ==
  ASSUME NEW w \in Seq(Message), NEW b \in Seq(Message), b # <<>>
  PROVE  /\ w \o Tail(b) = Drop(w \o b, Len(w) + 1)
         /\ Len(w) + 1 \in 1 .. Len(w \o b)
<1>1. /\ Len(w) \in Nat /\ Len(b) \in Nat \ {0} /\ Len(Tail(b)) = Len(b) - 1
      /\ Len(w \o b) = Len(w) + Len(b) /\ Tail(b) \in Seq(Message)
      /\ \A i \in 1 .. (Len(b) - 1) : Tail(b)[i] = b[i + 1]
  OBVIOUS
<1>2. Len(w) + 1 \in 1 .. Len(w \o b) BY <1>1
<1> DEFINE x == w \o Tail(b)
           y == Drop(w \o b, Len(w) + 1)
<1>3. DOMAIN x = 1 .. (Len(w) + Len(b) - 1) /\ DOMAIN y = 1 .. (Len(w) + Len(b) - 1)
  BY <1>1 DEF Drop
<1>4. \A i \in 1 .. (Len(w) + Len(b) - 1) : x[i] = y[i]
  <2> SUFFICES ASSUME NEW i \in 1 .. (Len(w) + Len(b) - 1) PROVE x[i] = y[i]
    OBVIOUS
  <2>1. CASE i <= Len(w) BY <1>1, <2>1 DEF Drop
  <2>2. CASE i > Len(w)
    <3>1. x[i] = Tail(b)[i - Len(w)] /\ i - Len(w) \in 1 .. (Len(b) - 1) BY <1>1, <2>2
    <3>2. y[i] = (w \o b)[i + 1] BY <1>1, <2>2 DEF Drop
    <3>3. (w \o b)[i + 1] = b[i + 1 - Len(w)] BY <1>1, <2>2
    <3>4. Tail(b)[i - Len(w)] = b[i - Len(w) + 1] BY <1>1, <3>1
    <3>5. i - Len(w) + 1 = i + 1 - Len(w) BY <1>1
    <3>6. QED BY <3>1, <3>2, <3>3, <3>4, <3>5
  <2>3. QED BY <1>1, <2>1, <2>2
<1>5. x \in Seq(Message) BY <1>1
<1>6. /\ x \in [1 .. (Len(w) + Len(b) - 1) -> Message] /\ y \in [1 .. (Len(w) + Len(b) - 1) -> Message]
  <2> DEFINE z == x
  <2>0. z \in [DOMAIN z -> Message]
    <3>1. z \in Seq(Message) BY <1>5
    <3> HIDE DEF z
    <3>2. QED BY <3>1
  <2>1. x \in [1 .. (Len(w) + Len(b) - 1) -> Message] BY <1>3, <2>0
  <2>2. \A i \in 1 .. (Len(w) + Len(b) - 1) : y[i] \in Message BY <1>4, <2>1
  <2>3. QED BY <1>3, <2>1, <2>2 DEF Drop
<1> HIDE DEF x, y
<1>7. x = y BY <1>4, <1>6
<1>8. QED BY <1>2, <1>7 DEF x, y

LEMMA Added ==
  ASSUME NEW w \in Seq(Message), NEW b \in Seq(Message), NEW e \in Message
  PROVE  w \o Append(b, e) = Append(w \o b, e)
OBVIOUS

LEMMA OrderStep == TypeOK /\ OrderInv /\ [Next]_vars => OrderInv'
<1> SUFFICES ASSUME TypeOK, OrderInv, [Next]_vars PROVE OrderInv'
  OBVIOUS
<1> USE StoreAssumption
<1>t. /\ inbox \in [Sockets -> Seq(Message)] /\ written \in [Sockets -> Seq(Message)]
      /\ nsent \in [Sockets -> Nat]
  BY DEF TypeOK
<1>f. \A j \in Sockets : Fine(j, written[j] \o inbox[j], nsent) BY OrderIsFine DEF Received
<1>q. \A j \in Sockets : written[j] \o inbox[j] \in Seq(Message) BY <1>t
<1>s. (\A j \in Sockets : Fine(j, written'[j] \o inbox'[j], nsent')) => OrderInv'
  BY DEF OrderInv, WasSent, ReceivedInOrder, Fine, Received
<1>1. CASE UNCHANGED <<inbox, written, nsent>>
  BY <1>1, <1>f, <1>s
<1>2. ASSUME NEW k \in Sockets, Send(k) PROVE OrderInv'
  <2>1. /\ nsent' = [nsent EXCEPT ![k] = @ + 1] /\ UNCHANGED written
        /\ inbox' = [j \in Sockets |->
             IF IdOf[j] # IdOf[k] /\ peers[svc[k]][IdOf[j]] = j /\ Len(inbox[j]) < InboxCap
             THEN Append(inbox[j], <<k, nsent'[k]>>) ELSE inbox[j]]
    BY <1>2 DEF Send
  <2>2. nsent'[k] = nsent[k] + 1 /\ <<k, nsent[k] + 1>> \in Message BY <1>t, <2>1 DEF Message
  <2>3. ASSUME NEW j \in Sockets PROVE Fine(j, written'[j] \o inbox'[j], nsent')
    <3>1. CASE inbox'[j] = inbox[j] BY <1>f, <1>q, <1>t, <2>1, <3>1, FineLater
    <3>2. CASE IdOf[j] # IdOf[k] /\ inbox'[j] = Append(inbox[j], <<k, nsent[k] + 1>>)
      <4>1. written[j] \o Append(inbox[j], <<k, nsent[k] + 1>>) = Append(written[j] \o inbox[j], <<k, nsent[k] + 1>>)
        <5>1. written[j] \in Seq(Message) /\ inbox[j] \in Seq(Message) BY <1>t
        <5>2. QED BY <2>2, <5>1, Added
      <4>2. Fine(j, Append(written[j] \o inbox[j], <<k, nsent[k] + 1>>), [nsent EXCEPT ![k] = @ + 1])
        BY <1>f, <1>q, <1>t, <3>2, FineAppend
      <4>3. QED BY <2>1, <3>2, <4>1, <4>2
    <3>3. QED BY <2>1, <2>2, <3>1, <3>2
  <2>4. QED BY <2>3, <1>s
<1>3. ASSUME NEW k \in Sockets, Pump(k) PROVE OrderInv'
  <2>1. UNCHANGED nsent BY <1>3 DEF Pump
  <2>2. \/ UNCHANGED <<inbox, written>>
        \/ /\ inbox[k] # <<>> /\ inbox' = [inbox EXCEPT ![k] = Tail(@)]
           /\ written' = written \/ written' = [written EXCEPT ![k] = Append(@, Head(inbox[k]))]
    BY <1>3, Zenon DEF Pump
  <2>3. CASE UNCHANGED <<inbox, written>> BY <1>1, <2>1, <2>3
  <2>4. CASE inbox[k] # <<>> /\ inbox' = [inbox EXCEPT ![k] = Tail(@)] /\ written' = written
    <3>1. inbox'[k] = Tail(inbox[k]) /\ \A j \in Sockets : j # k => inbox'[j] = inbox[j] BY <1>t, <2>4
    <3>2. Fine(k, written[k] \o Tail(inbox[k]), nsent)
      <4>1. written[k] \in Seq(Message) /\ inbox[k] \in Seq(Message) BY <1>t
      <4>2. /\ written[k] \o Tail(inbox[k]) = Drop(written[k] \o inbox[k], Len(written[k]) + 1)
            /\ Len(written[k]) + 1 \in 1 .. Len(written[k] \o inbox[k])
        BY <2>4, <4>1, Lost
      <4>3. Fine(k, Drop(written[k] \o inbox[k], Len(written[k]) + 1), nsent)
        BY <1>f, <1>q, <4>2, FineDrop
      <4>4. QED BY <4>2, <4>3
    <3>3. \A j \in Sockets : Fine(j, written'[j] \o inbox'[j], nsent')
      BY <1>f, <2>1, <2>4, <3>1, <3>2
    <3>4. QED BY <3>3, <1>s
  <2>5. CASE /\ inbox[k] # <<>> /\ inbox' = [inbox EXCEPT ![k] = Tail(@)]
             /\ written' = [written EXCEPT ![k] = Append(@, Head(inbox[k]))]
    <3>1. inbox'[k] = Tail(inbox[k]) /\ \A j \in Sockets : j # k => inbox'[j] = inbox[j] BY <1>t, <2>5
    <3>2. /\ written'[k] = Append(written[k], Head(inbox[k]))
          /\ \A j \in Sockets : j # k => written'[j] = written[j]
      BY <1>t, <2>5
    <3>3. written'[k] \o inbox'[k] = written[k] \o inbox[k] BY <1>t, <2>5, <3>1, <3>2, Moved
    <3>4. \A j \in Sockets : Fine(j, written'[j] \o inbox'[j], nsent')
      BY <1>f, <2>1, <3>1, <3>2, <3>3
    <3>5. QED BY <3>4, <1>s
  <2>6. QED BY <2>2, <2>3, <2>4, <2>5
<1>4. ASSUME NEW k \in Sockets,
             \/ serviceForJoin(k) \/ Join(k) \/ Disconnect(k) \/ ReadFails(k) \/ LeaveLookup(k)
             \/ LeaveRemove(k) \/ LeaveClose(k) \/ LeaveCollect(k) \/ PumpDone(k)
      PROVE  OrderInv'
  <2>1. UNCHANGED <<inbox, written, nsent>>
    BY <1>4, Zenon DEF serviceForJoin, Join, Disconnect, ReadFails, LeaveLookup, LeaveRemove, LeaveClose,
                       LeaveCollect, PumpDone
  <2>2. QED BY <2>1, <1>1
<1>5. CASE UNCHANGED vars
  <2>1. UNCHANGED <<inbox, written, nsent>> BY <1>5 DEF vars
  <2>2. QED BY <2>1, <1>1
<1>6. QED BY <1>2, <1>3, <1>4, <1>5, Zenon DEF Next

\* A client hears each sender in the order that sender spoke and never its
\* own id, whatever inboxes overflow, pumps fail and clients reconnect.
THEOREM StoreKeepsOrder == Spec => []ReceivedInOrder
<1>1. Init => OrderInv
  <2> SUFFICES ASSUME Init PROVE OrderInv
    OBVIOUS
  <2>1. \A k \in Sockets : written[k] = <<>> /\ inbox[k] = <<>> BY DEF Init
  <2>2. \A k \in Sockets : Received(k) = <<>> BY <2>1 DEF Received
  <2>3. QED BY <2>2, OrderIsFine DEF Fine
<1>2. OrderInv => ReceivedInOrder BY DEF OrderInv
<1>3. QED BY <1>1, <1>2, OrderStep, StoreTypeCorrect, PTL DEF Spec
=============================================================================
