---------------------------- MODULE RelayProofs ----------------------------
(***************************************************************************)
(* Proofs about the relay's pairing and pumps, for every number of calls   *)
(* of Serve, channels and payloads and every ForwardBufferSize.            *)
(***************************************************************************)
EXTENDS Relay, TLAPS, SequenceTheorems

-----------------------------------------------------------------------------
(* Types.  The bounds come at the end.                                      *)

ServeTypes ==
  /\ serves \in Nat /\ failed \in Nat /\ accepted \in Nat
  /\ spc \in {"idle", "accept", "pump", "incomplete", "crashed"}
  /\ acc \in {"none", "offer", "send", "open"}
  /\ sig \in BOOLEAN /\ ctx \in BOOLEAN

\* Every channel has its row in each of the relay's tables.
ChanTypes ==
  /\ owner \in Seq(Nat) /\ Len(owner) <= MaxChans
  /\ slots \in [1..2 -> Chans \cup {None}] /\ mate \in [Chans -> Chans \cup {None}]
  /\ up \in [Chans -> BOOLEAN] /\ sent \in [Chans -> Nat]
  /\ inq \in [Chans -> Seq(Payload)] /\ outq \in [Chans -> Seq(Payload)]
  /\ got \in [Chans -> Seq(Payload)] /\ hold \in [Chans -> Payload \cup {None}]
  /\ reader \in [Chans -> {"off", "run", "done"}] /\ writer \in [Chans -> {"off", "run", "done"}]

-----------------------------------------------------------------------------
(* Serve and the p.Accept goroutine it may leave behind.                    *)

\* Serve closes its session under a running p.Accept only when ctx is canceled.
AcceptLife ==
  /\ acc # "none" /\ ~sig => ctx
  /\ spc = "crashed" => ctx
  /\ spc = "pump" => acc = "none"
  /\ spc = "accept" => accepted \in {0, 1}

\* The first slot is taken before the second, never both by one channel, and
\* the pumps run on a full pair.
SlotLife ==
  /\ slots[2] # None => slots[1] # None /\ slots[1] # slots[2]
  /\ spc = "accept" /\ accepted = 1 => slots[1] # None
  /\ spc = "pump" => slots[2] # None
  /\ spc # "incomplete"

\* What failed calls leave in the slots: at most one channel after one failure.
Mine(i) == slots[i] # None /\ owner[slots[i]] = serves
FreshLife ==
  failed <= 1 =>
    /\ (spc = "idle" /\ ~ctx) \/ (spc = "accept" /\ accepted = 0) =>
         slots[2] = None /\ (failed = 0 => slots[1] = None)
    /\ spc = "accept" /\ accepted = 1 =>
         (slots[2] = None /\ Mine(1)) \/ (failed = 1 /\ Mine(2))
    /\ spc = "pump" => Mine(1) /\ Mine(2)

-----------------------------------------------------------------------------
(* Pairings and what they carry.                                            *)

\* Pairing is symmetric; only a paired channel has a pump, a payload in hand
\* or anything received; slots hold unpaired channels until pairAndPump runs.
PairLife ==
  /\ \A c \in Chans : mate[c] # None => mate[c] # c /\ mate[mate[c]] = c
  /\ \A c \in Chans : mate[c] = None =>
       reader[c] = "off" /\ hold[c] = None /\ outq[c] = <<>> /\ got[c] = <<>>
  /\ \A c \in Chans : hold[c] # None => reader[c] = "run"
  /\ spc # "pump" => \A i \in 1..2 : slots[i] # None => mate[slots[i]] = None

\* The payloads of c that its reader has taken from it.
Taken(c) ==
  IF mate[c] = None THEN 0
  ELSE Len(got[mate[c]]) + Len(outq[mate[c]]) + IF hold[c] = None THEN 0 ELSE 1

\* got, then outq, then the reader's hand, then inq: the payloads of one
\* client, each once, in the order it sent them.
Carried ==
  \A c \in Chans :
    /\ \A i \in 1..Len(got[c]) : got[c][i] = <<mate[c], i>>
    /\ \A i \in 1..Len(outq[c]) : outq[c][i] = <<mate[c], Len(got[c]) + i>>
    /\ hold[c] # None => hold[c] = <<c, Taken(c)>>
    /\ reader[c] # "done" =>
         /\ sent[c] = Taken(c) + Len(inq[c])
         /\ \A i \in 1..Len(inq[c]) : inq[c][i] = <<c, Taken(c) + i>>

RelayInv == ServeTypes /\ ChanTypes /\ AcceptLife /\ SlotLife /\ FreshLife /\ PairLife /\ Carried

LEMMA ChansAre ==
  ASSUME ChanTypes
  PROVE  Len(owner) \in Nat /\ Chans = 1..Len(owner) /\ None \notin Chans /\ Chans \subseteq 1..MaxChans
<1>1. Len(owner) \in Nat /\ DOMAIN owner = 1..Len(owner) BY LenProperties DEF ChanTypes
<1>2. Chans \subseteq 1..MaxChans BY <1>1, RelayAssumption DEF ChanTypes, Chans
<1>3. QED BY <1>1, <1>2, RelayAssumption DEF Chans

\* A table with one row more.
LEMMA NewRow ==
  ASSUME NEW S, NEW f \in Seq(S), NEW x \in S, NEW c, c = Len(f) + 1
  PROVE  /\ Append(f, x) \in [1..c -> S]
         /\ Append(f, x)[c] = x /\ \A i \in 1..Len(f) : Append(f, x)[i] = f[i]
<1>1. /\ Append(f, x) \in Seq(S) /\ Len(Append(f, x)) = c
      /\ Append(f, x)[c] = x /\ \A i \in 1..Len(f) : Append(f, x)[i] = f[i]
  BY AppendProperties
<1>2. Append(f, x) \in [1..c -> S] BY <1>1, LenProperties
<1>3. QED BY <1>1, <1>2

\* AcceptOne: the channel it adds, and the two it pairs if it is the second.
Both == accepted = 1 /\ None \notin {slots'[1], slots'[2]}
LEMMA AcceptRow ==
  ASSUME ChanTypes, ServeTypes, AcceptOne, NEW c, c = Len(owner) + 1
  PROVE  /\ c \in 1..MaxChans /\ c \notin Chans /\ c # None /\ Chans' = Chans \cup {c}
         /\ owner' \in Seq(Nat) /\ Len(owner') <= MaxChans
         /\ owner'[c] = serves /\ \A d \in Chans : owner'[d] = owner[d]
         /\ up' \in [Chans' -> BOOLEAN] /\ sent' \in [Chans' -> Nat]
         /\ inq' \in [Chans' -> Seq(Payload)] /\ outq' \in [Chans' -> Seq(Payload)]
         /\ got' \in [Chans' -> Seq(Payload)] /\ hold' \in [Chans' -> Payload \cup {None}]
         /\ sent'[c] = 0 /\ inq'[c] = <<>> /\ outq'[c] = <<>> /\ got'[c] = <<>> /\ hold'[c] = None
         /\ \A d \in Chans : /\ sent'[d] = sent[d] /\ inq'[d] = inq[d] /\ outq'[d] = outq[d]
                             /\ got'[d] = got[d] /\ hold'[d] = hold[d]
<1>1. Len(owner) \in Nat /\ Chans = 1..Len(owner) /\ None \notin Chans BY ChansAre
<1>2. Len(owner) < MaxChans /\ owner' = Append(owner, serves) BY DEF AcceptOne
<1>3. c \in 1..MaxChans /\ c \notin Chans /\ c # None BY <1>1, <1>2, RelayAssumption
<1>4. /\ owner' \in Seq(Nat) /\ Len(owner') = c
      /\ owner'[c] = serves /\ \A d \in Chans : owner'[d] = owner[d]
  BY <1>1, <1>2, AppendProperties DEF ChanTypes, ServeTypes
<1>5. Chans' = 1..c /\ Chans' = Chans \cup {c}
  <2>1. DOMAIN owner' = 1..c BY <1>4, LenProperties
  <2>2. QED BY <1>1, <2>1 DEF Chans
<1>6. ASSUME NEW S, NEW f \in [Chans -> S] PROVE f \in Seq(S) /\ Len(f) = Len(owner)
  <2>1. f \in [1..Len(owner) -> S] BY <1>1
  <2>2. f \in Seq(S) BY <1>1, <2>1, SeqDef
  <2>3. DOMAIN f = 1..Len(f) /\ Len(f) \in Nat BY <2>2, LenProperties
  <2>4. QED BY <1>1, <2>1, <2>2, <2>3
<1> DEFINE Q == Seq(Payload)
           H == Payload \cup {None}
<1>7. <<>> \in Q /\ None \in H BY EmptySeq
<1>8. /\ inq \in [Chans -> Q] /\ outq \in [Chans -> Q] /\ got \in [Chans -> Q] /\ hold \in [Chans -> H]
      /\ up \in [Chans -> BOOLEAN] /\ sent \in [Chans -> Nat]
  BY DEF ChanTypes
<1> HIDE DEF Q, H
<1>9. up' \in [Chans' -> BOOLEAN]
  <2>1. up \in Seq(BOOLEAN) /\ Len(up) = Len(owner) BY <1>6, <1>8, Zenon
  <2>2. up' = Append(up, TRUE) BY DEF AcceptOne
  <2>3. c = Len(up) + 1 /\ TRUE \in BOOLEAN BY <2>1
  <2>4. Append(up, TRUE) \in [1..c -> BOOLEAN] BY <2>1, <2>3, NewRow, Zenon
  <2>5. QED BY <1>5, <2>2, <2>4
<1>10. sent' \in [Chans' -> Nat] /\ sent'[c] = 0 /\ \A d \in Chans : sent'[d] = sent[d]
  <2>1. sent \in Seq(Nat) /\ Len(sent) = Len(owner) BY <1>6, <1>8, Zenon
  <2>2. sent' = Append(sent, 0) BY DEF AcceptOne
  <2>3. QED BY <1>1, <1>5, <1>7, <2>1, <2>2, NewRow
<1>11. inq' \in [Chans' -> Q] /\ inq'[c] = <<>> /\ \A d \in Chans : inq'[d] = inq[d]
  <2>1. inq \in Seq(Q) /\ Len(inq) = Len(owner) BY <1>6, <1>8, Zenon
  <2>2. inq' = Append(inq, <<>>) BY DEF AcceptOne
  <2>3. QED BY <1>1, <1>5, <1>7, <2>1, <2>2, NewRow
<1>12. outq' \in [Chans' -> Q] /\ outq'[c] = <<>> /\ \A d \in Chans : outq'[d] = outq[d]
  <2>1. outq \in Seq(Q) /\ Len(outq) = Len(owner) BY <1>6, <1>8, Zenon
  <2>2. outq' = Append(outq, <<>>) BY DEF AcceptOne
  <2>3. QED BY <1>1, <1>5, <1>7, <2>1, <2>2, NewRow
<1>13. got' \in [Chans' -> Q] /\ got'[c] = <<>> /\ \A d \in Chans : got'[d] = got[d]
  <2>1. got \in Seq(Q) /\ Len(got) = Len(owner) BY <1>6, <1>8, Zenon
  <2>2. got' = Append(got, <<>>) BY DEF AcceptOne
  <2>3. QED BY <1>1, <1>5, <1>7, <2>1, <2>2, NewRow
<1>14. hold' \in [Chans' -> H] /\ hold'[c] = None /\ \A d \in Chans : hold'[d] = hold[d]
  <2>1. hold \in Seq(H) /\ Len(hold) = Len(owner) BY <1>6, <1>8, Zenon
  <2>2. hold' = Append(hold, None) BY DEF AcceptOne
  <2>3. QED BY <1>1, <1>5, <1>7, <2>1, <2>2, NewRow
<1>15. Len(owner') <= MaxChans BY <1>1, <1>2, <1>4, RelayAssumption
<1>16. QED BY <1>3, <1>4, <1>5, <1>9, <1>10, <1>11, <1>12, <1>13, <1>14, <1>15 DEF Q, H

\* What AcceptOne does to the slots and to the pairing.
LEMMA AcceptPairs ==
  ASSUME ChanTypes, ServeTypes, AcceptOne, NEW c, c = Len(owner) + 1
  PROVE  /\ slots' = BindSlot(c) /\ slots' \in [1..2 -> Chans' \cup {None}]
         /\ mate' \in [Chans' -> Chans' \cup {None}]
         /\ reader' \in [Chans' -> {"off", "run", "done"}] /\ writer' \in [Chans' -> {"off", "run", "done"}]
         /\ \A d \in Chans' :
              /\ mate'[d] = IF Both /\ d = slots'[1] THEN slots'[2]
                            ELSE IF Both /\ d = slots'[2] THEN slots'[1]
                            ELSE IF d = c THEN None ELSE mate[d]
              /\ reader'[d] = IF Both /\ d \in {slots'[1], slots'[2]} THEN "run"
                              ELSE IF d = c THEN "off" ELSE reader[d]
<1>1. Len(owner) \in Nat /\ Chans = 1..Len(owner) /\ None \notin Chans BY ChansAre
<1>2. /\ c \in 1..MaxChans /\ c \notin Chans /\ c # None /\ Chans' = Chans \cup {c} BY AcceptRow
<1>3. Chans' = 1..c BY <1>1, <1>2
<1>4. slots' = BindSlot(c) BY DEF AcceptOne
<1>5. slots' \in [1..2 -> Chans' \cup {None}] BY <1>2, <1>4 DEF BindSlot, ChanTypes
<1>6. mate' = [d \in 1..c |->
             IF Both /\ d = slots'[1] THEN slots'[2]
             ELSE IF Both /\ d = slots'[2] THEN slots'[1]
             ELSE IF d = c THEN None ELSE mate[d]]
  BY DEF AcceptOne, Both
<1>7. /\ reader' = [d \in 1..c |-> IF Both /\ d \in {slots'[1], slots'[2]} THEN "run"
                                   ELSE IF d = c THEN "off" ELSE reader[d]]
      /\ writer' = [d \in 1..c |-> IF Both /\ d \in {slots'[1], slots'[2]} THEN "run"
                                   ELSE IF d = c THEN "off" ELSE writer[d]]
  BY DEF AcceptOne, Both
<1>8. mate' \in [Chans' -> Chans' \cup {None}]
  <2>1. slots'[1] \in Chans' \cup {None} /\ slots'[2] \in Chans' \cup {None} BY <1>5
  <2>2. \A d \in 1..c : d = c \/ d \in Chans BY <1>2, <1>3
  <2>3. \A d \in Chans : mate[d] \in Chans' \cup {None} BY <1>2 DEF ChanTypes
  <2>4. QED BY <1>3, <1>6, <2>1, <2>2, <2>3
<1>9. reader' \in [Chans' -> {"off", "run", "done"}] /\ writer' \in [Chans' -> {"off", "run", "done"}]
  BY <1>2, <1>3, <1>7 DEF ChanTypes
<1>10. QED BY <1>3, <1>4, <1>5, <1>6, <1>7, <1>8, <1>9
LEMMA TypesInit == Init => ServeTypes /\ ChanTypes
<1> SUFFICES ASSUME Init PROVE ServeTypes /\ ChanTypes
  OBVIOUS
<1>1. ServeTypes BY DEF Init, ServeTypes
<1>2. owner \in Seq(Nat) /\ Len(owner) = 0 /\ Chans = {} BY DEF Init, Chans
<1>3. \A S : <<>> \in [{} -> S] OBVIOUS
<1>4. slots \in [1..2 -> {None}] BY DEF Init
<1>5. QED BY <1>1, <1>2, <1>3, <1>4, RelayAssumption DEF Init, ChanTypes

LEMMA TypesStep ==
  ASSUME ServeTypes, ChanTypes, [Next]_vars
  PROVE  ServeTypes' /\ ChanTypes'
<1>c. Len(owner) \in Nat /\ Chans = 1..Len(owner) /\ None \notin Chans BY ChansAre
\* Serve's steps other than AcceptOne touch the slots at most.
<1>1. ASSUME UNCHANGED <<mate, owner, up, sent, pumpVars>>, slots' = slots \/ slots' = <<None, None>>
      PROVE  ChanTypes'
  <2>1. Chans' = Chans BY <1>1 DEF Chans
  <2>2. slots' \in [1..2 -> Chans \cup {None}] BY <1>1 DEF ChanTypes
  <2>3. QED BY <1>1, <2>1, <2>2 DEF ChanTypes, pumpVars
<1>2. CASE Serve \/ AcceptAdvances \/ AcceptFails \/ SendPanics \/ AcceptAbandoned \/ PumpEnds \/ CtxCancel
  <2>1. ServeTypes'
    <3> USE DEF ServeTypes
    <3>1. CASE Serve BY <3>1 DEF Serve
    <3>2. CASE AcceptAdvances BY <3>2 DEF AcceptAdvances
    <3>3. CASE AcceptFails
      <4>1. acc' = "none" /\ UNCHANGED <<serves, accepted, ctx>> BY <3>3 DEF AcceptFails
      <4>2. CASE spc = "accept"
        <5>1. spc' = "idle" /\ sig' = FALSE /\ failed' \in {failed, failed + 1} BY <3>3, <4>2 DEF AcceptFails
        <5>2. failed' \in Nat BY <5>1
        <5>3. QED BY <4>1, <5>1, <5>2, Zenon
      <4>3. CASE spc # "accept" BY <3>3, <4>1, <4>3 DEF AcceptFails
      <4>4. QED BY <4>2, <4>3
    <3>4. CASE SendPanics BY <3>4 DEF SendPanics
    <3>5. CASE AcceptAbandoned BY <3>5 DEF AcceptAbandoned
    <3>6. CASE PumpEnds BY <3>6 DEF PumpEnds
    <3>7. CASE CtxCancel BY <3>7 DEF CtxCancel, serveVars
    <3>8. QED BY <1>2, <3>1, <3>2, <3>3, <3>4, <3>5, <3>6, <3>7
  <2>2. ChanTypes'
    BY <1>1, <1>2 DEF Serve, AcceptAdvances, AcceptFails, SendPanics, AcceptAbandoned, PumpEnds, CtxCancel, serveVars
  <2>3. QED BY <2>1, <2>2
<1>3. CASE AcceptOne
  <2>1. ServeTypes' BY <1>3 DEF AcceptOne, ServeTypes
  <2>2. ChanTypes' BY <1>3, AcceptRow, AcceptPairs DEF ChanTypes
  <2>3. QED BY <2>1, <2>2
\* The pumps and the clients touch the rows of one or two channels.
<1>4. ASSUME NEW c \in Chans, PumpStep(c) \/ ClientSends(c) \/ ClientGone(c)
      PROVE  ServeTypes' /\ ChanTypes'
  <2> DEFINE Q == Seq(Payload)
  <2>1. UNCHANGED serveVars
    BY <1>4 DEF PumpStep, ReaderRecv, WriterSend, WriterExit, ReaderPush, ReaderExit, ClientSends, ClientGone
  <2>2. ctx' = ctx
    BY <1>4 DEF PumpStep, ReaderRecv, WriterSend, WriterExit, ReaderPush, ReaderExit, ClientSends, ClientGone
  <2>3. ServeTypes' /\ Chans' = Chans BY <2>1, <2>2 DEF ServeTypes, serveVars, Chans
  <2>4. /\ inq[c] \in Q /\ outq[c] \in Q /\ got[c] \in Q
        /\ hold[c] # None => hold[c] \in Payload
        /\ mate[c] # None => mate[c] \in Chans /\ outq[mate[c]] \in Q
    BY DEF ChanTypes
  <2>5. ASSUME inq' \in [Chans -> Q], outq' \in [Chans -> Q], got' \in [Chans -> Q], sent' \in [Chans -> Nat],
               hold' \in [Chans -> Payload \cup {None}], up' \in [Chans -> BOOLEAN],
               reader' \in [Chans -> {"off", "run", "done"}], writer' \in [Chans -> {"off", "run", "done"}]
        PROVE  ChanTypes'
    BY <2>1, <2>3, <2>5 DEF ChanTypes, serveVars
  <2>t. /\ inq \in [Chans -> Q] /\ outq \in [Chans -> Q] /\ got \in [Chans -> Q] /\ sent \in [Chans -> Nat]
        /\ hold \in [Chans -> Payload \cup {None}] /\ up \in [Chans -> BOOLEAN]
        /\ reader \in [Chans -> {"off", "run", "done"}] /\ writer \in [Chans -> {"off", "run", "done"}]
    BY DEF ChanTypes
  <2>6. CASE ReaderRecv(c)
    <3>1. Head(inq[c]) \in Payload /\ Tail(inq[c]) \in Q BY <2>4, <2>6, HeadTailProperties DEF ReaderRecv
    <3> HIDE DEF Q
    <3>2. QED BY <2>3, <2>5, <2>t, <2>6, <3>1 DEF ReaderRecv
  <2>7. CASE mate[c] # None /\ ReaderPush(c, mate[c])
    <3>1. Append(outq[mate[c]], hold[c]) \in Q BY <2>4, <2>7, AppendProperties DEF ReaderPush
    <3> HIDE DEF Q
    <3>2. QED BY <2>3, <2>4, <2>5, <2>t, <2>7, <3>1 DEF ReaderPush
  <2>8. CASE mate[c] # None /\ ReaderExit(c, mate[c])
    <3> HIDE DEF Q
    <3>1. QED BY <2>3, <2>5, <2>t, <2>8 DEF ReaderExit
  <2>9. CASE WriterSend(c)
    <3>1. Head(outq[c]) \in Payload /\ Tail(outq[c]) \in Q BY <2>4, <2>9, HeadTailProperties DEF WriterSend
    <3>2. Append(got[c], Head(outq[c])) \in Q BY <2>4, <3>1, AppendProperties
    <3> HIDE DEF Q
    <3>3. QED BY <2>3, <2>5, <2>t, <2>9, <3>1, <3>2 DEF WriterSend
  <2>10. CASE WriterExit(c)
    <3> HIDE DEF Q
    <3>1. QED BY <2>3, <2>5, <2>t, <2>10 DEF WriterExit
  <2>11. CASE ClientSends(c)
    <3>1. sent' = [sent EXCEPT ![c] = sent[c] + 1] /\ UNCHANGED <<up, hold, outq, got, reader, writer>>
      BY <2>11 DEF ClientSends
    <3>2. sent'[c] \in Nat /\ sent' \in [Chans -> Nat] BY <2>t, <3>1
    <3>3. <<c, sent'[c]>> \in Payload BY <3>2, ChansAre DEF Payload
    <3>4. Append(inq[c], <<c, sent'[c]>>) \in Q BY <2>4, <3>3, AppendProperties
    <3>5. inq' = [inq EXCEPT ![c] = Append(inq[c], <<c, sent'[c]>>)] BY <2>11 DEF ClientSends
    <3> HIDE DEF Q
    <3>6. inq' \in [Chans -> Q] BY <2>t, <3>4, <3>5
    <3>7. QED BY <2>3, <2>5, <2>t, <3>1, <3>2, <3>6
  <2>12. CASE ClientGone(c)
    <3> HIDE DEF Q
    <3>1. QED BY <2>3, <2>5, <2>t, <2>12 DEF ClientGone, pumpVars
  <2>13. QED BY <1>4, <2>6, <2>7, <2>8, <2>9, <2>10, <2>11, <2>12 DEF PumpStep
<1>5. CASE UNCHANGED vars
  <2>1. Chans' = Chans BY <1>5 DEF vars, serveVars, Chans
  <2>2. QED BY <1>5, <2>1 DEF vars, serveVars, pumpVars, ServeTypes, ChanTypes
<1>6. QED BY <1>2, <1>3, <1>4, <1>5 DEF Next, ServeStep

-----------------------------------------------------------------------------
ServeLife == AcceptLife /\ SlotLife /\ FreshLife

LEMMA ServeInit == Init => ServeLife
  BY DEF Init, ServeLife, AcceptLife, SlotLife, FreshLife

LEMMA ServeLifeStep ==
  ASSUME ServeTypes, ChanTypes, ServeLife, [Next]_vars
  PROVE  ServeLife'
<1>c. Len(owner) \in Nat /\ Chans = 1..Len(owner) /\ None \notin Chans BY ChansAre
<1>t. slots \in [1..2 -> Chans \cup {None}] BY DEF ChanTypes
<1> USE DEF ServeLife, AcceptLife, SlotLife, FreshLife, Mine
<1>1. CASE UNCHANGED <<serveVars, ctx>> BY <1>1 DEF serveVars
<1>2. CASE Serve BY <1>2 DEF Serve, ServeTypes
<1>3. CASE AcceptAdvances BY <1>3 DEF AcceptAdvances, ServeTypes
<1>4. CASE AcceptFails BY <1>4 DEF AcceptFails, ServeTypes
<1>5. CASE SendPanics BY <1>5 DEF SendPanics, ServeTypes
<1>6. CASE AcceptAbandoned BY <1>6 DEF AcceptAbandoned, ServeTypes
<1>7. CASE PumpEnds BY <1>7 DEF PumpEnds, ServeTypes
<1>8. CASE CtxCancel BY <1>8 DEF CtxCancel, ServeTypes, serveVars
<1>9. CASE AcceptOne
  <2> DEFINE c == Len(owner) + 1
  <2>1. /\ c \notin Chans /\ c # None
        /\ owner'[c] = serves /\ \A d \in Chans : owner'[d] = owner[d]
    BY <1>9, AcceptRow
  <2>2. slots' = BindSlot(c) BY <1>9 DEF AcceptOne
  <2>3. /\ spc = "accept" /\ UNCHANGED <<serves, failed, sig, ctx>> /\ accepted' = accepted + 1
        /\ spc' = IF accepted = 0 THEN "accept" ELSE IF Both THEN "pump" ELSE "incomplete"
        /\ acc' = IF accepted = 0 THEN "offer" ELSE "none"
        /\ acc = "open"
    BY <1>9 DEF AcceptOne, Both
  <2> HIDE DEF c
  <2>4. /\ slots[1] = None => slots'[1] = c /\ slots'[2] = slots[2]
        /\ slots[1] # None /\ slots[2] = None => slots'[1] = slots[1] /\ slots'[2] = c
        /\ slots[1] # None /\ slots[2] # None => slots'[1] = c /\ slots'[2] = slots[2]
    BY <1>t, <2>2 DEF BindSlot
  <2>5. accepted = 1 => Both BY <2>1, <2>3, <2>4 DEF Both
  <2>6. AcceptLife' BY <2>3, <2>5
  <2>7. SlotLife' BY <1>t, <2>1, <2>3, <2>4, <2>5
  <2>8. FreshLife' BY <1>t, <2>1, <2>3, <2>4, <2>5 DEF ServeTypes
  <2>9. QED BY <2>6, <2>7, <2>8
<1>10. ASSUME NEW c \in Chans, PumpStep(c) \/ ClientSends(c) \/ ClientGone(c)
       PROVE  UNCHANGED <<serveVars, ctx>>
  BY <1>10 DEF PumpStep, ReaderRecv, WriterSend, WriterExit, ReaderPush, ReaderExit, ClientSends, ClientGone
<1>11. QED
  BY <1>1, <1>2, <1>3, <1>4, <1>5, <1>6, <1>7, <1>8, <1>9, <1>10 DEF Next, ServeStep, vars
-----------------------------------------------------------------------------
LEMMA CarryInit == Init => PairLife /\ Carried
<1>1. Init => Chans = {} /\ slots = <<None, None>> BY DEF Init, Chans
<1>2. QED BY <1>1 DEF PairLife, Carried

LEMMA PairLifeStep ==
  ASSUME ServeTypes, ChanTypes, ServeLife, PairLife, [Next]_vars
  PROVE  PairLife'
<1>c. Len(owner) \in Nat /\ Chans = 1..Len(owner) /\ None \notin Chans BY ChansAre
<1>t. /\ slots \in [1..2 -> Chans \cup {None}] /\ mate \in [Chans -> Chans \cup {None}]
      /\ hold \in [Chans -> Payload \cup {None}] /\ reader \in [Chans -> {"off", "run", "done"}]
      /\ outq \in [Chans -> Seq(Payload)] /\ got \in [Chans -> Seq(Payload)]
  BY DEF ChanTypes
<1>1. CASE Serve \/ AcceptAdvances \/ AcceptFails \/ SendPanics \/ AcceptAbandoned
  <2>1. UNCHANGED <<owner, mate, reader, hold, outq, got, slots>> /\ spc # "pump"
    BY <1>1 DEF Serve, AcceptAdvances, AcceptFails, SendPanics, AcceptAbandoned, ServeLife, AcceptLife, pumpVars
  <2>2. QED BY <2>1 DEF PairLife, Chans
<1>2. CASE PumpEnds
  <2>1. UNCHANGED <<owner, mate, reader, hold, outq, got>> /\ slots' = <<None, None>>
    BY <1>2 DEF PumpEnds, pumpVars
  <2>2. QED BY <2>1 DEF PairLife, Chans
<1>3. CASE AcceptOne
  <2> DEFINE c == Len(owner) + 1
  <2>1. /\ c \notin Chans /\ c # None /\ Chans' = Chans \cup {c}
        /\ outq'[c] = <<>> /\ got'[c] = <<>> /\ hold'[c] = None
        /\ \A d \in Chans : outq'[d] = outq[d] /\ got'[d] = got[d] /\ hold'[d] = hold[d]
    BY <1>3, AcceptRow
  <2>2. /\ slots' = BindSlot(c) /\ slots' \in [1..2 -> Chans' \cup {None}]
        /\ \A d \in Chans' :
              /\ mate'[d] = IF Both /\ d = slots'[1] THEN slots'[2]
                            ELSE IF Both /\ d = slots'[2] THEN slots'[1]
                            ELSE IF d = c THEN None ELSE mate[d]
              /\ reader'[d] = IF Both /\ d \in {slots'[1], slots'[2]} THEN "run"
                              ELSE IF d = c THEN "off" ELSE reader[d]
    BY <1>3, AcceptPairs
  <2>3. spc = "accept" /\ (accepted = 0 \/ accepted = 1)
        /\ spc' = IF accepted = 0 THEN "accept" ELSE IF Both THEN "pump" ELSE "incomplete"
    BY <1>3 DEF AcceptOne, Both, ServeLife, AcceptLife
  <2> HIDE DEF c
  <2>4. /\ slots[1] = None => slots'[1] = c /\ slots'[2] = slots[2]
        /\ slots[1] # None /\ slots[2] = None => slots'[1] = slots[1] /\ slots'[2] = c
        /\ slots[1] # None /\ slots[2] # None => slots'[1] = c /\ slots'[2] = slots[2]
    BY <1>t, <2>2 DEF BindSlot
  \* The slots hold two channels that were in no pairing.
  <2>5. /\ \A i \in 1..2 : slots'[i] # None => slots'[i] = c \/ (slots'[i] \in Chans /\ mate[slots'[i]] = None)
        /\ slots'[1] # None /\ slots'[2] # None => slots'[1] # slots'[2]
    BY <1>t, <2>1, <2>3, <2>4 DEF PairLife, ServeLife, SlotLife
  <2>6. ~Both => accepted = 0 BY <2>1, <2>3, <2>4 DEF Both, ServeLife, SlotLife
  <2>7. ASSUME NEW d \in Chans' PROVE mate'[d] # None => mate'[d] # d /\ mate'[mate'[d]] = d
    <3>1. CASE Both /\ d \in {slots'[1], slots'[2]} BY <2>2, <2>5, <3>1 DEF Both
    <3>2. CASE ~(Both /\ d \in {slots'[1], slots'[2]}) /\ d # c
      <4>1. d \in Chans /\ mate'[d] = mate[d] BY <2>1, <2>2, <3>2
      <4>2. ASSUME mate[d] # None PROVE mate[d] # d /\ mate'[mate[d]] = d
        <5>1. mate[d] \in Chans /\ mate[d] # d /\ mate[mate[d]] = d BY <1>t, <4>1, <4>2 DEF PairLife
        <5>2. mate[d] # c /\ mate[d] # slots'[1] /\ mate[d] # slots'[2] BY <1>c, <2>1, <2>5, <4>1, <5>1
        <5>3. QED BY <2>1, <2>2, <5>1, <5>2
      <4>3. QED BY <4>1, <4>2
    <3>3. CASE ~(Both /\ d \in {slots'[1], slots'[2]}) /\ d = c BY <2>2, <3>3
    <3>4. QED BY <3>1, <3>2, <3>3
  <2>8. ASSUME NEW d \in Chans', mate'[d] = None
        PROVE  reader'[d] = "off" /\ hold'[d] = None /\ outq'[d] = <<>> /\ got'[d] = <<>>
    BY <2>1, <2>2, <2>8 DEF Both, PairLife
  <2>9. ASSUME NEW d \in Chans', hold'[d] # None PROVE reader'[d] = "run"
    BY <2>1, <2>2, <2>9 DEF PairLife
  <2>10. ASSUME spc' # "pump", NEW i \in 1..2, slots'[i] # None PROVE mate'[slots'[i]] = None
    <3>1. ~Both BY <2>3, <2>6, <2>10 DEF Both
    <3>2. slots'[i] \in Chans' BY <2>1, <2>5, <2>10
    <3>3. QED BY <2>2, <2>5, <2>10, <3>1, <3>2
  <2>11. QED BY <2>7, <2>8, <2>9, <2>10 DEF PairLife
<1>4. ASSUME NEW c \in Chans, PumpStep(c) PROVE PairLife'
  <2>1. UNCHANGED <<spc, slots, mate, owner>>
    BY <1>4 DEF PumpStep, ReaderRecv, WriterSend, WriterExit, ReaderPush, ReaderExit, serveVars
  <2>2. Chans' = Chans BY <2>1 DEF Chans
  <2>3. mate[c] = None => reader[c] # "run" /\ outq[c] = <<>> BY DEF PairLife
  <2>4. ASSUME \A d \in Chans : mate[d] = None =>
                   reader'[d] = reader[d] /\ hold'[d] = hold[d] /\ outq'[d] = outq[d] /\ got'[d] = got[d],
               \A d \in Chans : hold'[d] # None => reader'[d] = "run"
        PROVE  PairLife'
    BY <2>1, <2>2, <2>4 DEF PairLife
  <2>5. CASE ReaderRecv(c) BY <1>t, <2>3, <2>4, <2>5 DEF ReaderRecv, PairLife
  <2>6. CASE mate[c] # None /\ ReaderPush(c, mate[c])
    <3>m. mate[c] \in Chans /\ c # None BY <1>t, <1>c, <2>6
    <3>1. mate[mate[c]] # None BY <2>6, <3>m DEF PairLife
    <3>2. \A d \in Chans : mate[d] = None => d # c /\ d # mate[c] BY <2>6, <3>m, <3>1
    <3>3. UNCHANGED <<reader, got>> /\ \A d \in Chans : /\ (d # mate[c] => outq'[d] = outq[d])
                                                        /\ hold'[d] = IF d = c THEN None ELSE hold[d]
      BY <1>t, <2>6 DEF ReaderPush
    <3>4. QED BY <2>4, <3>2, <3>3 DEF PairLife
  <2>7. CASE mate[c] # None /\ ReaderExit(c, mate[c]) BY <1>t, <2>4, <2>7 DEF ReaderExit, PairLife
  <2>8. CASE WriterSend(c) BY <1>t, <2>3, <2>4, <2>8 DEF WriterSend, PairLife
  <2>9. CASE WriterExit(c) BY <2>4, <2>9 DEF WriterExit, PairLife
  <2>10. QED BY <1>4, <2>5, <2>6, <2>7, <2>8, <2>9 DEF PumpStep
<1>5. ASSUME NEW c \in Chans, ClientSends(c) \/ ClientGone(c) PROVE PairLife'
  <2>1. UNCHANGED <<owner, spc, slots, mate, reader, hold, outq, got>>
    BY <1>5 DEF ClientSends, ClientGone, serveVars, pumpVars
  <2>2. QED BY <2>1 DEF PairLife, Chans
<1>6. CASE CtxCancel \/ UNCHANGED vars
  <2>1. UNCHANGED <<owner, spc, slots, mate, reader, hold, outq, got>>
    BY <1>6 DEF CtxCancel, vars, serveVars, pumpVars
  <2>2. QED BY <2>1 DEF PairLife, Chans
<1>7. QED BY <1>1, <1>2, <1>3, <1>4, <1>5, <1>6 DEF Next, ServeStep

LEMMA Sums ==
  ASSUME NEW a \in Nat, NEW b \in Nat
  PROVE  /\ a + b + 1 = a + (b + 1) /\ a + (b + 1) + 0 = a + b + 1
         /\ a + b + 0 \in Nat /\ a + b + 1 \in Nat
  OBVIOUS

\* A step that changes no queue and no reader of a pairing.
LEMMA CarriedSame ==
  ASSUME Carried, UNCHANGED <<owner, mate, reader, hold, outq, got, inq, sent>>
  PROVE  Carried'
  BY DEF Carried, Chans, Taken

LEMMA CarriedStep ==
  ASSUME ServeTypes, ChanTypes, ServeLife, PairLife, Carried, [Next]_vars
  PROVE  Carried'
<1>c. Len(owner) \in Nat /\ Chans = 1..Len(owner) /\ None \notin Chans /\ Chans \subseteq 1..MaxChans
  BY ChansAre
<1>t. /\ slots \in [1..2 -> Chans \cup {None}] /\ mate \in [Chans -> Chans \cup {None}]
      /\ hold \in [Chans -> Payload \cup {None}] /\ reader \in [Chans -> {"off", "run", "done"}]
      /\ outq \in [Chans -> Seq(Payload)] /\ got \in [Chans -> Seq(Payload)]
      /\ inq \in [Chans -> Seq(Payload)] /\ sent \in [Chans -> Nat]
  BY DEF ChanTypes
<1>n. /\ \A d \in Chans : Len(outq[d]) \in Nat /\ Len(got[d]) \in Nat /\ Len(inq[d]) \in Nat
      /\ \A d \in Chans : Taken(d) \in Nat
  <2>1. \A d \in Chans : Len(outq[d]) \in Nat /\ Len(got[d]) \in Nat /\ Len(inq[d]) \in Nat
    BY <1>t, LenProperties
  <2>2. ASSUME NEW d \in Chans PROVE Taken(d) \in Nat
    <3>1. CASE mate[d] = None BY <3>1 DEF Taken
    <3>2. CASE mate[d] # None
      <4>1. mate[d] \in Chans BY <1>t, <3>2
      <4>2. Len(got[mate[d]]) \in Nat /\ Len(outq[mate[d]]) \in Nat BY <2>1, <4>1
      <4>3. Taken(d) = Len(got[mate[d]]) + Len(outq[mate[d]]) + IF hold[d] = None THEN 0 ELSE 1 BY <3>2 DEF Taken
      <4>4. QED BY <4>2, <4>3, Sums
    <3>3. QED BY <3>1, <3>2
  <2>3. QED BY <2>1, <2>2
<1>i. \A d \in Chans :
        /\ \A i \in 1..Len(got[d]) : got[d][i] = <<mate[d], i>>
        /\ \A i \in 1..Len(outq[d]) : outq[d][i] = <<mate[d], Len(got[d]) + i>>
        /\ hold[d] # None => hold[d] = <<d, Taken(d)>>
        /\ reader[d] # "done" => /\ sent[d] = Taken(d) + Len(inq[d])
                                 /\ \A i \in 1..Len(inq[d]) : inq[d][i] = <<d, Taken(d) + i>>
  BY DEF Carried
<1> DEFINE Row(d) ==
      /\ \A i \in 1..Len(got'[d]) : got'[d][i] = <<mate'[d], i>>
      /\ \A i \in 1..Len(outq'[d]) : outq'[d][i] = <<mate'[d], Len(got'[d]) + i>>
      /\ hold'[d] # None => hold'[d] = <<d, Taken(d)'>>
      /\ reader'[d] # "done" => /\ sent'[d] = Taken(d)' + Len(inq'[d])
                                /\ \A i \in 1..Len(inq'[d]) : inq'[d][i] = <<d, Taken(d)' + i>>
<1>r. (\A d \in Chans' : Row(d)) => Carried' BY DEF Carried
<1>1. CASE \/ Serve \/ AcceptAdvances \/ AcceptFails \/ SendPanics \/ AcceptAbandoned \/ PumpEnds
           \/ CtxCancel \/ UNCHANGED vars
  BY <1>1, CarriedSame
  DEF Serve, AcceptAdvances, AcceptFails, SendPanics, AcceptAbandoned, PumpEnds, CtxCancel, vars, serveVars, pumpVars
<1>2. ASSUME NEW c \in Chans, ReaderRecv(c) PROVE Carried'
  <2>1. /\ UNCHANGED <<owner, mate, sent, outq, got, reader>> /\ reader[c] = "run" /\ hold[c] = None
        /\ hold' = [hold EXCEPT ![c] = Head(inq[c])] /\ inq' = [inq EXCEPT ![c] = Tail(inq[c])]
        /\ inq[c] # <<>>
    BY <1>2 DEF ReaderRecv, serveVars
  <2>2. mate[c] \in Chans BY <1>t, <2>1 DEF PairLife
  <2>3. /\ Len(inq[c]) \in Nat \ {0} /\ Head(inq[c]) = inq[c][1] /\ Len(Tail(inq[c])) = Len(inq[c]) - 1
        /\ \A i \in 1..Len(Tail(inq[c])) : Tail(inq[c])[i] = inq[c][i + 1]
    BY <1>t, <2>1, EmptySeq, HeadTailProperties
  <2>4. Head(inq[c]) = <<c, Taken(c) + 1>> /\ Head(inq[c]) # None
    <3>1. Head(inq[c]) = <<c, Taken(c) + 1>> BY <1>i, <2>1, <2>3
    <3>2. <<c, Taken(c) + 1>> \in (1..MaxChans) \X Nat BY <1>c, <1>n
    <3>3. QED BY <3>1, <3>2, RelayAssumption
  <2>5. hold'[c] = Head(inq[c]) /\ inq'[c] = Tail(inq[c])
        /\ \A d \in Chans : d # c => hold'[d] = hold[d] /\ inq'[d] = inq[d]
    BY <1>t, <2>1
  <2>6. Taken(c)' = Taken(c) + 1
    <3>1. Len(got[mate[c]]) \in Nat /\ Len(outq[mate[c]]) \in Nat BY <1>n, <2>2
    <3>2. mate[c] # None BY <1>c, <2>2
    <3>3. Taken(c) = Len(got[mate[c]]) + Len(outq[mate[c]]) + 0 BY <2>1, <3>2 DEF Taken
    <3>4. hold'[c] # None /\ mate' = mate /\ got' = got /\ outq' = outq BY <2>1, <2>4, <2>5
    <3>5. Taken(c)' = Len(got[mate[c]]) + Len(outq[mate[c]]) + 1 BY <3>2, <3>4 DEF Taken
    <3>6. QED BY <3>1, <3>3, <3>5
  <2>7. \A d \in Chans : d # c => Taken(d)' = Taken(d) BY <2>1, <2>5 DEF Taken
  <2>8. Chans' = Chans BY <2>1 DEF Chans
  <2>9. sent[c] = Taken(c) + Len(inq[c]) /\ \A i \in 1..Len(inq[c]) : inq[c][i] = <<c, Taken(c) + i>>
    BY <1>i, <2>1
  <2>10. sent[c] = Taken(c)' + Len(inq'[c]) BY <1>n, <2>3, <2>5, <2>6, <2>9
  <2>11. \A i \in 1..Len(inq'[c]) : inq'[c][i] = <<c, Taken(c)' + i>>
    <3> SUFFICES ASSUME NEW i \in 1..Len(inq'[c]) PROVE inq'[c][i] = <<c, Taken(c)' + i>>
      OBVIOUS
    <3>1. i + 1 \in 1..Len(inq[c]) /\ inq'[c][i] = inq[c][i + 1] BY <2>3, <2>5
    <3>2. inq[c][i + 1] = <<c, Taken(c) + (i + 1)>> BY <2>9, <3>1
    <3>3. Taken(c) + (i + 1) = Taken(c)' + i BY <1>n, <2>6, <3>1
    <3>4. QED BY <3>1, <3>2, <3>3
  <2>12. Row(c) BY <1>i, <2>1, <2>4, <2>5, <2>6, <2>10, <2>11
  <2>13. \A d \in Chans : d # c => Row(d) BY <1>i, <2>1, <2>5, <2>7
  <2>14. QED BY <1>r, <2>8, <2>12, <2>13
<1>3. ASSUME NEW c \in Chans, mate[c] # None, ReaderPush(c, mate[c]) PROVE Carried'
  <2>e. PICK e \in Chans : e = mate[c] /\ mate[e] = c BY <1>3, <1>t DEF PairLife
  <2>1. /\ UNCHANGED <<owner, mate, sent, inq, got, reader>> /\ hold[c] # None
        /\ outq' = [outq EXCEPT ![e] = Append(outq[e], hold[c])] /\ hold' = [hold EXCEPT ![c] = None]
    BY <1>3, <2>e DEF ReaderPush, serveVars
  <2>3. /\ outq'[e] = Append(outq[e], hold[c]) /\ hold'[c] = None
        /\ \A d \in Chans : (d # e => outq'[d] = outq[d]) /\ (d # c => hold'[d] = hold[d])
    BY <1>t, <2>1
  <2>4. hold[c] \in Payload /\ outq[e] \in Seq(Payload) BY <1>t, <2>1
  <2>5. /\ Len(outq'[e]) = Len(outq[e]) + 1 /\ outq'[e][Len(outq[e]) + 1] = hold[c]
        /\ \A i \in 1..Len(outq[e]) : outq'[e][i] = outq[e][i]
    BY <2>3, <2>4, AppendProperties
  <2>n. Len(got[e]) \in Nat /\ Len(outq[e]) \in Nat BY <1>n
  <2>6. Taken(c)' = Taken(c) /\ Taken(c) = Len(got[e]) + Len(outq[e]) + 1
    <3>1. Taken(c) = Len(got[e]) + Len(outq[e]) + 1 BY <1>3, <2>e, <2>1 DEF Taken
    <3>2. mate'[c] = e /\ mate'[c] # None /\ hold'[c] = None /\ got' = got BY <1>3, <2>e, <2>1, <2>3
    <3>3. Taken(c)' = Len(got[e]) + Len(outq'[e]) + 0 BY <3>2 DEF Taken
    <3>4. Taken(c)' = Len(got[e]) + (Len(outq[e]) + 1) + 0 BY <2>5, <3>3
    <3>5. QED BY <2>n, <3>1, <3>4, Sums
  <2>7. \A d \in Chans : d # c => Taken(d)' = Taken(d)
    <3>1. \A d \in Chans : d # c /\ mate[d] # None => mate[d] # e BY <2>e DEF PairLife
    <3>2. QED BY <1>t, <2>1, <2>3, <3>1 DEF Taken
  <2>8. Chans' = Chans BY <2>1 DEF Chans
  <2>9. \A i \in 1..Len(outq'[e]) : outq'[e][i] = <<mate[e], Len(got[e]) + i>>
    <3>1. hold[c] = <<c, Taken(c)>> BY <1>i, <2>1
    <3>2. Taken(c) = Len(got[e]) + (Len(outq[e]) + 1) BY <2>6, <2>n, Sums
    <3>3. \A i \in 1..Len(outq'[e]) : i \in 1..Len(outq[e]) \/ i = Len(outq[e]) + 1 BY <2>5, <2>n
    <3>4. QED BY <1>i, <2>e, <2>5, <3>1, <3>2, <3>3
  <2>10. \A d \in Chans : \A i \in 1..Len(outq'[d]) : outq'[d][i] = <<mate[d], Len(got[d]) + i>>
    <3> SUFFICES ASSUME NEW d \in Chans
                 PROVE  \A i \in 1..Len(outq'[d]) : outq'[d][i] = <<mate[d], Len(got[d]) + i>>
      OBVIOUS
    <3>1. CASE d = e BY <2>9, <3>1
    <3>2. CASE d # e
      <4>1. outq'[d] = outq[d] BY <2>3, <3>2
      <4>2. QED BY <1>i, <4>1
    <3>3. QED BY <3>1, <3>2
  <2>11. \A d \in Chans : Taken(d)' = Taken(d) BY <2>6, <2>7
  <2>12. \A d \in Chans : hold'[d] # None => hold'[d] = hold[d] BY <2>3
  <2>13. \A d \in Chans : Row(d) BY <1>i, <2>1, <2>10, <2>11, <2>12
  <2>14. QED BY <1>r, <2>8, <2>13
<1>4. ASSUME NEW c \in Chans, mate[c] # None, ReaderExit(c, mate[c]) PROVE Carried'
  <2>1. /\ UNCHANGED <<owner, mate, sent, inq, outq, got>> /\ reader'[c] = "done" /\ hold'[c] = None
        /\ \A d \in Chans : d # c => reader'[d] = reader[d] /\ hold'[d] = hold[d]
    BY <1>4, <1>t DEF ReaderExit, serveVars
  <2>2. \A d \in Chans : d # c => Taken(d)' = Taken(d) BY <2>1 DEF Taken
  <2>3. Chans' = Chans BY <2>1 DEF Chans
  <2>4. QED BY <1>i, <2>1, <2>2, <2>3 DEF Carried
<1>5. ASSUME NEW e \in Chans, WriterSend(e) PROVE Carried'
  <2>1. /\ UNCHANGED <<owner, mate, sent, inq, hold, reader>> /\ outq[e] # <<>>
        /\ got' = [got EXCEPT ![e] = Append(got[e], Head(outq[e]))] /\ outq' = [outq EXCEPT ![e] = Tail(outq[e])]
    BY <1>5 DEF WriterSend, serveVars
  <2>2. /\ got'[e] = Append(got[e], Head(outq[e])) /\ outq'[e] = Tail(outq[e])
        /\ \A d \in Chans : d # e => got'[d] = got[d] /\ outq'[d] = outq[d]
    BY <1>t, <2>1
  <2>3. got[e] \in Seq(Payload) /\ outq[e] \in Seq(Payload) BY <1>t
  <2>4. /\ Len(outq[e]) \in Nat \ {0} /\ Head(outq[e]) = outq[e][1] /\ Len(outq'[e]) = Len(outq[e]) - 1
        /\ Head(outq[e]) \in Payload /\ \A i \in 1..Len(outq'[e]) : outq'[e][i] = outq[e][i + 1]
    <3>1. Len(outq[e]) \in Nat \ {0} /\ Head(outq[e]) = outq[e][1] BY <2>1, <2>3, EmptySeq
    <3>2. /\ Head(outq[e]) \in Payload /\ Len(Tail(outq[e])) = Len(outq[e]) - 1
          /\ \A i \in 1..Len(Tail(outq[e])) : Tail(outq[e])[i] = outq[e][i + 1]
      BY <2>1, <2>3, HeadTailProperties
    <3>3. QED BY <2>2, <3>1, <3>2
  <2>5. /\ Len(got'[e]) = Len(got[e]) + 1 /\ got'[e][Len(got[e]) + 1] = Head(outq[e])
        /\ \A i \in 1..Len(got[e]) : got'[e][i] = got[e][i]
    BY <2>2, <2>3, <2>4, AppendProperties
  <2>n. Len(got[e]) \in Nat /\ Len(outq[e]) \in Nat BY <1>n
  <2>m. Len(got'[e]) + Len(outq'[e]) = Len(got[e]) + Len(outq[e])
    <3> DEFINE g == Len(got[e])
               q == Len(outq[e])
    <3>1. g \in Nat /\ q \in Nat /\ Len(got'[e]) = g + 1 /\ Len(outq'[e]) = q - 1 BY <2>4, <2>5, <2>n
    <3> HIDE DEF g, q
    <3>2. Len(got'[e]) + Len(outq'[e]) = g + q BY <3>1
    <3>3. QED BY <3>2 DEF g, q
  <2>6. \A d \in Chans : Taken(d)' = Taken(d)
    <3> SUFFICES ASSUME NEW d \in Chans, mate[d] # None PROVE Taken(d)' = Taken(d)
      BY <2>1 DEF Taken
    <3>1. mate[d] \in Chans BY <1>t
    <3>2. Len(got'[mate[d]]) + Len(outq'[mate[d]]) = Len(got[mate[d]]) + Len(outq[mate[d]])
      <4>1. CASE mate[d] = e BY <2>m, <4>1
      <4>2. CASE mate[d] # e BY <2>2, <3>1, <4>2
      <4>3. QED BY <4>1, <4>2
    <3>3. mate' = mate /\ hold' = hold BY <2>1
    <3>4. QED BY <3>2, <3>3 DEF Taken
  <2>7. \A i \in 1..Len(got'[e]) : got'[e][i] = <<mate[e], i>>
    <3>1. Head(outq[e]) = <<mate[e], Len(got[e]) + 1>> BY <1>i, <2>4
    <3>2. \A i \in 1..Len(got'[e]) : i \in 1..Len(got[e]) \/ i = Len(got[e]) + 1 BY <2>5, <2>n
    <3>3. QED BY <1>i, <2>5, <3>1, <3>2
  <2>8. \A i \in 1..Len(outq'[e]) : outq'[e][i] = <<mate[e], Len(got'[e]) + i>>
    <3> SUFFICES ASSUME NEW i \in 1..Len(outq'[e]) PROVE outq'[e][i] = <<mate[e], Len(got'[e]) + i>>
      OBVIOUS
    <3>1. i + 1 \in 1..Len(outq[e]) /\ outq'[e][i] = outq[e][i + 1] BY <2>4
    <3>2. outq[e][i + 1] = <<mate[e], Len(got[e]) + (i + 1)>> BY <1>i, <3>1
    <3>3. Len(got[e]) + (i + 1) = Len(got'[e]) + i
      <4> DEFINE g == Len(got[e])
      <4>1. g \in Nat /\ Len(got'[e]) = g + 1 /\ i \in Int BY <2>5, <2>n
      <4> HIDE DEF g
      <4>2. g + (i + 1) = Len(got'[e]) + i BY <4>1
      <4>3. QED BY <4>2 DEF g
    <3>4. QED BY <3>1, <3>2, <3>3
  <2>9. Chans' = Chans BY <2>1 DEF Chans
  <2>10. Row(e) BY <1>i, <2>1, <2>6, <2>7, <2>8
  <2>11. \A d \in Chans : d # e => Row(d) BY <1>i, <2>1, <2>2, <2>6
  <2>12. QED BY <1>r, <2>9, <2>10, <2>11
<1>6. ASSUME NEW c \in Chans, WriterExit(c) \/ ClientGone(c) PROVE Carried'
  BY <1>6, CarriedSame DEF WriterExit, ClientGone, serveVars, pumpVars
<1>7. ASSUME NEW c \in Chans, ClientSends(c) PROVE Carried'
  <2>1. /\ UNCHANGED <<owner, mate, hold, outq, got, reader>>
        /\ sent' = [sent EXCEPT ![c] = sent[c] + 1]
        /\ inq' = [inq EXCEPT ![c] = Append(inq[c], <<c, sent'[c]>>)]
    BY <1>7 DEF ClientSends, serveVars
  <2>2. sent'[c] = sent[c] + 1 /\ sent[c] \in Nat /\ \A d \in Chans : d # c => sent'[d] = sent[d] /\ inq'[d] = inq[d]
    BY <1>t, <2>1
  <2>3. inq'[c] = Append(inq[c], <<c, sent[c] + 1>>) BY <1>t, <2>1, <2>2
  <2>4. inq[c] \in Seq(Payload) /\ <<c, sent[c] + 1>> \in Payload BY <1>t, <2>2, ChansAre DEF Payload
  <2>5. /\ Len(inq'[c]) = Len(inq[c]) + 1 /\ inq'[c][Len(inq[c]) + 1] = <<c, sent[c] + 1>>
        /\ \A i \in 1..Len(inq[c]) : inq'[c][i] = inq[c][i]
    BY <2>3, <2>4, AppendProperties
  <2>6. \A d \in Chans : Taken(d)' = Taken(d) BY <2>1 DEF Taken
  <2>7. ASSUME reader[c] # "done"
        PROVE  /\ sent'[c] = Taken(c) + Len(inq'[c])
               /\ \A i \in 1..Len(inq'[c]) : inq'[c][i] = <<c, Taken(c) + i>>
    <3>1. /\ sent[c] = Taken(c) + Len(inq[c]) /\ \A i \in 1..Len(inq[c]) : inq[c][i] = <<c, Taken(c) + i>>
      BY <1>i, <2>7
    <3>2. sent'[c] = Taken(c) + Len(inq'[c]) BY <1>n, <2>2, <2>5, <3>1
    <3>3. sent[c] + 1 = Taken(c) + (Len(inq[c]) + 1) BY <1>n, <3>1
    <3>4. \A i \in 1..Len(inq'[c]) : i \in 1..Len(inq[c]) \/ i = Len(inq[c]) + 1 BY <1>n, <2>5
    <3>5. QED BY <2>5, <3>1, <3>2, <3>3, <3>4
  <2>8. Chans' = Chans BY <2>1 DEF Chans
  <2>9. QED BY <1>i, <2>1, <2>2, <2>6, <2>7, <2>8 DEF Carried
<1>8. CASE AcceptOne
  <2>c. PICK c : c = Len(owner) + 1 OBVIOUS
  <2>1. /\ c \notin Chans /\ c # None /\ Chans' = Chans \cup {c}
        /\ sent'[c] = 0 /\ inq'[c] = <<>> /\ outq'[c] = <<>> /\ got'[c] = <<>> /\ hold'[c] = None
        /\ \A d \in Chans : /\ sent'[d] = sent[d] /\ inq'[d] = inq[d] /\ outq'[d] = outq[d]
                            /\ got'[d] = got[d] /\ hold'[d] = hold[d]
    BY <1>8, <2>c, AcceptRow
  <2>2. /\ slots' = BindSlot(c) /\ mate' \in [Chans' -> Chans' \cup {None}]
        /\ \A d \in Chans' :
              /\ mate'[d] = IF Both /\ d = slots'[1] THEN slots'[2]
                            ELSE IF Both /\ d = slots'[2] THEN slots'[1]
                            ELSE IF d = c THEN None ELSE mate[d]
              /\ reader'[d] = IF Both /\ d \in {slots'[1], slots'[2]} THEN "run"
                              ELSE IF d = c THEN "off" ELSE reader[d]
    BY <1>8, <2>c, AcceptPairs
  <2>3. spc # "pump" BY <1>8 DEF AcceptOne
  <2>4. \A i \in 1..2 : slots'[i] = c \/ slots'[i] = slots[i] BY <1>t, <2>2 DEF BindSlot
  \* A channel in a slot carries nothing yet.
  <2>5. ASSUME NEW i \in 1..2, slots'[i] # None
        PROVE  slots'[i] \in Chans' /\ got'[slots'[i]] = <<>> /\ outq'[slots'[i]] = <<>> /\ hold'[slots'[i]] = None
    <3>1. CASE slots'[i] = c BY <2>1, <3>1
    <3>2. CASE slots'[i] = slots[i] BY <1>t, <2>1, <2>3, <2>5, <3>2 DEF PairLife
    <3>3. QED BY <2>4, <3>1, <3>2
  <2>6. ASSUME NEW d \in Chans', Both, d \in {slots'[1], slots'[2]} PROVE Taken(d)' = 0
    <3>1. mate'[d] \in {slots'[1], slots'[2]} /\ mate'[d] # None BY <2>2, <2>6 DEF Both
    <3>2. got'[mate'[d]] = <<>> /\ outq'[mate'[d]] = <<>> /\ hold'[d] = None BY <2>5, <2>6, <3>1 DEF Both
    <3>3. QED BY <3>1, <3>2 DEF Taken
  <2>7. ASSUME NEW d \in Chans, Both, d \in {slots'[1], slots'[2]}
        PROVE  Taken(d) = 0 /\ reader[d] = "off"
    <3>1. PICK i \in 1..2 : d = slots'[i] BY <2>7
    <3>2. d = slots[i] /\ d # None BY <1>c, <2>1, <2>4, <3>1
    <3>3. QED BY <2>3, <3>2 DEF PairLife, Taken
  <2>8. ASSUME NEW d \in Chans, ~(Both /\ d \in {slots'[1], slots'[2]}) PROVE mate'[d] = mate[d] /\ Taken(d)' = Taken(d)
    <3>1. mate'[d] = mate[d] BY <2>1, <2>2, <2>8
    <3>2. mate[d] = None \/ mate[d] \in Chans BY <1>t
    <3>3. QED BY <2>1, <3>1, <3>2 DEF Taken
  <2>9. ASSUME NEW d \in Chans, Both, d \in {slots'[1], slots'[2]} PROVE Row(d)
    <3>1. got'[d] = <<>> /\ outq'[d] = <<>> /\ hold'[d] = None
      <4>1. PICK i \in 1..2 : d = slots'[i] BY <2>9
      <4>2. d # None BY <1>c
      <4>3. QED BY <2>5, <4>1, <4>2
    <3>2. Taken(d)' = Taken(d) /\ reader[d] # "done" BY <2>1, <2>6, <2>7, <2>9
    <3>3. QED BY <1>i, <2>1, <3>1, <3>2
  <2>10. ASSUME NEW d \in Chans, ~(Both /\ d \in {slots'[1], slots'[2]}) PROVE Row(d)
    <3>1. mate'[d] = mate[d] /\ Taken(d)' = Taken(d) BY <2>8, <2>10
    <3>2. reader'[d] = reader[d] BY <2>1, <2>2, <2>10
    <3>3. QED BY <1>i, <2>1, <3>1, <3>2
  <2>11. Row(c)
    <3>1. Taken(c)' = 0
      <4>1. CASE Both /\ c \in {slots'[1], slots'[2]} BY <2>1, <2>6, <4>1
      <4>2. CASE ~(Both /\ c \in {slots'[1], slots'[2]})
        <5>1. mate'[c] = None BY <2>1, <2>2, <4>2
        <5>2. QED BY <5>1 DEF Taken
      <4>3. QED BY <4>1, <4>2
    <3>2. QED BY <2>1, <3>1
  <2> HIDE DEF Row
  <2>12. \A d \in Chans' : Row(d) BY <2>1, <2>9, <2>10, <2>11
  <2>13. QED BY <1>r, <2>12
<1>9. QED BY <1>1, <1>2, <1>3, <1>4, <1>5, <1>6, <1>7, <1>8 DEF Next, ServeStep, PumpStep

-----------------------------------------------------------------------------
LEMMA RelayHolds == Spec => []RelayInv
<1>1. Init => RelayInv BY TypesInit, ServeInit, CarryInit DEF RelayInv, ServeLife
<1>2. RelayInv /\ [Next]_vars => RelayInv'
  BY TypesStep, ServeLifeStep, PairLifeStep, CarriedStep DEF RelayInv, ServeLife
<1>3. QED BY <1>1, <1>2, PTL DEF Spec

-----------------------------------------------------------------------------
(* Bounds.  A call of Serve fails at most once, and outbound has Buf slots. *)
ServeBounds ==
  /\ serves <= MaxServes /\ failed <= serves
  /\ spc = "accept" => failed < serves
  /\ accepted <= 2
  /\ \A c \in Chans : owner[c] \in 1..MaxServes
QueueBounds == \A c \in Chans : Len(outq[c]) <= Buf

LEMMA BoundsStep ==
  ASSUME RelayInv, ServeBounds, QueueBounds, [Next]_vars
  PROVE  ServeBounds' /\ QueueBounds'
<1> USE RelayAssumption DEF RelayInv, ServeTypes
<1>t. /\ outq \in [Chans -> Seq(Payload)] /\ mate \in [Chans -> Chans \cup {None}]
  BY DEF ChanTypes
\* A step that leaves the channels and their queues alone.
<1>1. ASSUME UNCHANGED <<owner, outq>> PROVE Chans' = Chans /\ QueueBounds'
  BY <1>1 DEF Chans, QueueBounds
<1>2. CASE Serve \/ AcceptAdvances \/ AcceptFails \/ SendPanics \/ AcceptAbandoned \/ PumpEnds \/ CtxCancel
  <2>1. UNCHANGED <<owner, outq>>
    BY <1>2 DEF Serve, AcceptAdvances, AcceptFails, SendPanics, AcceptAbandoned, PumpEnds, CtxCancel, serveVars, pumpVars
  <2>2. Chans' = Chans /\ QueueBounds' BY <1>1, <2>1
  <2>3. /\ serves' <= MaxServes /\ failed' <= serves'
        /\ spc' = "accept" => failed' < serves'
        /\ accepted' <= 2
    BY <1>2 DEF ServeBounds, Serve, AcceptAdvances, AcceptFails, SendPanics, AcceptAbandoned, PumpEnds, CtxCancel, serveVars
  <2>4. QED BY <2>1, <2>2, <2>3 DEF ServeBounds
<1>3. CASE AcceptOne
  <2> DEFINE c == Len(owner) + 1
  <2>1. /\ Chans' = Chans \cup {c} /\ outq'[c] = <<>> /\ \A d \in Chans : outq'[d] = outq[d]
        /\ owner'[c] = serves /\ \A d \in Chans : owner'[d] = owner[d]
    BY <1>3, AcceptRow
  <2>2. spc = "accept" /\ UNCHANGED <<serves, failed>> BY <1>3 DEF AcceptOne
  <2> HIDE DEF c
  <2>3. serves \in 1..MaxServes /\ failed < serves BY <2>2 DEF ServeBounds
  <2>4. accepted' <= 2 BY <1>3, <2>2 DEF AcceptOne, AcceptLife
  <2>5. ServeBounds' BY <2>1, <2>2, <2>3, <2>4 DEF ServeBounds
  <2>6. QueueBounds' BY <2>1 DEF QueueBounds
  <2>7. QED BY <2>5, <2>6
<1>4. ASSUME NEW c \in Chans, PumpStep(c) \/ ClientSends(c) \/ ClientGone(c)
      PROVE  ServeBounds' /\ QueueBounds'
  <2>1. UNCHANGED serveVars
    BY <1>4 DEF PumpStep, ReaderRecv, WriterSend, WriterExit, ReaderPush, ReaderExit, ClientSends, ClientGone
  <2>2. ServeBounds' /\ Chans' = Chans BY <2>1 DEF ServeBounds, serveVars, Chans
  <2>3. CASE outq' = outq BY <2>2, <2>3 DEF QueueBounds
  <2>4. CASE mate[c] # None /\ ReaderPush(c, mate[c])
    <3> DEFINE d == mate[c]
    <3>1. d \in Chans /\ outq[d] \in Seq(Payload) /\ hold[c] \in Payload
      BY <1>t, <2>4 DEF ReaderPush, ChanTypes
    <3>2. Len(outq[d]) < Buf /\ outq' = [outq EXCEPT ![d] = Append(outq[d], hold[c])] BY <2>4 DEF ReaderPush
    <3> HIDE DEF d
    <3>3. Len(Append(outq[d], hold[c])) <= Buf BY <3>1, <3>2
    <3>4. QED BY <1>t, <2>2, <3>1, <3>2, <3>3 DEF QueueBounds
  <2>5. CASE WriterSend(c)
    <3>1. outq[c] \in Seq(Payload) /\ outq[c] # <<>> /\ outq' = [outq EXCEPT ![c] = Tail(outq[c])]
      BY <1>t, <2>5 DEF WriterSend
    <3>2. Len(Tail(outq[c])) <= Buf BY <3>1 DEF QueueBounds
    <3>3. QED BY <1>t, <2>2, <3>1, <3>2 DEF QueueBounds
  <2>6. outq' = outq \/ (mate[c] # None /\ ReaderPush(c, mate[c])) \/ WriterSend(c)
    BY <1>4 DEF PumpStep, ReaderRecv, WriterExit, ReaderExit, ClientSends, ClientGone, pumpVars
  <2>7. QED BY <2>2, <2>3, <2>4, <2>5, <2>6
<1>5. CASE UNCHANGED vars
  <2>1. UNCHANGED <<owner, outq, serves, failed, accepted, spc>> BY <1>5 DEF vars, serveVars, pumpVars
  <2>2. QED BY <1>1, <2>1 DEF ServeBounds
<1>6. QED BY <1>2, <1>3, <1>4, <1>5 DEF Next, ServeStep

\* The relay's tables keep their types, a Serve fails at most once, and no
\* outbound queue exceeds ForwardBufferSize: forwardBytes pushes back on the
\* reader instead.
THEOREM RelayTypeCorrect == Spec => []TypeOK
<1>1. Init => ServeBounds /\ QueueBounds
  <2>1. Init => Chans = {} BY DEF Init, Chans
  <2>2. QED BY <2>1, RelayAssumption DEF Init, ServeBounds, QueueBounds
<1>2. RelayInv /\ ServeBounds /\ QueueBounds => TypeOK
  <2> SUFFICES ASSUME RelayInv, ServeBounds, QueueBounds PROVE TypeOK
    OBVIOUS
  <2>1. owner \in Seq(1..MaxServes)
    <3>1. Len(owner) \in Nat /\ Chans = 1..Len(owner) BY ChansAre DEF RelayInv
    <3>2. owner \in [1..Len(owner) -> 1..MaxServes]
      BY <3>1, LenProperties DEF RelayInv, ChanTypes, ServeBounds
    <3>3. QED BY <3>1, <3>2, SeqDef
  <2>2. /\ serves \in 0..MaxServes /\ failed \in 0..MaxServes
    BY RelayAssumption DEF RelayInv, ServeTypes, ServeBounds
  <2>3. accepted \in 0..2 BY DEF RelayInv, ServeTypes, ServeBounds
  <2>4. QED BY <2>1, <2>2, <2>3 DEF RelayInv, ServeTypes, ChanTypes, QueueBounds, TypeOK
<1>3. QED BY <1>1, <1>2, RelayHolds, BoundsStep, PTL DEF Spec

\* relay's package comment, "pumps bytes between them": forwardBytes delivers
\* to each client exactly what its counterpart sent, in order and without a
\* gap, for any queue size and any number of pairings one after the other.
THEOREM RelayKeepsOrder == Spec => []RelayInOrder
<1>1. RelayInv => RelayInOrder
  <2> SUFFICES ASSUME RelayInv, NEW c \in Chans, NEW i \in DOMAIN got[c] PROVE got[c][i] = <<mate[c], i>>
    BY DEF RelayInOrder
  <2>1. got[c] \in Seq(Payload) BY DEF RelayInv, ChanTypes
  <2>2. i \in 1..Len(got[c]) BY <2>1, LenProperties
  <2>3. QED BY <2>2 DEF RelayInv, Carried
<1>2. QED BY <1>1, RelayHolds, PTL

\* Serve never reaches "incomplete session after accept loop", and bindSlot
\* gives it its own two channels unless two earlier calls failed half-way.
THEOREM RelayPairsFresh == Spec => []PairedFresh
<1>1. RelayInv => PairedFresh
  BY DEF RelayInv, SlotLife, FreshLife, Mine, PairedFresh, Ends
<1>2. QED BY <1>1, RelayHolds, PTL

\* acceptOne's abandoned p.Accept meets a closed session only after ctx ended.
THEOREM RelayPanicNeedsCancel == Spec => []PanicNeedsCancel
<1>1. RelayInv => PanicNeedsCancel BY DEF RelayInv, AcceptLife, PanicNeedsCancel
<1>2. QED BY <1>1, RelayHolds, PTL
-----------------------------------------------------------------------------
(* Sequences: what a pump does to the outbound queue o of the mate, the     *)
(* reader's hand and the incoming queue i, laid end to end.                 *)

LEMMA PassOn ==
  ASSUME NEW S, NEW o \in Seq(S), NEW h \in S, NEW i \in Seq(S)
  PROVE  (Append(o, h) \o <<>>) \o i = (o \o <<h>>) \o i
<1>1. Append(o, h) \in Seq(S) /\ Append(o, h) = o \o <<h>> BY AppendIsConcat, AppendProperties
<1>2. Append(o, h) \o <<>> = Append(o, h) BY <1>1, ConcatEmptySeq
<1>3. QED BY <1>1, <1>2

LEMMA TakeUp ==
  ASSUME NEW S, NEW o \in Seq(S), NEW i \in Seq(S), i # <<>>
  PROVE  (o \o <<Head(i)>>) \o Tail(i) = (o \o <<>>) \o i
<1>1. Head(i) \in S /\ Tail(i) \in Seq(S) /\ Len(Tail(i)) = Len(i) - 1 BY HeadTailProperties
<1>2. <<Head(i)>> \in Seq(S) /\ Len(<<Head(i)>>) = 1 BY <1>1
<1>3. <<Head(i)>> \o Tail(i) = i
  <2>2. <<Head(i)>> \o Tail(i) \in Seq(S) BY <1>1, <1>2, ConcatProperties
  <2>3. Len(<<Head(i)>> \o Tail(i)) = Len(i) BY <1>1, <1>2, ConcatProperties, HeadTailProperties
  <2>4. \A k \in 1 .. Len(i) : i[k] = (<<Head(i)>> \o Tail(i))[k]
    BY <1>1, <1>2, ConcatProperties, HeadTailProperties
  <2>5. QED BY <2>2, <2>3, <2>4, SeqEqual
<1>4. (o \o <<Head(i)>>) \o Tail(i) = o \o (<<Head(i)>> \o Tail(i)) BY <1>1, <1>2, ConcatAssociative
<1>5. o \o <<>> = o BY ConcatEmptySeq
<1>6. QED BY <1>3, <1>4, <1>5

\* What is taken from two queues in a row is taken from the first, if it has any.
LEMMA TakeOfPair ==
  ASSUME NEW S, NEW s \in Seq(S), NEW t \in Seq(S), s # <<>>
  PROVE  s \o t \in Seq(S) /\ s \o t # <<>> /\ Head(s \o t) = Head(s) /\ Tail(s \o t) = Tail(s) \o t
<1>0. Len(s) \in Nat \ {0} /\ Len(t) \in Nat BY EmptySeq, LenProperties
<1>1. Tail(s) \in Seq(S) /\ Len(Tail(s)) = Len(s) - 1 /\ \A k \in 1..Len(s) - 1 : Tail(s)[k] = s[k + 1]
  BY HeadTailProperties
<1>2. /\ s \o t \in Seq(S) /\ Len(s \o t) = Len(s) + Len(t)
      /\ \A k \in 1..Len(s) + Len(t) : (s \o t)[k] = IF k <= Len(s) THEN s[k] ELSE t[k - Len(s)]
  BY ConcatProperties
<1>3. s \o t # <<>> BY <1>0, <1>2, EmptySeq
<1>4. Head(s \o t) = Head(s) BY <1>0, <1>2, <1>3
<1>5. /\ Tail(s) \o t \in Seq(S) /\ Len(Tail(s) \o t) = Len(s) - 1 + Len(t)
      /\ \A k \in 1..Len(s) - 1 + Len(t) : (Tail(s) \o t)[k] = IF k <= Len(s) - 1 THEN Tail(s)[k] ELSE t[k - (Len(s) - 1)]
  BY <1>1, ConcatProperties
<1>6. /\ Tail(s \o t) \in Seq(S) /\ Len(Tail(s \o t)) = Len(s) - 1 + Len(t)
      /\ \A k \in 1..Len(s) - 1 + Len(t) : Tail(s \o t)[k] = (s \o t)[k + 1]
  <2>1. /\ Tail(s \o t) \in Seq(S) /\ Len(Tail(s \o t)) = Len(s \o t) - 1
        /\ \A k \in 1..Len(s \o t) - 1 : Tail(s \o t)[k] = (s \o t)[k + 1]
    BY <1>2, <1>3, HeadTailProperties
  <2>2. QED BY <1>0, <1>2, <2>1
<1> DEFINE n == Len(s)
           m == Len(t)
<1>7. n \in Nat \ {0} /\ m \in Nat BY <1>0
<1>8. \A k \in 1..n - 1 + m : Tail(s \o t)[k] = (Tail(s) \o t)[k]
  <2> HIDE DEF n, m
  <2>1. \A k \in 1..n - 1 + m : k + 1 \in 1..n + m /\ (k + 1 <= n => k \in 1..n - 1) /\ k + 1 - n = k - (n - 1)
    BY <1>7
  <2>2. QED BY <1>1, <1>2, <1>5, <1>6, <1>7, <2>1 DEF n, m
<1>9. QED BY <1>2, <1>3, <1>4, <1>5, <1>6, <1>8, SeqEqual

LEMMA DropHand ==
  ASSUME NEW S, NEW o \in Seq(S), NEW h \in S, NEW i \in Seq(S)
  PROVE  LET q == (o \o <<h>>) \o i
             d == Len(o) + 1
         IN /\ d \in DOMAIN q /\ d <= d
            /\ SubSeq(q, 1, d - 1) = o /\ SubSeq(q, d + 1, Len(q)) = i
<1> DEFINE q == (o \o <<h>>) \o i
           n == Len(o)
           m == Len(i)
<1>1. n \in Nat /\ m \in Nat BY LenProperties
<1>2. <<h>> \in Seq(S) /\ Len(<<h>>) = 1 /\ <<h>>[1] = h OBVIOUS
<1>3. o \o <<h>> \in Seq(S) /\ Len(o \o <<h>>) = n + 1 /\ \A k \in 1..n : (o \o <<h>>)[k] = o[k]
  BY <1>1, <1>2, ConcatProperties
<1>4. q \in Seq(S) /\ Len(q) = n + 1 + m BY <1>1, <1>3, ConcatProperties
<1>5. \A k \in 1..n : q[k] = o[k] BY <1>1, <1>3, ConcatProperties
<1>6. \A k \in 1..m : q[n + 1 + k] = i[k] BY <1>1, <1>3, ConcatProperties
<1>8. DOMAIN q = 1..n + 1 + m BY <1>4, LenProperties
<1> HIDE DEF q, n, m
<1>9. SubSeq(q, 1, n) = o
  <2>1. SubSeq(q, 1, n) \in Seq(S) /\ Len(SubSeq(q, 1, n)) = n /\ \A k \in 1..n : SubSeq(q, 1, n)[k] = q[1 + k - 1]
    BY <1>1, <1>4
  <2>2. \A k \in 1..n : SubSeq(q, 1, n)[k] = o[k] BY <1>1, <1>5, <2>1
  <2>3. QED BY <2>1, <2>2, SeqEqual DEF n
<1>10. SubSeq(q, n + 2, n + 1 + m) = i
  <2>1. /\ SubSeq(q, n + 2, n + 1 + m) \in Seq(S) /\ Len(SubSeq(q, n + 2, n + 1 + m)) = m
        /\ \A k \in 1..m : SubSeq(q, n + 2, n + 1 + m)[k] = q[n + 1 + k]
    <3> DEFINE a == n + 2
               z == n + 1 + m
    <3>1. a \in Int /\ z \in Int /\ z - a + 1 = m /\ (a > z => m = 0) BY <1>1
    <3>2. \A k \in 1..m : a + k - 1 = n + 1 + k BY <1>1
    <3>3. \A k \in a..z : q[k] \in S BY <1>1, <1>4
    <3> HIDE DEF a, z
    <3>4. /\ SubSeq(q, a, z) \in Seq(S) /\ Len(SubSeq(q, a, z)) = IF a <= z THEN z - a + 1 ELSE 0
          /\ \A k \in 1..z - a + 1 : SubSeq(q, a, z)[k] = q[a + k - 1]
      BY <3>1, <3>3, SubSeqProperties
    <3>5. Len(SubSeq(q, a, z)) = m BY <1>1, <3>1, <3>4
    <3>6. \A k \in 1..m : SubSeq(q, a, z)[k] = q[n + 1 + k] BY <3>1, <3>2, <3>4
    <3>7. QED BY <3>4, <3>5, <3>6 DEF a, z
  <2>3. QED BY <1>6, <2>1, SeqEqual DEF m
<1> DEFINE d == n + 1
<1>11. d \in DOMAIN q /\ d <= d /\ d - 1 = n /\ d + 1 = n + 2 BY <1>1, <1>8
<1> HIDE DEF d
<1>12. SubSeq(q, 1, d - 1) = o /\ SubSeq(q, d + 1, Len(q)) = i BY <1>4, <1>9, <1>10, <1>11
<1>13. QED BY <1>11, <1>12 DEF d, n, q

-----------------------------------------------------------------------------
(* The steps of FifoChannel, in terms of a path's flight and deliveries.    *)
LEMMA PathStays ==
  ASSUME NEW c, UNCHANGED <<InFlight(c), Delivered(c), Intact(c)>>
  PROVE  [Path(c)!Next]_(Path(c)!fifoVars)
BY DEF Path!fifoVars

LEMMA PathMayBreak ==
  ASSUME NEW c, UNCHANGED <<InFlight(c), Delivered(c)>>, Intact(c)' => Intact(c)
  PROVE  [Path(c)!Next]_(Path(c)!fifoVars)
<1>1. Intact(c) \in BOOLEAN /\ Intact(c)' \in BOOLEAN BY DEF Intact
<1>2. CASE Intact(c)' = Intact(c) BY <1>2, PathStays
<1>3. CASE Intact(c) /\ Intact(c)' = FALSE
  <2>1. Path(c)!Down BY <1>3, Zenon DEF Path!Down
  <2>2. QED BY <2>1 DEF Path!Next
<1>4. QED BY <1>1, <1>2, <1>3

\* The channels, the pairing and the clients of a path stay as they are.
LEMMA SamePath ==
  ASSUME NEW c, UNCHANGED <<owner, mate, ctx, up>>
  PROVE  Chans' = Chans /\ Intact(c)' = Intact(c)
BY DEF Chans, Intact

LEMMA SameFlight ==
  ASSUME NEW c, UNCHANGED <<owner, mate>>,
         c \in Chans => hold'[c] = hold[c] /\ inq'[c] = inq[c],
         c \in Chans /\ mate[c] # None => outq'[mate[c]] = outq[mate[c]]
  PROVE  InFlight(c)' = InFlight(c)
BY DEF Chans, InFlight

LEMMA SameDelivered ==
  ASSUME NEW c, UNCHANGED <<owner, mate>>, c \in Chans /\ mate[c] # None => got'[mate[c]] = got[mate[c]]
  PROVE  Delivered(c)' = Delivered(c)
BY DEF Chans, Delivered

LEMMA RelayFifoStep ==
  ASSUME RelayInv, [Next]_vars, NEW c \in 1..MaxChans
  PROVE  [Path(c)!Next]_(Path(c)!fifoVars)
<1>t. /\ mate \in [Chans -> Chans \cup {None}] /\ up \in [Chans -> BOOLEAN]
      /\ inq \in [Chans -> Seq(Payload)] /\ outq \in [Chans -> Seq(Payload)] /\ got \in [Chans -> Seq(Payload)]
      /\ hold \in [Chans -> Payload \cup {None}] /\ None \notin Chans
  BY ChansAre DEF RelayInv, ChanTypes
<1>m. \A d \in Chans : mate[d] # None => mate[d] \in Chans /\ mate[mate[d]] = d
  BY <1>t DEF RelayInv, PairLife
<1>e. <<>> \in Seq(Payload) /\ None \notin Payload BY RelayAssumption DEF Payload
<1>1. CASE Serve \/ AcceptAdvances \/ AcceptFails \/ SendPanics \/ AcceptAbandoned \/ PumpEnds \/ UNCHANGED vars
  <2>1. UNCHANGED <<owner, mate, ctx, up, inq, hold, outq, got>>
    BY <1>1 DEF Serve, AcceptAdvances, AcceptFails, SendPanics, AcceptAbandoned, PumpEnds, vars, serveVars, pumpVars
  <2>2. QED BY <2>1, SamePath, SameFlight, SameDelivered, PathStays
<1>2. CASE CtxCancel
  <2>1. UNCHANGED <<owner, mate, inq, hold, outq, got>> /\ ctx' BY <1>2 DEF CtxCancel, serveVars, pumpVars
  <2>2. Intact(c)' => Intact(c) BY <2>1 DEF Intact
  <2>3. QED BY <2>1, <2>2, SameFlight, SameDelivered, PathMayBreak
<1>3. CASE AcceptOne
  <2> DEFINE e == Len(owner) + 1
  <2>r. /\ e \notin Chans /\ e # None /\ Chans' = Chans \cup {e}
        /\ inq'[e] = <<>> /\ outq'[e] = <<>> /\ got'[e] = <<>> /\ hold'[e] = None
        /\ \A d \in Chans : inq'[d] = inq[d] /\ outq'[d] = outq[d] /\ got'[d] = got[d] /\ hold'[d] = hold[d]
    BY <1>3, AcceptRow DEF RelayInv
  <2>p. /\ slots' = BindSlot(e) /\ slots' \in [1..2 -> Chans' \cup {None}]
        /\ \A d \in Chans' : mate'[d] = IF Both /\ d = slots'[1] THEN slots'[2]
                                        ELSE IF Both /\ d = slots'[2] THEN slots'[1]
                                        ELSE IF d = e THEN None ELSE mate[d]
    BY <1>3, AcceptPairs DEF RelayInv
  <2>s. spc = "accept" /\ ctx' = ctx /\ up' = Append(up, TRUE) BY <1>3 DEF AcceptOne
  <2>u. \A d \in Chans : up'[d] = up[d]
    <3>1. Len(owner) \in Nat /\ Chans = 1..Len(owner) BY ChansAre DEF RelayInv
    <3>2. up \in Seq(BOOLEAN) /\ Len(up) = Len(owner)
      <4>1. up \in [1..Len(owner) -> BOOLEAN] BY <1>t, <3>1
      <4>2. up \in Seq(BOOLEAN) BY <3>1, <4>1, SeqDef
      <4>3. DOMAIN up = 1..Len(up) /\ Len(up) \in Nat BY <4>2, LenProperties
      <4>4. QED BY <3>1, <4>1, <4>2, <4>3
    <3>3. \A d \in 1..Len(up) : Append(up, TRUE)[d] = up[d]
      <4> DEFINE B == BOOLEAN
                 x == TRUE
      <4>2. up \in Seq(B) /\ x \in B BY <3>2
      <4> HIDE DEF B, x
      <4>3. \A d \in 1..Len(up) : Append(up, x)[d] = up[d] BY <4>2, AppendProperties
      <4>4. QED BY <4>3 DEF x
    <3>4. QED BY <2>s, <3>1, <3>2, <3>3
  <2> HIDE DEF e
  \* What is bound was not paired before and carries nothing.
  <2>1. \A i \in 1..2 : slots'[i] # None /\ slots'[i] # e => slots'[i] \in Chans /\ mate[slots'[i]] = None
    <3>1. slots \in [1..2 -> Chans \cup {None}] BY DEF RelayInv, ChanTypes
    <3>2. \A i \in 1..2 : slots'[i] \in {slots[i], e} BY <2>p, <3>1 DEF BindSlot
    <3>3. \A i \in 1..2 : slots[i] # None => mate[slots[i]] = None BY <2>s DEF RelayInv, PairLife
    <3>4. QED BY <3>1, <3>2, <3>3
  <2>2. \A i \in 1..2 : slots'[i] # None => slots'[i] \in Chans' /\ outq'[slots'[i]] = <<>> /\ got'[slots'[i]] = <<>>
    <3>1. \A d \in Chans : mate[d] = None => outq[d] = <<>> /\ got[d] = <<>> BY DEF RelayInv, PairLife
    <3>2. QED BY <2>1, <2>r, <3>1
  \* The path of c keeps its mate, or gets one that carries nothing.
  <2>3. ASSUME c \in Chans'
        PROVE  \/ c \in Chans /\ mate'[c] = mate[c]
               \/ /\ c \in Chans => mate[c] = None
                  /\ mate'[c] # None => mate'[c] \in Chans' /\ outq'[mate'[c]] = <<>> /\ got'[mate'[c]] = <<>>
    <3>1. Both => slots'[1] # None /\ slots'[2] # None BY DEF Both
    <3>2. CASE Both /\ c \in {slots'[1], slots'[2]}
      <4>1. c \in Chans => mate[c] = None BY <2>1, <2>r, <3>2, <3>1
      <4>2. mate'[c] \in {slots'[1], slots'[2]} BY <2>3, <2>p, <3>2
      <4>3. QED BY <2>2, <4>1, <4>2, <3>1, <3>2
    <3>3. CASE ~(Both /\ c \in {slots'[1], slots'[2]})
      <4>1. mate'[c] = IF c = e THEN None ELSE mate[c] BY <2>3, <2>p, <3>3
      <4>2. QED BY <2>3, <2>r, <4>1
    <3>4. QED BY <3>2, <3>3
  <2>4. <<>> \o <<>> = <<>> /\ \A s \in Seq(Payload) : <<>> \o s = s BY <1>e, ConcatEmptySeq
  <2>5. InFlight(c)' = InFlight(c)
    <3>1. CASE c \notin Chans' BY <2>r, <3>1 DEF InFlight
    <3>2. CASE c \in Chans /\ mate'[c] = mate[c]
      <4>1. c \in Chans' /\ hold'[c] = hold[c] /\ inq'[c] = inq[c] BY <2>r, <3>2
      <4>2. mate[c] # None => outq'[mate[c]] = outq[mate[c]] BY <1>m, <2>r, <3>2
      <4>3. QED BY <3>2, <4>1, <4>2 DEF InFlight
    <3>3. CASE c \in Chans' /\ (c \in Chans => mate[c] = None) /\ (mate'[c] # None => outq'[mate'[c]] = <<>>)
      <4>1. c \in Chans => hold'[c] = hold[c] /\ inq'[c] = inq[c] BY <2>r
      <4>2. c \notin Chans => hold'[c] = None /\ inq'[c] = <<>> BY <2>r, <3>3
      <4>3. (IF mate'[c] = None THEN <<>> ELSE outq'[mate'[c]]) = <<>> BY <3>3
      <4>4. CASE c \in Chans BY <2>r, <3>3, <4>1, <4>3, <4>4 DEF InFlight
      <4>5. CASE c \notin Chans BY <2>4, <3>3, <4>2, <4>3, <4>5 DEF InFlight
      <4>6. QED BY <4>4, <4>5
    <3>4. QED BY <2>3, <3>1, <3>2, <3>3
  <2>6. Delivered(c)' = Delivered(c)
    <3>1. CASE c \notin Chans' BY <2>r, <3>1 DEF Delivered
    <3>2. CASE c \in Chans /\ mate'[c] = mate[c]
      <4>1. c \in Chans' BY <2>r, <3>2
      <4>2. mate[c] # None => got'[mate[c]] = got[mate[c]] BY <1>m, <2>r, <3>2
      <4>3. QED BY <3>2, <4>1, <4>2 DEF Delivered
    <3>3. CASE c \in Chans' /\ (c \in Chans => mate[c] = None) /\ (mate'[c] # None => got'[mate'[c]] = <<>>)
      BY <3>3 DEF Delivered
    <3>4. QED BY <2>3, <3>1, <3>2, <3>3
  <2>7. Intact(c)' => Intact(c)
    <3>1. CASE c \notin Chans BY <2>s, <3>1 DEF Intact
    <3>2. CASE c \in Chans
      <4>1. c \in Chans' /\ up'[c] = up[c] BY <2>r, <2>u, <3>2
      <4>2. mate[c] # None => mate'[c] = mate[c] /\ up'[mate[c]] = up[mate[c]] BY <1>m, <2>3, <2>u, <3>2, <4>1
      <4>3. QED BY <2>s, <3>2, <4>1, <4>2 DEF Intact
    <3>3. QED BY <3>1, <3>2
  <2>8. QED BY <2>5, <2>6, <2>7, PathMayBreak
<1>4. ASSUME NEW e \in Chans, PumpStep(e) \/ ClientSends(e) \/ ClientGone(e)
      PROVE  [Path(c)!Next]_(Path(c)!fifoVars)
  <2>1. CASE ReaderRecv(e)
    <3>1. UNCHANGED <<owner, mate, ctx, up, outq, got>> BY <2>1 DEF ReaderRecv, serveVars
    <3>2. /\ hold[e] = None /\ inq[e] # <<>>
          /\ hold' = [hold EXCEPT ![e] = Head(inq[e])] /\ inq' = [inq EXCEPT ![e] = Tail(inq[e])]
      BY <2>1 DEF ReaderRecv
    <3>3. CASE c # e
      <4>1. c \in Chans => hold'[c] = hold[c] /\ inq'[c] = inq[c] BY <1>t, <3>2, <3>3
      <4>2. QED BY <3>1, <4>1, SamePath, SameFlight, SameDelivered, PathStays
    <3>4. CASE c = e
      <4> DEFINE o == IF mate[c] = None THEN <<>> ELSE outq[mate[c]]
      <4>1. o \in Seq(Payload) /\ inq[c] \in Seq(Payload) BY <1>t, <1>m, <1>e, <3>4
      <4>2. Head(inq[c]) \in Payload BY <3>2, <3>4, <4>1, HeadTailProperties
      <4>3. hold'[c] = Head(inq[c]) /\ hold'[c] # None /\ inq'[c] = Tail(inq[c]) BY <1>t, <1>e, <3>2, <3>4, <4>2
      <4>4. InFlight(c) = (o \o <<>>) \o inq[c] BY <3>2, <3>4 DEF InFlight
      <4>5. InFlight(c)' = (o \o <<Head(inq[c])>>) \o Tail(inq[c])
        BY <3>1, <3>4, <4>3 DEF InFlight, Chans
      <4> HIDE DEF o
      <4>6. (o \o <<Head(inq[c])>>) \o Tail(inq[c]) = (o \o <<>>) \o inq[c]
        <5>1. inq[c] # <<>> BY <3>2, <3>4
        <5>2. QED BY <4>1, <5>1, TakeUp
      <4>7. InFlight(c)' = InFlight(c) BY <4>4, <4>5, <4>6
      <4>8. QED BY <3>1, <4>7, SamePath, SameDelivered, PathStays
    <3>5. QED BY <3>3, <3>4
  <2>2. CASE WriterSend(e)
    <3>1. UNCHANGED <<owner, mate, ctx, up, inq, hold>> BY <2>2 DEF WriterSend, serveVars
    <3>2. /\ outq[e] # <<>>
          /\ got' = [got EXCEPT ![e] = Append(got[e], Head(outq[e]))] /\ outq' = [outq EXCEPT ![e] = Tail(outq[e])]
      BY <2>2 DEF WriterSend
    <3>3. CASE ~(c \in Chans /\ mate[c] = e)
      <4>1. c \in Chans /\ mate[c] # None => outq'[mate[c]] = outq[mate[c]] /\ got'[mate[c]] = got[mate[c]]
        BY <1>t, <1>m, <3>2, <3>3
      <4>2. QED BY <3>1, <4>1, SamePath, SameFlight, SameDelivered, PathStays
    <3>4. CASE c \in Chans /\ mate[c] = e
      <4> DEFINE b == IF hold[c] = None THEN <<>> ELSE <<hold[c]>>
      <4>1. outq[e] \in Seq(Payload) /\ inq[c] \in Seq(Payload) BY <1>t, <3>4
      <4>2. b \in Seq(Payload)
        <5>1. hold[c] # None => hold[c] \in Payload BY <1>t, <3>4
        <5>2. hold[c] # None => <<hold[c]>> \in Seq(Payload) BY <5>1
        <5>3. QED BY <1>e, <5>2
      <4>3. mate[c] # None BY <1>t, <3>4
      <4>4. InFlight(c) = (outq[e] \o b) \o inq[c] BY <3>4, <4>3 DEF InFlight
      <4>5. outq'[e] = Tail(outq[e]) /\ got'[e] = Append(got[e], Head(outq[e])) BY <1>t, <3>2
      <4>6. InFlight(c)' = (Tail(outq[e]) \o b) \o inq[c] BY <3>1, <3>4, <4>3, <4>5 DEF InFlight, Chans
      <4> HIDE DEF b
      <4>7. /\ (outq[e] \o b) \o inq[c] # <<>> /\ Head((outq[e] \o b) \o inq[c]) = Head(outq[e])
            /\ Tail((outq[e] \o b) \o inq[c]) = (Tail(outq[e]) \o b) \o inq[c]
        <5> DEFINE P == Payload
                   o == outq[e]
                   i == inq[c]
        <5>1. o \in Seq(P) /\ b \in Seq(P) /\ i \in Seq(P) /\ o # <<>> BY <3>2, <4>1, <4>2
        <5> HIDE DEF P, o, i
        <5> DEFINE p == o \o b
        <5>2. p \in Seq(P) /\ p # <<>> /\ Head(p) = Head(o) /\ Tail(p) = Tail(o) \o b BY <5>1, TakeOfPair
        <5> HIDE DEF p
        <5>3. p \o i # <<>> /\ Head(p \o i) = Head(p) /\ Tail(p \o i) = Tail(p) \o i BY <5>1, <5>2, TakeOfPair
        <5>4. p \o i # <<>> /\ Head(p \o i) = Head(o) /\ Tail(p \o i) = (Tail(o) \o b) \o i
          BY <5>2, <5>3, Zenon
        <5>5. QED BY <5>4 DEF p, o, i
      <4>8. Delivered(c) = got[e] /\ Delivered(c)' = got'[e] BY <3>1, <3>4, <4>3 DEF Delivered, Chans
      <4>9. /\ InFlight(c) # <<>> /\ InFlight(c)' = Tail(InFlight(c))
            /\ Delivered(c)' = Append(Delivered(c), Head(InFlight(c)))
        BY <4>4, <4>5, <4>6, <4>7, <4>8
      <4>10. Intact(c)' = Intact(c) BY <3>1, SamePath
      <4>11. Path(c)!Get BY <4>9, <4>10, Zenon DEF Path!Get
      <4>12. QED BY <4>11 DEF Path!Next
    <3>5. QED BY <3>3, <3>4
  <2>3. CASE WriterExit(e)
    <3>1. UNCHANGED <<owner, mate, ctx, up, inq, hold, outq, got>> BY <2>3 DEF WriterExit, serveVars
    <3>2. QED BY <3>1, SamePath, SameFlight, SameDelivered, PathStays
  <2>4. CASE mate[e] # None /\ ReaderPush(e, mate[e])
    <3> DEFINE d == mate[e]
    <3>1. UNCHANGED <<owner, mate, ctx, up, inq, got>> BY <2>4 DEF ReaderPush, serveVars
    <3>2. /\ hold[e] # None /\ d # None
          /\ outq' = [outq EXCEPT ![d] = Append(outq[d], hold[e])] /\ hold' = [hold EXCEPT ![e] = None]
      BY <2>4 DEF ReaderPush
    <3>3. d \in Chans /\ mate[d] = e BY <1>m, <2>4
    <3>m. mate[e] = d OBVIOUS
    <3> HIDE DEF d
    <3>4. CASE c # e
      <4>1. c \in Chans => hold'[c] = hold[c] BY <1>t, <3>2, <3>4
      <4>2. c \in Chans /\ mate[c] # None => mate[c] # d BY <1>m, <3>3, <3>4
      <4>3. c \in Chans /\ mate[c] # None => outq'[mate[c]] = outq[mate[c]] BY <1>t, <1>m, <3>2, <4>2
      <4>4. QED BY <3>1, <4>1, <4>3, SamePath, SameFlight, SameDelivered, PathStays
    <3>5. CASE c = e
      <4>1. outq[d] \in Seq(Payload) /\ inq[c] \in Seq(Payload) /\ hold[c] \in Payload BY <1>t, <3>2, <3>3, <3>5
      <4>2. outq'[d] = Append(outq[d], hold[c]) /\ hold'[c] = None BY <1>t, <3>2, <3>3, <3>5
      <4>3. InFlight(c) = (outq[d] \o <<hold[c]>>) \o inq[c] BY <3>m, <3>2, <3>5 DEF InFlight
      <4>4. InFlight(c)' = (Append(outq[d], hold[c]) \o <<>>) \o inq[c]
        BY <3>1, <3>m, <3>2, <3>5, <4>2 DEF InFlight, Chans
      <4>5. (Append(outq[d], hold[c]) \o <<>>) \o inq[c] = (outq[d] \o <<hold[c]>>) \o inq[c]
        <5> DEFINE P == Payload
                   o == outq[d]
                   i == inq[c]
                   h == hold[c]
        <5>1. o \in Seq(P) /\ i \in Seq(P) /\ h \in P BY <4>1
        <5> HIDE DEF P, o, i, h
        <5>2. (Append(o, h) \o <<>>) \o i = (o \o <<h>>) \o i BY <5>1, PassOn
        <5>3. QED BY <5>2 DEF o, i, h
      <4>6. InFlight(c)' = InFlight(c) BY <4>3, <4>4, <4>5
      <4>7. QED BY <3>1, <4>6, SamePath, SameDelivered, PathStays
    <3>6. QED BY <3>4, <3>5
  <2>5. CASE mate[e] # None /\ ReaderExit(e, mate[e])
    <3> DEFINE d == mate[e]
    <3>1. UNCHANGED <<owner, mate, ctx, up, inq, outq, got>> BY <2>5 DEF ReaderExit, serveVars
    <3>2. hold' = [hold EXCEPT ![e] = None] /\ d # None /\ (hold[e] # None => ctx \/ ~up[d])
      BY <2>5 DEF ReaderExit
    <3>3. d \in Chans BY <1>m, <2>5
    <3>m. mate[e] = d OBVIOUS
    <3> HIDE DEF d
    <3>4. CASE c # e \/ hold[e] = None
      <4>1. c \in Chans => hold'[c] = hold[c] BY <1>t, <3>2, <3>4
      <4>2. QED BY <3>1, <4>1, SamePath, SameFlight, SameDelivered, PathStays
    <3>5. CASE c = e /\ hold[e] # None
      <4>1. outq[d] \in Seq(Payload) /\ inq[c] \in Seq(Payload) /\ hold[c] \in Payload BY <1>t, <3>3, <3>5
      <4>2. InFlight(c) = (outq[d] \o <<hold[c]>>) \o inq[c] BY <3>m, <3>2, <3>5 DEF InFlight
      <4>3. InFlight(c)' = (outq[d] \o <<>>) \o inq[c]
        BY <1>t, <3>1, <3>m, <3>2, <3>5 DEF InFlight, Chans
      <4>4. \E k \in DOMAIN ((outq[d] \o <<hold[c]>>) \o inq[c]) :
              /\ k <= k
              /\ (outq[d] \o <<>>) \o inq[c] = SubSeq((outq[d] \o <<hold[c]>>) \o inq[c], 1, k - 1)
                   \o SubSeq((outq[d] \o <<hold[c]>>) \o inq[c], k + 1, Len((outq[d] \o <<hold[c]>>) \o inq[c]))
        <5> DEFINE P == Payload
                   o == outq[d]
                   i == inq[c]
                   h == hold[c]
        <5>1. o \in Seq(P) /\ i \in Seq(P) /\ h \in P BY <4>1
        <5> HIDE DEF P, o, i, h
        <5> DEFINE q == (o \o <<h>>) \o i
                   k == Len(o) + 1
        <5>2. k \in DOMAIN q /\ k <= k /\ SubSeq(q, 1, k - 1) = o /\ SubSeq(q, k + 1, Len(q)) = i
          BY <5>1, DropHand
        <5>3. o \o <<>> = o BY <5>1, ConcatEmptySeq
        <5> HIDE DEF q, k
        <5>4. k \in DOMAIN q /\ k <= k /\ (o \o <<>>) \o i = SubSeq(q, 1, k - 1) \o SubSeq(q, k + 1, Len(q))
          BY <5>2, <5>3
        <5>5. \E l \in DOMAIN q : l <= l /\ (o \o <<>>) \o i = SubSeq(q, 1, l - 1) \o SubSeq(q, l + 1, Len(q))
          BY <5>4
        <5>6. QED BY <5>5 DEF q, o, i, h
      <4>5. \E j, k \in DOMAIN InFlight(c) :
              j <= k /\ InFlight(c)' = SubSeq(InFlight(c), 1, j - 1) \o SubSeq(InFlight(c), k + 1, Len(InFlight(c)))
        BY <4>2, <4>3, <4>4, Zenon
      <4>6. ~Intact(c) BY <3>m, <3>2, <3>5 DEF Intact
      <4>7. Delivered(c)' = Delivered(c) /\ Intact(c)' = Intact(c) BY <3>1, SamePath, SameDelivered
      <4>8. Path(c)!Lose BY <4>5, <4>6, <4>7, Zenon DEF Path!Lose
      <4>9. QED BY <4>8 DEF Path!Next
    <3>6. QED BY <3>4, <3>5
  <2>6. CASE ClientSends(e)
    <3>1. UNCHANGED <<owner, mate, ctx, up, hold, outq, got>> BY <2>6 DEF ClientSends, serveVars
    <3> DEFINE p == <<e, sent'[e]>>
    <3>2. inq' = [inq EXCEPT ![e] = Append(inq[e], p)] BY <2>6 DEF ClientSends
    <3>3. p \in Payload
      <4>1. sent \in [Chans -> Nat] /\ Chans \subseteq 1..MaxChans BY ChansAre DEF RelayInv, ChanTypes
      <4>2. sent'[e] \in Nat
        <5>1. sent' = [sent EXCEPT ![e] = sent[e] + 1] BY <2>6 DEF ClientSends
        <5>2. sent'[e] = sent[e] + 1 BY <4>1, <5>1
        <5>3. QED BY <4>1, <5>2
      <4>3. QED BY <4>1, <4>2 DEF Payload
    <3> HIDE DEF p
    <3>4. CASE c # e
      <4>1. c \in Chans => inq'[c] = inq[c] BY <1>t, <3>2, <3>4
      <4>2. QED BY <3>1, <4>1, SamePath, SameFlight, SameDelivered, PathStays
    <3>5. CASE c = e
      <4> DEFINE o == IF mate[c] = None THEN <<>> ELSE outq[mate[c]]
                 b == IF hold[c] = None THEN <<>> ELSE <<hold[c]>>
      <4>1. o \in Seq(Payload) /\ inq[c] \in Seq(Payload) BY <1>t, <1>m, <1>e, <3>5
      <4>2. b \in Seq(Payload)
        <5>1. hold[c] # None => hold[c] \in Payload BY <1>t, <3>5
        <5>2. hold[c] # None => <<hold[c]>> \in Seq(Payload) BY <5>1
        <5>3. QED BY <1>e, <5>2
      <4>3. InFlight(c) = (o \o b) \o inq[c] BY <3>5 DEF InFlight
      <4>4. inq'[c] = Append(inq[c], p) BY <1>t, <3>2, <3>5
      <4>5. InFlight(c)' = (o \o b) \o Append(inq[c], p) BY <3>1, <3>5, <4>4 DEF InFlight, Chans
      <4> HIDE DEF o, b
      <4>6. o \o b \in Seq(Payload) BY <4>1, <4>2, ConcatProperties
      <4> DEFINE ob == o \o b
                 f == InFlight(c)
      <4>7. ob \in Seq(Payload) /\ f = ob \o inq[c] /\ f \in Seq(Payload) BY <4>1, <4>3, <4>6, ConcatProperties
      <4>8. InFlight(c)' = Append(f, p)
        <5> HIDE DEF ob
        <5>1. inq[c] \in Seq(Payload) /\ <<p>> \in Seq(Payload) BY <3>3, <4>1
        <5>2. Append(inq[c], p) = inq[c] \o <<p>> BY <3>3, <4>1, AppendIsConcat
        <5>3. ob \o (inq[c] \o <<p>>) = (ob \o inq[c]) \o <<p>> 
          <6> DEFINE P == Payload
                     i == inq[c]
                     w == <<p>>
          <6>1. ob \in Seq(P) /\ i \in Seq(P) /\ w \in Seq(P) BY <4>7, <5>1
          <6> HIDE DEF P, i, w
          <6>2. ob \o (i \o w) = (ob \o i) \o w BY <6>1, ConcatAssociative
          <6>3. QED BY <6>2 DEF i, w
        <5>4. Append(f, p) = f \o <<p>> BY <3>3, <4>7, AppendIsConcat
        <5>5. InFlight(c)' = ob \o Append(inq[c], p) BY <4>5 DEF ob
        <5>6. QED BY <4>7, <5>2, <5>3, <5>4, <5>5
      <4>9. Len(Append(f, p)) = Len(f) + 1 /\ Append(f, p)[Len(Append(f, p))] = p
        <5> HIDE DEF f
        <5>0. p \in Payload /\ f \in Seq(Payload) BY <3>3, <4>7
        <5>1. Len(Append(f, p)) = Len(f) + 1 /\ Append(f, p)[Len(f) + 1] = p BY <5>0, AppendProperties, Zenon
        <5>2. QED BY <5>1
      <4>10. /\ Len(InFlight(c)') = Len(InFlight(c)) + 1
             /\ InFlight(c)'[Len(InFlight(c)')] \in Payload
             /\ InFlight(c)' = Append(InFlight(c), InFlight(c)'[Len(InFlight(c)')])
        BY <3>3, <4>8, <4>9, Zenon
      <4>11. Delivered(c)' = Delivered(c) /\ Intact(c)' = Intact(c) BY <3>1, SamePath, SameDelivered
      <4>12. Path(c)!Put BY <4>10, <4>11, Zenon DEF Path!Put
      <4>13. QED BY <4>12 DEF Path!Next
    <3>6. QED BY <3>4, <3>5
  <2>7. CASE ClientGone(e)
    <3>1. UNCHANGED <<owner, mate, ctx, inq, hold, outq, got>> /\ up' = [up EXCEPT ![e] = FALSE]
      BY <2>7 DEF ClientGone, serveVars, pumpVars
    <3>2. \A d \in Chans : up'[d] => up[d] BY <1>t, <3>1
    <3>3. Intact(c)' => Intact(c) BY <1>m, <3>1, <3>2 DEF Intact, Chans
    <3>4. QED BY <3>1, <3>3, SameFlight, SameDelivered, PathMayBreak
  <2>8. QED BY <1>4, <2>1, <2>2, <2>3, <2>4, <2>5, <2>6, <2>7 DEF PumpStep
<1>5. QED BY <1>1, <1>2, <1>3, <1>4 DEF Next, ServeStep

LEMMA RelayPathInit ==
  ASSUME Init, NEW c \in 1..MaxChans PROVE Path(c)!Init
<1>1. Chans = {} BY DEF Init, Chans
<1>2. InFlight(c) = <<>> /\ Delivered(c) = <<>> BY <1>1 DEF InFlight, Delivered
<1>3. Intact(c) = TRUE BY <1>1 DEF Init, Intact
<1>4. QED BY <1>2, <1>3, Zenon DEF Path!Init

\* Each direction of a relayed pair implements the channel the RPC layer is
\* written for: Serve, bindSlot, forwardBytes' readers and writers may
\* interleave as they like, in any number of pairings.
THEOREM RelayImplementsFifo == Spec => RelayIsFifo
<1>1. Init => \A c \in 1..MaxChans : Path(c)!Init BY RelayPathInit
<1>2. RelayInv /\ [Next]_vars => [\A c \in 1..MaxChans : [Path(c)!Next]_(Path(c)!fifoVars)]_vars
  BY RelayFifoStep
<1>3. QED BY <1>1, <1>2, RelayHolds, PTL DEF Spec, RelayIsFifo

\* The same in the words of FifoChannel: the path of every channel satisfies
\* its whole specification.
THEOREM RelayPathIsFifo == ASSUME NEW c \in 1..MaxChans PROVE Spec => Path(c)!Spec
<1>1. Init => Path(c)!Init BY RelayPathInit
<1>2. RelayInv /\ [Next]_vars => [Path(c)!Next]_(Path(c)!fifoVars) BY RelayFifoStep
<1>3. QED BY <1>1, <1>2, RelayHolds, PTL DEF Spec, Path!Spec
=============================================================================
