--------------------------------- MODULE Ice --------------------------------
(***************************************************************************)
(* peer/ice.go: the tiers of the ICE cascade, 0 unknown, 1 host, 2 srflx,  *)
(* 3 relay, and the server lists that enable them, with the defaults       *)
(* peer.Config fills in.  A list is the sequence of its servers' kinds,    *)
(* Nil the absent list; a URL is there or not.                             *)
(***************************************************************************)
EXTENDS Integers, Sequences, SequencesExt, FiniteSetsExt

Nil == <<"nil">>
\* No server at all: host candidates only.
defaultICEServers == <<>>
\* peer.Config.applyDefaults, as far as the nil list goes.
applyDefaults(servers) == IF servers = Nil THEN defaultICEServers ELSE servers

TierForCandidateType(t) ==
  CASE t = "host" -> 1 [] t \in {"srflx", "prflx"} -> 2 [] t = "relay" -> 3 [] OTHER -> 0

\* Faulty variant: the better of the two.
TierForPairBest(l, r) ==
  Min({TierForCandidateType(l), TierForCandidateType(r)})

TierForPair(l, r) ==
  LET a == TierForCandidateType(l)  b == TierForCandidateType(r)
  IN IF a = 0 \/ b = 0 THEN 0 ELSE IF a > b THEN a ELSE b

ICEServersForCascade(tier, stun, turn) ==
  CASE tier = 1 -> [ok |-> TRUE, servers |-> Nil]
    [] tier = 2 -> [ok |-> stun, servers |-> IF stun THEN <<"stun">> ELSE Nil]
    [] tier = 3 -> [ok |-> stun /\ turn, servers |-> IF stun /\ turn THEN <<"stun", "turn">> ELSE Nil]
    [] OTHER -> [ok |-> FALSE, servers |-> Nil]

\* What pion gathers with a list of servers.
Gathers(servers) ==
  {"host"} \cup (IF "stun" \in Range(servers) THEN {"srflx"} ELSE {})
           \cup (IF "turn" \in Range(servers) THEN {"relay"} ELSE {})

(* Two peers that both ask for a tier connect at that tier or a better one, *)
(* whichever candidates ICE pairs: the nil list of the host tier does not   *)
(* turn into public STUN servers on the way through peer.New.               *)
CascadeBounded(tier, stun, turn) ==
  LET c == ICEServersForCascade(tier, stun, turn)
      types == Gathers(applyDefaults(c.servers))
  IN c.ok => \A l, r \in types :
               /\ TierForPair(l, r) \in 1..tier
               /\ TierForPair(l, r) = TierForPair(r, l)
               /\ TierForPair(l, r) = 1 => l = "host" /\ r = "host"
=============================================================================
