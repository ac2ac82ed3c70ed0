------------------------------ MODULE MCEdges -------------------------------
(***************************************************************************)
(* The pure parts of the system over bounded inputs: every behaviour picks *)
(* one input of one kind, and the invariants say what the code computes    *)
(* from it.  One kind is the traffic of Chunks, which then takes its steps. *)
(***************************************************************************)
EXTENDS Chunks, Frames, FiniteSets, TLC

CONSTANTS MaxBytes,      \* length of byte strings
          MaxList,       \* length of lists of options, operations, messages
          s1, s2         \* two streams
ASSUME EdgeBounds == MaxBytes \in Nat /\ MaxList \in Nat

I == INSTANCE Interceptors
B == INSTANCE Bridge
A == INSTANCE Auth
T == INSTANCE Target
E == INSTANCE Ice
D == INSTANCE Base58

VARIABLES kind, input

edgeVars == <<kind, input, vars>>
UpTo(S, n) == UNION {[1..m -> S] : m \in 0..n}
Idle == kind = "idle"
Pick(k, x) == kind' = k /\ input' = x /\ UNCHANGED vars
EdgeInit == kind = "idle" /\ input = <<>> /\ Init

\* Keys: leading zeros, and tails of every length with the largest bytes.
PickKey == Idle /\ \E z \in 0..2, t \in UpTo({1, 57, 58, 255}, MaxBytes) : Pick("key", [i \in 1..z |-> 0] \o t)

Signals == {<<>>, <<"host">>, <<"host", ":", "80">>, <<"ws", ":", "/", "/", "host">>}
Services == {<<>>, <<"svc">>, <<"a", "/", "b">>, <<"a", "?", "b">>}
Targets == [scheme : {"", "local", "ws", "tcp"}, signal : Signals, service : Services,
            role : {<<>>, <<"client">>, <<"server">>}, peer : {<<>>, <<"p">>}, token : {<<>>, <<"t">>}]
Options == {[kind |-> "token", value |-> <<"u">>], [kind |-> "identity", value |-> "k"],
            [kind |-> "identity", value |-> "short"], [kind |-> "timeout", value |-> "60s"],
            [kind |-> "ice", value |-> "list"]}
PickTarget == Idle /\ \E t \in Targets, opts \in UpTo(Options, 1) : Pick("target", <<t, opts>>)

Payloads == {<<>>, <<10>>, <<0, 0, 0, 1>>, <<18, 0>>}
PickStream == Idle /\ \E ps \in UpTo(Payloads, MaxList), cut \in 0..(8 * MaxList) : Pick("stream", <<ps, cut>>)
PickHeader == Idle /\ \E h \in {0, 1, 63, 64, 128, 255} \X {0, 3, 4, 255} \X {0, 255} \X {0, 1} : Pick("header", h)
PickProto == Idle /\ \E p \in {<<>>} \cup {<<f>> \o r : f \in {10, 18, 26}, r \in UpTo({0, 1, 255}, MaxBytes + 1)} :
               Pick("proto", p)
Codec == [k \in {"Announce", "Offer", "Answer", "Candidate", "Leave", "Ping", "Future"} |->
            CASE k = "Announce" -> <<10, 1>> [] k = "Offer" -> <<18>> [] k = "Answer" -> <<26, 0>>
              [] k = "Candidate" -> <<34, 2, 3>> [] k = "Leave" -> <<42>> [] k = "Ping" -> <<50>> [] OTHER -> <<58>>]
PickBody == Idle /\ \E s \in {"", "other"}, b \in SUBSET Range(BodyKinds) : Pick("body", [service |-> s, bodies |-> b])
PickSealed == Idle /\ \E a, b \in 1..2, info \in 1..2, t \in UpTo({0, 7, 255}, MaxBytes), c \in 0..8 :
                Pick("sealed", <<a, b, info, t, c>>)

Kv == {[x |-> <<"1">>], [x |-> <<"2">>, y |-> <<"3">>]}
Ops == [do : {"header", "trailer"}, kv : Kv] \cup {[do |-> "send", kv |-> << >>]}
PickScript == Idle /\ \E s \in UpTo(Ops, MaxList) : Pick("script", s)
PickDeadline == Idle /\ \E left \in (-80)..80 : Pick("deadline", left)
Kinds == {"trace", "metrics", "log"}
PickChain == Idle /\ \E side \in {"client", "server"}, is \in UpTo(Kinds, MaxList), code \in {0, 7, -128} :
               Pick("chain", <<side, is, code>>)
PickCalls == Idle /\ \E mode \in {"none", "fresh", "shared"}, is \in UpTo(Kinds, 2), n \in 1..3 :
               Pick("calls", <<mode, is, [i \in 1..n |-> 0]>>)

Answers == [net : {"ok", "cut", "refused"}, status : {200, 400, 404, 500},
            header : {<< >>, [h |-> <<"v">>]}, body : {<<>>, <<0>>, <<5>>, <<256>>, <<260>>, <<B!Junk>>}]
PickAnswer == Idle /\ \E r \in Answers, recvOk, sendOk \in BOOLEAN : Pick("answer", <<recvOk, sendOk, r>>)
Msgs == [flag : {0, 1}, payload : {<<>>, <<9>>, <<8, 8>>}]
PickMessages == Idle /\ \E ms \in UpTo(Msgs, MaxList), cut \in 0..(7 * MaxList) : Pick("messages", <<ms, cut>>)
Specs == {<<"S", ":", "m">>, <<"S", ":", "m", ",", "n">>, <<"S", ":", "n", " ", ",", "n">>, <<"R", ":", "m">>,
          <<"S">>, <<":", "m">>, <<"S", ":">>, <<"S", ":", " ">>}
PickSpecs == Idle /\ \E u \in UpTo(Specs, 2), s \in UpTo(Specs, 1), role \in {"offerer", "answerer", "?"} : Pick("specs", <<u, s, role>>)

Urls == [scheme : {"", "http", "https", "ws", "wss"}, host : {"h"}, path : {"", "/", "/x"},
         query : {<< >>, [token |-> "old"], [room |-> "r"]}]
Headers == {<<>>, <<"Bearer", "t1">>, <<"Bearer", "">>, <<"t1">>}
PickUrl == Idle /\ \E u \in Urls, tok \in {"", "t1", "t2"}, h \in Headers : Pick("url", <<u, tok, h>>)
Jwts == [t1 |-> A!IssueHS256("k1", [sub |-> "s", exp |-> 5]), t2 |-> A!IssueHS256("k1", [sub |-> "s", exp |-> 0]),
         t3 |-> A!IssueHS256("k2", [sub |-> "s", exp |-> 0]),
         t4 |-> [A!IssueHS256("k1", [sub |-> "s", exp |-> 5]) EXCEPT !.claims.exp = 0],
         t5 |-> [header |-> "none", claims |-> [sub |-> "s", exp |-> 0], sig |-> A!Sign("k1", "none", [sub |-> "s", exp |-> 0])],
         t6 |-> A!IssueHS256("k1", [sub |-> "s", exp |-> -1])]
Statics == {<<>>, <<<<"t1", "x">>>>, <<<<"t2", "x">>, <<"t2", "">>>>, <<<<"", "x">>>>, <<<<"t1">>>>}
PickGate == Idle /\ \E secret \in {"", "k1", "k2"}, st \in Statics, now \in 4..6, h \in Headers,
               q \in {<< >>} \cup [{"token"} -> {"t1", "t2", "t3", "t4", "t5", "t6", "zz"}] :
              Pick("gate", <<secret, st, now, [authorization |-> h, query |-> q]>>)
PickTier == Idle /\ \E tier \in 0..4, stun, turn \in BOOLEAN : Pick("tier", <<tier, stun, turn>>)

PickChunks == Idle /\ Pick("chunks", <<>>)
Traffic == kind = "chunks" /\ Next /\ UNCHANGED <<kind, input>>

EdgeNext ==
  \/ PickKey \/ PickTarget \/ PickStream \/ PickHeader \/ PickProto \/ PickBody \/ PickSealed
  \/ PickScript \/ PickDeadline \/ PickChain \/ PickCalls \/ PickAnswer \/ PickMessages \/ PickSpecs
  \/ PickUrl \/ PickGate \/ PickTier \/ PickChunks \/ Traffic
EdgeSpec == EdgeInit /\ [][EdgeNext]_edgeVars

-----------------------------------------------------------------------------
(* What a peer is configured with is what its caller wrote: base58 keys     *)
(* come back, leading zeros kept; Target.String and ParseTarget are inverse  *)
(* exactly for bare authorities, and the URL, Target and Builder styles      *)
(* agree; Dial offers and Listen answers unless ?as= says otherwise, under   *)
(* ids no two Accepts share; and the ICE cascade never goes past its tier.   *)
ConfigurationAgrees ==
  /\ kind = "key" => D!RoundTripsBase58(input)
  /\ kind = "target" => /\ T!RoundTripsTarget(input[1])
                        /\ T!SameStyles(input[1], input[2]) /\ T!RolesPair(input[1], input[2])
  /\ kind = "tier" => E!CascadeBounded(input[1], input[2], input[3])

(* Frames survive every hop: ReadFrame gives back what WriteFrame wrote,     *)
(* wherever the stream is cut, and refuses exactly the announced lengths     *)
(* above MaxFrameSize; stripLengthPrefix is transparent for protobuf frames, *)
(* relayed ones too; a signaling message keeps its body over the WebSocket;  *)
(* Decrypt undoes Encrypt, though not behind transport.Channel.Recv.         *)
FramesTravel ==
  /\ kind = "stream" => FramesSurvive(input[1], input[2])
  /\ kind = "header" => OversizeRefused(input)
  /\ kind = "proto" => PrefixTransparent(input)
  /\ kind = "body" => BodiesSurvive(Codec, "room", input)
  /\ kind = "sealed" => SealedTravels(input[1], input[2], input[3], input[4], input[5])

(* What rides along with a call survives: headers and trailers reach the     *)
(* client as ServerStream's one holder keeps them, whatever the handler's    *)
(* order of SetHeader, SetTrailer and Send; and deadline_ms, rounded and cut *)
(* to 32 bits, never extends the caller's deadline unless it becomes 0,      *)
(* which durationFromMs reads as none, or passed more than 2^31 ms ago.      *)
CallDataSurvives ==
  /\ kind = "script" => I!MetadataArrives(input)
  /\ kind = "deadline" => I!DeadlineNotLater(input, 4)

(* Interceptors run outermost first and observe each call once, under its    *)
(* own code; a server span joins its own call's trace unless the caller      *)
(* reuses a header map, which TraceUnaryClient appends to.                   *)
CallsObserved ==
  /\ kind = "chain" => I!ObservedOnce(input[1], input[2], input[3])
  /\ kind = "calls" => I!TraceJoins(input[1], input[2], input[3])

(* The bridge tells the truth about its upstream up to the edges that        *)
(* BridgeStatus and BridgeStream name, forwards a prefix of a stream, and    *)
(* serves exactly the methods its flags name.                                *)
BridgeTrue ==
  /\ kind = "answer" => B!BridgeStatus(input[1], input[2], input[3])
  /\ kind = "messages" => B!BridgeStream(input[1], input[2])
  /\ kind = "specs" => B!MountedAsNamed(input[1], input[2], input[3])

(* The token given to signal.WS is the one the signal server validates, and  *)
(* the server admits exactly the credentials its flags name, at the expiry   *)
(* second included.                                                          *)
CredentialsExact ==
  /\ kind = "url" => A!TokenArrives(input[1], input[2], input[3])
  /\ kind = "gate" => A!GateExact(input[1], input[2], Jwts, input[3], input[4])
=============================================================================
