------------------------------- MODULE Target -------------------------------
(***************************************************************************)
(* How package peerrpc gets from a URI, a Target or a Builder, with its    *)
(* options, to the configuration Dial and Listen run with.  Text is a      *)
(* sequence of tokens: punctuation is one character, anything else a word. *)
(***************************************************************************)
EXTENDS Integers, Sequences, SequencesExt, FiniteSetsExt

\* A Target: its scheme is a word, the rest text, empty when unset.
NoTarget == [scheme |-> "", signal |-> <<>>, service |-> <<>>, role |-> <<>>, peer |-> <<>>, token |-> <<>>]
Failed == [ok |-> FALSE, target |-> NoTarget]

\* strings.Index: where pat first occurs in s, 0 when it does not.
Index(s, pat) ==
  LET at == {i \in 1..(Len(s) - Len(pat) + 1) : SubSeq(s, i, i + Len(pat) - 1) = pat}
  IN IF at = {} THEN 0 ELSE Min(at)
Upto(s, i) == SubSeq(s, 1, i - 1)
From(s, i) == SubSeq(s, i, Len(s))

\* url.Values: Encode joins the set keys in order, ParseQuery and Get undo it.
Pair(key, v) == IF v = <<>> THEN <<>> ELSE <<"&", key, "=">> \o v
Encode(t) == Pair("as", t.role) \o Pair("peer", t.peer) \o Pair("token", t.token)
Get(q, key) ==
  LET at == Index(q, <<key, "=">>)
      v == From(q, at + 2)
  IN IF at = 0 THEN <<>> ELSE IF Index(v, <<"&">>) = 0 THEN v ELSE Upto(v, Index(v, <<"&">>))

\* Target.String.
String(t) ==
  <<"peerrpc+", t.scheme, ":", "/", "/">> \o t.signal \o <<"/">> \o t.service
    \o (IF Encode(t) = <<>> THEN <<>> ELSE <<"?">> \o Tail(Encode(t)))

\* authority and path+query, split at the first slash.
SplitAuthority(after) ==
  LET slash == Index(after, <<"/">>)
  IN IF slash = 0 THEN <<after, <<>>>> ELSE <<Upto(after, slash), From(after, slash + 1)>>

\* service and query, split at the first question mark.
SplitQuery(path) ==
  LET mark == Index(path, <<"?">>)
  IN IF mark = 0 THEN <<path, <<>>>> ELSE <<Upto(path, mark), From(path, mark + 1)>>

ParseTarget(uri) ==
  LET rest == Tail(uri)
      sep == Index(rest, <<":", "/", "/">>)
      authority == SplitAuthority(From(rest, sep + 3))
      path == SplitQuery(authority[2])
      t == [scheme |-> IF sep = 1 THEN "" ELSE rest[1],
            signal |-> authority[1], service |-> path[1],
            role |-> Get(path[2], "as"), peer |-> Get(path[2], "peer"),
            token |-> Get(path[2], "token")]
  IN IF uri = <<>> \/ Head(uri) # "peerrpc+" \/ sep = 0 THEN Failed
     ELSE IF path[1] = <<>> \/ (t.signal = <<>> /\ t.scheme # "local") THEN Failed
     ELSE [ok |-> TRUE, target |-> t]

-----------------------------------------------------------------------------
\* Options: [kind, value]; a key is an identity, "short" one of the wrong
\* length.  A configuration is what dialConfig and listenConfig share.
Config(t) == [target |-> t, ice |-> "none", timeout |-> "none", token |-> <<>>, identity |-> "none"]

WithToken(cfg, v) == [cfg EXCEPT !.token = v]
WithIdentity(cfg, v) == [cfg EXCEPT !.identity = v]
WithICEServers(cfg, v) == [cfg EXCEPT !.ice = v]
WithNegotiationTimeout(cfg, v) == [cfg EXCEPT !.timeout = v]
Apply(cfg, opt) ==
  CASE opt.kind = "token" -> WithToken(cfg, opt.value)
    [] opt.kind = "identity" -> WithIdentity(cfg, opt.value)
    [] opt.kind = "ice" -> WithICEServers(cfg, opt.value)
    [] opt.kind = "timeout" -> WithNegotiationTimeout(cfg, opt.value)

\* derivePeerID: nothing when the key is absent or has the wrong length.
derivePeerID(key) == IF key \in {"none", "short"} THEN <<>> ELSE <<"ed25519", ":", key>>

\* Faulty variant: the option's token is kept apart from the Target's.
OverrideNoToken(cfg) ==
  IF cfg.target.peer = <<>> THEN [cfg EXCEPT !.target.peer = derivePeerID(cfg.identity)] ELSE cfg

\* The overrides both sides make once the options ran.
Override(cfg) ==
  LET tok == IF cfg.token # <<>> THEN [cfg EXCEPT !.target.token = cfg.token] ELSE cfg
  IN IF tok.target.peer = <<>> THEN [tok EXCEPT !.target.peer = derivePeerID(tok.identity)] ELSE tok

\* DialTarget and ListenTarget up to their core.
DialTarget(t, opts) == Override(FoldLeft(Apply, Config(t), opts))
ListenTarget(t, opts) ==
  LET cfg == Override(FoldLeft(Apply, Config(t), opts))
  IN IF cfg.target.role = <<>> THEN [cfg EXCEPT !.target.role = <<"server">>] ELSE cfg

\* Connect and Listen of the builders: token is a field of the Target there.
Builder(t) == IF t.scheme = "" THEN [t EXCEPT !.scheme = "ws"] ELSE t

\* buildPeerConfig and applyDefaults: the PeerConnection's settings.
PeerConfig(cfg) ==
  [ice |-> IF cfg.ice = "none" THEN "default" ELSE cfg.ice,
   timeout |-> IF cfg.timeout = "none" THEN "10s" ELSE cfg.timeout]

\* resolveProbe: only the two built-in schemes have a resolver.
resolveProbe(t) == t.scheme \in {"local", "ws"}
\* What a resolver and Exchange insist on before anything is dialed.
Resolves(t) == resolveProbe(t) /\ t.service # <<>> /\ (t.scheme = "ws" => t.signal # <<>>)
\* fresh is the uuid a resolver makes up.
PeerIdOf(t, fresh) == IF t.peer = <<>> THEN fresh ELSE t.peer
\* Faulty variant: every Accept uses the Target's id.
AcceptIdPlain(t, fresh) == IF t.peer = <<>> THEN fresh ELSE t.peer

\* Listener.Accept gives each call an id of its own.
AcceptId(t, fresh) == IF t.peer = <<>> THEN fresh ELSE t.peer \o <<"-">> \o fresh

peerRole(t, defaultIfEmpty) ==
  LET r == IF t.role = <<>> THEN defaultIfEmpty ELSE t.role
  IN IF r = <<"server">> THEN "RoleServer" ELSE "RoleClient"

\* What runs: dialTarget switches on the role, Accept insists on RoleServer.
DialFlow(cfg) == IF peerRole(cfg.target, <<"client">>) = "RoleClient" THEN "offer" ELSE "answer"
ListenFlow(cfg) == IF peerRole(cfg.target, <<"client">>) = "RoleServer" THEN "answer" ELSE "error"

-----------------------------------------------------------------------------
(* "The output round-trips through ParseTarget" exactly for the Targets     *)
(* whose signal is a bare authority and whose service has no query mark.    *)
(* A full URL, which the Signal field also accepts, does not come back.     *)
RoundTripsTarget(t) ==
  (ParseTarget(String(t)) = [ok |-> TRUE, target |-> t])
    <=> /\ "/" \notin Range(t.signal) /\ "?" \notin Range(t.service)
        /\ t.service # <<>> /\ (t.signal # <<>> \/ t.scheme = "local")

(* "They are equivalent": the URL, the Target and the Builder style give    *)
(* Dial and Listen the same configuration, and so does a token passed as    *)
(* an option instead of a field; both ends set their PeerConnection up      *)
(* alike; and what ListenTarget's probe lets pass, Dial and Accept resolve. *)
(* A scheme left out is ws for a builder and an error for the others.       *)
SameStyles(t, opts) ==
  LET url == ParseTarget(String(t)).target
      bare == [t EXCEPT !.token = <<>>]
      tok == <<[kind |-> "token", value |-> t.token]>>
  IN ParseTarget(String(t)).ok /\ url = t =>
       /\ IF t.scheme = "" THEN ~resolveProbe(url) /\ Resolves(Builder(t))
          ELSE /\ DialTarget(url, opts) = DialTarget(Builder(t), opts)
               /\ ListenTarget(url, opts) = ListenTarget(Builder(t), opts)
       /\ resolveProbe(url) => Resolves(url)
       /\ PeerConfig(DialTarget(t, opts)) = PeerConfig(ListenTarget(t, opts))
       /\ DialTarget(bare, tok \o opts).target = DialTarget(t, opts).target

(* Whatever ?as= says, Listen answers or fails, and with no hint Dial       *)
(* offers and Listen answers, under ids no two Accepts share.               *)
RolesPair(t, opts) ==
  LET d == DialTarget(t, opts)  l == ListenTarget(t, opts)
  IN /\ ListenFlow(l) = "answer" <=> l.target.role = <<"server">>
     /\ t.role = <<>> => DialFlow(d) = "offer" /\ ListenFlow(l) = "answer"
     /\ AcceptId(l.target, <<"u1">>) # AcceptId(l.target, <<"u2">>)
     /\ AcceptId(l.target, <<"u1">>) # PeerIdOf(d.target, <<"u3">>)
=============================================================================
