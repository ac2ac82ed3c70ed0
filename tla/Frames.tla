------------------------------- MODULE Frames -------------------------------
(***************************************************************************)
(* The byte formats of PeerRPC: the 4-byte big-endian length prefix in its *)
(* four uses (protocol.WriteFrame on a stream, the signaling WebSocket,    *)
(* transport.Channel, crypto.EncryptedChannel) and the conversion of       *)
(* signaling messages to protobuf.  A byte is 0..255; a protobuf encoding  *)
(* is a byte string that starts with the tag of a field, never with 0.     *)
(***************************************************************************)
EXTENDS Integers, Sequences, FiniteSets, SequencesExt

MaxFrameSize == 256 * 1024
\* Lengths of 2^30 and more are one value: TLC's integers are 32 bits wide.
Huge == 2^30
PutUint32(n) == <<n \div 2^24, (n \div 2^16) % 256, (n \div 2^8) % 256, n % 256>>
Uint32(b) == IF b[1] >= 64 THEN Huge ELSE b[1] * 2^24 + b[2] * 2^16 + b[3] * 2^8 + b[4]
Drop(s, n) == SubSeq(s, n + 1, Len(s))
Take(s, n) == SubSeq(s, 1, n)
Res(status, bytes) == [status |-> status, bytes |-> bytes]

\* protocol.WriteFrame.
WriteFrame(payload) == PutUint32(Len(payload)) \o payload

\* Faulty variant: a short header counts as the end of the stream.
ReadFrameLenient(s) ==
  IF Len(s) < 4 THEN Res("EOF", <<>>)
  ELSE LET n == Uint32(s) IN
       IF n = 0 THEN Res("ok", <<>>)
       ELSE IF n > MaxFrameSize THEN Res("oversized", <<>>)
       ELSE IF Len(s) - 4 < n THEN Res(IF Len(s) = 4 THEN "payload EOF" ELSE "payload cut", <<>>)
       ELSE Res("ok", SubSeq(s, 5, n + 4))

\* protocol.ReadFrame on what a reader still holds.  io.ReadFull reports EOF
\* for no byte at all and ErrUnexpectedEOF for some; the second read wraps
\* either, so "payload EOF" still satisfies errors.Is(err, io.EOF).
ReadFrame(s) ==
  IF s = <<>> THEN Res("EOF", <<>>)
  ELSE IF Len(s) < 4 THEN Res("header cut", <<>>)
  ELSE LET n == Uint32(s) IN
       IF n = 0 THEN Res("ok", <<>>)
       ELSE IF n > MaxFrameSize THEN Res("oversized", <<>>)
       ELSE IF Len(s) - 4 < n THEN Res(IF Len(s) = 4 THEN "payload EOF" ELSE "payload cut", <<>>)
       ELSE Res("ok", SubSeq(s, 5, n + 4))
IsEOF(r) == r.status \in {"EOF", "payload EOF"}

\* A read loop: the frames read, what is left, and the last result, once n
\* frames were asked for; an error ends it.
ReadLoop(s) ==
  LET loop[n \in 0..(Len(s) \div 4 + 1)] ==
        IF n = 0 THEN [frames |-> <<>>, rest |-> s, last |-> Res("ok", <<>>)]
        ELSE LET at == loop[n - 1]
                 r == ReadFrame(at.rest)
             IN IF at.last.status # "ok" THEN at
                ELSE IF r.status # "ok" THEN [at EXCEPT !.last = r]
                ELSE [frames |-> Append(at.frames, r.bytes), rest |-> Drop(at.rest, 4 + Len(r.bytes)), last |-> r]
  IN loop
\* An error comes after at most one frame per four bytes.
ReadAll(s) == ReadLoop(s)[Len(s) \div 4 + 1]

-----------------------------------------------------------------------------
\* transport.Channel.
lengthPrefix(payload) == PutUint32(Len(payload)) \o payload

\* Faulty variant: the first four bytes are always a length.
stripLengthPrefixBlind(b) == IF Len(b) < 4 THEN b ELSE Drop(b, 4)

stripLengthPrefix(b) ==
  IF Len(b) < 4 \/ Uint32(b) = 0 \/ 4 + Uint32(b) > Len(b) THEN b
  ELSE SubSeq(b, 5, 4 + Uint32(b))

\* What Recv returns for a frame: directly, and behind a relay, which
\* receives, strips, and sends the rest raw.
Direct(wire) == stripLengthPrefix(wire)
Relayed(wire) == stripLengthPrefix(stripLengthPrefix(wire))

-----------------------------------------------------------------------------
\* Signaling messages: the bodies a Go value sets, in the order of the switch
\* in toProtoMessage, and what the wire keeps of them.
BodyKinds == <<"Announce", "Offer", "Answer", "Candidate", "Leave", "Ping">>
toProtoMessage(msg) ==
  LET set == {i \in DOMAIN BodyKinds : BodyKinds[i] \in msg.bodies}
  IN IF set = {} THEN [ok |-> FALSE]
     ELSE [ok |-> TRUE, pb |-> [service |-> "", body |-> BodyKinds[CHOOSE i \in set : \A j \in set : i <= j]]]
\* A body the switch does not know is nil, and the read pump skips it.
fromProtoMessage(pb) ==
  IF pb.body \in Range(BodyKinds) THEN [ok |-> TRUE, msg |-> [service |-> pb.service, bodies |-> {pb.body}]]
  ELSE [ok |-> FALSE]

\* Faulty variant: an exactly filled message counts as truncated.
readFrameStrict(codec, service, data) ==
  LET n == Uint32(data)
      is == {k \in DOMAIN codec : codec[k] = SubSeq(data, 5, 4 + n)}
  IN IF Len(data) < 4 \/ Len(data) - 4 <= n \/ is = {} THEN [ok |-> FALSE]
     ELSE [ok |-> TRUE, pb |-> [service |-> service, body |-> CHOOSE k \in is : TRUE]]

\* writeFrame and readFrame of both ends: one WebSocket message per frame.
\* Marshal and Unmarshal are given by the codec, a byte string per body.
writeFrame(codec, pb) == PutUint32(Len(codec[pb.body])) \o codec[pb.body]
readFrame(codec, service, data) ==
  LET n == Uint32(data)
      is == {k \in DOMAIN codec : codec[k] = SubSeq(data, 5, 4 + n)}
  IN IF Len(data) < 4 \/ Len(data) - 4 < n \/ is = {} THEN [ok |-> FALSE]
     ELSE [ok |-> TRUE, pb |-> [service |-> service, body |-> CHOOSE k \in is : TRUE]]
\* The server stamps its room's name on what it reads before it forwards it.
SignalHop(codec, room, msg) ==
  LET out == toProtoMessage(msg) IN
  IF ~out.ok THEN [ok |-> FALSE]
  ELSE LET up == readFrame(codec, room, writeFrame(codec, out.pb)) IN
       IF ~up.ok THEN [ok |-> FALSE] ELSE fromProtoMessage(up.pb)

-----------------------------------------------------------------------------
\* crypto.EncryptedChannel.  A key is a small number, 0 one of the wrong
\* length; the nonce is the shared prefix and the 4-byte counter.
TagSize == 16
NewEncryptedChannel(key, prefix) == [ok |-> key # 0, key |-> key, prefix |-> prefix, counter |-> 0]
\* ECDH is symmetric in the two key pairs; HKDF's output depends on info.
DeriveKey(priv, peerPub, info) == [key |-> 1 + priv + peerPub, prefix |-> info]
\* An idealised AEAD: the tag is a function of everything that must match.
Digest(text) ==
  LET sum[n \in 0..Len(text)] == IF n = 0 THEN 0 ELSE 7 * sum[n - 1] + text[n] + 1 IN sum
Tag(ec, tail, text) ==
  [i \in 1..TagSize |-> (i * (ec.key + 3 * ec.prefix + 5 * tail[4]) + Digest(text)[Len(text)]) % 251]
Seal(ec, tail, text) == [i \in DOMAIN text |-> (text[i] + ec.key) % 256] \o Tag(ec, tail, text)
Open(ec, tail, c) ==
  LET text == [i \in 1..(Len(c) - TagSize) |-> (c[i] + 256 - ec.key) % 256]
  IN IF Len(c) < TagSize \/ Seal(ec, tail, text) # c THEN Res("GCM", <<>>) ELSE Res("ok", text)

\* Faulty variant: the length does not cover the nonce tail.
EncryptShort(ec, text) ==
  LET tail == PutUint32(ec.counter + 1)
      c == Seal(ec, tail, text)
  IN PutUint32(Len(c)) \o tail \o c

\* counter is atomic.Uint64; its low 32 bits go into the nonce.
Encrypt(ec, text) ==
  LET tail == PutUint32(ec.counter + 1)
      body == tail \o Seal(ec, tail, text)
  IN PutUint32(Len(body)) \o body

Decrypt(ec, wire) ==
  LET n == Uint32(wire)
      body == SubSeq(wire, 5, 4 + n)
  IN IF Len(wire) < 4 \/ Len(wire) < 4 + n \/ Len(body) < 4 THEN Res("short", <<>>)
     ELSE Open(ec, Take(body, 4), Drop(body, 4))

-----------------------------------------------------------------------------
\* The stream after each WriteFrame.
Written(payloads) ==
  LET out[n \in 0..Len(payloads)] == IF n = 0 THEN <<>> ELSE out[n - 1] \o WriteFrame(payloads[n]) IN out

(* A stream of frames cut anywhere gives back the frames before the cut, in *)
(* order, and the error names the cut: EOF exactly on a frame boundary.  A  *)
(* loop that stops on errors.Is(err, io.EOF) also stops, without noticing   *)
(* the loss, when the cut falls between a length and its payload.           *)
FramesSurvive(payloads, cut) ==
  LET stream == Written(payloads)[Len(payloads)]
      r == ReadAll(Take(stream, cut))
      ends == {Len(Written(payloads)[k]) : k \in 0..Len(payloads)}
      headers == {e + 4 : e \in ends}
  IN cut <= Len(stream) =>
       /\ \E n \in 0..Len(payloads) : r.frames = Take(payloads, n)
                                       /\ Len(Written(payloads)[n]) <= cut
                                       /\ n < Len(payloads) => cut < Len(Written(payloads)[n + 1])
       /\ (r.last.status = "EOF") <=> (cut \in ends)
       /\ IsEOF(r.last) <=> (cut \in ends \cup headers)

(* An announced length above MaxFrameSize is refused before anything is     *)
(* allocated for it, and one of exactly MaxFrameSize is not.                *)
OversizeRefused(header) == (ReadFrame(header).status = "oversized") <=> (Uint32(header) > MaxFrameSize)

(* A protobuf frame survives Recv whether it came prefixed, from an older   *)
(* sender raw, or through a relay that had already stripped it; an empty    *)
(* one does not: its prefix is delivered as the message.                    *)
PrefixTransparent(proto) ==
  /\ Direct(lengthPrefix(proto)) = (IF proto = <<>> THEN <<0, 0, 0, 0>> ELSE proto)
  /\ Relayed(lengthPrefix(proto)) = Direct(lengthPrefix(proto))
  /\ Direct(proto) = proto

(* A signaling message with one body reaches the other peer as it was, with *)
(* the room's name; one with several arrives with one of them, one with     *)
(* none is refused.                                                         *)
BodiesSurvive(codec, room, msg) ==
  LET got == SignalHop(codec, room, msg) IN
  /\ got.ok <=> msg.bodies # {}
  /\ got.ok => /\ got.msg.service = room /\ got.msg.bodies \subseteq msg.bodies
               /\ Cardinality(msg.bodies) = 1 => got.msg.bodies = msg.bodies

(* Whatever two key pairs derive, Decrypt undoes Encrypt under the same     *)
(* info only.  "Ready to send through SendRaw" is not the whole story: Recv *)
(* strips the prefix that Decrypt insists on, so a message decrypts only    *)
(* after the receiver puts a length back, and behind a relay, which strips  *)
(* twice, not even then.                                                    *)
SealedTravels(a, b, info, text, counter) ==
  LET ka == DeriveKey(a, b, info)  kb == DeriveKey(b, a, info)  kc == DeriveKey(b, a, info + 1)
      ec == [NewEncryptedChannel(ka.key, ka.prefix) EXCEPT !.counter = counter]
      wire == Encrypt(ec, text)
  IN /\ Decrypt(NewEncryptedChannel(kb.key, kb.prefix), wire) = Res("ok", text)
     /\ Decrypt(NewEncryptedChannel(kc.key, kc.prefix), wire).status # "ok"
     /\ Decrypt(ec, Direct(wire)).status # "ok"
     /\ Decrypt(ec, lengthPrefix(Direct(wire))) = Res("ok", text)
     /\ counter + 1 <= Len(text) + TagSize => Decrypt(ec, lengthPrefix(Relayed(wire))).status # "ok"
=============================================================================
