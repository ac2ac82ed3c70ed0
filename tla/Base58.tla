------------------------------- MODULE Base58 -------------------------------
(***************************************************************************)
(* peerrpc/base58.go, which turns an Ed25519 public key into a peer_id.    *)
(* Bytes are 0..255; a character is its digit 0..57 in the alphabet, and   *)
(* Foreign stands for a byte outside it.                                   *)
(***************************************************************************)
EXTENDS Integers, Sequences, SequencesExt

Foreign == 58
LeadingZeros(s) == Len(SelectSeq([i \in DOMAIN s |-> \A j \in 1..i : s[j] = 0], LAMBDA z : z))
Zeros(n) == [i \in 1..n |-> 0]

\* One pass of the carry loop: digits in base `base`, times m, plus a, over the
\* whole buffer from the right.  carry is what the buffer cannot hold.
MulAdd(buf, base, m, a) ==
  LET step[j \in 0..Len(buf)] ==
        IF j = 0 THEN [digits |-> <<>>, carry |-> a]
        ELSE LET k == Len(buf) - j + 1
                 c == step[j - 1].carry + m * buf[k]
             IN [digits |-> <<c % base>> \o step[j - 1].digits, carry |-> c \div base]
  IN step[Len(buf)]

\* Faulty variant: a buffer of 4 digits for 3 bytes, and so on.
EncodedSizeShort(n) == (n * 133) \div 100

EncodedSize(n) == ((n * 138) \div 100) + 1

\* The buffer after every byte of the tail.
encodeTail(tail) ==
  FoldLeft(LAMBDA buf, byt : MulAdd(buf, 58, 256, byt).digits, Zeros(EncodedSize(Len(tail))), tail)

encodeBase58(b) ==
  LET zeros == LeadingZeros(b)
      buf == encodeTail(SubSeq(b, zeros + 1, Len(b)))
  IN IF b = <<>> THEN <<>>
     ELSE Zeros(zeros) \o SubSeq(buf, LeadingZeros(buf) + 1, Len(buf))

\* big.Int: acc * 58 + digit as big-endian bytes without leading zeros.
BigMulAdd(acc, digit) ==
  LET r == MulAdd(<<0>> \o acc, 256, 58, digit).digits
  IN SubSeq(r, LeadingZeros(r) + 1, Len(r))

\* A character outside the alphabet is an error.
decodeBase58(s) ==
  LET zeros == LeadingZeros(s)
      tail == SubSeq(s, zeros + 1, Len(s))
  IN IF Foreign \in Range(s) THEN [ok |-> FALSE, bytes |-> <<>>]
     ELSE [ok |-> TRUE, bytes |-> Zeros(zeros) \o FoldLeft(BigMulAdd, <<>>, tail)]

(* "decode(encode(b)) == b for any b", with leading zero bytes and with a   *)
(* worst-case tail filling the 138/100 buffer: no carry leaves it.          *)
RoundTripsBase58(b) == decodeBase58(encodeBase58(b)) = [ok |-> TRUE, bytes |-> b]
=============================================================================
