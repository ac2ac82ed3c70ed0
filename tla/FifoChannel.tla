---------------------------- MODULE FifoChannel ----------------------------
(***************************************************************************)
(* What one direction of a transport.Channel promises the RPC layer: an    *)
(* ordered, reliable queue as long as it is up; once it is down, messages  *)
(* may be missing, but never reordered, altered or duplicated.             *)
(***************************************************************************)
EXTENDS Sequences, Integers

CONSTANT Message

VARIABLES
  q,     \* sent and not received
  got,   \* received, in order
  up     \* neither end has been closed

fifoVars == <<q, got, up>>

Init == q = <<>> /\ got = <<>> /\ up = TRUE

\* One message of Message is appended.
Put ==
  /\ Len(q') = Len(q) + 1
  /\ LET m == q'[Len(q')] IN m \in Message /\ q' = Append(q, m)
  /\ UNCHANGED <<got, up>>

Get ==
  /\ q # <<>>
  /\ got' = Append(got, Head(q))
  /\ q' = Tail(q)
  /\ UNCHANGED up

Down == up /\ up' = FALSE /\ UNCHANGED <<q, got>>

\* A contiguous run of undelivered messages disappears.
Lose ==
  /\ ~up
  /\ \E i, j \in DOMAIN q : i <= j /\ q' = SubSeq(q, 1, i - 1) \o SubSeq(q, j + 1, Len(q))
  /\ UNCHANGED <<got, up>>

Next == Put \/ Get \/ Down \/ Lose

Spec == Init /\ [][Next]_fifoVars
=============================================================================
