------------------------------- MODULE MCRpc -------------------------------
(***************************************************************************)
(* The RPC layer on small instances, and what a comment claims beyond the  *)
(* properties of Rpc.                                                      *)
(***************************************************************************)
EXTENDS Rpc

CONSTANTS c1, c2

Begun == {c \in Calls : cpc[c] # "idle"}

(***************************************************************************)
(* Stories that a run explores side by side, since their product is out of *)
(* reach.  Endings: c1, which may be canceled, expire and fail, with three *)
(* messages in all, on a connection that stays up; and c2, with one        *)
(* request and two responses, on one that either end may close, or whose   *)
(* Serve ctx may end, at any moment.                                       *)
(***************************************************************************)
Endings ==
  \/ Begun \subseteq {c1} /\ ~Faulted /\ sent[c1] + resp[c1] <= 3
  \/ /\ Begun \subseteq {c2} /\ sent[c2] <= 1 /\ resp[c2] <= 2
     /\ serveCancel => ~attachCancel /\ ~sclosed

(***************************************************************************)
(* Returns: c1, whose ctx and connection may end, alone; or c1 together    *)
(* with c2 undisturbed.  Only starting a call, a cancellation and a close  *)
(* are restricted, and FairSpec forces none of them, so the restriction    *)
(* blocks no fair step.                                                    *)
(***************************************************************************)
Returns == c2 \in Begun => ~Faulted /\ ~ctxDone[c1]

\* client.go: "the returned slice is the marshaled protobuf response on
\* success".  invokeUnary never returns OK without the response.
UnaryOkHasResponse ==
  \A c \in Unary : outcome[c] # None /\ outcome[c].code = 0 => outcome[c].data # None
=============================================================================
