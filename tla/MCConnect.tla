----------------------------- MODULE MCConnect -----------------------------
(***************************************************************************)
(* Facade with two dialers and one acceptor, or one dialer and two         *)
(* acceptors, all distinct or both dialers under one configured peer_id.    *)
(***************************************************************************)
EXTENDS Facade, TLC

CONSTANTS s1, s2, s3

MCIds == {[s \in {s1, s2, s3} |-> s],
          [s \in {s1, s2, s3} |-> IF s = s3 THEN s3 ELSE None]}
Symmetry == Permutations({s1, s2})
MCRoles == {{s1, s2}, {s3}}
=============================================================================
