---------------------------- MODULE MCTransport ----------------------------
(***************************************************************************)
(* Transport on small instances.                                           *)
(***************************************************************************)
EXTENDS Transport

CONSTANTS w, x
=============================================================================
