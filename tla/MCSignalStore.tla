--------------------------- MODULE MCSignalStore ---------------------------
(***************************************************************************)
(* The store on a small instance: k1 and k3 are two connections of one     *)
(* client, k2 another client's.                                            *)
(***************************************************************************)
EXTENDS SignalStore

CONSTANTS k1, k2, k3, a, b

MCIdOf == [k \in Sockets |-> IF k = k2 THEN b ELSE a]

\* k2 sends enough to overflow an inbox, k1 something its own reconnect k3
\* could hear.
MCMaxMsgs == [k \in Sockets |-> CASE k = k1 -> 1 [] k = k2 -> 3 [] k = k3 -> 0]
=============================================================================
