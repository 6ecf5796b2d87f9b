---------------------------- MODULE MCWsManager ----------------------------
(***************************************************************************)
(* Instances of WsManager for TLC.                                         *)
(***************************************************************************)
EXTENDS WsManager, TLC

\* Tasks and sockets are only ever compared, so they may be permuted where no
\* liveness property is checked.
Symmetry == Permutations(Slots) \union Permutations(Sockets)
=============================================================================
