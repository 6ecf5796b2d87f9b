------------------------- MODULE MCWsSubscriptions -------------------------
(***************************************************************************)
(* Instances of WsSubscriptions for TLC.                                   *)
(***************************************************************************)
EXTENDS WsSubscriptions

\* No property says anything of a behaviour once diffs have overlapped, which is never
\* forgotten: the states beyond are not explored.  This loses no counterexample of
\* ReplayCompletes either, whose goal includes them.
Uncrossed == ~crossed
=============================================================================
