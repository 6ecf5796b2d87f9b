------------------------------- MODULE MCBars -------------------------------
(***************************************************************************)
(* Instances of Bars for TLC.                                              *)
(***************************************************************************)
EXTENDS Bars

\* The first interval and the last are outside the session.
MCSession == 1..(MaxInterval - 1)
=============================================================================
