---------------------------- MODULE MCInstruments ----------------------------
(***************************************************************************)
(* Instances of Instruments for TLC.                                       *)
(***************************************************************************)
EXTENDS Instruments

MCStrikes == {50, 100, 150, 200}
MCPrices  == {99, 125}
MCAssets  == << "TATAMOTORS", "TCS", "TMPV", "WIPRO" >>
MCNifty50 == {"TATAMOTORS", "TCS", "WIPRO"}
MCAliasOf == [s \in {"TATAMOTORS"} |-> "TMPV"]

\* The minimum of tokens sees the first cut, the gate the second; nothing sees the third.
MCCuts ==
  {[strikes |-> {50, 100}, lost |-> {}],
   [strikes |-> MCStrikes, lost |-> {"WIPRO"}],
   [strikes |-> {50, 100, 150}, lost |-> {}]}
=============================================================================
