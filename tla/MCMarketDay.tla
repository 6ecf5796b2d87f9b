----------------------------- MODULE MCMarketDay -----------------------------
(***************************************************************************)
(* Instances of MarketDay for TLC.                                         *)
(***************************************************************************)
EXTENDS MarketDay, TLC

\* Payloads with rows for all the tables of their topic.
Contract == [traded |-> TRUE, nifty |-> TRUE, expiry |-> TRUE]

MCPayloads ==
  [order_book_3m      |-> {[data |-> TRUE, short |-> FALSE, atm |-> TRUE]},
   futures_3m         |-> {[futures |-> {Contract}, stocks |-> {Contract}]},
   market_ohlc_bundle |-> {[nifty |-> TRUE, spots |-> {[traded |-> TRUE]}]}]

\* Of every topic, with and without rows.
MCAllPayloads ==
  [MCPayloads EXCEPT !.order_book_3m = @ \union {[data |-> FALSE, short |-> FALSE, atm |-> TRUE]}]
  @@ [options_3m |-> {[expiry |-> e, legs |-> {[near |-> TRUE, candle |-> FALSE, quoted |-> TRUE]}] :
                        e \in BOOLEAN},
      ticks      |-> {"event"}]
=============================================================================
