------------------------------ MODULE OptionBook ------------------------------
(***************************************************************************)
(* The options of the NIFTY: what the pipeline makes of the order book,    *)
(* greeks and chain messages (app/realtime/pipeline.py), the volume of the *)
(* option candles (candles.py), the OrderBookAggregator of the 3-minute    *)
(* bar (order_book.py) and the throttled chain view (options_chain.py).    *)
(*                                                                         *)
(* Only one side (calls) is modelled: the two never meet before the sums.  *)
(* A strike is its multiple of the step (50 rupees), a price counts        *)
(* quarters of a step.  A leg is abstracted to the fields that it has a    *)
(* value for, an aggregate to its number of samples.  A handler of the     *)
(* pipeline changes the state before it first awaits a send, hence each is *)
(* one step; the scheduler is suspended between the snapshot and the reset.*)
(***************************************************************************)
EXTENDS Integers

CONSTANTS
  Strikes,      \* the strikes that are listed
  Followed,     \* those whose candle is modelled: candles are independent (a bound)
  Spots,        \* the prices of the NIFTY; StartSpot is initial_nifty_price
  StartSpot,
  SubRadius,    \* of the reference maps (subscription radius, 15)
  BookRadius,   \* of update_option (strike_radius, 10)
  EmitRadius,   \* of the chain view and of the snapshot's rows (10)
  MaxVolume,    \* of an option, cumulative (a bound)
  MaxUpdates,   \* order book updates of an option in a bar (a bound)
  NoStrike      \* None

ASSUME OptionAssumption ==
  /\ Strikes \subseteq Nat /\ Followed \subseteq Strikes /\ Spots \subseteq Nat /\ StartSpot \in Spots
  /\ {SubRadius, BookRadius, EmitRadius, MaxVolume, MaxUpdates} \subseteq Nat
  /\ BookRadius <= EmitRadius
  /\ NoStrike \notin Int

VARIABLES
  spot,      \* _last_nifty
  ticked,    \* has the candle of the index a close?
  mapsAt,    \* the ATM _ref_maps was made for; NoStrike before
  legs,      \* options_by_strike: the fields of each leg
  view,      \* option_chain_view; a strike that is left out has no fields
  viewAtm,   \* _last_atm of the builder
  throttled, \* was the view built less than THROTTLE_MS ago?
  book,      \* the samples of each aggregate
  bookAtm,   \* _atm of the aggregator
  open,      \* the options whose candle has an open
  volume,    \* the volume of each candle
  start,     \* _candle_start_volume; -1 for a key it does not have
  emitting,  \* is the scheduler between the snapshot and the reset?
  traded,    \* history: the cumulative volume last seen of each option
  closed,    \* history: the volume of its candles that were closed, until it is blank
  blank,     \* history: the options of which a message lacked the volume
  rows,      \* the samples in the rows of the snapshot that is being sent
  due,       \* history: the order book updates of the bar
  moved      \* history: did the ATM move in this bar, or was the view not around it?

bookVars ==
  << spot, ticked, mapsAt, legs, view, viewAtm, throttled, book, bookAtm, open,
     volume, start, emitting, traded, closed, blank, rows, due, moved >>

feed    == << spot, ticked, mapsAt >>
chain   == << legs, view, viewAtm, throttled >>
ledger  == << book, bookAtm, rows, due >>
candles == << open, volume, start, traded, closed, blank >>

Fields == {"price", "greeks"}

Zero == [s \in Strikes |-> 0]

BookInit ==
  /\ spot = StartSpot /\ ticked = FALSE /\ mapsAt = NoStrike
  /\ legs = [s \in Strikes |-> {}] /\ view = [s \in Strikes |-> {}]
  /\ viewAtm = NoStrike /\ throttled = FALSE
  /\ book = Zero /\ bookAtm = NoStrike
  /\ open = {} /\ volume = [s \in Followed |-> 0]
  /\ start = [s \in Followed |-> -1]
  /\ emitting = FALSE
  /\ traded = volume /\ closed = volume /\ blank = {}
  /\ rows = Zero /\ due = Zero
  /\ moved = FALSE

\* get_atm_strike: Python's round() takes a tie to the even multiple.
Atm(price) ==
  LET below == price \div 4
      rest  == price % 4
  IN  IF rest < 2 \/ (rest = 2 /\ below % 2 = 0) THEN below ELSE below + 1

\* get_strike_range
Around(atm, radius) == {s \in Strikes : atm - radius <= s /\ s <= atm + radius}

(***************************************************************************)
(* The chain view.                                                         *)
(***************************************************************************)

\* build_option_chain
Chain(options, atm) ==
  [s \in Strikes |-> IF s \in Around(atm, EmitRadius) THEN options[s] ELSE {}]

\* Mutant: the view is rebuilt only when the ATM rolls.
RefreshOnRoll(price, force) ==
  IF force \/ Atm(price) # viewAtm
  THEN view' = Chain(legs', Atm(price)) /\ viewAtm' = Atm(price) /\ throttled' = TRUE
  ELSE UNCHANGED << view, viewAtm, throttled >>

\* _refresh_option_chain and maybe_rebuild
Refresh(price, force) ==
  LET first == /\ \E s \in Strikes : legs'[s] # {}
               /\ \A s \in Strikes : view[s] = {}
  IN  IF force \/ first \/ Atm(price) # viewAtm \/ ~throttled
      THEN view' = Chain(legs', Atm(price)) /\ viewAtm' = Atm(price) /\ throttled' = TRUE
      ELSE UNCHANGED << view, viewAtm, throttled >>

ThrottleElapses ==
  /\ throttled
  /\ throttled' = FALSE
  /\ UNCHANGED << legs, view, viewAtm, emitting, moved >>
  /\ UNCHANGED << feed, ledger, candles >>

(***************************************************************************)
(* The volume of a candle: the feed's is cumulative.                       *)
(***************************************************************************)

\* Mutant: the volume a candle starts from is taken once, not for every candle.
StartOfDay(s, cumulative) == IF start[s] = -1 THEN cumulative ELSE start[s]

\* The volume the candle of s starts from, once a message has come.
StartOf(s, cumulative) == IF s \notin open \/ start[s] = -1 THEN cumulative ELSE start[s]

\* _volume_from_candle_start and OHLCV.update, for a message with a volume.
Count(s, cumulative) ==
  LET from == StartOf(s, cumulative)
  IN  /\ open' = open \union {s}
      /\ start' = [start EXCEPT ![s] = from]
      /\ volume' = IF cumulative - from > volume[s]
                   THEN [volume EXCEPT ![s] = cumulative - from] ELSE volume
      /\ traded' = IF cumulative > traded[s]
                   THEN [traded EXCEPT ![s] = cumulative] ELSE traded
      /\ UNCHANGED closed

\* A message of the order book has the cumulative volume, or 0 for one it lacks:
\* _pick_num never returns None.  Messages come in order.
CountOrderBook(s) ==
  IF s \in Followed
  THEN \E cumulative \in {0} \union traded[s]..MaxVolume :
         /\ Count(s, cumulative)
         /\ blank' = IF cumulative < traded[s] THEN blank \union {s} ELSE blank
  ELSE UNCHANGED candles

\* One of the greeks without a volume opens the candle and takes no start.
CountGreeks(s) ==
  \/ UNCHANGED candles
  \/ /\ s \in Followed
     /\ \E cumulative \in traded[s]..MaxVolume : Count(s, cumulative)
     /\ UNCHANGED blank
  \/ /\ s \in Followed
     /\ open' = open \union {s}
     /\ blank' = IF s \in open THEN blank ELSE blank \union {s}
     /\ UNCHANGED << volume, start, traded, closed >>

(***************************************************************************)
(* The order book of the bar.                                              *)
(***************************************************************************)

\* update_option
UpdateOption(s) ==
  /\ due[s] < MaxUpdates
  /\ bookAtm' = Atm(spot)
  /\ book' = IF s \in Around(Atm(spot), BookRadius) THEN [book EXCEPT ![s] = @ + 1] ELSE book
  /\ due' = [due EXCEPT ![s] = @ + 1]
  /\ UNCHANGED rows

\* The ATM of the snapshot: of the chain metrics, which have one if the row of the ATM
\* has data, else of the close of the candle, else of the last update.
SnapshotAtm ==
  IF viewAtm \in Strikes /\ view[viewAtm] # {} THEN viewAtm
  ELSE IF ticked THEN Atm(spot) ELSE bookAtm

\* _selected_strikes
Selected == IF SnapshotAtm = NoStrike THEN {} ELSE Around(SnapshotAtm, EmitRadius)

\* Mutant: the aggregates outlive the snapshot.
ResetNothing == bookAtm' = NoStrike /\ UNCHANGED book

\* The end of snapshot_and_reset
Reset == bookAtm' = NoStrike /\ book' = Zero

(***************************************************************************)
(* The messages.                                                           *)
(***************************************************************************)

\* _on_index of the NIFTY; the reference maps follow at most once a second.
OnNifty(price) ==
  /\ spot' = price
  /\ ticked' = TRUE
  /\ mapsAt' \in {Atm(price)} \union ({mapsAt} \ {NoStrike})
  /\ moved' = (moved \/ Atm(price) # Atm(spot))
  /\ UNCHANGED legs
  /\ Refresh(price, FALSE)
  /\ UNCHANGED emitting /\ UNCHANGED << ledger, candles >>

\* refresh_ref_maps, when the pipeline starts and when the startup gate opens.
RefreshRefMaps ==
  /\ mapsAt' = Atm(spot)
  /\ UNCHANGED << spot, ticked, emitting, moved >> /\ UNCHANGED << chain, ledger, candles >>

\* _option_from_state_by_ref looks for the leg that holds the ref id: one with a price.
Resolved(s) ==
  \/ mapsAt # NoStrike /\ s \in Around(mapsAt, SubRadius)
  \/ "price" \in legs[s]

\* _on_orderbook of an option: its leg replaces the one that was there.
OnOrderBook(s) ==
  /\ Resolved(s)
  /\ UpdateOption(s)
  /\ legs' = [legs EXCEPT ![s] = {"price"}]
  /\ CountOrderBook(s)
  /\ Refresh(spot, FALSE)
  /\ UNCHANGED << feed, emitting, moved >>

\* A message of an option that is not known, but says its strike and its side.
OnOrderBookDirect(s) ==
  /\ ~Resolved(s)
  /\ UpdateOption(s)
  /\ UNCHANGED << emitting, moved >> /\ UNCHANGED << feed, chain, candles >>

\* _on_greeks of an option
OnGreeks(s) ==
  /\ mapsAt # NoStrike /\ s \in Around(mapsAt, SubRadius)
  /\ legs' = [legs EXCEPT ![s] = @ \union {"greeks"}]
  /\ CountGreeks(s)
  /\ Refresh(spot, FALSE)
  /\ UNCHANGED << feed, emitting, moved >> /\ UNCHANGED ledger

\* _on_option_chain: rows for some strikes, and perhaps the exchange's own ATM.
OnOptionChain(received, hint) ==
  /\ legs' = [s \in Strikes |-> IF s \in received THEN Fields ELSE legs[s]]
  /\ Refresh(hint, TRUE)
  /\ moved' = (moved \/ Atm(hint) # Atm(spot))
  /\ UNCHANGED << feed, emitting >> /\ UNCHANGED << ledger, candles >>

(***************************************************************************)
(* The end of a bar (run_interval_scheduler).                              *)
(***************************************************************************)

BarBegins == moved' = (viewAtm \notin {NoStrike, Atm(spot)})

CloseBar ==
  /\ ~emitting
  /\ emitting' = TRUE
  /\ rows' = [s \in Strikes |-> IF s \in Selected THEN book[s] ELSE 0]
  /\ Reset
  /\ due' = Zero
  /\ BarBegins
  /\ UNCHANGED << feed, chain, candles >>

\* candle_board.reset_all(), once the bar has been sent.
ResetBoard ==
  /\ open' = {}
  /\ volume' = [s \in Followed |-> 0]
  /\ ticked' = FALSE
  /\ UNCHANGED << spot, mapsAt, start, traded, blank >> /\ UNCHANGED chain

BarSent ==
  /\ emitting
  /\ emitting' = FALSE
  /\ closed' = [s \in Followed |-> IF s \in blank THEN closed[s] ELSE closed[s] + volume[s]]
  /\ ResetBoard
  /\ rows' = Zero
  /\ UNCHANGED << book, bookAtm, due, moved >>

SkipBar ==
  /\ ~emitting
  /\ Reset
  /\ due' = Zero
  /\ ResetBoard
  /\ BarBegins
  /\ UNCHANGED << emitting, closed, rows >>

BookNext ==
  \/ \E price \in Spots : OnNifty(price)
  \/ RefreshRefMaps
  \/ \E s \in Strikes : OnOrderBook(s) \/ OnOrderBookDirect(s) \/ OnGreeks(s)
  \/ \E received \in SUBSET Strikes, hint \in Spots : OnOptionChain(received, hint)
  \/ ThrottleElapses
  \/ CloseBar \/ BarSent \/ SkipBar

BookSpec == BookInit /\ [][BookNext]_bookVars

\* The NIFTY ticks on, and half a second goes by.
BookFairness == WF_bookVars(\E price \in Spots : OnNifty(price)) /\ WF_bookVars(ThrottleElapses)

BookFairSpec == BookSpec /\ BookFairness

(***************************************************************************)
(* Properties.                                                             *)
(***************************************************************************)

\* The candles of an option do not count a volume twice: together they have no more
\* than was traded, over every reset of the board and both streams that feed it, as
\* long as no message without a volume opens a candle or interrupts the cumulative
\* ones (_volume_from_candle_start).
VolumeOnce == \A s \in Followed \ blank : closed[s] + volume[s] <= traded[s]

\* The order book of a bar in which the ATM stays where the chain view has it has every
\* update that was accepted in the bar: the rows are chosen by the ATM of the chain view, which is
\* cached and comes from other messages than the updates (snapshot_and_reset).
NothingLostAtRest ==
  [][(emitting' /\ ~emitting /\ ~moved) =>
       \A s \in Around(Atm(spot), BookRadius) : rows'[s] = due[s]]_bookVars

\* The chain view catches up: however the ATM moves and the builder throttles, it is
\* again and again just what the legs make around the NIFTY (maybe_rebuild, whose
\* throttle drops a rebuild and leaves none behind to be done).
ViewCatchesUp == []<>(view = Chain(legs, Atm(spot)))

=============================================================================
