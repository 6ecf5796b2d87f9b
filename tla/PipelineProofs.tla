---------------------------- MODULE PipelineProofs ----------------------------
(***************************************************************************)
(* Proofs about the two models of the realtime pipeline.                   *)
(*                                                                         *)
(* Bars, for any number of intervals and ticks, any session and any cut of *)
(* the emitted ids: the NIFTY bars are a series of bars (BarFeed), no tick *)
(* counts in two of the bars of a candle, and as long as nothing slips the *)
(* bars are of their own intervals and none is missing.                    *)
(*                                                                         *)
(* OptionBook, for any strikes, prices and radii: the candles of an option *)
(* count no volume twice, and the order book of a bar in which the ATM     *)
(* stays has every update of the bar.                                      *)
(***************************************************************************)
EXTENDS Bars, OptionBook, FiniteSetTheorems, TLAPS

Bar    == [Candles -> SUBSET Ticks]
Boards == {"future", "option", "spot", "index"}

(***************************************************************************)
(* The inductive invariant.                                                *)
(***************************************************************************)

\* The clock is at most one interval behind where it was, and not after a restart.
ClockInv == now = high \/ (now + 1 = high /\ upset = "clock")

\* The bars were built before now, before the bar recorded last, and before the one that
\* the scheduler will wake up for.
OrderInv ==
  /\ \A b \in Built : b < high
  /\ last # Never => last < high /\ \A b \in Built : b <= last
  /\ (last = Never /\ Built # {}) => upset = "restart"
  /\ pc = Asleep =>
       /\ target > 0
       /\ last # Never => last < target
       /\ last = Never => \A b \in Built : b + 1 < target
  /\ pc = 0 => last = Never
  /\ pc \in Awaits => last # Never

\* Ticks that gather are in no NIFTY bar yet; those on the board are in no bar but the
\* one that is being emitted, until the broadcast.
FreshInv ==
  /\ \A b \in Built, c \in Candles : bars[b][c] \subseteq Handled
  /\ \A b \in Built : bars[b]["nifty"] \intersect agg = {}
  /\ \A b \in Built, k \in Boards :
       bars[b][k] \intersect board # {} => b = current /\ pc \in 1..Broadcast

IInv == TypeOK /\ ClockInv /\ OrderInv /\ FreshInv /\ TickInOneBar

(***************************************************************************)
(* What the steps of the scheduler do.                                     *)
(***************************************************************************)

LEMMA BarsConstants ==
  /\ Intervals = 0..MaxInterval /\ MaxInterval \in Nat /\ Never = MaxInterval + 1
  /\ Never \notin Intervals /\ MaxTicks \in Nat
  /\ Awaits = 1..6 /\ Asleep = 7 /\ Broadcast = 5 /\ OpenBroadcast = 6
  /\ OptionsEnqueue = 3 /\ MarketEnqueue = 4
BY ConstantsAssumption DEF ConstantsAssumption, Intervals, Never, Awaits, Asleep, Broadcast,
   OpenBroadcast, OptionsEnqueue, MarketEnqueue

LEMMA RecordTypes ==
  ASSUME TypeOK, NEW b \in Intervals, Record(b)
  PROVE  /\ last' = b /\ ids' \subseteq Intervals /\ Cardinality(ids') <= IdsMax
         /\ ids' \subseteq ids \union {b}
<1>. USE ConstantsAssumption DEF ConstantsAssumption
<1>. DEFINE more == ids \union {b}
<1>1. last' = b /\ more \subseteq Intervals
  BY DEF Record, TypeOK
<1>2. IsFiniteSet(Intervals)
  BY FS_Interval DEF Intervals
<1>3. IsFiniteSet(more) /\ Cardinality(more) \in Nat
  BY <1>1, <1>2, FS_Subset, FS_CardinalityType
<1>4. CASE Cardinality(more) > IdsMax
  <2>1. PICK kept \in SUBSET more : Cardinality(kept) = IdsKept /\ ids' = kept
    BY <1>4 DEF Record
  <2>. QED BY <1>1, <2>1
<1>5. CASE ~(Cardinality(more) > IdsMax)
  <2>1. ids' = more
    BY <1>5 DEF Record
  <2>. QED BY <1>1, <1>3, <1>5, <2>1
<1>. QED BY <1>4, <1>5

\* The bar that closes is later than every bar that was built.
LEMMA ClosedIsNew ==
  ASSUME IInv, Awake, ~Duplicate
  PROVE  /\ Closed \in Intervals /\ Closed < high /\ Closed + 1 = now
         /\ \A b \in Built : b < Closed
         /\ bars[Closed] = NoBar
<1>1. now \in Nat /\ high \in Nat /\ target \in Nat /\ now <= high /\ now <= MaxInterval
  BY BarsConstants DEF IInv, TypeOK
<1>2. pc = Asleep /\ now >= target /\ target > 0
  BY DEF Awake, IInv, OrderInv
<1>3. Closed \in Intervals /\ Closed < high /\ Closed + 1 = now /\ Closed \in Nat
  BY <1>1, <1>2, BarsConstants DEF Closed
<1>4. Built \subseteq Intervals /\ \A b \in Built : b \in Nat
  BY BarsConstants DEF Built
<1>5. Closed # last
  BY DEF Duplicate
<1>6. ASSUME NEW b \in Built PROVE b < Closed
  <2>1. CASE last = Never
    <3>1. b + 1 < target
      BY <1>2, <2>1 DEF IInv, OrderInv
    <3>. QED BY <1>1, <1>2, <1>3, <1>4, <3>1
  <2>2. CASE last # Never
    <3>1. last < target /\ b <= last /\ last \in Nat
      BY <1>2, <2>2, BarsConstants DEF IInv, OrderInv, TypeOK
    <3>. QED BY <1>1, <1>2, <1>3, <1>4, <1>5, <3>1
  <2>. QED BY <2>1, <2>2
<1>7. bars[Closed] = NoBar
  <2>1. Closed \notin Built
    BY <1>3, <1>6
  <2>. QED BY <1>3, <2>1 DEF Built
<1>. QED BY <1>3, <1>6, <1>7

\* Running from one await to another changes the bar in hand only: it may take in more
\* of the board, which is emptied with the broadcast.
LEMMA RunEffect ==
  ASSUME IInv, NEW bar \in Bar, NEW i \in 0..6, NEW j \in (i + 1)..7, Run(bar, i, j),
         current' \in Intervals
  PROVE  /\ bars' \in [Intervals -> Bar \union {NoBar}]
         /\ Built' = Built \union {current'} /\ NoBar \notin Bar
         /\ \A b \in Intervals : b # current' => bars'[b] = bars[b]
         /\ bars'[current'] \in Bar /\ bars'[current']["nifty"] = bar["nifty"]
         /\ \A c \in {"nifty", "index", "future"} : bars'[current'][c] = bar[c]
         /\ \A k \in Candles : bars'[current'][k] \subseteq bar[k] \union board
         /\ i = 6 => bars'[current'] = bar
         /\ (board' = board /\ (j <= 5 \/ i = 6)) \/ board' = {}
         /\ (pc' = Asleep /\ target' = now + 1) \/ (pc' = j /\ j <= 6 /\ target' = target)
         /\ db_queue' \in {"room", "full"} /\ flushing' \in BOOLEAN
<1>. DEFINE new == Reread(bar, i, j)
<1>1. /\ bars \in [Intervals -> Bar \union {NoBar}] /\ board \subseteq Ticks
      /\ NoBar \notin Bar
  BY NoBarAssumption, BarsConstants DEF IInv, TypeOK, Bar, Handled, Ticks
<1>2. \A kind : Of(kind, board) \subseteq board
  BY DEF Of
<1>3. /\ bars' = [bars EXCEPT ![current'] = new]
      /\ board' = IF i < 6 /\ 6 <= j THEN {} ELSE board
      /\ IF j = Asleep THEN Sleep ELSE pc' = j /\ UNCHANGED target
      /\ db_queue' \in {"room", "full"} /\ flushing' \in BOOLEAN
  BY BarsConstants DEF Run, Suspend, IInv, TypeOK
<1>4. /\ new = [c \in Candles |->
                 CASE c = "option" /\ UseDatabase /\ i < OptionsEnqueue /\ OptionsEnqueue <= j
                        -> Of("option", board)
                   [] c = "spot" /\ UseDatabase /\ i < MarketEnqueue /\ MarketEnqueue <= j
                        -> Of("spot", board)
                   [] OTHER -> bar[c]]
  BY DEF Reread
<1>. HIDE DEF new
<1>5. \A c \in Candles : new[c] \in {bar[c], Of("option", board), Of("spot", board)}
  BY <1>4
<1>6. \A c \in Candles : bar[c] \in SUBSET Ticks
  BY DEF Bar
<1>7. new \in Bar
  <2>1. \A c \in Candles : new[c] \in SUBSET Ticks
    BY <1>1, <1>2, <1>5, <1>6
  <2>2. new = [c \in Candles |-> new[c]]
    BY <1>4
  <2>. QED BY <2>1, <2>2 DEF Bar
<1>8. \A c \in Candles : new[c] \subseteq bar[c] \union board
  BY <1>2, <1>5
<1>9. \A c \in {"nifty", "index", "future"} : new[c] = bar[c]
  BY <1>4 DEF Candles
<1>10. i = 6 => new = bar
  <2>. SUFFICES ASSUME i = 6 PROVE new = bar
    OBVIOUS
  <2>1. ~(i < OptionsEnqueue) /\ ~(i < MarketEnqueue)
    BY BarsConstants
  <2>2. \A c \in Candles : new[c] = bar[c]
    BY <1>4, <2>1
  <2>. QED BY <1>7, <2>2 DEF Bar
<1>11. /\ bars'[current'] = new /\ \A b \in Intervals : b # current' => bars'[b] = bars[b]
       /\ bars' \in [Intervals -> Bar \union {NoBar}]
  BY <1>1, <1>3, <1>7
<1>12. Built' = Built \union {current'}
  BY <1>1, <1>7, <1>11 DEF Built
<1>13. (pc' = Asleep /\ target' = now + 1) \/ (pc' = j /\ j <= 6 /\ target' = target)
  BY <1>3, BarsConstants DEF Sleep
<1>14. (board' = board /\ (j <= 5 \/ i = 6)) \/ board' = {}
  BY <1>3
<1>. QED BY <1>1, <1>3, <1>7, <1>8, <1>9, <1>10, <1>11, <1>12, <1>13, <1>14

\* Such a run keeps the ticks apart, if they were.
LEMMA RunKeepsApart ==
  ASSUME IInv, NEW bar \in Bar, NEW i \in 0..6, NEW j \in (i + 1)..7, Run(bar, i, j),
         current' \in Intervals, arrived' = arrived,
         \A c \in Candles : bar[c] \subseteq Handled,
         \A b \in Built, k \in Boards : b # current' => bars[b][k] \intersect (board \union bar[k]) = {},
         i = 6 => \A k \in Boards : bar[k] \intersect board = {}
  PROVE  /\ board' \subseteq Handled
         /\ \A b \in Built', c \in Candles : bars'[b][c] \subseteq Handled
         /\ \A b \in Built', k \in Boards :
              bars'[b][k] \intersect board' # {} => b = current' /\ pc' \in 1..Broadcast
         /\ TickInOneBar'
<1>1. /\ Built' = Built \union {current'}
      /\ \A b \in Intervals : b # current' => bars'[b] = bars[b]
      /\ \A k \in Candles : bars'[current'][k] \subseteq bar[k] \union board
      /\ i = 6 => bars'[current'] = bar
      /\ (board' = board /\ (j <= 5 \/ i = 6)) \/ board' = {}
      /\ (pc' = Asleep /\ target' = now + 1) \/ (pc' = j /\ j <= 6 /\ target' = target)
  BY RunEffect
<1>2. board \subseteq Handled /\ Built \subseteq Intervals /\ Boards \subseteq Candles
      /\ \A b \in Built, c \in Candles : bars[b][c] \subseteq Handled
  BY DEF IInv, TypeOK, FreshInv, Built, Boards, Candles
<1>3. \A b \in Built' : b = current' \/ (b \in Built /\ b # current' /\ bars'[b] = bars[b])
  BY <1>1, <1>2
<1>4. board' \subseteq Handled
  BY <1>1, <1>2
<1>5. \A b \in Built', c \in Candles : bars'[b][c] \subseteq Handled
  BY <1>1, <1>2, <1>3
<1>6. ASSUME NEW b \in Built', NEW k \in Boards, bars'[b][k] \intersect board' # {}
      PROVE  b = current' /\ pc' \in 1..Broadcast
  <2>1. board' = board /\ (j <= 5 \/ i = 6)
    BY <1>1, <1>6
  <2>2. b = current'
    BY <1>3, <1>6, <2>1
  <2>3. i # 6
    BY <1>1, <1>6, <2>1, <2>2
  <2>4. j \in 1..5 /\ j # Asleep
    BY <2>1, <2>3, BarsConstants
  <2>5. CASE pc' = j
    BY <2>2, <2>4, <2>5, BarsConstants
  <2>6. CASE pc' # j
    BY RunEffect, <2>4, <2>6, BarsConstants DEF Run, Suspend
  <2>. QED BY <2>5, <2>6
<1>7. TickInOneBar'
  <2>1. ASSUME NEW b \in Built', NEW c \in Built', b # c, NEW k \in Boards
        PROVE  bars'[b][k] \intersect bars'[c][k] = {}
    <3>1. CASE b # current' /\ c # current'
      BY <1>3, <2>1, <3>1 DEF IInv, TickInOneBar, Boards
    <3>2. CASE b = current'
      BY <1>1, <1>2, <1>3, <2>1, <3>2
    <3>3. CASE c = current'
      BY <1>1, <1>2, <1>3, <2>1, <3>3
    <3>. QED BY <3>1, <3>2, <3>3
  <2>. QED BY <2>1 DEF TickInOneBar, Boards
<1>. QED BY <1>4, <1>5, <1>6, <1>7

(***************************************************************************)
(* The steps.                                                              *)
(***************************************************************************)

\* A tick is numbered after all that were handled.
LEMMA TickIsNew ==
  ASSUME IInv, NEW kind \in Kinds, Tick(kind)
  PROVE  \E t \in Ticks :
           /\ t \notin Handled /\ Handled' = Handled \union {t}
           /\ \E n \in 0..MaxTicks : arrived' \in [1..n -> [kind : Kinds, interval : Intervals]]
           /\ board' = board \union {t}
           /\ agg' = IF kind = "index" THEN agg \union {t} ELSE agg
<1>1. PICK n \in 0..MaxTicks : arrived \in [1..n -> [kind : Kinds, interval : Intervals]]
  BY DEF IInv, TypeOK
<1>2. Handled = 1..n /\ n \in Nat
  BY <1>1, BarsConstants DEF Handled
<1>3. Cardinality(Handled) = n
  BY <1>2, FS_Interval
<1>4. n < MaxTicks
  BY <1>3 DEF Tick
<1>5. n + 1 \in Ticks /\ n + 1 \notin Handled /\ Handled \union {n + 1} = 1..(n + 1)
        /\ n + 1 \in 0..MaxTicks
  BY <1>2, <1>4, BarsConstants DEF Ticks
<1>6. /\ arrived' = [x \in Handled \union {n + 1} |->
                       IF x = n + 1 THEN [kind |-> kind, interval |-> now] ELSE arrived[x]]
      /\ board' = board \union {n + 1}
      /\ agg' = IF kind = "index" THEN agg \union {n + 1} ELSE agg
  BY <1>3 DEF Tick
<1>7. now \in Intervals
  BY DEF IInv, TypeOK
<1>8. arrived' \in [1..(n + 1) -> [kind : Kinds, interval : Intervals]]
  BY <1>1, <1>2, <1>5, <1>6, <1>7
<1>9. Handled' = Handled \union {n + 1}
  BY <1>6 DEF Handled
<1>. QED BY <1>5, <1>6, <1>8, <1>9

LEMMA TickKeeps == ASSUME IInv, NEW kind \in Kinds, Tick(kind) PROVE IInv'
<1>1. PICK t \in Ticks :
         /\ t \notin Handled /\ Handled' = Handled \union {t}
         /\ \E n \in 0..MaxTicks : arrived' \in [1..n -> [kind : Kinds, interval : Intervals]]
         /\ board' = board \union {t}
         /\ agg' = IF kind = "index" THEN agg \union {t} ELSE agg
  BY TickIsNew
<1>2. UNCHANGED << now, high, pc, target, current, last, ids, bars, dbVars, slipped, upset >>
  BY DEF Tick
<1>3. Built' = Built
  BY <1>2 DEF Built
<1>4. TypeOK'
  BY <1>1, <1>2 DEF IInv, TypeOK, dbVars
<1>5. ClockInv' /\ OrderInv' /\ TickInOneBar'
  BY <1>2, <1>3 DEF IInv, ClockInv, OrderInv, TickInOneBar
<1>6. \A b \in Built, c \in Candles : bars[b][c] \subseteq Handled /\ t \notin bars[b][c]
  BY <1>1 DEF IInv, FreshInv
<1>7. Boards \subseteq Candles /\ "nifty" \in Candles
  BY DEF Boards, Candles
<1>8. \A b \in Built : bars[b]["nifty"] \intersect agg' = {}
  BY <1>1, <1>6, <1>7 DEF IInv, FreshInv
<1>9. \A b \in Built, k \in Boards : bars[b][k] \intersect board' # {} => bars[b][k] \intersect board # {}
  BY <1>1, <1>6, <1>7
<1>10. FreshInv'
  BY <1>1, <1>2, <1>3, <1>6, <1>8, <1>9 DEF IInv, FreshInv
<1>. QED BY <1>4, <1>5, <1>10 DEF IInv

LEMMA BoundaryKeeps == ASSUME IInv, Boundary PROVE IInv'
<1>1. now < MaxInterval /\ now' = now + 1 /\ high' = (IF now + 1 > high THEN now + 1 ELSE high)
      /\ UNCHANGED << arrived, agg, board, pc, target, current, last, ids, bars, dbVars, slipped, upset >>
  BY DEF Boundary
<1>2. now \in Nat /\ high \in Nat /\ now <= high /\ high <= MaxInterval
  BY BarsConstants DEF IInv, TypeOK
<1>3. now' \in Intervals /\ high' \in Intervals /\ now' <= high' /\ high <= high' /\ now' = high'
  BY <1>1, <1>2, BarsConstants DEF IInv, ClockInv
<1>4. Built' = Built /\ Handled' = Handled /\ Built \subseteq Nat
  BY <1>1, BarsConstants DEF Built, Handled
<1>5. TypeOK'
  BY <1>1, <1>3, <1>4 DEF IInv, TypeOK, dbVars
<1>6. OrderInv'
  <2>1. last # Never => last \in Nat
    BY BarsConstants DEF IInv, TypeOK
  <2>. QED BY <1>1, <1>2, <1>3, <1>4, <2>1, BarsConstants DEF IInv, OrderInv
<1>. QED BY <1>1, <1>3, <1>4, <1>5, <1>6 DEF IInv, ClockInv, FreshInv, TickInOneBar

LEMMA StepBackKeeps == ASSUME IInv, StepBack PROVE IInv'
<1>1. now = high /\ now > 0 /\ now' = now - 1 /\ slipped' = TRUE /\ upset' = "clock"
      /\ upset # "restart"
      /\ UNCHANGED << high, arrived, agg, board, pc, target, current, last, ids, bars, dbVars >>
  BY DEF StepBack
<1>2. now \in Nat /\ now <= MaxInterval
  BY BarsConstants DEF IInv, TypeOK
<1>3. now' \in Intervals /\ now' <= high' /\ now' + 1 = high'
  BY <1>1, <1>2, BarsConstants
<1>4. Built' = Built /\ Handled' = Handled
  BY <1>1 DEF Built, Handled
<1>5. TypeOK'
  BY <1>1, <1>3, <1>4 DEF IInv, TypeOK, dbVars
<1>6. OrderInv'
  BY <1>1, <1>4 DEF IInv, OrderInv
<1>. QED BY <1>1, <1>3, <1>4, <1>5, <1>6 DEF IInv, ClockInv, FreshInv, TickInOneBar

\* The scheduler goes to sleep, and everything else that is said of the bars stays.
LEMMA SleepKeeps ==
  ASSUME IInv, Sleep, UNCHANGED << now, high, arrived, bars, dbVars, upset >>,
         agg' \subseteq agg, board' \subseteq board, pc \notin 1..Broadcast,
         current' \in Intervals, ids' \subseteq Intervals, Cardinality(ids') <= IdsMax,
         slipped' \in BOOLEAN,
         \/ last' = last /\ (last = Never => now = high \/ Built = {})
         \/ last' \in Intervals /\ last' < high /\ last' <= now /\ \A b \in Built : b <= last'
  PROVE  IInv'
<1>1. pc' = Asleep /\ target' = now + 1
  BY DEF Sleep
<1>2. now \in Nat /\ high \in Nat /\ now <= high /\ high <= MaxInterval /\ high <= now + 1
  BY BarsConstants DEF IInv, TypeOK, ClockInv
<1>3. Built' = Built /\ Handled' = Handled /\ Built \subseteq Nat
  BY BarsConstants DEF Built, Handled
<1>4. TypeOK'
  <2>1. target' \in 0..(MaxInterval + 1) /\ pc' \in Awaits \union {0, Asleep}
    BY <1>1, <1>2, BarsConstants
  <2>2. agg' \subseteq Handled' /\ board' \subseteq Handled'
    BY <1>3 DEF IInv, TypeOK
  <2>3. last' \in Intervals \union {Never}
    BY DEF IInv, TypeOK
  <2>. QED BY <2>1, <2>2, <2>3 DEF IInv, TypeOK, dbVars
<1>5. OrderInv'
  <2>1. CASE last' = last
    <3>1. last # Never => last \in Nat /\ last < high
      BY BarsConstants DEF IInv, TypeOK, OrderInv
    <3>2. \A b \in Built : b < high /\ b \in Nat
      BY <1>3 DEF IInv, OrderInv
    <3>3. last' # Never => last' < target'
      BY <1>1, <1>2, <2>1, <3>1
    <3>4. last' = Never => \A b \in Built : b + 1 < target'
      BY <1>1, <1>2, <2>1, <3>2, BarsConstants
    <3>. QED BY <1>1, <1>2, <1>3, <2>1, <3>3, <3>4, BarsConstants DEF IInv, OrderInv
  <2>2. CASE last' \in Intervals /\ last' < high /\ last' <= now /\ \A b \in Built : b <= last'
    <3>1. last' # Never /\ last' \in Nat
      BY <2>2, BarsConstants
    <3>. QED BY <1>1, <1>2, <1>3, <2>2, <3>1, BarsConstants DEF IInv, OrderInv
  <2>. QED BY <2>1, <2>2
<1>6. FreshInv'
  <2>1. \A b \in Built, k \in Boards : bars[b][k] \intersect board = {}
    BY DEF IInv, FreshInv
  <2>. QED BY <1>3, <2>1 DEF IInv, FreshInv
<1>. QED BY <1>3, <1>4, <1>5, <1>6 DEF IInv, ClockInv, TickInOneBar

LEMMA GateOpensKeeps == ASSUME IInv, GateOpens PROVE IInv'
<1>1. /\ pc = 0 /\ Sleep
      /\ UNCHANGED << now, high, arrived, agg, board, current, last, ids, bars, dbVars, upset >>
      /\ slipped' = (slipped \/ board # {})
  BY DEF GateOpens
<1>2. slipped' \in BOOLEAN
  BY <1>1
<1>3. last = Never => now = high \/ Built = {}
  BY DEF IInv, OrderInv, ClockInv
<1>4. pc \notin 1..Broadcast /\ current \in Intervals /\ ids \subseteq Intervals
      /\ Cardinality(ids) <= IdsMax
  BY <1>1, BarsConstants DEF IInv, TypeOK
<1>. QED BY <1>1, <1>2, <1>3, <1>4, SleepKeeps

LEMMA SkipDuplicateKeeps == ASSUME IInv, SkipDuplicate PROVE IInv'
<1>1. /\ Awake /\ Sleep
      /\ UNCHANGED << now, high, arrived, agg, board, current, last, ids, bars, dbVars, slipped, upset >>
  BY DEF SkipDuplicate
<1>2. last = Never => now = high \/ Built = {}
  BY DEF IInv, OrderInv, ClockInv
<1>3. pc \notin 1..Broadcast /\ current \in Intervals /\ ids \subseteq Intervals
      /\ Cardinality(ids) <= IdsMax /\ slipped \in BOOLEAN
  BY <1>1, BarsConstants DEF Awake, IInv, TypeOK
<1>. QED BY <1>1, <1>2, <1>3, SleepKeeps

LEMMA BuildFailsKeeps == ASSUME IInv, BuildFails PROVE IInv'
<1>1. /\ Awake /\ ~Duplicate /\ Record(Closed) /\ Sleep /\ slipped' = TRUE
      /\ UNCHANGED << now, high, arrived, agg, board, current, bars, dbVars, upset >>
  BY DEF BuildFails
<1>2. Closed \in Intervals /\ Closed < high /\ Closed + 1 = now /\ \A b \in Built : b < Closed
  BY <1>1, ClosedIsNew
<1>3. last' = Closed /\ ids' \subseteq Intervals /\ Cardinality(ids') <= IdsMax
  BY <1>1, <1>2, RecordTypes DEF IInv
<1>4. pc \notin 1..Broadcast /\ current \in Intervals /\ Closed \in Nat /\ Built \subseteq Nat
  BY <1>1, <1>2, BarsConstants DEF Awake, IInv, TypeOK, Built
<1>5. last' \in Intervals /\ last' < high /\ last' <= now /\ \A b \in Built : b <= last'
  BY <1>2, <1>3, <1>4
<1>. QED BY <1>1, <1>3, <1>4, <1>5, SleepKeeps

LEMMA SkipOutsideKeeps == ASSUME IInv, SkipOutsideSession PROVE IInv'
<1>1. /\ Awake /\ ~Duplicate /\ Record(Closed) /\ agg' = {} /\ board' = {} /\ current' = Closed
      /\ Sleep \/ (pc' = OpenBroadcast /\ UNCHANGED target)
      /\ slipped' = (slipped \/ now # target)
      /\ UNCHANGED << now, high, arrived, bars, dbVars, upset >>
  BY DEF SkipOutsideSession
<1>2. Closed \in Intervals /\ Closed < high /\ Closed + 1 = now /\ \A b \in Built : b < Closed
  BY <1>1, ClosedIsNew
<1>3. last' = Closed /\ ids' \subseteq Intervals /\ Cardinality(ids') <= IdsMax
  BY <1>1, <1>2, RecordTypes DEF IInv
<1>4. /\ pc \notin 1..Broadcast /\ pc = Asleep /\ current' \in Intervals
      /\ Closed \in Nat /\ Built \subseteq Nat
      /\ slipped' \in BOOLEAN
  BY <1>1, <1>2, BarsConstants DEF Awake, IInv, TypeOK, Built
<1>5. last' \in Intervals /\ last' < high /\ last' <= now /\ \A b \in Built : b <= last'
  BY <1>2, <1>3, <1>4
<1>6. CASE Sleep
  BY <1>1, <1>3, <1>4, <1>5, <1>6, SleepKeeps
<1>7. CASE pc' = OpenBroadcast /\ UNCHANGED target
  <2>1. Built' = Built /\ Handled' = Handled
    BY <1>1 DEF Built, Handled
  <2>2. TypeOK'
    <3>1. pc' \in Awaits \union {0, Asleep} /\ last' \in Intervals \union {Never}
      BY <1>3, <1>5, <1>7, BarsConstants
    <3>. QED BY <1>1, <1>3, <1>4, <1>7, <2>1, <3>1 DEF IInv, TypeOK, dbVars
  <2>3. OrderInv'
    BY <1>1, <1>5, <1>7, <2>1, BarsConstants DEF IInv, OrderInv
  <2>4. FreshInv'
    BY <1>1, <2>1 DEF IInv, FreshInv
  <2>. QED BY <1>1, <2>1, <2>2, <2>3, <2>4 DEF IInv, ClockInv, TickInOneBar
<1>. QED BY <1>1, <1>6, <1>7

LEMMA RestartKeeps == ASSUME IInv, Restart PROVE IInv'
<1>1. /\ agg' = {} /\ board' = {} /\ pc' = 0 /\ last' = Never /\ ids' = {} /\ slipped' = TRUE
      /\ upset' = "restart" /\ upset # "clock"
      /\ db_queue' = "room" /\ flushing' = TRUE
      /\ UNCHANGED << now, high, arrived, target, current, bars >>
  BY DEF Restart
<1>2. Built' = Built /\ Handled' = Handled
  BY <1>1 DEF Built, Handled
<1>3. TypeOK'
  <2>1. Cardinality({}) <= IdsMax
    BY FS_EmptySet, ConstantsAssumption DEF ConstantsAssumption
  <2>. QED BY <1>1, <1>2, <2>1 DEF IInv, TypeOK
<1>4. OrderInv'
  BY <1>1, <1>2, BarsConstants DEF IInv, OrderInv
<1>5. FreshInv'
  BY <1>1, <1>2 DEF IInv, FreshInv
<1>. QED BY <1>1, <1>2, <1>3, <1>4, <1>5 DEF IInv, ClockInv, TickInOneBar

\* The database queue is nothing to the bars.
LEMMA DatabaseFrame ==
  ASSUME Flush \/ OthersEnqueue \/ FlushesStop
  PROVE  /\ UNCHANGED << now, high, arrived, agg, board, pc, target, current, last, ids, bars,
                         slipped, upset >>
         /\ db_queue' \in {db_queue, "room", "full"} /\ flushing' \in {flushing, FALSE}
BY DEF Flush, OthersEnqueue, FlushesStop

LEMMA BuildKeeps == ASSUME IInv, Build PROVE IInv'
<1>. DEFINE bar == [c \in Candles |-> IF c = "nifty" THEN agg ELSE Of(c, board)]
<1>1. /\ Awake /\ ~Duplicate /\ Record(Closed) /\ agg' = {} /\ current' = Closed
      /\ slipped' = (slipped \/ now # target)
      /\ UNCHANGED << now, high, arrived, upset >>
      /\ \E j \in Stops(0) : Run(bar, 0, j)
  BY DEF Build
<1>2. PICK j \in Stops(0) : Run(bar, 0, j)
  BY <1>1
<1>3. j \in (0 + 1)..7 /\ 0 \in 0..6
  BY BarsConstants DEF Stops
<1>4. /\ Closed \in Intervals /\ Closed < high /\ Closed + 1 = now
      /\ \A b \in Built : b < Closed
      /\ bars[Closed] = NoBar
  BY <1>1, ClosedIsNew
<1>5. last' = Closed /\ ids' \subseteq Intervals /\ Cardinality(ids') <= IdsMax
  BY <1>1, <1>4, RecordTypes DEF IInv
<1>6. /\ pc = Asleep /\ board \subseteq Handled /\ agg \subseteq Handled /\ Handled \subseteq Ticks
      /\ \A c \in Candles : Of(c, board) \subseteq board
  BY <1>1, BarsConstants DEF Awake, IInv, TypeOK, Of, Handled, Ticks
<1>7. bar \in Bar /\ \A c \in Candles : bar[c] \subseteq Handled
  BY <1>6 DEF Bar
<1>8. \A k \in Boards : bar[k] \subseteq board
  BY <1>6 DEF Boards, Candles
<1>9. bar["nifty"] = agg
  BY DEF Candles
<1>. HIDE DEF bar
<1>10. \A b \in Built, k \in Boards : bars[b][k] \intersect board = {}
  BY <1>6, BarsConstants DEF IInv, FreshInv
<1>11. \A b \in Built, k \in Boards : bars[b][k] \intersect (board \union bar[k]) = {}
  BY <1>8, <1>10
<1>12. /\ bars' \in [Intervals -> Bar \union {NoBar}]
       /\ Built' = Built \union {Closed}
       /\ \A b \in Intervals : b # Closed => bars'[b] = bars[b]
       /\ (pc' = Asleep /\ target' = now + 1) \/ (pc' = j /\ j <= 6 /\ target' = target)
       /\ db_queue' \in {"room", "full"} /\ flushing' \in BOOLEAN
  BY <1>1, <1>2, <1>3, <1>4, <1>7, RunEffect
<1>13. /\ board' \subseteq Handled
       /\ \A b \in Built', c \in Candles : bars'[b][c] \subseteq Handled
       /\ \A b \in Built', k \in Boards :
            bars'[b][k] \intersect board' # {} => b = current' /\ pc' \in 1..Broadcast
       /\ TickInOneBar'
  <2>1. current' \in Intervals /\ arrived' = arrived
    BY <1>1, <1>4
  <2>2. 0 = 6 => \A k \in Boards : bar[k] \intersect board = {}
    OBVIOUS
  <2>. QED BY <1>2, <1>3, <1>7, <1>11, <2>1, <2>2, RunKeepsApart
<1>14. Handled' = Handled /\ slipped' \in BOOLEAN /\ Built \subseteq Nat /\ Closed \in Nat
  BY <1>1, <1>4, BarsConstants DEF Handled, IInv, TypeOK, Built
<1>15. now \in Nat /\ high \in Nat /\ now <= high /\ high <= MaxInterval
  BY BarsConstants DEF IInv, TypeOK
<1>16. TypeOK'
  <2>1. target' \in 0..(MaxInterval + 1) /\ pc' \in Awaits \union {0, Asleep}
    BY <1>3, <1>12, <1>15, BarsConstants DEF IInv, TypeOK
  <2>2. last' \in Intervals \union {Never}
    BY <1>4, <1>5
  <2>. QED BY <1>1, <1>4, <1>5, <1>12, <1>13, <1>14, <2>1, <2>2 DEF IInv, TypeOK, Bar
<1>17. OrderInv'
  <2>1. last' # Never /\ last' < high /\ \A b \in Built' : b <= last' /\ b < high
    BY <1>4, <1>5, <1>12, <1>14, <1>15, BarsConstants
  <2>2. pc' # 0 /\ (pc' = Asleep => target' > 0 /\ last' < target')
    BY <1>3, <1>4, <1>5, <1>12, <1>14, <1>15, BarsConstants
  <2>. QED BY <1>1, <2>1, <2>2 DEF OrderInv
<1>18. FreshInv'
  BY <1>1, <1>13, <1>14 DEF FreshInv
<1>. QED BY <1>1, <1>13, <1>16, <1>17, <1>18 DEF IInv, ClockInv

LEMMA ResumeKeeps == ASSUME IInv, Resume PROVE IInv'
<1>1. /\ pc \in Awaits /\ current' = current
      /\ IF bars[current] = NoBar
         THEN Sleep /\ UNCHANGED << bars, board, dbVars >>
         ELSE \E j \in Stops(pc) : Run(bars[current], pc, j)
      /\ slipped' = (slipped \/ (pc' = Asleep /\ now # current + 1))
      /\ UNCHANGED << now, high, arrived, agg, last, ids, upset >>
  BY DEF Resume
<1>2. /\ current \in Intervals /\ ids \subseteq Intervals /\ Cardinality(ids) <= IdsMax
      /\ slipped' \in BOOLEAN /\ pc \in 1..6
      /\ bars \in [Intervals -> Bar \union {NoBar}]
  BY <1>1, BarsConstants DEF IInv, TypeOK, Bar
<1>3. last # Never /\ last < high /\ last \in Nat /\ (\A b \in Built : b <= last) /\ Built \subseteq Nat
  BY <1>1, BarsConstants DEF IInv, OrderInv, TypeOK, Built
<1>4. now \in Nat /\ high \in Nat /\ now <= high /\ high <= MaxInterval /\ high <= now + 1
  BY BarsConstants DEF IInv, TypeOK, ClockInv
<1>5. Handled' = Handled
  BY <1>1 DEF Handled
<1>6. ASSUME Built' = Built,
             bars' \in [Intervals -> Bar \union {NoBar}], board' \subseteq Handled,
             \A b \in Built, c \in Candles : bars'[b][c] \subseteq Handled,
             \A b \in Built : bars'[b]["nifty"] = bars[b]["nifty"],
             \A b \in Built, k \in Boards :
               bars'[b][k] \intersect board' # {} => b = current' /\ pc' \in 1..Broadcast,
             TickInOneBar',
             db_queue' \in {"room", "full"}, flushing' \in BOOLEAN,
             \/ pc' = Asleep /\ target' = now + 1
             \/ pc' \in 1..6 /\ target' = target
      PROVE  IInv'
  <2>1. TypeOK'
    <3>1. target' \in 0..(MaxInterval + 1) /\ pc' \in Awaits \union {0, Asleep}
      BY <1>4, <1>6, BarsConstants DEF IInv, TypeOK
    <3>. QED BY <1>1, <1>2, <1>5, <1>6, <3>1 DEF IInv, TypeOK, Bar
  <2>2. OrderInv'
    <3>1. pc' # 0 /\ (pc' = Asleep => target' > 0 /\ last < target')
      BY <1>3, <1>4, <1>6, BarsConstants
    <3>. QED BY <1>1, <1>3, <1>6, <3>1 DEF IInv, OrderInv
  <2>3. FreshInv'
    BY <1>1, <1>5, <1>6 DEF IInv, FreshInv
  <2>. QED BY <1>1, <1>6, <2>1, <2>2, <2>3 DEF IInv, ClockInv
<1>7. CASE bars[current] = NoBar
  <2>1. Sleep /\ UNCHANGED << bars, board, dbVars >> /\ Built' = Built /\ current \notin Built
    BY <1>1, <1>7 DEF Built
  <2>2. \A b \in Built, k \in Boards : bars[b][k] \intersect board = {}
    BY <2>1 DEF IInv, FreshInv
  <2>. QED BY <1>2, <1>6, <2>1, <2>2 DEF Sleep, IInv, TypeOK, FreshInv, TickInOneBar, dbVars
<1>8. CASE bars[current] # NoBar
  <2>. DEFINE bar == bars[current]
  <2>1. PICK j \in Stops(pc) : Run(bar, pc, j)
    BY <1>1, <1>8
  <2>2. j \in (pc + 1)..7 /\ pc \in 0..6
    BY <1>2, BarsConstants DEF Stops
  <2>3. bar \in Bar /\ current \in Built /\ \A c \in Candles : bar[c] \subseteq Handled
    BY <1>2, <1>8 DEF Built, IInv, FreshInv
  <2>4. \A b \in Built, k \in Boards : b # current' => bars[b][k] \intersect (board \union bar[k]) = {}
    BY <1>1, <2>3 DEF IInv, FreshInv, TickInOneBar, Boards
  <2>5. pc = 6 => \A k \in Boards : bar[k] \intersect board = {}
    BY <2>3, BarsConstants DEF IInv, FreshInv
  <2>. HIDE DEF bar
  <2>6. /\ bars' \in [Intervals -> Bar \union {NoBar}]
        /\ Built' = Built \union {current'}
        /\ \A b \in Intervals : b # current' => bars'[b] = bars[b]
        /\ bars'[current']["nifty"] = bar["nifty"]
        /\ (pc' = Asleep /\ target' = now + 1) \/ (pc' = j /\ j <= 6 /\ target' = target)
        /\ db_queue' \in {"room", "full"} /\ flushing' \in BOOLEAN
    BY <1>1, <1>2, <2>1, <2>2, <2>3, RunEffect
  <2>7. /\ board' \subseteq Handled
        /\ \A b \in Built', c \in Candles : bars'[b][c] \subseteq Handled
        /\ \A b \in Built', k \in Boards :
             bars'[b][k] \intersect board' # {} => b = current' /\ pc' \in 1..Broadcast
        /\ TickInOneBar'
    <3>1. current' \in Intervals /\ arrived' = arrived
      BY <1>1, <1>2
    <3>. QED BY <2>1, <2>2, <2>3, <2>4, <2>5, <3>1, RunKeepsApart
  <2>8. Built' = Built /\ \A b \in Built : bars'[b]["nifty"] = bars[b]["nifty"]
    BY <1>1, <2>3, <2>6 DEF Built, bar
  <2>9. (pc' = Asleep /\ target' = now + 1) \/ (pc' \in 1..6 /\ target' = target)
    BY <1>2, <2>2, <2>6
  <2>. QED BY <1>6, <2>6, <2>7, <2>8, <2>9
<1>. QED BY <1>7, <1>8

(***************************************************************************)
(* The theorems.                                                           *)
(***************************************************************************)

LEMMA InitHolds == Init => IInv
<1>. SUFFICES ASSUME Init PROVE IInv
  OBVIOUS
<1>1. /\ now = 0 /\ high = 0 /\ arrived = << >> /\ agg = {} /\ board = {} /\ pc = 0 /\ target = 0
      /\ current = 0 /\ last = Never /\ ids = {} /\ bars = [b \in Intervals |-> NoBar]
      /\ slipped = FALSE /\ upset = "no" /\ db_queue = "room" /\ flushing = TRUE
  BY DEF Init
<1>2. Built = {}
  BY <1>1 DEF Built
<1>3. arrived \in [1..0 -> [kind : Kinds, interval : Intervals]] /\ 0 \in 0..MaxTicks
  BY <1>1, BarsConstants
<1>4. TypeOK
  <2>1. Cardinality({}) <= IdsMax
    BY FS_EmptySet, ConstantsAssumption DEF ConstantsAssumption
  <2>2. 0 \in Intervals /\ 0 \in 0..(MaxInterval + 1)
    BY BarsConstants
  <2>3. \E n \in 0..MaxTicks : arrived \in [1..n -> [kind : Kinds, interval : Intervals]]
    BY <1>3
  <2>. QED BY <1>1, <2>1, <2>2, <2>3 DEF TypeOK
<1>. QED BY <1>1, <1>2, <1>4, BarsConstants DEF IInv, ClockInv, OrderInv, FreshInv, TickInOneBar

LEMMA NextKeeps == IInv /\ [Next]_vars => IInv'
<1>. SUFFICES ASSUME IInv, [Next]_vars PROVE IInv'
  OBVIOUS
<1>1. ASSUME NEW kind \in Kinds, Tick(kind) PROVE IInv'
  BY <1>1, TickKeeps
<1>2. CASE Boundary
  BY <1>2, BoundaryKeeps
<1>3. CASE StepBack
  BY <1>3, StepBackKeeps
<1>4. CASE GateOpens
  BY <1>4, GateOpensKeeps
<1>5. CASE SkipDuplicate
  BY <1>5, SkipDuplicateKeeps
<1>6. CASE SkipOutsideSession
  BY <1>6, SkipOutsideKeeps
<1>7. CASE BuildFails
  BY <1>7, BuildFailsKeeps
<1>8. CASE Build
  BY <1>8, BuildKeeps
<1>9. CASE Resume
  BY <1>9, ResumeKeeps
<1>10. CASE Restart
  BY <1>10, RestartKeeps
<1>11. CASE UNCHANGED vars
  BY <1>11 DEF vars, IInv, TypeOK, ClockInv, OrderInv, FreshInv, TickInOneBar, Built, Handled
<1>12. CASE Flush \/ OthersEnqueue \/ FlushesStop
  <2>1. UNCHANGED << now, high, arrived, agg, board, pc, target, current, last, ids, bars,
                     slipped, upset >>
    BY <1>12, DatabaseFrame
  <2>2. db_queue' \in {"room", "full"} /\ flushing' \in BOOLEAN
    BY <1>12, DatabaseFrame DEF IInv, TypeOK
  <2>3. Built' = Built /\ Handled' = Handled
    BY <2>1 DEF Built, Handled
  <2>4. TypeOK'
    BY <2>1, <2>2, <2>3 DEF IInv, TypeOK
  <2>5. ClockInv' /\ OrderInv'
    BY <2>1, <2>3 DEF IInv, ClockInv, OrderInv
  <2>6. FreshInv' /\ TickInOneBar'
    BY <2>1, <2>3 DEF IInv, FreshInv, TickInOneBar
  <2>. QED BY <2>4, <2>5, <2>6 DEF IInv
<1>. QED BY <1>1, <1>2, <1>3, <1>4, <1>5, <1>6, <1>7, <1>8, <1>9, <1>10, <1>11, <1>12 DEF Next

\* The invariant holds however late an iteration is, whatever fails, and over restarts
\* of the process or steps of its clock.
THEOREM BarsInvariant == Spec => []IInv
BY InitHolds, NextKeeps, PTL DEF Spec

\* Every reachable state of the scheduler and of its accumulators is well typed; the ids
\* it remembers never exceed their number.
THEOREM BarsTypes == Spec => []TypeOK
<1>1. IInv => TypeOK
  BY DEF IInv
<1>. QED BY <1>1, BarsInvariant, PTL

\* No tick counts in two bars of a candle (TickInOneBar).
THEOREM TickCountsOnce == Spec => []TickInOneBar
<1>1. IInv => TickInOneBar
  BY DEF IInv
<1>. QED BY <1>1, BarsInvariant, PTL

BarsBar == [b \in Intervals |-> IF bars[b] = NoBar THEN NoBar ELSE bars[b]["nifty"]]

\* The NIFTY bars are a series of bars (NiftyIsFeed): each has every index tick since the
\* one before, and none is built twice, out of order, or changed afterwards.
THEOREM NiftyBarsAreFeed == Spec => NiftyIsFeed
<1>1. Init => Feed!Init
  <2>. SUFFICES ASSUME Init PROVE Feed!Init
    OBVIOUS
  <2>1. agg = {} /\ \A b \in Intervals : bars[b] = NoBar
    BY DEF Init
  <2>. QED BY <2>1 DEF Feed!Init
<1>2. IInv /\ [Next]_vars => [Feed!Next]_(Feed!vars)
  <2>. SUFFICES ASSUME IInv, [Next]_vars PROVE [Feed!Next]_(Feed!vars)
    OBVIOUS
  <2>1. ASSUME agg' = agg, BarsBar' = BarsBar PROVE UNCHANGED Feed!vars
    BY <2>1 DEF Feed!vars, BarsBar
  <2>2. ASSUME agg' = {}, BarsBar' = BarsBar PROVE Feed!Next
    BY <2>2 DEF Feed!Next, Feed!Drop, BarsBar
  <2>3. bars' = bars => BarsBar' = BarsBar
    BY DEF BarsBar
  <2>4. ASSUME NEW kind \in Kinds, Tick(kind) PROVE [Feed!Next]_(Feed!vars)
    <3>1. PICK t \in Ticks : /\ t \notin Handled
                             /\ agg' = IF kind = "index" THEN agg \union {t} ELSE agg
      BY <2>4, TickIsNew
    <3>2. bars' = bars
      BY <2>4 DEF Tick
    <3>3. CASE kind # "index"
      BY <2>1, <2>3, <3>1, <3>2, <3>3
    <3>4. CASE kind = "index"
      <4>1. t \notin agg /\ agg' = agg \union {t}
        BY <3>1, <3>4 DEF IInv, TypeOK
      <4>2. \A b \in Intervals : BarsBar[b] # NoBar => t \notin BarsBar[b]
        BY <3>1 DEF BarsBar, Built, IInv, FreshInv, Candles
      <4>3. BarsBar' = BarsBar
        BY <2>3, <3>2
      <4>. QED BY <4>1, <4>2, <4>3 DEF Feed!Next, Feed!Gather, BarsBar
    <3>. QED BY <3>3, <3>4
  <2>5. CASE Build
    <3>1. PICK bar, j : /\ Awake /\ ~Duplicate /\ agg' = {} /\ current' = Closed
                        /\ bar = [c \in Candles |-> IF c = "nifty" THEN agg ELSE Of(c, board)]
                        /\ j \in Stops(0) /\ Run(bar, 0, j)
      BY <2>5 DEF Build
    <3>2. /\ Closed \in Intervals /\ bars[Closed] = NoBar /\ \A b \in Built : b < Closed
      BY <3>1, ClosedIsNew
    <3>3. bar \in Bar /\ bar["nifty"] = agg
      <4>1. agg \subseteq Ticks /\ board \subseteq Ticks /\ \A c : Of(c, board) \subseteq board
        BY BarsConstants DEF IInv, TypeOK, Handled, Ticks, Of
      <4>. QED BY <3>1, <4>1 DEF Bar, Candles
    <3>4. j \in (0 + 1)..7 /\ 0 \in 0..6
      BY <3>1, BarsConstants DEF Stops
    <3>5. /\ \A b \in Intervals : b # Closed => bars'[b] = bars[b]
          /\ bars'[Closed] \in Bar /\ NoBar \notin Bar /\ bars'[Closed]["nifty"] = agg
      BY <3>1, <3>2, <3>3, <3>4, RunEffect
    <3>6. BarsBar' = [BarsBar EXCEPT ![Closed] = agg]
      BY <3>2, <3>5 DEF BarsBar
    <3>7. \A c \in Intervals : BarsBar[c] # NoBar => c < Closed
      BY <3>2 DEF BarsBar, Built
    <3>. QED BY <3>1, <3>2, <3>6, <3>7 DEF Feed!Next, Feed!Close, BarsBar
  <2>6. CASE Resume
    <3>1. CASE bars[current] = NoBar
      BY <2>1, <2>3, <2>6, <3>1 DEF Resume
    <3>2. CASE bars[current] # NoBar
      <4>1. PICK j \in Stops(pc) : Run(bars[current], pc, j)
        BY <2>6, <3>2 DEF Resume
      <4>2. /\ agg' = agg /\ current' = current /\ pc \in 1..6 /\ current \in Intervals
            /\ bars[current] \in Bar
        BY <2>6, <3>2, BarsConstants DEF Resume, IInv, TypeOK, Bar
      <4>3. j \in (pc + 1)..7 /\ pc \in 0..6
        BY <4>2, BarsConstants DEF Stops
      <4>4. /\ \A b \in Intervals : b # current => bars'[b] = bars[b]
            /\ bars'[current] \in Bar /\ NoBar \notin Bar
            /\ bars'[current]["nifty"] = bars[current]["nifty"]
        BY <4>1, <4>2, <4>3, RunEffect
      <4>5. BarsBar' = BarsBar
        BY <3>2, <4>2, <4>4 DEF BarsBar
      <4>. QED BY <2>1, <4>2, <4>5
    <3>. QED BY <3>1, <3>2
  <2>7. CASE SkipOutsideSession \/ Restart
    BY <2>2, <2>3, <2>7 DEF SkipOutsideSession, Restart
  <2>8. CASE Boundary \/ StepBack \/ GateOpens \/ SkipDuplicate \/ BuildFails \/ UNCHANGED vars
    BY <2>1, <2>3, <2>8 DEF Boundary, StepBack, GateOpens, SkipDuplicate, BuildFails, vars
  <2>9. CASE Flush \/ OthersEnqueue \/ FlushesStop
    BY <2>1, <2>3, <2>9, DatabaseFrame
  <2>. QED BY <2>4, <2>5, <2>6, <2>7, <2>8, <2>9 DEF Next
<1>. QED BY <1>1, <1>2, BarsInvariant, PTL DEF Spec, NiftyIsFeed, Feed!Spec

(***************************************************************************)
(* Punctuality.                                                            *)
(***************************************************************************)

\* No tick was handled later than now.
ArrivedInv == \A t \in Handled : arrived[t].interval <= high

\* The candles an emission reads when it is built, and never again.
Early == {"nifty", "index", "future"}

\* While nothing has slipped, each iteration sees to the interval after the last one;
\* what the accumulators hold came since they were emptied: the aggregator when the bar
\* was built, the board when it was broadcast.
PunctualInv ==
  /\ upset = "no"
  /\ \A i \in ids : last # Never /\ i <= last
  /\ pc = 0 => agg \subseteq board
  /\ pc = Asleep =>
       /\ target <= now + 1
       /\ last # Never => target = last + 2
       /\ \A t \in agg \union board : target <= arrived[t].interval + 1
  /\ pc \in Awaits =>
       /\ current = last /\ current < now
       /\ \A t \in agg : current < arrived[t].interval
       /\ \A t \in board : current <= arrived[t].interval
       /\ pc = OpenBroadcast => \A t \in board : current < arrived[t].interval
       /\ pc # OpenBroadcast => current \in Built
  /\ \A b \in Built, c \in Early : \A t \in bars[b][c] : arrived[t].interval \in {b, b + 1}
  /\ \A b \in Built, d \in Session : (last # Never /\ b < d /\ d <= last) => d \in Built

PInv == ArrivedInv /\ (~slipped => PunctualInv)

\* The clock, the boundaries and the intervals are numbers.
LEMMA Numbers ==
  ASSUME IInv
  PROVE  /\ now \in Nat /\ high \in Nat /\ now <= high /\ target \in Nat /\ current \in Nat
         /\ last \in Nat /\ Built \subseteq Nat /\ Session \subseteq Nat /\ ids \subseteq Nat
         /\ \A t \in Handled : arrived[t].interval \in Nat
         /\ agg \subseteq Handled /\ board \subseteq Handled
<1>1. \A t \in Handled : arrived[t].interval \in Intervals
  BY DEF IInv, TypeOK, Handled
<1>. QED BY <1>1, BarsConstants, ConstantsAssumption DEF IInv, TypeOK, Built, ConstantsAssumption

\* While nothing has slipped the clock is where it has ever been, and before the first
\* bar there is none.
LEMMA OnTime ==
  ASSUME IInv, PunctualInv
  PROVE  now = high /\ (last = Never => Built = {})
BY DEF IInv, ClockInv, OrderInv, PunctualInv

\* An iteration that begins in time sees to the interval that follows the last one, which
\* is not among those seen to.
LEMMA InTime ==
  ASSUME IInv, PInv, ~slipped, Awake
  PROVE  /\ ~Duplicate
         /\ now = target => Closed \in Nat /\ now = Closed + 1
                              /\ (last # Never => Closed = last + 1)
<1>1. PunctualInv /\ pc = Asleep /\ now >= target /\ target > 0
  BY DEF PInv, Awake, IInv, OrderInv
<1>2. now \in Nat /\ target \in Nat /\ last \in Nat /\ ids \subseteq Nat /\ now \in Intervals
  BY Numbers DEF IInv, TypeOK
<1>3. Closed \in Nat /\ now = Closed + 1 /\ Closed # Never
  BY <1>1, <1>2, BarsConstants DEF Closed
<1>4. last # Never => target = last + 2 /\ last < Closed
  BY <1>1, <1>2, <1>3, BarsConstants DEF PunctualInv
<1>5. \A i \in ids : last # Never /\ i <= last
  BY <1>1 DEF PunctualInv
<1>6. Closed \notin ids
  BY <1>2, <1>3, <1>4, <1>5
<1>7. Closed # last
  BY <1>2, <1>3, <1>4
<1>. QED BY <1>2, <1>3, <1>4, <1>6, <1>7 DEF Duplicate

\* A tick is of the interval in progress.
LEMMA TickPunctual == ASSUME IInv, PInv, NEW kind \in Kinds, Tick(kind) PROVE PInv'
<1>1. PICK t \in Ticks :
         /\ t \notin Handled /\ Handled' = Handled \union {t}
         /\ board' = board \union {t}
         /\ agg' = IF kind = "index" THEN agg \union {t} ELSE agg
         /\ arrived' = [x \in Handled \union {t} |->
                          IF x = t THEN [kind |-> kind, interval |-> now] ELSE arrived[x]]
  <2>. DEFINE t == Cardinality(Handled) + 1
  <2>1. PICK u \in Ticks : u \notin Handled /\ Handled' = Handled \union {u}
    BY TickIsNew
  <2>2. /\ board' = board \union {t}
        /\ agg' = IF kind = "index" THEN agg \union {t} ELSE agg
        /\ arrived' = [x \in Handled \union {t} |->
                         IF x = t THEN [kind |-> kind, interval |-> now] ELSE arrived[x]]
    BY DEF Tick
  <2>3. Handled' = Handled \union {t}
    BY <2>2 DEF Handled
  <2>4. u = t
    BY <2>1, <2>3
  <2>. QED BY <2>1, <2>2, <2>3, <2>4
<1>2. UNCHANGED << now, high, pc, target, current, last, ids, bars, dbVars, slipped, upset >>
  BY DEF Tick
<1>3. /\ now \in Nat /\ high \in Nat /\ now <= high /\ target \in Nat /\ current \in Nat
      /\ agg \subseteq Handled /\ board \subseteq Handled
  BY Numbers
<1>4. Built' = Built
  BY <1>2 DEF Built
<1>5. /\ \A x \in Handled : arrived'[x].interval = arrived[x].interval
      /\ arrived'[t].interval = now
  BY <1>1
<1>6. ArrivedInv'
  BY <1>1, <1>2, <1>3, <1>5 DEF PInv, ArrivedInv
<1>7. ASSUME ~slipped PROVE PunctualInv'
  <2>1. PunctualInv
    BY <1>7 DEF PInv
  <2>2. pc = 0 => agg' \subseteq board'
    BY <1>1, <2>1 DEF PunctualInv
  <2>3. \A x \in agg' \union board' : x = t \/ (x \in Handled /\ x \in agg \union board)
    BY <1>1, <1>3
  <2>4. /\ \A x \in agg' : x = t \/ (x \in Handled /\ x \in agg)
        /\ \A x \in board' : x = t \/ (x \in Handled /\ x \in board)
    BY <1>1, <1>3
  <2>5. pc = Asleep =>
          /\ target <= now + 1
          /\ last # Never => target = last + 2
          /\ \A x \in agg' \union board' : target <= arrived'[x].interval + 1
    BY <1>5, <2>1, <2>3 DEF PunctualInv
  <2>6. pc \in Awaits =>
          /\ current = last /\ current < now
          /\ \A x \in agg' : current < arrived'[x].interval
          /\ \A x \in board' : current <= arrived'[x].interval
          /\ pc = OpenBroadcast => \A x \in board' : current < arrived'[x].interval
          /\ pc # OpenBroadcast => current \in Built
    <3>. SUFFICES ASSUME pc \in Awaits
                  PROVE /\ current = last /\ current < now
                        /\ \A x \in agg' : current < arrived'[x].interval
                        /\ \A x \in board' : current <= arrived'[x].interval
                        /\ pc = OpenBroadcast => \A x \in board' : current < arrived'[x].interval
                        /\ pc # OpenBroadcast => current \in Built
      OBVIOUS
    <3>1. /\ current = last /\ current < now
          /\ \A x \in agg : current < arrived[x].interval
          /\ \A x \in board : current <= arrived[x].interval
          /\ pc = OpenBroadcast => \A x \in board : current < arrived[x].interval
          /\ pc # OpenBroadcast => current \in Built
      BY <2>1 DEF PunctualInv
    <3>. QED BY <1>3, <1>5, <2>4, <3>1
  <2>7. \A b \in Built, c \in Early : \A x \in bars[b][c] : arrived'[x].interval \in {b, b + 1}
    <3>1. \A b \in Built, c \in Early : bars[b][c] \subseteq Handled
      BY DEF IInv, FreshInv, Early, Candles
    <3>. QED BY <1>5, <2>1, <3>1 DEF PunctualInv
  <2>. QED BY <1>2, <1>4, <2>1, <2>2, <2>5, <2>6, <2>7 DEF PunctualInv
<1>. QED BY <1>2, <1>6, <1>7 DEF PInv

LEMMA BoundaryPunctual == ASSUME IInv, PInv, Boundary PROVE PInv'
<1>1. now' = now + 1 /\ high' = (IF now + 1 > high THEN now + 1 ELSE high)
      /\ UNCHANGED << arrived, agg, board, pc, target, current, last, ids, bars, dbVars, slipped, upset >>
  BY DEF Boundary
<1>2. /\ now \in Nat /\ high \in Nat /\ target \in Nat /\ current \in Nat
      /\ \A t \in Handled : arrived[t].interval \in Nat
  BY Numbers
<1>3. Built' = Built /\ Handled' = Handled /\ high <= high'
  BY <1>1, <1>2 DEF Built, Handled
<1>4. ArrivedInv'
  <2>1. \A t \in Handled : arrived[t].interval <= high
    BY DEF PInv, ArrivedInv
  <2>2. high' \in Nat
    BY <1>1, <1>2
  <2>3. \A t \in Handled : arrived[t].interval <= high'
    BY <1>2, <1>3, <2>1, <2>2
  <2>. QED BY <1>1, <1>3, <2>3 DEF ArrivedInv
<1>5. ASSUME ~slipped PROVE PunctualInv'
  <2>1. PunctualInv
    BY <1>5 DEF PInv
  <2>2. (target <= now + 1 => target <= now' + 1) /\ (current < now => current < now')
    BY <1>1, <1>2
  <2>. QED BY <1>1, <1>3, <2>1, <2>2 DEF PunctualInv
<1>. QED BY <1>1, <1>4, <1>5 DEF PInv

\* Where no tick is handled and time stands still, ticks stay of their intervals.
LEMMA ArrivedFrame == ASSUME PInv, UNCHANGED << arrived, high >> PROVE ArrivedInv'
BY DEF PInv, ArrivedInv, Handled

LEMMA GatePunctual == ASSUME IInv, PInv, GateOpens PROVE PInv'
<1>1. /\ pc = 0 /\ pc' = Asleep /\ target' = now + 1
      /\ UNCHANGED << now, high, arrived, agg, board, current, last, ids, bars, upset >>
      /\ slipped' = (slipped \/ board # {})
  BY DEF GateOpens, Sleep
<1>2. ASSUME ~slipped' PROVE PunctualInv'
  <2>1. PunctualInv /\ board = {}
    BY <1>1, <1>2 DEF PInv
  <2>2. agg = {} /\ last = Never
    BY <1>1, <2>1 DEF PunctualInv, IInv, OrderInv
  <2>3. now \in Nat /\ Built' = Built /\ Asleep \notin Awaits /\ Asleep # 0
    BY <1>1, Numbers, BarsConstants DEF Built
  <2>. QED BY <1>1, <2>1, <2>2, <2>3 DEF PunctualInv
<1>. QED BY <1>1, <1>2, ArrivedFrame DEF PInv

LEMMA SkipDuplicatePunctual == ASSUME IInv, PInv, SkipDuplicate PROVE PInv'
<1>1. Awake /\ Duplicate /\ UNCHANGED << arrived, high, slipped >>
  BY DEF SkipDuplicate
<1>2. slipped
  BY <1>1, InTime
<1>. QED BY <1>1, <1>2, ArrivedFrame DEF PInv

LEMMA SkipOutsidePunctual == ASSUME IInv, PInv, SkipOutsideSession PROVE PInv'
<1>1. /\ Awake /\ ~Duplicate /\ Closed \notin Session /\ Record(Closed)
      /\ agg' = {} /\ board' = {} /\ current' = Closed
      /\ (pc' = Asleep /\ target' = now + 1) \/ (pc' = OpenBroadcast /\ UNCHANGED target)
      /\ slipped' = (slipped \/ now # target)
      /\ UNCHANGED << now, high, arrived, bars, upset >>
  BY DEF SkipOutsideSession, Sleep
<1>2. ASSUME ~slipped' PROVE PunctualInv'
  <2>1. PunctualInv /\ now = target /\ ~slipped
    BY <1>1, <1>2 DEF PInv
  <2>2. Closed \in Nat /\ now = Closed + 1 /\ (last # Never => Closed = last + 1)
    BY <1>1, <2>1, InTime
  <2>3. last' = Closed /\ ids' \subseteq ids \union {Closed} /\ Closed \in Intervals
    BY <1>1, ClosedIsNew, RecordTypes DEF IInv
  <2>4. Built' = Built /\ now \in Nat /\ last \in Nat /\ ids \subseteq Nat /\ Session \subseteq Nat
    BY <1>1, Numbers DEF Built
  <2>5. last' # Never
    BY <2>3, BarsConstants
  <2>6. \A i \in ids' : i <= last'
    <3>1. \A i \in ids : last # Never /\ i <= last
      BY <2>1 DEF PunctualInv
    <3>. QED BY <2>2, <2>3, <2>4, <3>1
  <2>7. pc' # 0 /\ (pc' = Asleep => pc' \notin Awaits) /\ OpenBroadcast # Asleep
    BY <1>1, BarsConstants
  <2>8. pc' = Asleep => target' <= now + 1 /\ target' = last' + 2
    BY <1>1, <2>2, <2>3, <2>4, <2>7
  <2>9. pc' \in Awaits => current' = last' /\ current' < now /\ pc' = OpenBroadcast
    BY <1>1, <2>2, <2>3, <2>7
  <2>10. ASSUME NEW b \in Built, NEW d \in Session, b < d, d <= last'
         PROVE  d \in Built
    <3>1. last # Never
      BY <2>1, OnTime
    <3>2. d # Closed
      BY <1>1
    <3>3. d <= last
      BY <2>2, <2>3, <2>4, <2>10, <3>1, <3>2
    <3>. QED BY <2>1, <2>10, <3>1, <3>3 DEF PunctualInv
  <2>11. \A b \in Built, c \in Early : \A t \in bars[b][c] : arrived[t].interval \in {b, b + 1}
    BY <2>1 DEF PunctualInv
  <2>. QED BY <1>1, <2>1, <2>4, <2>5, <2>6, <2>7, <2>8, <2>9, <2>10, <2>11 DEF PunctualInv
<1>. QED BY <1>1, <1>2, ArrivedFrame DEF PInv

LEMMA BuildPunctual == ASSUME IInv, PInv, Build PROVE PInv'
<1>. DEFINE bar == [c \in Candles |-> IF c = "nifty" THEN agg ELSE Of(c, board)]
<1>1. /\ Awake /\ ~Duplicate /\ Record(Closed) /\ agg' = {} /\ current' = Closed
      /\ slipped' = (slipped \/ now # target)
      /\ UNCHANGED << now, high, arrived, upset >>
      /\ \E j \in Stops(0) : Run(bar, 0, j)
  BY DEF Build
<1>2. PICK j \in Stops(0) : Run(bar, 0, j)
  BY <1>1
<1>3. j \in (0 + 1)..7 /\ 0 \in 0..6 /\ pc = Asleep /\ Handled \subseteq Ticks
  BY <1>1, BarsConstants DEF Stops, Awake, IInv, TypeOK, Handled, Ticks
<1>4. /\ agg \subseteq Handled /\ board \subseteq Handled /\ now \in Nat /\ last \in Nat
      /\ ids \subseteq Nat /\ Session \subseteq Nat /\ Built \subseteq Nat
      /\ \A t \in Handled : arrived[t].interval \in Nat
  BY Numbers
<1>5. bar \in Bar /\ \A c \in Early : bar[c] \subseteq agg \union board
  BY <1>3, <1>4 DEF Bar, Of, Early, Candles
<1>. HIDE DEF bar
<1>6. ASSUME ~slipped' PROVE PunctualInv'
  <2>1. PunctualInv /\ now = target /\ ~slipped /\ now = high
    BY <1>1, <1>6, OnTime DEF PInv
  <2>2. Closed \in Nat /\ now = Closed + 1 /\ (last # Never => Closed = last + 1)
    BY <1>1, <2>1, InTime
  <2>3. last' = Closed /\ ids' \subseteq ids \union {Closed} /\ Closed \in Intervals
        /\ current' = Closed
    BY <1>1, ClosedIsNew, RecordTypes DEF IInv
  <2>4. /\ Built' = Built \union {Closed}
        /\ \A b \in Intervals : b # Closed => bars'[b] = bars[b]
        /\ \A c \in Early : bars'[Closed][c] = bar[c]
        /\ (board' = board /\ j <= 5) \/ board' = {}
        /\ (pc' = Asleep /\ target' = now + 1) \/ (pc' = j /\ j <= 6 /\ target' = target)
        /\ \A b \in Built : b < Closed
    BY <1>1, <1>2, <1>3, <1>5, <2>3, RunEffect, ClosedIsNew DEF Early
  <2>5. last' # Never
    BY <2>3, BarsConstants
  <2>6. \A i \in ids' : i <= last'
    <3>1. \A i \in ids : last # Never /\ i <= last
      BY <2>1 DEF PunctualInv
    <3>. QED BY <1>4, <2>2, <2>3, <3>1
  <2>7. \A t \in agg \union board : arrived[t].interval \in {Closed, Closed + 1}
    <3>1. \A t \in agg \union board : target <= arrived[t].interval + 1
      BY <1>3, <2>1 DEF PunctualInv
    <3>2. \A t \in agg \union board : arrived[t].interval <= now
      BY <1>4, <2>1 DEF PInv, ArrivedInv
    <3>3. ASSUME NEW t \in agg \union board
          PROVE  arrived[t].interval \in {Closed, Closed + 1}
      <4>1. /\ arrived[t].interval \in Nat /\ Closed + 1 <= arrived[t].interval + 1
            /\ arrived[t].interval <= Closed + 1
        BY <1>4, <2>1, <2>2, <3>1, <3>2
      <4>. QED BY <2>2, <4>1
    <3>. QED BY <3>3
  <2>8. \A t \in board' : Closed <= arrived[t].interval
    BY <2>2, <2>4, <2>7
  <2>9. pc' # 0 /\ (pc' = Asleep => pc' \notin Awaits)
    BY <1>3, <2>4, BarsConstants
  <2>10. pc' = Asleep => target' = now + 1 /\ board' = {}
    <3>1. CASE pc' = j /\ j <= 6
      BY <1>3, <3>1, BarsConstants
    <3>2. CASE pc' = Asleep /\ target' = now + 1 /\ pc' # j
      <4>1. j = Asleep
        BY <1>2, <3>2, BarsConstants DEF Run, Suspend
      <4>. QED BY <2>4, <3>2, <4>1, BarsConstants
    <3>3. CASE pc' = Asleep /\ target' = now + 1 /\ pc' = j
      BY <2>4, <3>3, BarsConstants
    <3>. QED BY <2>4, <3>1, <3>2, <3>3
  <2>11. pc' = OpenBroadcast => board' = {}
    <3>1. pc' = OpenBroadcast => j = 6
      BY <2>4, BarsConstants
    <3>. QED BY <2>4, <3>1
  <2>12. pc' = Asleep =>
           /\ target' <= now + 1 /\ target' = last' + 2
           /\ \A t \in agg' \union board' : target' <= arrived[t].interval + 1
    BY <1>1, <1>4, <2>2, <2>3, <2>10
  <2>13. current' = last' /\ current' < now /\ current' \in Built'
    BY <2>2, <2>3, <2>4
  <2>14. ASSUME NEW b \in Built', NEW c \in Early, NEW t \in bars'[b][c]
         PROVE  arrived[t].interval \in {b, b + 1}
    <3>1. CASE b = Closed
      BY <1>5, <2>4, <2>7, <2>14, <3>1
    <3>2. CASE b # Closed
      <4>1. b \in Built /\ bars'[b] = bars[b]
        BY <2>4, <3>2 DEF Built
      <4>. QED BY <2>1, <2>14, <4>1 DEF PunctualInv
    <3>. QED BY <3>1, <3>2
  <2>15. ASSUME NEW b \in Built', NEW d \in Session, b < d, d <= last'
         PROVE  d \in Built'
    <3>1. CASE d = Closed
      BY <2>4, <3>1
    <3>2. CASE d # Closed
      <4>1. d < Closed /\ b # Closed
        BY <1>4, <2>2, <2>3, <2>15, <3>2
      <4>2. b \in Built
        BY <2>4, <4>1
      <4>3. last # Never
        BY <2>1, <4>2, OnTime
      <4>4. d <= last
        BY <1>4, <2>2, <4>1, <4>3
      <4>5. d \in Built
        BY <2>1, <2>15, <4>2, <4>3, <4>4 DEF PunctualInv
      <4>. QED BY <2>4, <4>5
    <3>. QED BY <3>1, <3>2
  <2>. QED BY <1>1, <2>1, <2>3, <2>5, <2>6, <2>8, <2>9, <2>11, <2>12, <2>13, <2>14, <2>15
           DEF PunctualInv
<1>. QED BY <1>1, <1>6, ArrivedFrame DEF PInv

LEMMA ResumePunctual == ASSUME IInv, PInv, Resume PROVE PInv'
<1>1. /\ pc \in Awaits /\ current' = current
      /\ IF bars[current] = NoBar
         THEN Sleep /\ UNCHANGED << bars, board, dbVars >>
         ELSE \E j \in Stops(pc) : Run(bars[current], pc, j)
      /\ slipped' = (slipped \/ (pc' = Asleep /\ now # current + 1))
      /\ UNCHANGED << now, high, arrived, agg, last, ids, upset >>
  BY DEF Resume
<1>2. /\ current \in Intervals /\ pc \in 1..6
      /\ bars \in [Intervals -> Bar \union {NoBar}]
  BY <1>1, BarsConstants DEF IInv, TypeOK, Bar
<1>3. /\ now \in Nat /\ current \in Nat /\ last \in Nat
      /\ agg \subseteq Handled /\ board \subseteq Handled
      /\ \A t \in Handled : arrived[t].interval \in Nat
  BY Numbers
<1>4. ASSUME ~slipped' PROVE PunctualInv'
  <2>1. PunctualInv /\ ~slipped /\ (pc' = Asleep => now = current + 1)
    BY <1>1, <1>4 DEF PInv
  <2>2. /\ current = last /\ current < now /\ last # Never
        /\ \A t \in agg : current < arrived[t].interval
        /\ \A t \in board : current <= arrived[t].interval
        /\ pc = 6 => \A t \in board : current < arrived[t].interval
        /\ pc # 6 => current \in Built
    BY <1>1, <2>1, BarsConstants DEF PunctualInv, IInv, OrderInv
  <2>3. ASSUME Built' = Built,
               \A b \in Built, c \in Early : bars'[b][c] = bars[b][c],
               board' \subseteq board,
               \/ /\ pc' = Asleep /\ target' = now + 1
                  /\ pc = 6 \/ board' = {}
               \/ /\ pc' \in 1..6 /\ (pc' = 6 => pc = 6 \/ board' = {}) /\ current \in Built
        PROVE  PunctualInv'
    <3>1. pc' = Asleep => /\ target' = now + 1 /\ target' = last + 2
                          /\ \A t \in agg \union board' : target' <= arrived[t].interval + 1
      <4>. SUFFICES ASSUME pc' = Asleep
                    PROVE /\ target' = now + 1 /\ target' = last + 2
                          /\ \A t \in agg \union board' : target' <= arrived[t].interval + 1
        OBVIOUS
      <4>1. target' = now + 1 /\ (pc = 6 \/ board' = {})
        BY <2>3, BarsConstants
      <4>2. now = current + 1 /\ target' = last + 2
        BY <1>3, <2>1, <2>2, <4>1
      <4>3. ASSUME NEW t \in agg \union board'
            PROVE  target' <= arrived[t].interval + 1
        <5>1. current < arrived[t].interval /\ t \in Handled
          BY <1>3, <2>2, <2>3, <4>1
        <5>. QED BY <1>3, <4>1, <4>2, <5>1
      <4>. QED BY <4>1, <4>2, <4>3
    <3>2. pc' \in Awaits =>
            /\ \A t \in board' : current <= arrived[t].interval
            /\ pc' = OpenBroadcast => \A t \in board' : current < arrived[t].interval
            /\ current \in Built
      BY <2>2, <2>3, BarsConstants
    <3>3. pc' # 0
      BY <2>3, BarsConstants
    <3>4. \A b \in Built', c \in Early : \A t \in bars'[b][c] : arrived[t].interval \in {b, b + 1}
      BY <2>1, <2>3 DEF PunctualInv
    <3>. QED BY <1>1, <1>3, <2>1, <2>2, <2>3, <3>1, <3>2, <3>3, <3>4 DEF PunctualInv
  <2>4. CASE bars[current] = NoBar
    <3>1. pc' = Asleep /\ target' = now + 1 /\ UNCHANGED << bars, board >>
          /\ Built' = Built /\ current \notin Built
      BY <1>1, <2>4 DEF Built, Sleep
    <3>. QED BY <2>2, <2>3, <3>1
  <2>5. CASE bars[current] # NoBar
    <3>. DEFINE bar == bars[current]
    <3>1. PICK j \in Stops(pc) : Run(bar, pc, j)
      BY <1>1, <2>5
    <3>2. j \in (pc + 1)..7 /\ pc \in 0..6
      BY <1>2, BarsConstants DEF Stops
    <3>3. bar \in Bar /\ current \in Built
      BY <1>2, <2>5 DEF Built
    <3>. HIDE DEF bar
    <3>4. /\ Built' = Built \union {current}
          /\ \A b \in Intervals : b # current => bars'[b] = bars[b]
          /\ \A c \in Early : bars'[current][c] = bar[c]
          /\ (board' = board /\ (j <= 5 \/ pc = 6)) \/ board' = {}
          /\ (pc' = Asleep /\ target' = now + 1) \/ (pc' = j /\ j <= 6 /\ target' = target)
      BY <1>1, <1>2, <3>1, <3>2, <3>3, RunEffect DEF Early
    <3>5. pc' = Asleep => j = 7
      BY <3>1, <3>2, BarsConstants DEF Run, Suspend
    <3>6. \A b \in Built, c \in Early : bars'[b][c] = bars[b][c]
      BY <3>4 DEF bar, Built
    <3>7. Built' = Built /\ board' \subseteq board
      BY <3>3, <3>4
    <3>8. \/ pc' = Asleep /\ target' = now + 1 /\ (pc = 6 \/ board' = {})
          \/ pc' \in 1..6 /\ (pc' = 6 => pc = 6 \/ board' = {})
      <4>1. CASE pc' = Asleep
        <5>1. j = 7
          BY <3>5, <4>1
        <5>. QED BY <3>4, <4>1, <5>1, BarsConstants
      <4>2. CASE pc' # Asleep
        BY <1>2, <3>2, <3>4, <4>2
      <4>. QED BY <4>1, <4>2
    <3>. QED BY <2>3, <3>3, <3>6, <3>7, <3>8
  <2>. QED BY <2>4, <2>5
<1>. QED BY <1>1, <1>4, ArrivedFrame DEF PInv

LEMMA PunctualStep == IInv /\ PInv /\ [Next]_vars => PInv'
<1>. SUFFICES ASSUME IInv, PInv, [Next]_vars PROVE PInv'
  OBVIOUS
<1>1. ASSUME NEW kind \in Kinds, Tick(kind) PROVE PInv'
  BY <1>1, TickPunctual
<1>2. CASE StepBack \/ BuildFails \/ Restart
  <2>1. slipped' = TRUE /\ UNCHANGED << arrived, high >>
    BY <1>2 DEF StepBack, BuildFails, Restart
  <2>. QED BY <2>1, ArrivedFrame DEF PInv
<1>3. CASE UNCHANGED vars
  BY <1>3 DEF vars, PInv, ArrivedInv, PunctualInv, Built, Handled
<1>4. CASE Flush \/ OthersEnqueue \/ FlushesStop
  BY <1>4, DatabaseFrame DEF PInv, ArrivedInv, PunctualInv, Built, Handled
<1>. QED BY <1>1, <1>2, <1>3, <1>4, BoundaryPunctual, GatePunctual, SkipDuplicatePunctual,
         SkipOutsidePunctual, BuildPunctual, ResumePunctual DEF Next

LEMMA PunctualInit == Init => PInv
<1>. SUFFICES ASSUME Init PROVE PInv
  OBVIOUS
<1>1. /\ arrived = << >> /\ pc = 0 /\ ids = {} /\ agg = {} /\ upset = "no" /\ Built = {}
  BY DEF Init, Built
<1>2. Handled = {}
  BY <1>1 DEF Handled
<1>. QED BY <1>1, <1>2, BarsConstants DEF PInv, ArrivedInv, PunctualInv

\* As long as no iteration failed, began late or outlasted its interval, each bar has
\* only ticks of its own interval or of the moment after it, although the two
\* accumulators are emptied at different times, and no bar of the session is skipped.
THEOREM BarsArePunctual == Spec => []Punctual
<1>1. IInv /\ PInv => Punctual
  <2>. SUFFICES ASSUME IInv, PInv, ~slipped
                PROVE  /\ \A b \in Built : \A c \in Early : \A t \in bars[b][c] :
                            arrived[t].interval \in {b, b + 1}
                       /\ \A b, c \in Built : \A d \in Session : (b < d /\ d < c) => d \in Built
    BY DEF Punctual, Early
  <2>1. PunctualInv
    BY DEF PInv
  <2>2. ASSUME NEW b \in Built, NEW c \in Built, NEW d \in Session, b < d, d < c
        PROVE  d \in Built
    <3>1. last # Never /\ c <= last
      BY <2>1, OnTime DEF IInv, OrderInv
    <3>2. d <= last
      BY <2>2, <3>1, Numbers
    <3>. QED BY <2>1, <2>2, <3>1, <3>2 DEF PunctualInv
  <2>. QED BY <2>1, <2>2 DEF PunctualInv
<1>2. Init => PInv
  BY PunctualInit
<1>3. IInv /\ PInv /\ [Next]_vars => PInv'
  BY PunctualStep
<1>. QED BY <1>1, <1>2, <1>3, BarsInvariant, PTL DEF Spec

(***************************************************************************)
(* OptionBook: the candles.                                                *)
(***************************************************************************)

CandleTypes ==
  /\ volume \in [Followed -> Nat] /\ start \in [Followed -> Int]
  /\ traded \in [Followed -> Nat] /\ closed \in [Followed -> Nat]

\* What is counted of s: a candle that is not open has no volume, and one that is open
\* began where what was closed had ended, or later.
Counted(s) ==
  /\ s \notin open => volume[s] = 0 /\ closed[s] <= traded[s]
  /\ s \in open => closed[s] <= start[s] /\ start[s] + volume[s] <= traded[s]

CandleInv == CandleTypes /\ \A s \in Followed \ blank : Counted(s)

\* A message with a volume that is not below the last one keeps the count.
LEMMA CountKeeps ==
  ASSUME CandleInv, NEW s \in Followed, NEW cumulative \in Nat, Count(s, cumulative),
         blank \subseteq blank', cumulative < traded[s] => s \in blank'
  PROVE  CandleInv'
<1>. DEFINE from == StartOf(s, cumulative)
<1>1. from \in Int
  BY DEF StartOf, CandleInv, CandleTypes
<1>2. /\ open' = open \union {s} /\ start' = [start EXCEPT ![s] = from]
      /\ closed' = closed
      /\ volume' = IF cumulative - from > volume[s]
                   THEN [volume EXCEPT ![s] = cumulative - from] ELSE volume
      /\ traded' = IF cumulative > traded[s]
                   THEN [traded EXCEPT ![s] = cumulative] ELSE traded
  BY DEF Count
<1>3. CandleTypes'
  BY <1>1, <1>2 DEF CandleInv, CandleTypes
<1>4. ASSUME NEW t \in Followed \ blank', t # s
      PROVE  Counted(t)'
  BY <1>2, <1>4 DEF CandleInv, CandleTypes, Counted
<1>5. ASSUME s \notin blank'
      PROVE  Counted(s)'
  <2>1. Counted(s) /\ cumulative >= traded[s]
    BY <1>5 DEF CandleInv, CandleTypes
  <2>2. traded'[s] = cumulative /\ start'[s] = from /\ closed'[s] = closed[s]
    BY <1>2, <2>1 DEF CandleInv, CandleTypes
  <2>3. CASE s \notin open
    <3>1. from = cumulative /\ volume[s] = 0 /\ closed[s] <= traded[s]
      BY <2>1, <2>3 DEF StartOf, Counted
    <3>2. volume'[s] = 0
      BY <1>2, <3>1
    <3>. QED BY <1>2, <2>1, <2>2, <3>1, <3>2 DEF CandleInv, CandleTypes, Counted
  <2>4. CASE s \in open
    <3>1. closed[s] <= start[s] /\ start[s] + volume[s] <= traded[s]
      BY <2>1, <2>4 DEF Counted
    <3>2. from = start[s]
      BY <2>4, <3>1 DEF StartOf, CandleInv, CandleTypes
    <3>3. volume'[s] = volume[s] \/ volume'[s] = cumulative - from
      BY <1>2 DEF CandleInv, CandleTypes
    <3>. HIDE DEF from
    <3>. QED BY <1>1, <1>2, <2>1, <2>2, <3>1, <3>2, <3>3 DEF CandleInv, CandleTypes, Counted
  <2>. QED BY <2>3, <2>4
<1>. QED BY <1>3, <1>4, <1>5 DEF CandleInv

LEMMA OrderBookCounts ==
  ASSUME CandleInv, NEW s, CountOrderBook(s)
  PROVE  CandleInv'
<1>. USE OptionAssumption DEF OptionAssumption
<1>1. CASE s \notin Followed
  BY <1>1 DEF CountOrderBook, candles, CandleInv, CandleTypes, Counted
<1>2. CASE s \in Followed
  <2>1. PICK cumulative \in {0} \union traded[s]..MaxVolume :
          /\ Count(s, cumulative)
          /\ blank' = IF cumulative < traded[s] THEN blank \union {s} ELSE blank
    BY <1>2 DEF CountOrderBook
  <2>2. cumulative \in Nat
    BY <1>2 DEF CandleInv, CandleTypes
  <2>. QED BY <1>2, <2>1, <2>2, CountKeeps
<1>. QED BY <1>1, <1>2

LEMMA GreeksCount ==
  ASSUME CandleInv, NEW s, CountGreeks(s)
  PROVE  CandleInv'
<1>. USE OptionAssumption DEF OptionAssumption
<1>1. CASE UNCHANGED candles
  BY <1>1 DEF candles, CandleInv, CandleTypes, Counted
<1>2. CASE /\ s \in Followed
           /\ \E cumulative \in traded[s]..MaxVolume : Count(s, cumulative)
           /\ UNCHANGED blank
  <2>1. PICK cumulative \in traded[s]..MaxVolume : Count(s, cumulative)
    BY <1>2
  <2>2. cumulative \in Nat /\ cumulative >= traded[s]
    BY <1>2 DEF CandleInv, CandleTypes
  <2>3. traded[s] \in Nat
    BY <1>2 DEF CandleInv, CandleTypes
  <2>. QED BY <1>2, <2>1, <2>2, <2>3, CountKeeps
<1>3. CASE /\ s \in Followed
           /\ open' = open \union {s}
           /\ blank' = IF s \in open THEN blank ELSE blank \union {s}
           /\ UNCHANGED << volume, start, traded, closed >>
  BY <1>3 DEF CandleInv, CandleTypes, Counted
<1>. QED BY <1>1, <1>2, <1>3 DEF CountGreeks

LEMMA ResetCounts ==
  ASSUME CandleInv, ResetBoard,
         \/ UNCHANGED closed
         \/ closed' = [s \in Followed |-> IF s \in blank THEN closed[s] ELSE closed[s] + volume[s]]
  PROVE  CandleInv'
<1>1. /\ open' = {} /\ volume' = [s \in Followed |-> 0]
      /\ start' = start /\ traded' = traded /\ blank' = blank
  BY DEF ResetBoard
<1>2. CandleTypes'
  BY <1>1 DEF CandleInv, CandleTypes
<1>3. ASSUME NEW s \in Followed \ blank
      PROVE  closed'[s] <= traded[s]
  BY <1>3 DEF CandleInv, CandleTypes, Counted
<1>. QED BY <1>1, <1>2, <1>3 DEF CandleInv, Counted

\* The candles of an option count no volume twice (VolumeOnce), whatever is traded and
\* however the bars are cut.
THEOREM VolumesCountedOnce == BookSpec => []VolumeOnce
<1>. USE OptionAssumption DEF OptionAssumption
<1>1. BookInit => CandleInv
  BY DEF BookInit, CandleInv, CandleTypes, Counted
<1>2. CandleInv /\ [BookNext]_bookVars => CandleInv'
  <2>. SUFFICES ASSUME CandleInv, [BookNext]_bookVars PROVE CandleInv'
    OBVIOUS
  <2>1. CASE UNCHANGED candles
    BY <2>1 DEF candles, CandleInv, CandleTypes, Counted
  <2>2. ASSUME NEW s \in Strikes, OnOrderBook(s) PROVE CandleInv'
    BY <2>2, OrderBookCounts DEF OnOrderBook
  <2>3. ASSUME NEW s \in Strikes, OnGreeks(s) PROVE CandleInv'
    BY <2>3, GreeksCount DEF OnGreeks
  <2>4. CASE BarSent
    BY <2>4, ResetCounts DEF BarSent
  <2>5. CASE SkipBar
    BY <2>5, ResetCounts DEF SkipBar
  <2>6. ASSUME NEW price \in Spots, OnNifty(price) PROVE UNCHANGED candles
    BY <2>6 DEF OnNifty
  <2>7. ASSUME NEW s \in Strikes, OnOrderBookDirect(s) PROVE UNCHANGED candles
    BY <2>7 DEF OnOrderBookDirect
  <2>8. ASSUME NEW received \in SUBSET Strikes, NEW hint \in Spots, OnOptionChain(received, hint)
        PROVE  UNCHANGED candles
    BY <2>8 DEF OnOptionChain
  <2>9. CASE RefreshRefMaps \/ ThrottleElapses \/ CloseBar
    BY <2>1, <2>9 DEF RefreshRefMaps, ThrottleElapses, CloseBar
  <2>10. CASE UNCHANGED bookVars
    BY <2>1, <2>10 DEF bookVars, candles
  <2>. QED BY <2>1, <2>2, <2>3, <2>4, <2>5, <2>6, <2>7, <2>8, <2>9, <2>10 DEF BookNext
<1>3. CandleInv => VolumeOnce
  BY DEF CandleInv, CandleTypes, Counted, VolumeOnce
<1>. QED BY <1>1, <1>2, <1>3, PTL DEF BookSpec

(***************************************************************************)
(* The order book of a bar.                                                *)
(***************************************************************************)

BookTypes ==
  /\ book \in [Strikes -> Nat] /\ due \in [Strikes -> Nat]
  /\ spot \in Spots /\ moved \in BOOLEAN

\* While the ATM has not moved, everything that has an ATM has that of the NIFTY, and
\* the book has what is due around it.
BookInv ==
  /\ BookTypes
  /\ bookAtm = NoStrike => \A s \in Strikes : due[s] = 0
  /\ ~moved =>
       /\ viewAtm \in {NoStrike, Atm(spot)} /\ bookAtm \in {NoStrike, Atm(spot)}
       /\ \A s \in Around(Atm(spot), BookRadius) : book[s] = due[s]

\* No strike is taken for None.
LEMMA NoStrikeIsNone == \A x \in Strikes : x \in Int /\ x # NoStrike
<1>1. Strikes \subseteq Nat /\ NoStrike \notin Int
  BY OptionAssumption DEF OptionAssumption
<1>2. Nat \subseteq Int
  OBVIOUS
<1>. QED BY <1>1, <1>2

LEMMA AtmType == ASSUME NEW price \in Spots PROVE Atm(price) \in Int
<1>1. price \in Nat
  BY OptionAssumption DEF OptionAssumption
<1>. QED BY <1>1 DEF Atm

\* A rebuild is centred on the price; without one the view was.
LEMMA RefreshCentres ==
  ASSUME NEW price, NEW force \in BOOLEAN, Refresh(price, force)
  PROVE  viewAtm' \in {viewAtm, Atm(price)}
BY DEF Refresh

LEMMA UpdateKeeps ==
  ASSUME BookInv, NEW s \in Strikes, UpdateOption(s), spot' = spot, moved' = moved,
         viewAtm' \in {viewAtm, Atm(spot)}
  PROVE  BookInv'
<1>. USE OptionAssumption DEF OptionAssumption
<1>1. /\ bookAtm' = Atm(spot) /\ Atm(spot) \in Int /\ bookAtm' # NoStrike
      /\ due' = [due EXCEPT ![s] = @ + 1]
      /\ book' = IF s \in Around(Atm(spot), BookRadius) THEN [book EXCEPT ![s] = @ + 1] ELSE book
  BY AtmType DEF UpdateOption, BookInv, BookTypes
<1>2. BookTypes'
  BY <1>1 DEF BookInv, BookTypes
<1>3. ASSUME ~moved, NEW t \in Around(Atm(spot), BookRadius)
      PROVE  book'[t] = due'[t]
  BY <1>1, <1>3 DEF BookInv, BookTypes, Around
<1>. QED BY <1>1, <1>2, <1>3 DEF BookInv

LEMMA ResetKeeps ==
  ASSUME BookInv, Reset, due' = Zero, BarBegins, spot' = spot, viewAtm' = viewAtm
  PROVE  BookInv'
<1>1. /\ bookAtm' = NoStrike /\ book' = [s \in Strikes |-> 0] /\ due' = [s \in Strikes |-> 0]
      /\ moved' = (viewAtm \notin {NoStrike, Atm(spot)})
  BY DEF Reset, Zero, BarBegins
<1>. QED BY <1>1 DEF BookInv, BookTypes, Around

\* As long as the ATM stays where the chain view has it, the rows of a bar have every
\* update of the bar (NothingLostAtRest), for any radii of which that of the rows is
\* not the smaller.
THEOREM BookOfTheBarIsComplete == BookSpec => NothingLostAtRest
<1>. USE OptionAssumption DEF OptionAssumption
<1>1. BookInit => BookInv
  <2>. SUFFICES ASSUME BookInit PROVE BookInv
    OBVIOUS
  <2>1. book = [s \in Strikes |-> 0] /\ due = [s \in Strikes |-> 0]
    BY DEF BookInit, Zero
  <2>2. spot \in Spots /\ moved = FALSE /\ viewAtm = NoStrike /\ bookAtm = NoStrike
    BY DEF BookInit
  <2>3. BookTypes
    BY <2>1, <2>2 DEF BookTypes
  <2>4. \A s \in Strikes : book[s] = 0 /\ due[s] = 0
    BY <2>1
  <2>5. \A s \in Around(Atm(spot), BookRadius) : book[s] = due[s]
    BY <2>4 DEF Around
  <2>. QED BY <2>2, <2>3, <2>4, <2>5 DEF BookInv
<1>2. BookInv /\ [BookNext]_bookVars => BookInv'
  <2>. SUFFICES ASSUME BookInv, [BookNext]_bookVars PROVE BookInv'
    OBVIOUS
  <2>1. CASE UNCHANGED << spot, viewAtm, ledger, moved >>
    BY <2>1 DEF ledger, BookInv, BookTypes
  <2>2. ASSUME NEW price \in Spots, OnNifty(price) PROVE BookInv'
    <3>1. /\ spot' = price /\ moved' = (moved \/ Atm(price) # Atm(spot))
          /\ UNCHANGED ledger /\ viewAtm' \in {viewAtm, Atm(price)}
      BY <2>2, RefreshCentres DEF OnNifty
    <3>. QED BY <3>1 DEF ledger, BookInv, BookTypes
  <2>3. ASSUME NEW s \in Strikes, OnOrderBook(s) PROVE BookInv'
    BY <2>3, UpdateKeeps, RefreshCentres DEF OnOrderBook, feed
  <2>4. ASSUME NEW s \in Strikes, OnOrderBookDirect(s) PROVE BookInv'
    BY <2>4, UpdateKeeps DEF OnOrderBookDirect, feed, chain
  <2>5. ASSUME NEW s \in Strikes, OnGreeks(s) PROVE BookInv'
    <3>1. spot' = spot /\ moved' = moved /\ UNCHANGED ledger /\ viewAtm' \in {viewAtm, Atm(spot)}
      BY <2>5, RefreshCentres DEF OnGreeks, feed
    <3>. QED BY <3>1 DEF ledger, BookInv, BookTypes
  <2>6. ASSUME NEW received \in SUBSET Strikes, NEW hint \in Spots, OnOptionChain(received, hint)
        PROVE  BookInv'
    <3>1. /\ spot' = spot /\ moved' = (moved \/ Atm(hint) # Atm(spot))
          /\ UNCHANGED ledger /\ viewAtm' \in {viewAtm, Atm(hint)}
      BY <2>6, RefreshCentres DEF OnOptionChain, feed
    <3>. QED BY <3>1 DEF ledger, BookInv, BookTypes
  <2>7. CASE CloseBar
    BY <2>7, ResetKeeps DEF CloseBar, feed, chain
  <2>8. CASE SkipBar
    BY <2>8, ResetKeeps DEF SkipBar, ResetBoard, chain
  <2>9. CASE BarSent
    BY <2>9 DEF BarSent, ResetBoard, chain, BookInv, BookTypes
  <2>10. CASE RefreshRefMaps \/ ThrottleElapses
    BY <2>1, <2>10 DEF RefreshRefMaps, ThrottleElapses, feed, chain
  <2>11. CASE UNCHANGED bookVars
    BY <2>1, <2>11 DEF bookVars, ledger
  <2>. QED BY <2>2, <2>3, <2>4, <2>5, <2>6, <2>7, <2>8, <2>9, <2>10, <2>11 DEF BookNext
<1>3. ASSUME BookInv, [BookNext]_bookVars, emitting', ~emitting, ~moved,
             NEW s \in Around(Atm(spot), BookRadius)
      PROVE  rows'[s] = due[s]
  <2>1. CloseBar
    <3>1. \A price \in Spots : OnNifty(price) => emitting' = emitting
      BY DEF OnNifty
    <3>2. \A t \in Strikes : OnOrderBook(t) \/ OnOrderBookDirect(t) \/ OnGreeks(t) => emitting' = emitting
      BY DEF OnOrderBook, OnOrderBookDirect, OnGreeks
    <3>3. \A received \in SUBSET Strikes, hint \in Spots :
            OnOptionChain(received, hint) => emitting' = emitting
      BY DEF OnOptionChain
    <3>. QED BY <1>3, <3>1, <3>2, <3>3 DEF BookNext, RefreshRefMaps, ThrottleElapses, BarSent, SkipBar, bookVars
  <2>2. Atm(spot) \in Int
    BY <1>3, AtmType DEF BookInv, BookTypes
  <2>3. s \in Strikes /\ s \in Around(Atm(spot), EmitRadius) /\ book[s] = due[s]
    <3>1. book[s] = due[s]
      BY <1>3 DEF BookInv
    <3>2. s \in Strikes /\ Atm(spot) - BookRadius <= s /\ s <= Atm(spot) + BookRadius
      BY <1>3 DEF Around
    <3>3. /\ s \in Int /\ BookRadius \in Int /\ EmitRadius \in Int
          /\ BookRadius <= EmitRadius
      BY <3>2, OptionAssumption DEF OptionAssumption
    <3>4. Atm(spot) - EmitRadius <= s /\ s <= Atm(spot) + EmitRadius
      <4>. DEFINE A == Atm(spot)
      <4>1. A \in Int /\ A - BookRadius <= s /\ s <= A + BookRadius
        BY <2>2, <3>2
      <4>. HIDE DEF A
      <4>2. A - EmitRadius <= s /\ s <= A + EmitRadius
        BY <3>3, <4>1
      <4>. QED BY <4>2 DEF A
    <3>. QED BY <3>1, <3>2, <3>4 DEF Around
  <2>4. SnapshotAtm = Atm(spot) \/ (SnapshotAtm = NoStrike /\ bookAtm = NoStrike)
    <3>1. viewAtm \in {NoStrike, Atm(spot)} /\ bookAtm \in {NoStrike, Atm(spot)}
      BY <1>3 DEF BookInv
    <3>2. viewAtm \in Strikes => viewAtm \in Int /\ viewAtm # NoStrike
      BY NoStrikeIsNone
    <3>3. viewAtm \in Strikes => viewAtm = Atm(spot)
      BY <3>1, <3>2
    <3>4. (SnapshotAtm = viewAtm /\ viewAtm \in Strikes) \/ SnapshotAtm = Atm(spot)
            \/ SnapshotAtm = bookAtm
      BY DEF SnapshotAtm
    <3>. QED BY <3>1, <3>3, <3>4
  <2>5. rows'[s] = IF s \in Selected THEN book[s] ELSE 0
    BY <2>1, <2>3 DEF CloseBar
  <2>6. CASE SnapshotAtm = Atm(spot)
    BY <2>2, <2>3, <2>5, <2>6 DEF Selected
  <2>7. CASE bookAtm = NoStrike
    BY <1>3, <2>3, <2>5, <2>7 DEF BookInv, BookTypes
  <2>. QED BY <2>4, <2>6, <2>7
<1>4. BookInv /\ [BookNext]_bookVars => ((emitting' /\ ~emitting /\ ~moved) =>
         \A s \in Around(Atm(spot), BookRadius) : rows'[s] = due[s])
  BY <1>3
<1>. QED BY <1>1, <1>2, <1>4, PTL DEF BookSpec, NothingLostAtRest

=============================================================================
