-------------------------------- MODULE Bars --------------------------------
(***************************************************************************)
(* The 3-minute bars: the ticks RealtimePipeline accumulates, the two      *)
(* accumulators (CandleBoard and NiftyOhlcAggregator), and the scheduler   *)
(* that closes a bar at each boundary of the clock and hands it to the     *)
(* database queue and the websocket clients (app/realtime/pipeline.py).    *)
(*                                                                         *)
(* Time is the number of the interval in progress, so that at the boundary *)
(* which begins interval n the bar that closes is n - 1.  A candle is      *)
(* abstracted to the set of the ticks it was updated with.  The scheduler  *)
(* is suspended only where it can be: asleep, in an enqueue that finds the *)
(* queue full, and in a send to a client; ticks come in between.           *)
(***************************************************************************)
EXTENDS Naturals, FiniteSets

CONSTANTS
  MaxInterval,     \* the intervals are 0..MaxInterval (a bound)
  Session,         \* those of is_nse_cash_session_bar
  MaxTicks,        \* how many ticks arrive (a bound)
  Kinds,           \* the kinds of ticks of the instance
  IdsMax, IdsKept, \* the size emitted_bucket_ids is cut at, and cut to
  NoBar,           \* no bar was built for the interval
  UseDatabase,     \* is there a db_writer?
  DatabaseMayStop, \* may its flushes stop?
  BuildMayFail,    \* may an iteration raise while the bar is built?
  MayRestart,      \* may the process be restarted?
  ClockMayStepBack \* may the wall clock be set back over a boundary?

ASSUME ConstantsAssumption ==
  /\ MaxInterval \in Nat /\ MaxTicks \in Nat
  /\ Session \subseteq 0..MaxInterval
  /\ Kinds \subseteq {"index", "future", "option", "spot"}
  /\ IdsKept \in Nat /\ IdsMax \in Nat /\ IdsKept <= IdsMax
  /\ {UseDatabase, DatabaseMayStop, BuildMayFail, MayRestart, ClockMayStepBack} \subseteq BOOLEAN

VARIABLES
  now,      \* the interval in progress, by the wall clock
  high,     \* history: the latest it has been
  arrived,  \* history: the kind and the interval of each tick that was handled
  agg,      \* the ticks in NiftyOhlcAggregator
  board,    \* the ticks in CandleBoard
  pc,       \* where the scheduler is
  target,   \* target_boundary, while it sleeps
  current,  \* bucket_start of the bar being emitted
  last,     \* last_emitted_start; MaxInterval + 1 is None
  ids,      \* emitted_bucket_ids
  bars,     \* the bars that were built, for each candle the ticks in it
  db_queue, \* the queue of DBWriter as a put of the scheduler that waits finds it:
            \* "full", or with "room"; "room" while none waits
  flushing, \* does DBWriter take batches from it?
  slipped,  \* history: an iteration failed, began late or outlasted the interval,
            \* ticks preceded the scheduler, or the clock was set back
  upset     \* history: "restart" or "clock" once the process was restarted or the
            \* clock set back, else "no"; a behaviour has one or the other (a bound)

vars == << now, high, arrived, agg, board, pc, target, current, last, ids, bars,
           db_queue, flushing, slipped, upset >>
dbVars == << db_queue, flushing >>

Intervals == 0..MaxInterval
Ticks     == 1..MaxTicks
Handled   == DOMAIN arrived
Never     == MaxInterval + 1

\* The awaits of an emission, in order: four enqueues, the broadcast of the bar and
\* the broadcast of candle_3m_open.
OptionsEnqueue == 3
MarketEnqueue  == 4
Broadcast      == 5
OpenBroadcast  == 6
Asleep         == 7
Awaits         == 1..OpenBroadcast
Enqueues       == 1..MarketEnqueue

Of(kind, ticks) == {t \in ticks : arrived[t].kind = kind}

Candles == {"nifty", "index", "future", "option", "spot"}

\* A bar is told from no bar.
ASSUME NoBarAssumption == NoBar \notin [Candles -> SUBSET Ticks]

TypeOK ==
  /\ now \in Intervals /\ high \in Intervals /\ now <= high
  /\ \E n \in 0..MaxTicks : arrived \in [1..n -> [kind : Kinds, interval : Intervals]]
  /\ agg \subseteq Handled /\ board \subseteq Handled
  /\ pc \in Awaits \union {0, Asleep}
  /\ target \in 0..(MaxInterval + 1) /\ current \in Intervals
  /\ last \in Intervals \union {Never}
  /\ ids \subseteq Intervals /\ Cardinality(ids) <= IdsMax
  /\ bars \in [Intervals -> [Candles -> SUBSET Ticks] \union {NoBar}]
  /\ db_queue \in {"room", "full"} /\ flushing \in BOOLEAN
  /\ slipped \in BOOLEAN /\ upset \in {"no", "restart", "clock"}

Init ==
  /\ now = 0
  /\ high = 0
  /\ arrived = << >>
  /\ agg = {}
  /\ board = {}
  /\ pc = 0
  /\ target = 0
  /\ current = 0
  /\ last = Never
  /\ ids = {}
  /\ bars = [b \in Intervals |-> NoBar]
  /\ db_queue = "room"
  /\ flushing = TRUE
  /\ slipped = FALSE
  /\ upset = "no"

(***************************************************************************)
(* Ticks and time.                                                         *)
(***************************************************************************)

\* The pipeline handles a tick.  A NIFTY index tick updates both accumulators with
\* no suspension in between, any other tick its candle on the board.
Tick(kind) ==
  /\ Cardinality(Handled) < MaxTicks
  /\ LET t == Cardinality(Handled) + 1
     IN  /\ arrived' = [x \in Handled \union {t} |->
                          IF x = t THEN [kind |-> kind, interval |-> now] ELSE arrived[x]]
         /\ board' = board \union {t}
         /\ agg' = IF kind = "index" THEN agg \union {t} ELSE agg
  /\ UNCHANGED << now, high, pc, target, current, last, ids, bars, dbVars, slipped, upset >>

Boundary ==
  /\ now < MaxInterval
  /\ now' = now + 1
  /\ high' = IF now' > high THEN now' ELSE high
  /\ UNCHANGED << arrived, agg, board, pc, target, current, last, ids, bars, dbVars,
                  slipped, upset >>

\* The clock is corrected by less than an interval.
StepBack ==
  /\ ClockMayStepBack /\ upset # "restart"
  /\ now = high /\ now > 0
  /\ now' = now - 1
  /\ slipped' = TRUE
  /\ upset' = "clock"
  /\ UNCHANGED << high, arrived, agg, board, pc, target, current, last, ids, bars, dbVars >>

(***************************************************************************)
(* The scheduler.                                                          *)
(***************************************************************************)

\* The end of an iteration and the top of the next one.
Sleep == pc' = Asleep /\ target' = now + 1

\* The startup gate lets the scheduler begin; ticks may have come before it.
GateOpens ==
  /\ pc = 0
  /\ Sleep
  /\ slipped' = (slipped \/ board # {})
  /\ UNCHANGED << now, high, arrived, agg, board, current, last, ids, bars, dbVars, upset >>

\* The candles an emission reads afresh when it comes past await i and is next
\* suspended at j: the database blocks of the options and of the stocks take another
\* look at the board.
Reread(bar, i, j) ==
  [c \in Candles |->
     CASE c = "option" /\ UseDatabase /\ i < OptionsEnqueue /\ OptionsEnqueue <= j
            -> Of("option", board)
       [] c = "spot" /\ UseDatabase /\ i < MarketEnqueue /\ MarketEnqueue <= j
            -> Of("spot", board)
       [] OTHER -> bar[c]]

\* Where an emission past await i may be suspended next: in an enqueue, if there is a
\* database, in a broadcast, or asleep at the end.  candle_3m_open is sent only for a
\* bar of the session.
Stops(i) ==
  {j \in (i + 1)..Asleep : /\ j < Broadcast => UseDatabase
                           /\ j = OpenBroadcast => current' + 1 \in Session}

\* A put is suspended where it found the queue full.
Suspend(j) ==
  /\ IF j = Asleep THEN Sleep ELSE pc' = j /\ UNCHANGED target
  /\ db_queue' = IF j \in Enqueues THEN "full" ELSE "room"
  /\ UNCHANGED flushing

\* Mutant: the board is not reset after the broadcast.
RunWithoutReset(bar, i, j) ==
  /\ bars' = [bars EXCEPT ![current'] = Reread(bar, i, j)]
  /\ Suspend(j)
  /\ UNCHANGED board

\* Runs from await i to await j; the board is reset once the bar has been broadcast.
Run(bar, i, j) ==
  /\ bars' = [bars EXCEPT ![current'] = Reread(bar, i, j)]
  /\ board' = IF i < OpenBroadcast /\ OpenBroadcast <= j THEN {} ELSE board
  /\ Suspend(j)

\* The bar of the interval that just closed has been seen to.
Record(b) ==
  /\ last' = b
  /\ LET more == ids \union {b}
     IN  IF Cardinality(more) > IdsMax
         THEN \E kept \in SUBSET more : Cardinality(kept) = IdsKept /\ ids' = kept
         ELSE ids' = more

Awake == pc = Asleep /\ now >= target
\* Mutant: the bar that begins at the boundary is taken for the one that closes.
ClosedOffByOne == now

Closed == now - 1
\* Mutant: a bucket is not looked up among those emitted.
DuplicateNever == FALSE

Duplicate == Closed \in ids \/ Closed = last

SkipDuplicate ==
  /\ Awake
  /\ Duplicate
  /\ Sleep
  /\ UNCHANGED << now, high, arrived, agg, board, current, last, ids, bars, dbVars,
                  slipped, upset >>

\* Outside the session the accumulators are emptied and no bar is built.
SkipOutsideSession ==
  /\ Awake /\ ~Duplicate
  /\ Closed \notin Session
  /\ Record(Closed)
  /\ agg' = {}
  /\ board' = {}
  /\ current' = Closed
  /\ \/ Sleep
     \/ Closed + 1 \in Session /\ pc' = OpenBroadcast /\ UNCHANGED target
  /\ slipped' = (slipped \/ now # target)
  /\ UNCHANGED << now, high, arrived, bars, dbVars, upset >>

\* An exception before the accumulators are read: the bar, already recorded as
\* emitted, is lost, and its ticks stay for the next one.
BuildFails ==
  /\ BuildMayFail
  /\ Awake /\ ~Duplicate
  /\ Closed \in Session
  /\ Record(Closed)
  /\ Sleep
  /\ slipped' = TRUE
  /\ UNCHANGED << now, high, arrived, agg, board, current, bars, dbVars, upset >>

\* Mutant: the aggregator is read and not reset.
BuildKeepingTicks ==
  /\ Awake /\ ~Duplicate
  /\ Closed \in Session
  /\ Record(Closed)
  /\ current' = Closed
  /\ \E j \in Stops(0) :
       Run([c \in Candles |-> IF c = "nifty" THEN agg ELSE Of(c, board)], 0, j)
  /\ slipped' = (slipped \/ now # target)
  /\ UNCHANGED << now, high, arrived, agg, upset >>

\* The candles are read, the aggregator is reset, and the emission begins.
Build ==
  /\ Awake /\ ~Duplicate
  /\ Closed \in Session
  /\ Record(Closed)
  /\ current' = Closed
  /\ agg' = {}
  /\ \E j \in Stops(0) :
       Run([c \in Candles |-> IF c = "nifty" THEN agg ELSE Of(c, board)], 0, j)
  /\ slipped' = (slipped \/ now # target)
  /\ UNCHANGED << now, high, arrived, upset >>

\* The await ends: a put needs room, a broadcast clients that take the message.
Ends == pc \in Enqueues => db_queue = "room"

\* Mutant: an emission that has outlasted its interval is not taken up again.
ResumeInTime ==
  /\ pc \in Awaits /\ Ends
  /\ now = current + 1
  /\ current' = current
  /\ IF bars[current] = NoBar
     THEN Sleep /\ UNCHANGED << bars, board, dbVars >>
     ELSE \E j \in Stops(pc) : Run(bars[current], pc, j)
  /\ UNCHANGED << now, high, arrived, agg, last, ids, slipped, upset >>

\* Outside the session only candle_3m_open is broadcast.
Resume ==
  /\ pc \in Awaits /\ Ends
  /\ current' = current
  /\ IF bars[current] = NoBar
     THEN Sleep /\ UNCHANGED << bars, board, dbVars >>
     ELSE \E j \in Stops(pc) : Run(bars[current], pc, j)
  /\ slipped' = (slipped \/ (pc' = Asleep /\ now # current + 1))
  /\ UNCHANGED << now, high, arrived, agg, last, ids, upset >>

(***************************************************************************)
(* The database queue, while the scheduler waits in it.                    *)
(***************************************************************************)

\* flush_once takes a batch from the queue.
Flush ==
  /\ db_queue = "full" /\ flushing
  /\ db_queue' = "room"
  /\ UNCHANGED << now, high, arrived, agg, board, pc, target, current, last, ids, bars,
                  flushing, slipped, upset >>

\* A worker's put is there first.
OthersEnqueue ==
  /\ pc \in Enqueues /\ db_queue = "room"
  /\ db_queue' = "full"
  /\ UNCHANGED << now, high, arrived, agg, board, pc, target, current, last, ids, bars,
                  flushing, slipped, upset >>

\* The pool does not connect, the gather of the runtime fails and cancels the flush
\* loop, or a statement never returns: nothing is taken from the queue any more.  The
\* scheduler notices in an enqueue only.
FlushesStop ==
  /\ DatabaseMayStop
  /\ pc \in Enqueues /\ flushing
  /\ flushing' = FALSE
  /\ UNCHANGED << now, high, arrived, agg, board, pc, target, current, last, ids, bars,
                  db_queue, slipped, upset >>

\* The process is replaced: all it had in memory is lost.
Restart ==
  /\ MayRestart /\ upset # "clock"
  /\ pc # 0
  /\ agg' = {}
  /\ board' = {}
  /\ pc' = 0
  /\ last' = Never
  /\ ids' = {}
  /\ db_queue' = "room"
  /\ flushing' = TRUE
  /\ slipped' = TRUE
  /\ upset' = "restart"
  /\ UNCHANGED << now, high, arrived, target, current, bars >>

(***************************************************************************)
(* Specification.                                                          *)
(***************************************************************************)

Next ==
  \/ \E kind \in Kinds : Tick(kind)
  \/ Boundary
  \/ StepBack
  \/ GateOpens
  \/ SkipDuplicate
  \/ SkipOutsideSession
  \/ BuildFails
  \/ Build
  \/ Resume
  \/ Flush
  \/ OthersEnqueue
  \/ FlushesStop
  \/ Restart

Spec == Init /\ [][Next]_vars

Iterate == SkipDuplicate \/ SkipOutsideSession \/ BuildFails \/ Build

\* The gate opens, time passes, a sleep ends, a flush ends unless flushes have stopped,
\* and a put goes on when it finds room.  A broadcast need not end.
ResumePut == pc \in Enqueues /\ Resume

Fairness ==
  /\ WF_vars(GateOpens) /\ WF_vars(Boundary) /\ WF_vars(Iterate)
  /\ WF_vars(ResumePut) /\ WF_vars(Flush)

FairSpec == Spec /\ Fairness

(***************************************************************************)
(* Properties.                                                             *)
(***************************************************************************)

Built == {b \in Intervals : bars[b] # NoBar}

\* The nifty bars form a series of bars: each takes every index tick since the one
\* before, none is built twice or out of order, whether iterations are late, fail,
\* are repeated because the clock stepped back, or the process is restarted.
Feed == INSTANCE BarFeed WITH
          gathered <- agg,
          bars     <- [b \in Intervals |-> IF bars[b] = NoBar THEN NoBar ELSE bars[b]["nifty"]]

NiftyIsFeed == Feed!Spec

\* No tick of a future, an option or a stock counts in two bars, although the board
\* is reset long after it is read and parts of it are read twice.
TickInOneBar ==
  \A b, c \in Built : b # c =>
    \A k \in {"future", "option", "spot", "index"} : bars[b][k] \intersect bars[c][k] = {}

\* As long as nothing slipped, a bar holds ticks of its own interval only, or of the
\* moment between the boundary and the scheduler's waking up, and between two bars
\* no interval of the session is left out.
Punctual ==
  ~slipped =>
    /\ \A b \in Built : \A c \in {"nifty", "index", "future"} : \A t \in bars[b][c] :
         arrived[t].interval \in {b, b + 1}
    /\ \A b, c \in Built : \A d \in Session : (b < d /\ d < c) => d \in Built

\* An emission ends, whatever the time it took, unless the flushes stop: a put that
\* waits then waits for ever, and the scheduler with it, for nobody else empties the
\* queue.  It takes it that the workers do not for ever take all the room that is made,
\* and that clients read or leave, so that no broadcast waits for ever (LiveHub).
WorkersRest == <>[][~OthersEnqueue]_vars
ClientsRead == []<>(pc \notin {Broadcast, OpenBroadcast})

EmissionEnds ==
  (WorkersRest /\ ClientsRead) => ((pc \in Awaits) ~> (pc \notin Awaits \/ ~flushing))

=============================================================================
