------------------------------ MODULE DbWriter ------------------------------
(***************************************************************************)
(* The path of a bar, or a tick, to the database: DBWriter's queue and     *)
(* flush loop (app/storage/db_writer.py), and the runtime that starts the  *)
(* loop and ends it (_start_database_background in app/main.py).           *)
(*                                                                         *)
(* The items of a topic are numbered in the order they are enqueued: every *)
(* topic has one producer (the interval scheduler for the bars, one worker *)
(* for each kind of tick).  A payload is what the inserts test in it to    *)
(* decide whether it has rows for their table; the values of the rows are  *)
(* left out.  An insert is one executemany, which the database applies     *)
(* entirely or not at all.                                                 *)
(***************************************************************************)
EXTENDS Naturals, Sequences, FiniteSets

CONSTANTS
  Topics,       \* the topics of the instance, among those of TopicOf
  Payloads,     \* for each topic, the payloads its producer may enqueue
  QueueMax,     \* maxsize of the queue
  BatchSize,    \* batch_size
  MaxItems,     \* how many items of a topic are enqueued (a bound)
  FailuresHappen \* may the database, or the runtime, fail?

VARIABLES
  runtime,   \* "connecting", "ready", "error" as in database_status; or "cancelled"
  queue,     \* the queue of (topic, payload)
  batch,     \* the payloads flush_once has taken
  step,      \* the insert flush_once awaits; 0 between two flushes
  rows,      \* the tables: how many times each has the rows of each item
  made,      \* history: for each topic, the payloads enqueued
  lost       \* history: items whose flush failed or whose process ended

vars == << runtime, queue, batch, step, rows, made, lost >>

(***************************************************************************)
(* Which payloads have rows for which table.                               *)
(***************************************************************************)

\* Strikes with data; when fewer than 21 are listed around a known ATM, the list is
\* padded with rows that do not say they have none.
StrikeRows(p)  == p.data \/ (p.short /\ p.atm)
CandleRows(p)  == TRUE
FuturesRows(p) == \E c \in p.futures : c.traded /\ c.nifty /\ c.expiry
StockRows(p)   == \E c \in p.stocks : c.traded /\ c.nifty /\ c.expiry
\* A leg of a strike near the spot, priced by its candle or by the chain.
OptionRows(p)  == p.expiry /\ \E l \in p.legs : l.near /\ (l.candle \/ l.quoted)
OhlcRows(p)    == p.nifty
Ohlc3mRows(p)  == \E c \in p.spots : c.traded
EventRows(p)   == TRUE

\* Mutant of WriteOrder: the candles are written before the strikes.
WriteOrderCandlesFirst ==
  << "candles", "strikes", "futures", "stocks", "options", "ohlc", "ohlc_3m", "events" >>

\* The order of the inserts in flush_once, and the topic each serves.
WriteOrder == << "strikes", "candles", "futures", "stocks", "options", "ohlc",
                 "ohlc_3m", "events" >>
TopicOf == [strikes |-> "order_book_3m", candles |-> "order_book_3m",
            futures |-> "futures_3m", stocks |-> "futures_3m",
            options |-> "options_3m",
            ohlc |-> "market_ohlc_bundle", ohlc_3m |-> "market_ohlc_bundle",
            events |-> "ticks"]
Tables == DOMAIN TopicOf
Done   == Len(WriteOrder) + 1

\* The tables whose INSERT has no ON CONFLICT clause.
Plain == {"ohlc", "events"}

HasRows(t, p) ==
  CASE t = "strikes" -> StrikeRows(p)  [] t = "candles" -> CandleRows(p)
    [] t = "futures" -> FuturesRows(p) [] t = "stocks"  -> StockRows(p)
    [] t = "options" -> OptionRows(p)  [] t = "ohlc"    -> OhlcRows(p)
    [] t = "ohlc_3m" -> Ohlc3mRows(p)  [] t = "events"  -> EventRows(p)

ASSUME ConstantsAssumption ==
  /\ Topics \subseteq {TopicOf[t] : t \in Tables}
  /\ QueueMax \in Nat \ {0} /\ BatchSize \in Nat \ {0} /\ MaxItems \in Nat
  /\ FailuresHappen \in BOOLEAN

Items == [topic : Topics, n : 1..MaxItems]

Accepted(k) == Len(made[k])
Yields(i, t) == TopicOf[t] = i.topic /\ HasRows(t, made[i.topic][i.n])

\* Mutant of Inserts: one insert too many is passed over.
InsertsSkippingOne(items, s) ==
  {p \in (s + 2)..Len(WriteOrder) : \E i \in items : Yields(i, WriteOrder[p])}

\* The inserts after position s that have rows to write, and the next of them.
Inserts(items, s) ==
  {p \in (s + 1)..Len(WriteOrder) : \E i \in items : Yields(i, WriteOrder[p])}

NextInsert(items, s) ==
  IF Inserts(items, s) = {} THEN Done
  ELSE CHOOSE p \in Inserts(items, s) : \A q \in Inserts(items, s) : p <= q

Enqueued == {i \in Items : i.n <= Accepted(i.topic)}
Queued   == {queue[j] : j \in 1..Len(queue)}
Stored(i) == \A t \in Tables : Yields(i, t) => rows[t][i.n] > 0

TypeOK ==
  /\ runtime \in {"connecting", "ready", "error", "cancelled"}
  /\ queue \in Seq(Items) /\ Len(queue) <= QueueMax
  /\ batch \subseteq Items /\ Cardinality(batch) <= BatchSize
  /\ step \in 0..Done
  /\ rows \in [Tables -> [1..MaxItems -> Nat]]
  /\ made \in [Topics -> Seq(UNION {Payloads[k] : k \in Topics})]
  /\ \A k \in Topics : Len(made[k]) <= MaxItems
  /\ lost \subseteq Items

Init ==
  /\ runtime = "connecting"
  /\ queue = << >>
  /\ batch = {}
  /\ step = 0
  /\ rows = [t \in Tables |-> [n \in 1..MaxItems |-> 0]]
  /\ made = [k \in Topics |-> << >>]
  /\ lost = {}

(***************************************************************************)
(* Producers.                                                              *)
(***************************************************************************)

\* enqueue(): put suspends while the queue is full, whether or not anything will
\* ever empty it.
Enqueue(k, payload) ==
  /\ Len(queue) < QueueMax
  /\ Accepted(k) < MaxItems
  /\ made' = [made EXCEPT ![k] = Append(@, payload)]
  /\ queue' = Append(queue, [topic |-> k, n |-> Accepted(k) + 1])
  /\ UNCHANGED << runtime, batch, step, rows, lost >>

(***************************************************************************)
(* The flush loop.                                                         *)
(***************************************************************************)

Taken == IF Len(queue) < BatchSize THEN Len(queue) ELSE BatchSize

\* Mutant of Take: nothing is taken before a batch is full.
TakeFull ==
  /\ Len(queue) >= BatchSize
  /\ queue' = SubSeq(queue, BatchSize + 1, Len(queue))
  /\ batch' = {queue[j] : j \in 1..BatchSize}
  /\ step' = NextInsert(batch', 0)

\* The queue is emptied up to a batch, whose items are acknowledged before any of
\* them is written.
Take ==
  LET taken == {queue[j] : j \in 1..Taken}
  IN  /\ queue' = SubSeq(queue, Taken + 1, Len(queue))
      /\ batch' = taken
      /\ step' = NextInsert(taken, 0)

\* flush_once up to its first await.
FlushStart ==
  /\ runtime = "ready"
  /\ step = 0
  /\ queue # << >>
  /\ Take
  /\ UNCHANGED << runtime, rows, made, lost >>

\* Mutant of Written: the key of the upsert does not tell two intervals apart.
WrittenOver(t) ==
  [n \in 1..MaxItems |->
     IF ~\E i \in batch : Yields(i, t) THEN rows[t][n]
     ELSE IF \E i \in batch : i.n = n /\ Yields(i, t) THEN 1 ELSE 0]

\* What an insert leaves in its table: an upsert leaves one row, a plain INSERT
\* one more.
Written(t) ==
  [n \in 1..MaxItems |->
     IF ~\E i \in batch : i.n = n /\ Yields(i, t) THEN rows[t][n]
     ELSE IF t \in Plain THEN rows[t][n] + 1 ELSE 1]

WriteRows == rows' = [rows EXCEPT ![WriteOrder[step]] = Written(WriteOrder[step])]

Insert ==
  /\ step \in 1..Len(WriteOrder)
  /\ WriteRows
  /\ step' = NextInsert(batch, step)
  /\ UNCHANGED << runtime, queue, batch, made, lost >>

FlushEnd ==
  /\ step = Done
  /\ batch' = {}
  /\ step' = 0
  /\ UNCHANGED << runtime, queue, rows, made, lost >>

\* The items of the batch that this step leaves without some of their rows.
Unwritten == {i \in batch : \E t \in Tables : Yields(i, t) /\ rows'[t][i.n] = 0}

\* The batch is a local of flush_once: it goes with it, and with it the items that
\* are not in their tables.  The insert under way was applied or not.
Abandon ==
  /\ batch' = {}
  /\ step' = 0
  /\ \/ UNCHANGED rows
     \/ step \in 1..Len(WriteOrder) /\ WriteRows
  /\ lost' = lost \union Unwritten

\* Mutant of FlushFails: the batch is tried again from its first insert.
FlushFailsRetrying ==
  /\ FailuresHappen
  /\ step \in 1..Len(WriteOrder)
  /\ step' = NextInsert(batch, 0)
  /\ UNCHANGED << runtime, queue, batch, rows, made, lost >>

\* acquire, an insert or the release of the connection raises; run_forever logs it
\* and goes on.
FlushFails ==
  /\ FailuresHappen
  /\ step # 0
  /\ Abandon
  /\ UNCHANGED << runtime, queue, made >>

(***************************************************************************)
(* The runtime.                                                            *)
(***************************************************************************)

\* connect() opens the pool and creates the tables; it fails, or takes 120 s.
Connect ==
  /\ runtime = "connecting"
  /\ \/ runtime' = "ready"
     \/ FailuresHappen /\ runtime' = "error"
  /\ UNCHANGED << queue, batch, step, rows, made, lost >>

\* A child of the gather raises (SignalEngine, when the store fails it): every child
\* is cancelled, the flush loop wherever it is, and none is started again.
RuntimeFails ==
  /\ FailuresHappen
  /\ runtime = "ready"
  /\ runtime' = "error"
  /\ Abandon
  /\ UNCHANGED << queue, made >>

\* The task DatabaseRuntime is cancelled, and its children with it; CancelledError
\* passes the except clause, and database_status is left as it was.
RuntimeCancelled ==
  /\ runtime' = IF runtime = "error" THEN "error" ELSE "cancelled"
  /\ Abandon
  /\ UNCHANGED << queue, made >>

\* The process ends and another begins: close() has not flushed, and the queue was
\* in memory.
ProcessReplaced ==
  /\ runtime' = "connecting"
  /\ batch' = {}
  /\ step' = 0
  /\ queue' = << >>
  /\ UNCHANGED made
  /\ \/ UNCHANGED rows
     \/ step \in 1..Len(WriteOrder) /\ WriteRows
  /\ lost' = lost \union Unwritten \union Queued

(***************************************************************************)
(* Specification.  MarketDay says when the last two actions happen.        *)
(***************************************************************************)

Next ==
  \/ \E k \in Topics : \E payload \in Payloads[k] : Enqueue(k, payload)
  \/ FlushStart
  \/ Insert
  \/ FlushEnd
  \/ FlushFails
  \/ Connect
  \/ RuntimeFails
  \/ RuntimeCancelled
  \/ ProcessReplaced

Spec == Init /\ [][Next]_vars

(***************************************************************************)
(* Properties.                                                             *)
(***************************************************************************)

\* No item's rows are inserted twice: the tables without a unique key hold each bar
\* and each event once, whatever fails and when.
AtMostOnce == \A t \in Plain : \A n \in 1..MaxItems : rows[t][n] <= 1

\* A bar of order_book_3m_candles has its strikes in order_book_3m_strikes, one of
\* nifty50_stock_futures its futures_data, one of market_ohlc_3m its market_ohlc: the
\* flush writes them in that order, so that a failure between the two leaves the
\* first without the second and never the reverse.
Partners == {<<"strikes", "candles">>, <<"futures", "stocks">>, <<"ohlc", "ohlc_3m">>}

PartnersFirst ==
  \A p \in Partners : \A i \in Enqueued :
    (Yields(i, p[1]) /\ Yields(i, p[2]) /\ rows[p[2]][i.n] > 0) => rows[p[1]][i.n] > 0

\* Items are lost only by a flush that failed or was cut short, or with the queue of a
\* process that ended: any other is in the queue, in the batch being written, or in
\* its tables, although task_done acknowledged it before it was written.
LostOnlyByFailure ==
  \A i \in Enqueued : i \in Queued \/ i \in batch \/ i \in lost \/ Stored(i)

\* Each table is a log of what was enqueued: in order, once, never taken back.
Log == INSTANCE RowLog WITH
         accepted <- [k \in Topics |-> Accepted(k)],
         Tables   <- {t \in Tables : TopicOf[t] \in Topics},
         stored   <- [t \in {u \in Tables : TopicOf[u] \in Topics} |->
                        {n \in 1..MaxItems : rows[t][n] > 0}]

IsRowLog == Log!Spec

\* Until its flush fails or the runtime ends, everything enqueued is stored in the end,
\* and a full queue gets room for the producers that wait.  This takes it that a flush
\* ends: no connection is given a command timeout (line 51), so that a statement may
\* wait for the database for ever, and the loop with it.
FlushesEnd == []<>(step = 0)
Over       == runtime \in {"error", "cancelled"}

EverythingStored ==
  FlushesEnd =>
    /\ \A i \in Items : (i \in Enqueued) ~> (i \in lost \/ Over \/ (i \in Enqueued /\ Stored(i)))
    /\ (Len(queue) = QueueMax) ~> (Len(queue) < QueueMax \/ Over)
=============================================================================
