----------------------------- MODULE TickFanout -----------------------------
(***************************************************************************)
(* From a tick to its readers.  NubraWebSocketIngestion._on_tick starts a  *)
(* task per broker for every tick; a QueueBroker is a bounded asyncio      *)
(* queue.  Without a database there is one broker, which RealtimePipeline  *)
(* reads; with one, the pipeline reads a second broker, and five workers   *)
(* share the first, once _start_database_background has started them.  In  *)
(* simulation mode MarketSimulator publishes instead of the ingestion.     *)
(*                                                                         *)
(* A tick is its number.  A put that finds its queue full waits; a get     *)
(* wakes the put that has waited longest, which takes its turn in the      *)
(* event loop behind the tasks that are ready already, and waits again,    *)
(* last in the line, if one of them has taken the room.                    *)
(***************************************************************************)
EXTENDS Naturals, Sequences, FiniteSets

CONSTANTS
  Streams,    \* the streams ticks come on: one worker for each
  QueueMax,   \* queue_maxsize
  DbMax,      \* maxsize of DBWriter's queue
  MaxTicks    \* how many ticks there are (a bound)

ASSUME FanoutAssumption ==
  QueueMax \in Nat \ {0} /\ DbMax \in Nat \ {0} /\ MaxTicks \in Nat

Brokers == {"broker", "realtime_broker"}

VARIABLES
  is_simulation, use_database,  \* settings
  ticks,      \* the streams of the ticks that came, in order
  ready,      \* for each broker, the publish tasks the event loop will run, in order
  putters,    \* the puts that wait for room
  queue,      \* the queue
  runtime,    \* the database runtime: "absent", "connecting", "ready" or "error"
  hand,       \* the tick each worker has in its hand, or 0
  at,         \* where its handle() is: "hset" or "enqueue"
  latest,     \* the tick the state of each stream in the store is of, or 0
  waiting,    \* how many items are in DBWriter's queue
  taken,      \* history: the ticks taken from each broker, in order
  written,    \* history: the ticks enqueued for the database, in order
  crowded     \* history: the brokers whose queue was full when a put came

settings == << is_simulation, use_database >>
brokerVars == << ready, putters, queue, taken, crowded >>
workerVars == << runtime, hand, at, latest, waiting, written >>
vars == << settings, ticks, brokerVars, workerVars >>

\* The broker RealtimePipeline reads.
Realtime == IF use_database THEN "realtime_broker" ELSE "broker"

\* The brokers the ingestion publishes to (extra_brokers), and the simulator.
Feeds == IF is_simulation THEN {"broker"} ELSE {"broker", Realtime}

Arrived == 1..Len(ticks)

Init ==
  /\ is_simulation \in BOOLEAN /\ use_database \in BOOLEAN
  /\ ticks = << >>
  /\ ready = [b \in Brokers |-> << >>]
  /\ putters = [b \in Brokers |-> << >>]
  /\ queue = [b \in Brokers |-> << >>]
  /\ runtime = IF use_database THEN "connecting" ELSE "absent"
  /\ hand = [s \in Streams |-> 0] /\ at = [s \in Streams |-> "hset"]
  /\ latest = [s \in Streams |-> 0]
  /\ waiting = 0
  /\ taken = [b \in Brokers |-> << >>]
  /\ written = << >>
  /\ crowded = {}

(***************************************************************************)
(* Publishing.                                                             *)
(***************************************************************************)

\* Mutant of Publishes: the extra brokers are not given to the ingestion.
PublishesFirst(n) == ready' = [ready EXCEPT !["broker"] = Append(@, n)]

\* One task for each broker.
Publishes(n) ==
  ready' = [b \in Brokers |-> IF b \in Feeds THEN Append(ready[b], n) ELSE ready[b]]

\* _on_tick, called in the event loop.
OnTick(s) ==
  /\ ~is_simulation /\ Len(ticks) < MaxTicks
  /\ ticks' = Append(ticks, s)
  /\ Publishes(Len(ticks) + 1)
  /\ UNCHANGED << settings, putters, queue, taken, crowded, workerVars >>

\* MarketSimulator.run awaits each publish before it goes on to the next record.
Replay(s) ==
  /\ is_simulation /\ Len(ticks) < MaxTicks
  /\ ready["broker"] = << >> /\ putters["broker"] = << >>
  /\ ticks' = Append(ticks, s)
  /\ Publishes(Len(ticks) + 1)
  /\ UNCHANGED << settings, putters, queue, taken, crowded, workerVars >>

\* A publish task runs up to the end of its put, or until it waits for room.
Put(b) ==
  /\ ready[b] # << >>
  /\ ready' = [ready EXCEPT ![b] = Tail(@)]
  /\ \/ /\ Len(queue[b]) < QueueMax
        /\ queue' = [queue EXCEPT ![b] = Append(@, Head(ready[b]))]
        /\ UNCHANGED << putters, crowded >>
     \/ /\ Len(queue[b]) = QueueMax
        /\ putters' = [putters EXCEPT ![b] = Append(@, Head(ready[b]))]
        /\ crowded' = crowded \union {b}
        /\ UNCHANGED queue
  /\ UNCHANGED << settings, ticks, taken, workerVars >>

\* Mutant of Wake: the put that is woken is not taken from the line.
WakeKeeping(b) ==
  /\ ready' = IF putters[b] = << >> THEN ready
              ELSE [ready EXCEPT ![b] = Append(@, Head(putters[b]))]
  /\ UNCHANGED putters

Wake(b) ==
  \/ putters[b] = << >> /\ UNCHANGED << putters, ready >>
  \/ /\ putters[b] # << >>
     /\ ready' = [ready EXCEPT ![b] = Append(@, Head(putters[b]))]
     /\ putters' = [putters EXCEPT ![b] = Tail(@)]

\* consume()
Get(b) ==
  /\ queue[b] # << >>
  /\ queue' = [queue EXCEPT ![b] = Tail(@)]
  /\ taken' = [taken EXCEPT ![b] = Append(@, Head(queue[b]))]
  /\ Wake(b)
  /\ UNCHANGED crowded

(***************************************************************************)
(* The readers.                                                            *)
(***************************************************************************)

\* RealtimePipeline.run_forever: whatever _handle does or raises, the next tick is
\* taken when it is done.
PipelineTakes ==
  /\ Get(Realtime)
  /\ UNCHANGED << settings, ticks, workerVars >>

\* BaseWorker.run_forever: whichever worker's get comes first; a tick of another
\* stream is dropped.
WorkerTakes(w) ==
  /\ runtime = "ready" /\ hand[w] = 0
  /\ Get("broker")
  /\ LET n == taken'["broker"][Len(taken'["broker"])]
     IN  hand' = [hand EXCEPT ![w] = IF ticks[n] = w THEN n ELSE 0]
  /\ at' = [at EXCEPT ![w] = "hset"]
  /\ UNCHANGED << settings, ticks, runtime, latest, waiting, written >>

\* handle(): the store has the state; or it raises (Redis takes no None, and may be
\* away), run_forever logs it, and the tick is in no table either.
WorkerSets(w) ==
  /\ hand[w] # 0 /\ at[w] = "hset"
  /\ \/ /\ latest' = [latest EXCEPT ![w] = hand[w]]
        /\ at' = [at EXCEPT ![w] = "enqueue"]
        /\ UNCHANGED hand
     \/ hand' = [hand EXCEPT ![w] = 0] /\ UNCHANGED << latest, at >>
  /\ UNCHANGED << settings, ticks, brokerVars, runtime, waiting, written >>

\* Mutant of WorkerEnqueues: the database is not made to wait for the store.
WorkerEnqueuesEarly(w) ==
  /\ hand[w] # 0 /\ waiting < DbMax
  /\ waiting' = waiting + 1
  /\ written' = Append(written, hand[w])
  /\ hand' = [hand EXCEPT ![w] = 0]
  /\ UNCHANGED << settings, ticks, brokerVars, runtime, at, latest >>

\* ... and the database, once its queue has room.
WorkerEnqueues(w) ==
  /\ hand[w] # 0 /\ at[w] = "enqueue" /\ waiting < DbMax
  /\ waiting' = waiting + 1
  /\ written' = Append(written, hand[w])
  /\ hand' = [hand EXCEPT ![w] = 0]
  /\ UNCHANGED << settings, ticks, brokerVars, runtime, at, latest >>

\* flush_once (DbWriter)
Flush ==
  /\ runtime = "ready" /\ waiting > 0
  /\ waiting' = 0
  /\ UNCHANGED << settings, ticks, brokerVars, runtime, hand, at, latest, written >>

(***************************************************************************)
(* The database runtime.                                                   *)
(***************************************************************************)

Connect ==
  /\ runtime = "connecting"
  /\ runtime' \in {"ready", "error"}
  /\ UNCHANGED << settings, ticks, brokerVars, hand, at, latest, waiting, written >>

\* One of its tasks raises (SignalEngine, which does not catch what the store raises):
\* the workers are cancelled, and nobody reads the first broker from then on.
RuntimeFails ==
  /\ runtime = "ready"
  /\ runtime' = "error"
  /\ hand' = [s \in Streams |-> 0]
  /\ UNCHANGED << settings, ticks, brokerVars, at, latest, waiting, written >>

(***************************************************************************)
(* Specification.                                                          *)
(***************************************************************************)

Next ==
  \/ \E s \in Streams : OnTick(s) \/ Replay(s)
  \/ \E b \in Brokers : Put(b)
  \/ PipelineTakes
  \/ \E w \in Streams : WorkerTakes(w) \/ WorkerSets(w) \/ WorkerEnqueues(w)
  \/ Flush
  \/ Connect
  \/ RuntimeFails

Spec == Init /\ [][Next]_vars

\* The event loop runs every task that is ready, and the pipeline's _handle ends.
Fairness ==
  /\ \A b \in Brokers : WF_vars(Put(b))
  /\ WF_vars(PipelineTakes)

FairSpec == Spec /\ Fairness

(***************************************************************************)
(* Properties.                                                             *)
(***************************************************************************)

Numbers == 0..MaxTicks

TypeOK ==
  /\ is_simulation \in BOOLEAN /\ use_database \in BOOLEAN
  /\ ticks \in Seq(Streams) /\ Len(ticks) <= MaxTicks
  /\ ready \in [Brokers -> Seq(Numbers)] /\ putters \in [Brokers -> Seq(Numbers)]
  /\ queue \in [Brokers -> Seq(Numbers)] /\ taken \in [Brokers -> Seq(Numbers)]
  /\ \A b \in Brokers : Len(queue[b]) <= QueueMax
  /\ runtime \in {"absent", "connecting", "ready", "error"}
  /\ hand \in [Streams -> Numbers] /\ at \in [Streams -> {"hset", "enqueue"}]
  /\ latest \in [Streams -> Numbers]
  /\ waiting \in 0..DbMax
  /\ written \in Seq(Numbers)
  /\ crowded \subseteq Brokers

\* Although every tick is published by a task of its own, the readers of a broker get
\* all of them in the order they came, and the ticks of a stream reach the store and
\* the database in order, as long as no put ever found that broker's queue full.
InOrder ==
  /\ \A b \in Brokers \ crowded : \A i \in 1..Len(taken[b]) : taken[b][i] = i
  /\ "broker" \notin crowded =>
       /\ \A i, j \in 1..Len(written) :
            (i < j /\ ticks[written[i]] = ticks[written[j]]) => written[i] < written[j]
       /\ \A i \in 1..Len(written) : latest[ticks[written[i]]] >= written[i]

\* Where a tick is, for a broker.
Places(b) == ready[b] \o putters[b] \o queue[b] \o taken[b]

\* Full or not, dead database or not, a broker that is fed has every tick exactly once:
\* ready to be put, waiting for room, in the queue or taken by one reader.
EachOnce ==
  \A b \in Feeds :
    /\ Len(Places(b)) = Len(ticks)
    /\ Arrived \subseteq {Places(b)[i] : i \in 1..Len(Places(b))}

\* Every tick of the live feed reaches the pipeline, although the put into the other
\* broker may wait for ever because the database runtime has ended.
TicksReachPipeline ==
  \A n \in 1..MaxTicks :
    (n \in Arrived /\ (is_simulation => ~use_database)) ~>
      \E i \in 1..Len(taken[Realtime]) : taken[Realtime][i] = n

=============================================================================
