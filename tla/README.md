# Verification of the nubra_live market-data backend

nubra_live is one asyncio process that keeps an SDK websocket to a broker open,
follows the NIFTY option chain around the spot price, turns ticks into
three-minute bars, stores them in Postgres and pushes them to websocket clients.
Around it are jobs that start and stop it, log in, and keep the secrets fresh.
There is no test suite in the repository; the docs the properties are
measured against are `README.md`, `WEBSOCKET_API.md`, `CHANGES.md`,
`FIXES_SUMMARY.md` and the comments of the code.

This directory holds TLA+ models of the process's concurrent core and of the jobs
around it, TLC configurations that check them on small instances, and TLAPS proofs.
Paths below are relative to the repository.

## 1. Inventory

Everything in the application runs on one event loop, so a step is the code
between two awaits. Exceptions are the SDK's threads (their callbacks are
forwarded with `call_soon_threadsafe`), calls sent to `asyncio.to_thread`, and the
thread pool of the instrument cache. The jobs are processes of their own.

| Component | State it keeps | Operations | Correct when | Status |
|---|---|---|---|---|
| Connection life cycle (`app/ingestion/ws_manager.py`) | `_socket`, `_socket_state`, `_auth_state`, `_fatal`, `_closing`, `_reconnect_task`, `_connect_event`, failure counts | `start`, `stop`, `_hard_reconnect`, `_watchdog_loop`, `_schedule_hard_reconnect`, `reconnect_for_session_refresh`, SDK callbacks | no socket is leaked; the reported state is true; stop closes everything; a fatal state is left quiet; rebuilds end | `WsManager`, proved |
| Subscriptions (`instruments/manager.py`, `ingestion/nubra_socket.py`, `ws_manager.py`) | ATM, window of strikes, the registry of subscribed symbols, what the server was told | `update_atm`, `_apply_option_diff`, `_subscribe_all`, `subscribe`/`unsubscribe`, `_reapply_subscriptions` | registry, window and wire agree once calls have returned; strikes that stay in the window are never silenced; a replay completes | `WsSubscriptions`, proved |
| Tick fan-out (`ingestion/nubra_socket.py`, `queue/broker.py`, `workers/`) | two bounded queues and the puts that wait for them, one tick in the hand of each worker, the latest state of each stream in the store | `_on_tick`, `publish`, `consume`, `run_forever` of the workers | readers get every tick, in order; one reader does not hold up the other | `TickFanout`, proved |
| Three-minute bars (`realtime/pipeline.py`, `candles.py`, `nifty_ohlc.py`, `interval_clock.py`) | candle board, NIFTY aggregate, emitted bucket ids, last bucket | tick handlers, `_interval_scheduler`, the startup gate of `main.py` | a tick is in at most one bar, bars come in order and once, on time; an emission ends as long as the database queue is emptied | `Bars` ⊑ `BarFeed`, proved |
| Order book and option chain (`realtime/order_book.py`, `options_chain.py`, `candles.py`, `pipeline.py`) | reference maps, legs and the chain view, samples per strike, the volumes of the option candles | the handlers of order book, greeks and chain messages, the throttled rebuild, `snapshot_and_reset` | a volume counts once; the snapshot has every update of its bar; the view catches up | `OptionBook`, partly, proved |
| Database writer (`storage/db_writer.py`, runtime in `main.py`) | bounded queue, batch in hand, pool status | `enqueue`, `flush_once`, eight inserts, `close`, the gather of the runtime | rows are stored once, in order; only a failure loses any; a producer that waits goes on | `DbWriter` ⊑ `RowLog`, proved |
| Websocket clients (`realtime/hub.py`, `api/ws.py`) | set of clients, a send lock per client, history, open candle, option chain | register, replay, broadcasts, pong, unregister | a client misses no bar and sees nothing older than it has seen; a broadcast ends; a client dropped from the hub is closed | `LiveHub`, proved |
| Authentication session (`ingestion/auth_client.py`, `auth_service.py`, `input_patch.py`) | shelve on disk, cached client, environment | bootstrap, fast path, TOTP login, refresh loop | the device id survives; an expired token is not used; a session costs one login | `AuthSession`, partly, proved |
| Instruments (`instruments/manager.py`, `storage/instrument_cache.py`) | the master in Cloud Storage, on disk, in the SDK's class, in memory; the indices made from it; a pool of two threads | the three-level load, retries and timeouts, `refresh`, the subscription and reference maps, the gate | a process replaces the master in Cloud Storage only if it could not read it; what is subscribed can be resolved; every load ends; the gate opens on a whole master | `Instruments`, proved |
| Market jobs (`jobs/market_start.py`, `market_stop.py`, `auth_refresh.py`) | two secrets, the minimum of instances | scale up and poll; signal and scale down; read, login, write, verify | exit code 0 of the refresh is true; what is queued is flushed before stop | `MarketDay`, proved |
| REST and health (`api/routes.py`) | none of its own | `admin_shutdown`, `/health/ready`; reads | - | the first two in `MarketDay` |
| Simulation (`simulation/simulator.py`, `jobs/simulate.py`) | position in the sample | publishes one record after the other | as the fan-out | the service's simulator in `TickFanout` |
| Historical comparison (`historical/`) | rate limiter window | limited calls with retries | the limit is respected | not modelled |
| Scripts, Terraform, enrolment tools | none | run by hand | - | not modelled |

How they interact. The SDK's callbacks enter through `WebSocketManager`; a tick
goes to `NubraWebSocketIngestion._on_tick`, which creates one task per broker queue; a
spot tick may also move the ATM, which creates a task that changes subscriptions
through the manager. `RealtimePipeline` consumes its queue and feeds the candle
board, the order book and the chain view; its scheduler wakes after each boundary,
builds the bar, enqueues it to `DBWriter`, broadcasts it through `LiveHub` and resets the
boards, with an await between any two of these. Five workers consume the other
queue and enqueue to `DBWriter` as well. `main.py` owns all the tasks: one for the
ingestion and then the session refresh loop, one for the database, one for the
pipeline. The refresh loop, the watchdog and the callbacks may each rebuild the
connection, and each rebuild asks `auth_client` for a client. The jobs scale the
service to one instance in the morning and to none in the evening, ask it to shut
down, and write the secrets it reads when it starts.

What is hard here:

* three coroutines and two kinds of callback that all tear down and rebuild the
  same socket, with five awaits in a rebuild;
* one `_connect_event` and one `_socket_state` for every attempt and every socket;
* subscription diffs that interleave at their awaits with each other, with the boot
  and with the replay of a snapshot of the registry;
* puts that wait for room, and are overtaken by tasks that were ready when they were
  woken;
* a scheduler whose await points lie between reading the board and resetting it,
  on a clock that may step back;
* cumulative volumes turned into volumes of a bar, on messages that may lack them,
  over a board that is reset under them;
* batches acknowledged before they are written, with inserts that may fail half way,
  and a shutdown that does not wait for the queue;
* a history iterated across awaits while it is appended to;
* downloads that hang on a pool of two threads, and files cut short by a kill that
  are read by every later process;
* two secrets written one after the other.

The places where these bite are listed with their lines under `hazards` in
`PROJECT.json`, each with the properties that watch it.

## 2. Plan

Done, in this order: `WsManager`, `WsSubscriptions`, `DbWriter` with the abstract
`RowLog`, `Bars` with the abstract `BarFeed`, `LiveHub`, `AuthSession`,
`TickFanout`, `MarketDay` (the jobs and the process around `DbWriter`),
`Instruments`, `OptionBook`; and proofs for all of them. Every invariant and every action
property that a run checks is a theorem, as are the two refinements.

What is left, most useful first:

1. abstract specifications of the fan-out (a queue per reader) and of the session (one
   login for each renewal), with proofs that `TickFanout` and `AuthSession` implement them;
2. the rate limiter and the retries of `historical/client.py`;
3. the composition of `TickFanout` with `DbWriter`, whose queue it abstracts to a
   number, and of `Instruments` with `WsSubscriptions`.

The number of runs is kept small: one for each component, with all the properties of an
instance in the same run.

## 3. Modules

History variables record what happened and influence nothing; each property that
mentions one says under which circumstances the code keeps its promise. They are
named with their modules below.

### WsManager (`app/ingestion/ws_manager.py`)

A coroutine is `"host"` (the background task of `main.py`: `start()`, then the
session refresh loop), `"watchdog"`, a slot of `Slots` (a task created by
`_schedule_hard_reconnect`) or `"stop"`. `pc` says at which await each is
suspended; `force` and `held` are its locals. Actions:

| Action | Code |
|---|---|
| `HostStart`, `HostRefresh`, `HostCancelled` | `start`, `reconnect_for_session_refresh`, cancellation at shutdown |
| `WatchdogFires` | one iteration of `_watchdog_loop` |
| `Spawn`, `TaskStart` | the `call_soon_threadsafe` callback that creates the task, and its first step |
| `EndTeardown`, `BackoffDone`, `AuthOk`, `AuthFails`, `ConnectDone`, `ConnectTimeout`, `Reapplied` | the code after each await of `_hard_reconnect`, `_connect_once` and `_reapply_subscriptions` |
| `StopBegin`, `StopEnd` | `stop` |
| `CbConnect`, `CbClose`, `CbError`, `Tick` | the SDK's callbacks, as they run on the loop |
| `ServerClose`, `CloseDone`, `GoSilent` | the SDK, the server and time (external) |

`overlapped` is a history variable: two coroutines were rebuilding
at the same time, or `stop()` ran while the host was rebuilding. Nothing in
the code excludes either: no lock is held during a rebuild. Once it happened a
socket can be lost (ws_manager.py:452). The safety properties
say that this is the *only* way to lose one.

### WsSubscriptions

Strikes are `0..MaxStrike`, the window is what `update_atm` computes for an ATM. Three
views are kept: the window, the registry of `WebSocketManager`, and
`wire`, what the server was told. `Boot` and `Issue` are the subscribe and
unsubscribe calls of `_subscribe_all` and `_apply_option_diff`, one call per data type, each
an await (`CallReturns`); `Resend` and `Connected` are `_reapply_subscriptions`.
History: `crossed` (two diffs were in flight together, or one with the boot), `tangled`
(a diff and a replay were), `refused` (a call made on the connection in use raised).

### TickFanout

A tick is its number, and has a stream. `ready[b]` are the publish tasks the event
loop has not run yet, `putters[b]` the puts that wait for room, `queue[b]` the queue of
broker b. A get wakes the put that waited longest, which goes to the end of
`ready`, as a future's callback does in asyncio; when it runs and finds no room again, it
waits behind the others. `OnTick` is the ingestion, `Replay` the simulator in the service,
`PipelineTakes` the pipeline, `WorkerTakes`, `WorkerSets` and `WorkerEnqueues` the
awaits of a worker. History: `taken` and `written`, what readers got; `crowded`, the brokers
whose queue was full when a put came.

### Bars and BarFeed

`pc` is the await of `_interval_scheduler` at which it is suspended; the
accumulators are sets of tick identities, so that "counted once" can be said.
`agg` is the NIFTY aggregator, `board` the candle board. `BarFeed` is the abstract series of
bars: ticks gather, a bar takes all that gathered. `Bars` refines it for the NIFTY
bars (`NiftyIsFeed`), whose aggregate is taken and reset in one step. For the other
candles it does not hold: the board is reset at the end of an emission, and ticks that
arrived during it go with it. History: `slipped` (an iteration failed, began late or
outlasted its interval) and `upset` (the process restarted, or its clock stepped back),
where `Punctual` makes no promise.

The scheduler's puts go to the queue of `DBWriter`, of which `db_queue` says whether it has room; a
put is suspended only where it finds the queue full. `Flush` takes a batch, `OthersEnqueue` is a put of
a worker that was there first, and a put of the scheduler returns (`ResumePut`) only when there is
room. `FlushesStop` is the end of the database task, after which `main.py` starts no other, or a
statement that never returns: then a full queue stays full.

### OptionBook

One side of the chain. A strike is a multiple of the step, a price counts quarters of a
step, so that the rounding of prices to the ATM happens. A leg is abstracted to the fields it has a value
for, an aggregate to its number of samples, a cumulative volume to a small number.
`OnNifty`, `OnOrderBook`, `OnOrderBookDirect`, `OnGreeks` and `OnOptionChain` are the handlers of
the pipeline, each one step since it changes the state before it first awaits a
send; `CloseBar`, `BarSent` and `SkipBar` are the scheduler's snapshot and reset, with
messages in between. `RefreshRefMaps` is the reference maps of a new ATM,
`ThrottleElapses` half a second. History: `traded`, `closed`, `due`, `rows` count what
went in and out; `blank` (a message lacked the volume), `moved` (the ATM moved in this bar,
or the chain view was not around it).

### DbWriter and RowLog

The queue holds topics and payloads; `step` is the insert that `flush_once`
awaits; `rows[t][n]` counts how often item n's rows were inserted in table t. A payload is what
decides whether an insert writes rows (`Yields`: data, quotes, an expiry, the short buildup), and its
values are left out. Tables with a unique key take a row once (`ON CONFLICT`), `Plain` ones as
often as they are written. `RuntimeFails`, `RuntimeCancelled` and `ProcessReplaced` are the
gather of `main.py`, its cancellation, and a new process. `RowLog` is
what a reader of the tables relies on: append-only, in order, nothing twice;
`IsRowLog` is the refinement. `lost` is a history variable: what a failed flush or a
process took with it.

### MarketDay

A day of the service: `Launch` starts one job after the other, `job` is its step;
`InstanceStarts`, `IngestionBoots`, `ShutdownBegins`, `ShutdownCancels`,
`InstanceDrains`, `InstanceEnds` are the lifespan of the application and `admin_shutdown`,
and DbWriter's actions happen while there is a process (`InProcess`). Every call to the
cloud may fail, every process may be killed. Secrets are abstracted to the age of the
session token and to whether both belong to one session (`together`). A login must bring a
session token but may bring no auth token (`has_auth`); `WriteAuth` then passes over that secret and
the job goes on as if it had been written, as `auth_refresh.py:218` does.

### LiveHub

A message is a kind and a number. `handler[c]` is where the coroutine of client c
stands (replay, loop, closing), `lock[c]` the queue of its `asyncio.Lock` (first
is the holder), `sending[b]` the broadcast that the scheduler or the pipeline is in.
`aborted` is a history variable: a replay was cut short by a broadcast.

### AuthSession (`auth_client.py`, `auth_service.py`)

Sessions are numbered as the server issues them, and expire in that order. `disk` is the shelve,
written key by key after a truncation (`Truncate`, `WriteKey`), as `_write_auth_shelve`
does through `dbm.dumb`; `cached` is the process-wide client, `holder` the lock.
`Seed` and `Attempt` are `AuthService.authenticate` at boot, `LoopWakes` the refresh
loop, `Ask` any other caller; `Enter` to `RefdataFails` are the steps of
`get_authenticated_client`. The SDK's login is external: with an `auth_token` in the
shelve it verifies the old session, and a 401 makes it forget every key, as the module
docstring of `auth_client.py` describes. `lost` is a history variable: what a kill between two
writes, such a reset, or the seeding may have taken from the shelve.

### Instruments

A master is the day Nubra listed it and which of its rows are there: the strikes it has and the
stocks it lacks. What a `to_csv` leaves when it fails or is killed (`Truncated`) is a file that cannot be
read or one of the `Cuts`, any of which may be read, used and uploaded later. `gcs`, `local`, `sdk`
and `df` are the copies of the master, `pool` the jobs of the thread pool (the first `PoolSize` run, the
others wait), `pc` where the boot is. `GetClient`, `DownloadGcs`, `ReadLocal`,
`AttemptTimesOut`, `TryAgain` and `Save` are the levels of the cache; `BuildManager`
and `GateOpens` the manager and the gate; `NextDay` and `Restart` come at any
moment, also while the file is being written. `GetClient` and `BuildManager` may log in, and fail or never
return. `missed` is a history variable: Cloud Storage had a master that this process
did not get to read. The indices are operators over a master:
`OptionTokens` is what is subscribed around a price, `OptionByRef` what the
pipeline resolves, in rupees or in paise (`StrikeGaps`, `StrikeStep` and `StrikeScale` find out
which), `StockFutures` the stocks under either of their names.

## 4. Runs

| Run | Instance | States | Shows |
|---|---|---|---|
| `ws_safety` | 1 task slot, 3 sockets, 2 authentication failures, shutdown allowed | 2 415 948 | types, no orphan socket, "connected" holds a socket, stop closes everything, a fatal state is quiet |
| `ws_live` | 1 task slot, 1 socket, cap 1, no shutdown | 94 413 | a connection without ticks is replaced; every rebuild ends |
| `ws_retry` (violation) | 2 sockets, cap 2 | 64 741 | a rebuild that failed to authenticate is *not* retried by the watchdog, unlike the comment of lines 634-636 |
| `subs` | 3 strikes, radius 1, 1 diff task, 3 sockets, calls may fail | 175 408 | registry follows the ATM, wire follows the registry, common strikes keep ticking, replays complete |
| `fanout` | 2 streams, queues of 1, 3 ticks; live or simulated, with or without the database, which may fail | 128 996 | ticks in order until a queue was full, each in one place, all of them reach the pipeline |
| `instruments` | 2 days, 3 processes of 2 tries, a pool of 2, 2 attempts, 4 strikes, three cuts, rupees and paise, 4 stocks of which one has two names | 129 744 | Cloud Storage's master is replaced only unread, what is subscribed is resolved, loads end, the gate opens on a whole master |
| `bars` | 5 intervals, 1 tick, all kinds, restarts, clock steps, flushes that stop | 342 270 | a tick in one bar, punctual, refinement of `BarFeed`, emissions end while the queue is emptied |
| `options` | 2 strikes, one followed; prices either side of an ATM's boundary and on it; 1 update and a volume of 1 per bar; subscription radius 1, the others 0 | 376 910 | volumes counted once, the snapshot complete while the ATM rests, the view catches up |
| `hub` | 2 clients, one may break, history of 2, 3 messages | 490 536 | nothing missed, nothing older after newer, broadcasts end, a client not in the hub is being closed |
| `auth` | 2 callers, 2 attempts, 3 sessions, every environment | 300 441 | types, logins keep the device, cache and shelve agree, one login per session, an expired session is refreshed |
| `day` | 2 topics, 3 puts, queue and batch of 2, 2 jobs, 2 processes, failures and kills | 400 951 | rows at most once, related tables in order, loss only by failure, refinement of `RowLog`, everything stored and nobody held up unless something fails, an honest exit code |
| `day_flush` (violation) | as `day`, with all 5 topics | 1 093 | what is queued is *not* flushed by `admin_shutdown`, unlike its docstring |

### Bounds, and why they suffice

* *Slots and sockets.* `_reconnect_task` holds one task, so one slot already gives
  all overlaps of host, watchdog, task and stop (four coroutines). Identities of
  sockets are reused once nobody refers to them. Three sockets are one held, one
  being closed and one whose close is still to be reported. The theorems hold
  for any number of both.
* *Authentication failures* saturate at the cap the code compares them with; 2 is
  the least cap at which "below the cap" and "after one failure" differ.
* *Subscriptions.* Three strikes and radius 1 give windows that overlap, and that are
  clipped at the end of the option map. One diff task with 3 sockets gives every
  interleaving of a diff with the boot and with two replays. `Uncrossed` cuts the
  states after two diffs overlapped, of which no property says anything.
* *Fan-out.* A queue of 1 with 3 ticks has one tick queued, one that waits and one that
  overtakes it. Two streams are enough for a worker to drop what is another's.
* *Instruments.* The pool is the code's. Two tries of two attempts hang four downloads: two
  fill it, and the third waits for a thread that it never gets. Two days and three processes let a master be cut
  short, uploaded, and read by another process on the next day. Of the three cuts one has too
  few tokens, one lacks a stock and is held up by the gate, and one lacks the outermost
  strike only, so that it goes live. Prices are 99 and 125 (a tie of the rounding).
* *Bars.* 5 intervals, of which the first and the last are outside the session. The set
  of emitted buckets is cut at 2 to 1, so that the code's cut happens. One tick of
  any kind is enough for properties that quantify over single ticks.
* *Options.* The prices lie in two steps and on the boundary, so that the ATM moves and
  does not; one volume is enough to be counted twice. The theorems hold for any
  strikes, prices, radii and volumes.
* *Hub.* A history of 2 with 3 messages overflows; two clients are enough for one to hold
  up the other, and two broadcasters for them to overtake each other.
* *Sessions.* Three sessions are an initial one, its renewal, and the renewal of the
  renewal; two callers, the loop and the boot contend for the lock. The environment is
  any combination of the three variables, so that every branch of the bootstrap is
  taken.
* *Day.* The two topics have the tables that may take a row twice and tables that have to be written
  in order. Three puts fill a batch and the queue and leave a producer waiting. Two processes let the
  second find what the first left. Two jobs are a refresh and a start, or a start and a stop, or
  one of them and its retry: what jobs share is the secrets and the minimum. `day_flush` has
  all five topics, with and without rows.
* *Deadlock* is checked in `auth` and `options`. Every other instance stops legitimately
  when its bounded supply of sockets, ticks, days, intervals, messages or jobs
  is used up, or after `stop()`: `CHECK_DEADLOCK FALSE`.

### Fairness

Weak fairness is given only to what the event loop or the code's own timeouts ensure:
a ready coroutine is resumed, a sleep or a timeout expires, a call sent to a
thread returns or raises, a close that happened is reported. In `TickFanout` that is the
publish tasks and the pipeline, and not the workers, which need not exist; in `Instruments`
the calls to Cloud Storage, whose client limits them, and the wait for the SDK, which is limited, but not
a login or a download, which may hang for ever, nor an upload; in `MarketDay` the
connection attempt and the start of a flush, but not the inserts; in `Bars` the scheduler's
sleeps, the flushes while their task is there, and the return of a put that has room, but
not of a broadcast. No fairness is given to the server, to the authentication backend,
to the market, to jobs or to reconnects.

What a promise rests on beyond that is written in its formula:

* `EverythingStored` and the release of waiting producers need inserts that return or raise (`FlushesEnd`):
  `db_writer.py:51` creates the pool without a command timeout;
* `EmissionEnds` holds unless the flushes have stopped, and needs workers that do not for ever take the room
  a flush makes (`WorkersRest`), and broadcasts that end (`ClientsRead`);
* `BroadcastsEnd` needs sends that end, since nothing in `hub.py` limits their time;
* `ViewCatchesUp` needs a NIFTY that ticks on while half a second goes by, since only a tick rebuilds
  the view.

## 5. Proofs

Each theorem holds for every value of the constants that satisfies the named
assumptions of its modules, which TLC evaluates in the runs.

### WsManagerProofs

| Theorem | Statement |
|---|---|
| `TypeCorrect` | `Spec => []TypeOK` |
| `Inductive` | `Spec => [](WatchdogAfterStart /\ IInv)` |
| `NoOrphan` | `Spec => []NoOrphanSocket` |
| `ConnectedSocket` | `Spec => []ConnectedHasSocket` |
| `StopCloses` | `Spec => []StopClosesSockets` |
| `FatalStaysQuiet` | `Spec => FatalIsQuiet` |

None of the three invariants is inductive. That a live socket is the one held says
nothing about a rebuild between dropping the old socket and assigning the
new one. `IInv` adds what the code relies on without saying it:

* `InertBeforeStart`: before `start()` has set the loop, nobody rebuilds;
* `HeldWhileClosing`: a coroutine that is closing a socket holds one, and only then;
* and, unless rebuilds overlapped: at most one coroutine rebuilds (`RebuildAlone`),
  it knows whether a socket is assigned at each await (`SocketOfRebuild`), stop
  has cancelled the others once it runs (`StopTookOver`), every live socket is held
  (`LiveIsHeld`), and "connected" comes with a socket (`ConnectedHolds`).

Its preservation is one lemma for the shared
entry of a rebuild (`HardReconnectInv`), and one step per action. `FatalIsQuiet` needs one fact more,
that nobody has given up before `start()` (`FatalAfterStart`).

### WsSubscriptionsProofs

| Theorem | Statement |
|---|---|
| `SubscriptionsInvariant` | `Spec => []IInv` |
| `RegistryIsWindow` | `Spec => []RegistryFollowsAtm` |
| `WireIsRegistry` | `Spec => []WireFollowsRegistry` |
| `WindowIsNotSilenced` | `Spec => WindowKeepsTicking` |

The properties speak of moments at which nobody is at work; `IInv` says what holds
between them. `Ahead(c, t)` is what the registry will hold once issuer c has
made the calls it has left: it is the window of the ATM throughout (`Heading`), which
`IssueEffect` shows operation by operation. What an issuer takes away is no part of that window
(`Dropping`). A registered symbol that the server does not have is in the snapshot of
the replay or in a call on its way (`Told`); what the server has and the registry has not
is in an unsubscribe on its way (`Exact`).

### TickFanoutProofs

| Theorem | Statement |
|---|---|
| `Typing` | `Spec => []TypeOK` (with the queues within their sizes) |
| `Ordered` | `Spec => []InOrder` |
| `NothingLost` | `Spec => []EachOnce` |

`IInv` is `BrokersInv` (what was taken from a broker, its queue and its ready tasks, one after
the other, are the consecutive ticks; no put waits until the queue was full) and
`WorkersInv`: the tick in a worker's hand is newer than all it stored and wrote. That order is lost
once a queue has been full, so `EachOnce`, which is not, has an argument of its own: every
step of a broker moves ticks between its four places (`CompletePut`, `CompleteGet`) and
`AllComplete` says that every tick that came is in one of the places, and that the places together have
as many as came, so that none is there twice.

### PipelineProofs

| Theorem | Statement |
|---|---|
| `BarsInvariant`, `BarsTypes` | `Spec => []IInv`, `Spec => []TypeOK` |
| `TickCountsOnce` | `Spec => []TickInOneBar` |
| `BarsArePunctual` | `Spec => []Punctual` |
| `NiftyBarsAreFeed` | `Spec => NiftyIsFeed`, the refinement of `BarFeed` |
| `VolumesCountedOnce` | `BookSpec => []VolumeOnce` |
| `BookOfTheBarIsComplete` | `BookSpec => NothingLostAtRest` |

*`Bars`.* The set of emitted ids that the code keeps against duplicates is cut when it is full, and plays no
part in the proof: what keeps bars apart is the order of time. `OrderInv` says that every
bar is older than the one the scheduler will wake up for, also after a restart and after
a step of the clock; `FreshInv` that what is on the board is in no bar but the one being
emitted. `RunEffect` and `RunKeepsApart` are shared by the actions that run up to
the next await. `NoBarAssumption` says that "no bar" is not a bar.

`Punctual` says when a bar's ticks came, so `PunctualInv` must say it of the ticks that are in no
bar yet: while the scheduler sleeps they are of the interval it will close or later; while it
emits, the aggregator, which was emptied when the bar was built, has newer ticks only, and
the board, which is emptied at the end, may still have those of the bar. The gaps are excluded
because, while nothing slipped, each wake-up is for the interval after the last one (`target =
last + 2`), and the duplicate check never meets an interval it knows.

*`OptionBook`.* `CandleInv`: the start of an open candle is not below what was closed, and start
and volume together not above what was traded (`Counted`). `BookInv`: while the ATM rests, everything that
caches an ATM has that of the NIFTY, and the book has what is due around it.

### MarketDayProofs

| Theorem | Statement |
|---|---|
| `WriterInvariant`, `WriterTypes` | `Spec => []IInv`, `Spec => []TypeOK` |
| `RowsInsertedOnce` | `Spec => []AtMostOnce` |
| `PartnersInOrder` | `Spec => []PartnersFirst` |
| `NothingElseIsLost` | `Spec => []LostOnlyByFailure` |
| `TablesAreLogs` | `Spec => IsRowLog`, the refinement of `RowLog` |
| `DayImplementsWriter` | `DaySpec => Spec` |
| `DayTablesAreSound` | the four of the writer, over a whole day |
| `RefreshIsHonest` | `DaySpec => ExitZeroIsHonest` |

`Spec` is the specification of `DbWriter`, which `MarketDay` extends.
`Fifo` says that batch and queue are in the order of the producers; `NewerToCome` that a table has
rows only of items older than what may still be written to it; `Passed` that the inserts
a flush has passed have written the batch. `InsertWrites` and `GivingUpKeeps` are
what an insert and the loss of a batch do. A step of the day is a step of the writer or a
stutter (`DayStepIsWriterStep`), so that the writer's theorems carry over. `JobInv` ties the
locals of the refresh job to the secrets it has written. `RefreshIsHonest` says that after exit code 0
the session token is good, and that both secrets are of one session *if* the job
renewed it and got an auth token; without one nothing is promised of the second secret.

### LiveHubProofs

| Theorem | Statement |
|---|---|
| `HubInvariant`, `HubTypes` | `Spec => []IInv`, `Spec => []TypeOK` |
| `HubMissesNothing` | `Spec => []NothingMissed` |
| `HubNeverOutdated` | `Spec => NeverOutdated` |

The replay reads the history, the open candle and the option chain at three moments and sends
each of them later, while two broadcasters send to the same client. Nothing in `hub.py` compares
what it sends with what was sent; what makes it right is that the lock of a client is
fair and that each party waits for its send. `IInv` spells that out:

* `QueueInv`: a party has at most one send in a client's line, it is what that party is sending
  *now*, and of two open candles or chains in a line the one in front is no newer. Hence
  a replay's copy, read before it queued, is delivered before any newer one (`NeverOutdated`);
* `SendingInv`: a broadcaster is in one line at a time, with the newest message of its kind;
* `ClientsInv`: a broadcast drops only clients that are gone, so all others are in `clients`
  from before their replay reads anything;
* `ReplayInv` (`HasBars`, `HasOpen`, `HasChain`): what the handler has read of each
  kind is current, or its successor is on its way in a broadcast.

`LineGrows` and `LineMoves` are the facts about the line at a lock; then there is one
lemma per action. `NothingMissed` follows once the handler has no send in the line.

### InstrumentsProofs

| Theorem | Statement |
|---|---|
| `InstrumentsInvariant` | `Spec => []IInv` |
| `CloudMasterStays` | `Spec => OnlyUnreadIsReplaced` |
| `TokensResolve` | `Spec => []RefMapsFollowTokens` |

They assume `InstrumentsAssumption` only, so they hold for whatever a truncated file may have.

*`CloudMasterStays`.* An upload is a job of the pool: it may wait behind downloads that hang and end
long after its process decided on it, so that the decision and the write are far apart. `UploadInv` says
what is true in between: while an upload is in the pool, Cloud Storage had nothing or the process did
not get to read it, a process submits one at most, and once it is submitted the process has a
frame and reads Cloud Storage no more. `MastersInv` (each copy is of a day that has
come, and is a whole master or one of the cuts) gives the types; `GateInv` ties the
manager to the day it was built.

*`TokensResolve`.* The unit of the wire is found out from the least distance between strikes: if it is 50 in
rupees it is 5000 in paise, as the comment of `manager.py:434` says of PROD (`StepFound`). The property
asks for two strikes at that distance, because without them the code does not keep it: with strikes
100 rupees apart in rupees it takes the scale for 2 and resolves every strike to half of it.

### AuthSessionProofs

| Theorem | Statement |
|---|---|
| `SessionInvariant` | `Spec => [](TypeOK /\ IInv)` |
| `SessionTypes` | `Spec => []TypeOK` |
| `LoginsKeepTheDevice` | `Spec => []LoginKeepsDevice` |
| `CacheAndShelveAgree` | `Spec => []CacheAgreesWithDisk` |
| `OneLoginForASession` | `Spec => OneLoginPerSession` |

Even the types need the invariant, since a write takes the head of
`todo`. `IInv` consists of:

* `OneInside`: the lock's holder is the only thread inside, and before the boot has a
  client nobody else asks;
* `WriteState`: which keys of the shelve are there at each point of a write, and that the
  environment is written only when it is complete or its session is over;
* `Knows`: what a thread learnt of the shelve earlier on its way still holds, because no
  other thread writes it;
* `CacheHolds`, `DeviceHolds`, `NewestHolds`: while no write is under way, what the cache,
  and a shelve that has lost nothing, are sure to hold;
* `EnvironmentFirst`: with a complete environment nobody logs in before its session ends,
  so that writing it over the shelve never brings back an older one.

`WriteKeyEffect` says what one write does, case by case; then there is one lemma per
action (`StartedKeeps` serves the restart and the refused boot), each with one step per
conjunct. A login needs `~Usable(disk)` (`Knows`), which `NewestHolds` turns into an expired
session.

### Only model-checked

The liveness properties, which are out of the prover's reach, because they need fairness and
ENABLED: `StaleConnectionReplaced`, `RebuildsEnd`, `ReplayCompletes`, `TicksReachPipeline`, `LoadEnds`,
`GateOpensOnWhole`, `EmissionEnds`, `ViewCatchesUp`, `BroadcastsEnd`, `UnregisteredIsClosed`,
`ExpiredSessionRefreshed`, `EverythingStored`. The two properties of the violation runs
are false, and have no proof.

## 6. Findings

Two runs show the code at variance with what its comments say:

1. `ws_manager.py:668`: after a failed rebuild nobody retries (run `ws_retry`).
2. `api/routes.py:308`: `admin_shutdown` flushes nothing, since `DBWriter` has no `flush`, and
   `market_stop.py:153` logs a completed flush after a sleep (run `day_flush`).

Others were met while modelling. Where a property would fail because of one, the
property excepts it by a condition or a history variable, named in brackets:

* `nubra_socket.py:188`: a spot move during the boot is diffed against a window that is not on the
  wire, and the boot then subscribes the old one for good [`crossed`];
* `hub.py:121`: the history is appended to while it is iterated; the deque raises, and the rest of
  the replay is not sent [`aborted`];
* `pipeline.py:1434`: ticks of futures, options and stocks that arrive during an emission are
  in no bar: the board they are on is reset at its end (`TickInOneBar` asks for at most one);
* `auth_service.py:163`: each boot seeds the shelve without the session in it, although the comment of
  `auth_client.py:332` forbids it [`lost`];
* `main.py`: in simulation mode with a database the simulator publishes to the first broker and the
  pipeline reads the second [`is_simulation => ~use_database`];
* `broker.py:11`: ticks overtake one another once a queue has been full [`crowded`];
* `instrument_cache.py:242`: after a failed download from Cloud Storage the file of the image is uploaded over a
  newer master, so that what is in use may be older than 24 h [`missed`];
* `instrument_cache.py:225`: the CSV is not written atomically, and what a kill or a full disk leaves of it is
  used and uploaded until the next download. Only a minimum of tokens and the count of NIFTY50 symbols
  are looked at, so that a file which lacks other rows goes live: the instance of `instruments` reaches it;
  no property says otherwise;
* `manager.py:789`: with a stock listed under both its names the last symbol is cut off, and the
  gate never opens [`EachOnce` of `Instruments`];
* `auth_refresh.py:218`: an empty auth token is passed over and the job exits with 0, which leaves the secrets
  of two sessions side by side [`has_auth`]; nor does anything repair secrets that a failed write left
  so, since the next run sees a good session token and exits with 0 [`renewed`];
* `main.py:134`: after the database task has failed nobody empties its queue; a put that finds it full waits
  for ever, and the interval scheduler with it [`flushing`];
* `pipeline.py:390`: a message without a volume opens a candle with the wrong start, and the next counts the
  volume of the day [`blank`].

And some that no property touches: `/health/ready` stays "ready" after `admin_shutdown`
(`main.py:525`); an event whose handler raises is dropped (`workers/base.py:24`); `SignalEngine`
scores keys that nothing writes (`signals/engine.py:34`); `MemoryStore` ignores its
ttl (`memory_store.py:17`); the gate opens although the ingestion raised (`main.py:370`); an order
book message resets the greeks of its leg (`pipeline.py:826`).

## 7. Not modelled, and why

*Historical comparison.* It reads from the vendor and from the database and compares data
frames; it writes nothing the service reads back. The rate limiter is the only control in it.

*Scripts, Terraform, enrolment tools, `jobs/simulate.py`.* Run by hand or in isolation, sequential
input and output.

*Within modelled components.* Values of candles, rows, scores and analytics (floating
point over one snapshot, no control); the text of messages and logs; metrics; the values
in SQL statements, the migrations and the retries inside asyncpg; the SDK beyond its
callbacks and its login; `input_patch.py`, which feeds the SDK's prompts; the parsing of columns and
of expiry formats; the sums over both sides of a strike; the length of a backoff (its jitter may exceed the cap of
30 s, ws_manager.py:606-612); the widening of numeric columns; and the Redis path of
`LiveHub`, which is taken only without a hub, and the application always creates one.
