------------------------------ MODULE WsManager ------------------------------
(***************************************************************************)
(* The connection life cycle of WebSocketManager                           *)
(* (app/ingestion/ws_manager.py): which asyncio coroutines tear down and   *)
(* rebuild the SDK socket, the callbacks the SDK's threads deliver between *)
(* any two of their steps, and stop().                                     *)
(*                                                                         *)
(* The coroutines are                                                      *)
(*   "host"      the background task of main.py: it awaits start() and     *)
(*               then runs the session refresh loop, which awaits          *)
(*               reconnect_for_session_refresh();                          *)
(*   "watchdog"  _watchdog_loop, which awaits _hard_reconnect itself;      *)
(*   a slot      one task created by _schedule_hard_reconnect;             *)
(*   "stop"      stop().                                                   *)
(* A step of the model is the code between two awaits.  The subscription   *)
(* registry is the subject of module WsSubscriptions; metrics, logging and *)
(* the length of the backoff are left out.                                 *)
(***************************************************************************)
EXTENDS Naturals, FiniteSets

CONSTANTS
  Slots,             \* identities for tasks held by _reconnect_task (a bound)
  Sockets,           \* identities for SDK sockets, reused once gone (a bound)
  MaxAuthFailures,   \* max_auth_failures
  None,              \* Python's None
  AuthMayFail,       \* may get_authenticated_client raise?
  ConnectMayTimeout, \* may a healthy handshake take longer than the timeout?
  StopMayHappen      \* is shutdown part of the instance?

ASSUME ConstantsAssumption ==
  /\ MaxAuthFailures \in Nat \ {0}
  /\ None \notin Slots \union Sockets
  /\ {"host", "watchdog", "stop"} \intersect Slots = {}
  /\ AuthMayFail \in BOOLEAN /\ ConnectMayTimeout \in BOOLEAN /\ StopMayHappen \in BOOLEAN

VARIABLES
  loopUp,        \* _main_loop is not None
  closing,       \* _closing
  fatal,         \* _fatal
  sockState,     \* _socket_state
  authState,     \* _auth_state
  authFailures,  \* _auth_failure_count, saturating at the cap it is compared to
  socket,        \* _socket
  connEvent,     \* _connect_event.is_set()
  reconnectTask, \* _reconnect_task while it is not done(), else None
  pc,            \* where each coroutine is suspended
  force,         \* its argument force_auth_refresh
  held,          \* the socket it is closing (local of _teardown_socket)
  life,          \* the life of each SDK socket, seen from the SDK
  silent,        \* no tick for stale_threshold_seconds
  overlapped     \* history: two coroutines were rebuilding at the same time,
                 \* or stop() ran while one it does not cancel was

vars == << loopUp, closing, fatal, sockState, authState, authFailures, socket,
           connEvent, reconnectTask, pc, force, held, life, silent, overlapped >>

Builders   == {"host", "watchdog"} \union Slots
Coroutines == Builders \union {"stop"}

\* Suspension points between the entry of _hard_reconnect (or start) and the
\* moment the new socket is reported connected, or the attempt is given up.
Rebuilding == {"teardown", "backoff", "auth", "wait", "abort"}
Pcs == Rebuilding \union {"idle", "off", "sleep", "queued", "ready", "reapply", "done"}

Lives == {"gone", "opening", "open", "closing", "closed"}

Busy    == {c \in Coroutines : pc[c] \in Rebuilding}
Live(s) == life[s] \in {"opening", "open"}

\* An identity for a socket nobody refers to any more.
Fresh(s) == life[s] = "gone" /\ socket # s /\ \A c \in Coroutines : held[c] # s

TypeOK ==
  /\ loopUp \in BOOLEAN /\ closing \in BOOLEAN /\ fatal \in BOOLEAN
  /\ connEvent \in BOOLEAN /\ silent \in BOOLEAN /\ overlapped \in BOOLEAN
  /\ sockState \in {"connected", "reconnecting", "disconnected"}
  /\ authState \in {"ok", "refreshing", "error", "fatal"}
  /\ authFailures \in 0..MaxAuthFailures
  /\ socket \in Sockets \union {None}
  /\ reconnectTask \in Slots \union {None}
  /\ pc \in [Coroutines -> Pcs]
  /\ force \in [Builders -> BOOLEAN]
  /\ held \in [Coroutines -> Sockets \union {None}]
  /\ life \in [Sockets -> Lives]

Init ==
  /\ loopUp = FALSE
  /\ closing = FALSE
  /\ fatal = FALSE
  /\ sockState = "disconnected"
  /\ authState = "ok"
  /\ authFailures = 0
  /\ socket = None
  /\ connEvent = FALSE
  /\ reconnectTask = None
  /\ pc = [c \in Coroutines |-> IF c \in {"host", "stop"} THEN "idle" ELSE "off"]
  /\ force = [c \in Builders |-> FALSE]
  /\ held = [c \in Coroutines |-> None]
  /\ life = [s \in Sockets |-> "gone"]
  /\ silent = FALSE
  /\ overlapped = FALSE

(***************************************************************************)
(* Pieces the handlers share.                                              *)
(***************************************************************************)

\* What a coroutine does when _hard_reconnect (or start) returns to it: a
\* scheduled task ends, the watchdog and the refresh loop go back to sleep; a
\* failed start() propagates and the host never reaches the refresh loop.
PcAfter(c) ==
  CASE c \in Slots      -> "off"
    [] c = "watchdog"   -> IF closing THEN "off" ELSE "sleep"
    [] OTHER            -> "sleep"

PcAfterFailure(c) == IF c = "host" /\ ~force[c] THEN "off" ELSE PcAfter(c)

TaskAfter(c) == IF reconnectTask = c THEN None ELSE reconnectTask

\* Mutant of BeginTeardown: the reference is dropped and close is never called.
BeginTeardownWithoutClose(c, busy, next) ==
  /\ socket' = None
  /\ pc' = [pc EXCEPT ![c] = next]
  /\ UNCHANGED << held, life >>

\* _teardown_socket up to its first await: the reference is dropped first, the
\* close call is handed to a thread.  Nothing at all happens without a socket.
BeginTeardown(c, busy, next) ==
  \/ /\ socket # None
     /\ socket' = None
     /\ held' = [held EXCEPT ![c] = socket]
     /\ life' = [life EXCEPT ![socket] = IF Live(socket) THEN "closing" ELSE @]
     /\ pc' = [pc EXCEPT ![c] = busy]
  \/ /\ socket = None
     /\ pc' = [pc EXCEPT ![c] = next]
     /\ UNCHANGED << socket, held, life >>

\* _hard_reconnect up to its first await, called by coroutine c.
IgnoreReconnect(c) ==
  /\ closing \/ fatal
  /\ pc' = [pc EXCEPT ![c] = PcAfter(c)]
  /\ reconnectTask' = TaskAfter(c)
  /\ UNCHANGED << fatal, sockState, authState, socket, held, life, overlapped >>

GiveUpReconnecting(c, forced) ==
  /\ ~closing /\ ~fatal
  /\ forced /\ authFailures >= MaxAuthFailures
  /\ fatal' = TRUE
  /\ authState' = "fatal"
  /\ sockState' = "disconnected"
  /\ pc' = [pc EXCEPT ![c] = PcAfter(c)]
  /\ reconnectTask' = TaskAfter(c)
  /\ UNCHANGED << socket, held, life, overlapped >>

\* Mutant of StartReconnect: _closing is not looked at.
StartReconnectWhileClosing(c, forced) ==
  /\ ~fatal
  /\ ~(forced /\ authFailures >= MaxAuthFailures)
  /\ BeginTeardown(c, "teardown", "backoff")
  /\ overlapped' = (overlapped \/ Busy # {})
  /\ UNCHANGED << fatal, sockState, authState, reconnectTask >>

\* Mutant of StartReconnect: _fatal is not looked at.
StartReconnectWhenFatal(c, forced) ==
  /\ ~closing
  /\ ~(forced /\ authFailures >= MaxAuthFailures)
  /\ BeginTeardown(c, "teardown", "backoff")
  /\ overlapped' = (overlapped \/ Busy # {})
  /\ UNCHANGED << fatal, sockState, authState, reconnectTask >>

StartReconnect(c, forced) ==
  /\ ~closing /\ ~fatal
  /\ ~(forced /\ authFailures >= MaxAuthFailures)
  /\ BeginTeardown(c, "teardown", "backoff")
  /\ overlapped' = (overlapped \/ Busy # {})
  /\ UNCHANGED << fatal, sockState, authState, reconnectTask >>

HardReconnect(c, forced) ==
  \/ IgnoreReconnect(c)
  \/ GiveUpReconnecting(c, forced)
  \/ StartReconnect(c, forced)

\* _schedule_hard_reconnect, on an SDK thread: the check reads _reconnect_task,
\* which the queued _spawn will only assign later.
Schedule(forced) ==
  IF ~loopUp \/ closing \/ fatal \/ reconnectTask # None
  THEN UNCHANGED << pc, force >>
  ELSE \E r \in Slots :
         /\ pc[r] = "off"
         /\ pc' = [pc EXCEPT ![r] = "queued"]
         /\ force' = [force EXCEPT ![r] = forced]

(***************************************************************************)
(* Coroutines.                                                             *)
(***************************************************************************)

\* start(), up to the await of get_authenticated_client.
HostStart ==
  /\ pc["host"] = "idle"
  /\ loopUp' = TRUE
  /\ closing' = FALSE
  /\ connEvent' = FALSE
  /\ sockState' = "reconnecting"
  /\ authState' = "refreshing"
  /\ pc' = [pc EXCEPT !["host"] = "auth"]
  /\ UNCHANGED << fatal, authFailures, socket, reconnectTask, force, held, life,
                  silent, overlapped >>

\* One turn of run_session_refresh_loop in which the session was expired and
\* has been refreshed: reconnect_for_session_refresh().
HostRefresh ==
  /\ pc["host"] = "sleep"
  /\ loopUp
  /\ force' = [force EXCEPT !["host"] = TRUE]
  /\ HardReconnect("host", TRUE)
  /\ UNCHANGED << loopUp, closing, authFailures, connEvent, silent >>

\* lifespan cancels its background tasks once ingestion.stop() has returned.
HostCancelled ==
  /\ pc["stop"] = "done"
  /\ pc["host"] # "off"
  /\ pc' = [pc EXCEPT !["host"] = "off"]
  /\ held' = [held EXCEPT !["host"] = None]
  /\ UNCHANGED << loopUp, closing, fatal, sockState, authState, authFailures, socket,
                  connEvent, reconnectTask, force, life, silent, overlapped >>

\* Mutant of WatchdogFires: the state test is inverted.
WatchdogFiresInverted ==
  /\ pc["watchdog"] = "sleep"
  /\ ~closing /\ ~fatal
  /\ sockState # "connected"
  /\ silent
  /\ HardReconnect("watchdog", FALSE)
  /\ UNCHANGED << loopUp, closing, authFailures, connEvent, force, silent >>

\* A turn of _watchdog_loop that finds the connection stale.  Every other turn
\* (fatal, not connected, fresh ticks) changes nothing.
WatchdogFires ==
  /\ pc["watchdog"] = "sleep"
  /\ ~closing /\ ~fatal
  /\ sockState = "connected"
  /\ silent
  /\ HardReconnect("watchdog", FALSE)
  /\ UNCHANGED << loopUp, closing, authFailures, connEvent, force, silent >>

\* _spawn runs on the loop and overwrites _reconnect_task.
Spawn(r) ==
  /\ pc[r] = "queued"
  /\ pc' = [pc EXCEPT ![r] = "ready"]
  /\ reconnectTask' = r
  /\ UNCHANGED << loopUp, closing, fatal, sockState, authState, authFailures, socket,
                  connEvent, force, held, life, silent, overlapped >>

\* The task takes its first step.
TaskStart(r) ==
  /\ pc[r] = "ready"
  /\ HardReconnect(r, force[r])
  /\ UNCHANGED << loopUp, closing, authFailures, connEvent, force, silent >>

\* Mutant of EndTeardown: the state is not set to "disconnected".
EndTeardownKeepsState(c) ==
  /\ pc[c] \in {"teardown", "abort"}
  /\ c # "stop"
  /\ life[held[c]] # "closing"
  /\ held' = [held EXCEPT ![c] = None]
  /\ IF pc[c] = "teardown"
     THEN pc' = [pc EXCEPT ![c] = "backoff"] /\ UNCHANGED reconnectTask
     ELSE pc' = [pc EXCEPT ![c] = PcAfterFailure(c)] /\ reconnectTask' = TaskAfter(c)
  /\ UNCHANGED << loopUp, closing, fatal, sockState, authState, authFailures, socket,
                  connEvent, force, life, silent, overlapped >>

\* The close call returned: the end of _teardown_socket, in _hard_reconnect
\* ("teardown") or after a connect timeout ("abort").
EndTeardown(c) ==
  /\ pc[c] \in {"teardown", "abort"}
  /\ c # "stop"
  /\ life[held[c]] # "closing"
  /\ sockState' = "disconnected"
  /\ held' = [held EXCEPT ![c] = None]
  /\ IF pc[c] = "teardown"
     THEN pc' = [pc EXCEPT ![c] = "backoff"] /\ UNCHANGED reconnectTask
     ELSE pc' = [pc EXCEPT ![c] = PcAfterFailure(c)] /\ reconnectTask' = TaskAfter(c)
  /\ UNCHANGED << loopUp, closing, fatal, authState, authFailures, socket, connEvent,
                  force, life, silent, overlapped >>

\* The backoff sleep ends and _build_and_connect_socket begins; neither looks at
\* _closing or _fatal again.
BackoffDone(c) ==
  /\ pc[c] = "backoff"
  /\ sockState' = "reconnecting"
  /\ authState' = "refreshing"
  /\ pc' = [pc EXCEPT ![c] = "auth"]
  /\ UNCHANGED << loopUp, closing, fatal, authFailures, socket, connEvent,
                  reconnectTask, force, held, life, silent, overlapped >>

\* get_authenticated_client returned: the new socket replaces whatever _socket
\* holds by now, and connects.
AuthOk(c) ==
  /\ pc[c] = "auth"
  /\ authState' = "ok"
  /\ connEvent' = FALSE
  /\ \E s \in Sockets :
       /\ Fresh(s)
       /\ socket' = s
       /\ life' = [life EXCEPT ![s] = "opening"]
  /\ pc' = [pc EXCEPT ![c] = "wait"]
  /\ UNCHANGED << loopUp, closing, fatal, sockState, authFailures, reconnectTask,
                  force, held, silent, overlapped >>

\* get_authenticated_client raised NubraAuthError, or something else (then the
\* auth state is left "refreshing" and nothing is counted).  Nobody is told to
\* try again, and the socket state stays "reconnecting".
AuthFails(c) ==
  /\ AuthMayFail
  /\ pc[c] = "auth"
  /\ \/ /\ authState' = "error"
        /\ authFailures' = IF authFailures < MaxAuthFailures
                           THEN authFailures + 1 ELSE authFailures
     \/ UNCHANGED << authState, authFailures >>
  /\ pc' = [pc EXCEPT ![c] = PcAfterFailure(c)]
  /\ reconnectTask' = TaskAfter(c)
  /\ UNCHANGED << loopUp, closing, fatal, sockState, socket, connEvent, force, held,
                  life, silent, overlapped >>

\* Mutant of ConnectDone: a success takes one failure off the count, unguarded,
\* instead of clearing it.
ConnectDoneDecays(c) ==
  /\ pc[c] = "wait"
  /\ connEvent
  /\ sockState' = "connected"
  /\ authFailures' = authFailures - 1
  /\ silent' = FALSE
  /\ pc' = [pc EXCEPT ![c] = "reapply"]
  /\ UNCHANGED << loopUp, closing, fatal, authState, socket, connEvent, reconnectTask,
                  force, held, life, overlapped >>

\* wait_for(_connect_event.wait()) is satisfied, whichever socket set the event.
ConnectDone(c) ==
  /\ pc[c] = "wait"
  /\ connEvent
  /\ sockState' = "connected"
  /\ authFailures' = 0
  /\ silent' = FALSE
  /\ pc' = [pc EXCEPT ![c] = "reapply"]
  /\ UNCHANGED << loopUp, closing, fatal, authState, socket, connEvent, reconnectTask,
                  force, held, life, overlapped >>

\* Mutant of ConnectTimeout: the event is awaited without wait_for.
ConnectTimeoutNever(c) == FALSE

\* wait_for times out: what _socket holds now is torn down and the attempt fails.
ConnectTimeout(c) ==
  /\ pc[c] = "wait"
  /\ ~connEvent
  /\ (~ConnectMayTimeout /\ socket # None) => ~Live(socket)
  /\ BeginTeardown(c, "abort", PcAfterFailure(c))
  /\ reconnectTask' = IF socket = None THEN TaskAfter(c) ELSE reconnectTask
  /\ UNCHANGED << loopUp, closing, fatal, sockState, authState, authFailures,
                  connEvent, force, silent, overlapped >>

\* _reapply_subscriptions is done and the attempt has succeeded.  start() then
\* creates the watchdog, and the host goes on to the refresh loop unless
\* _subscribe_all raised.
Reapplied(c) ==
  /\ pc[c] = "reapply"
  /\ reconnectTask' = TaskAfter(c)
  /\ IF c = "host" /\ ~force[c]
     THEN \E after \in {"sleep", "off"} :
            pc' = [pc EXCEPT !["host"] = after,
                             !["watchdog"] = IF closing THEN "off" ELSE "sleep"]
     ELSE pc' = [pc EXCEPT ![c] = PcAfter(c)]
  /\ UNCHANGED << loopUp, closing, fatal, sockState, authState, authFailures, socket,
                  connEvent, force, held, life, silent, overlapped >>

\* stop(): cancels the watchdog and the task _reconnect_task names, and no other
\* coroutine, then tears down.  A cancelled coroutine ends at its await.
Cancelled == {"watchdog"} \union ({reconnectTask} \ {None})

StopBegin ==
  /\ StopMayHappen
  /\ pc["stop"] = "idle"
  /\ loopUp
  /\ closing' = TRUE
  /\ reconnectTask' = None
  /\ socket' = None
  /\ held' = [c \in Coroutines |-> CASE c \in Cancelled -> None
                                     [] c = "stop"      -> socket
                                     [] OTHER           -> held[c]]
  /\ life' = [s \in Sockets |-> IF s = socket /\ Live(s) THEN "closing" ELSE life[s]]
  /\ pc' = [c \in Coroutines |-> CASE c \in Cancelled -> "off"
                                   [] c = "stop" -> IF socket = None THEN "done" ELSE "teardown"
                                   [] OTHER -> pc[c]]
  /\ loopUp' = (socket # None)
  /\ overlapped' = (overlapped \/ Busy \ Cancelled # {})
  /\ UNCHANGED << fatal, sockState, authState, authFailures, connEvent, force, silent >>

StopEnd ==
  /\ pc["stop"] = "teardown"
  /\ life[held["stop"]] # "closing"
  /\ sockState' = "disconnected"
  /\ loopUp' = FALSE
  /\ held' = [held EXCEPT !["stop"] = None]
  /\ pc' = [pc EXCEPT !["stop"] = "done"]
  /\ UNCHANGED << closing, fatal, authState, authFailures, socket, connEvent,
                  reconnectTask, force, life, silent, overlapped >>

(***************************************************************************)
(* The SDK and the server (external): the sockets and their callbacks.     *)
(***************************************************************************)

\* on_connect; it may still arrive for a socket being closed, and it sets the one
\* event every attempt waits on.
CbConnect(s) ==
  /\ life[s] \in {"opening", "closing"}
  /\ life' = [life EXCEPT ![s] = IF @ = "opening" THEN "open" ELSE @]
  /\ connEvent' = (connEvent \/ loopUp)
  /\ UNCHANGED << loopUp, closing, fatal, sockState, authState, authFailures, socket,
                  reconnectTask, pc, force, held, silent, overlapped >>

\* The server, or the network, drops the connection.
ServerClose(s) ==
  /\ Live(s)
  /\ life' = [life EXCEPT ![s] = "closed"]
  /\ UNCHANGED << loopUp, closing, fatal, sockState, authState, authFailures, socket,
                  connEvent, reconnectTask, pc, force, held, silent, overlapped >>

\* The close call made by a teardown completes; the SDK may report it or not.
CloseDone(s) ==
  /\ life[s] = "closing"
  /\ \E after \in {"closed", "gone"} : life' = [life EXCEPT ![s] = after]
  /\ UNCHANGED << loopUp, closing, fatal, sockState, authState, authFailures, socket,
                  connEvent, reconnectTask, pc, force, held, silent, overlapped >>

\* on_close: the state is overwritten whichever socket was closed.
CbClose(s, authShaped) ==
  /\ life[s] = "closed"
  /\ life' = [life EXCEPT ![s] = "gone"]
  /\ sockState' = "disconnected"
  /\ Schedule(authShaped)
  /\ UNCHANGED << loopUp, closing, fatal, authState, authFailures, socket, connEvent,
                  reconnectTask, held, silent, overlapped >>

\* on_error with an auth-shaped message (any other is only logged).
CbError(s) ==
  /\ Live(s)
  /\ Schedule(TRUE)
  /\ UNCHANGED << loopUp, closing, fatal, sockState, authState, authFailures, socket,
                  connEvent, reconnectTask, held, life, silent, overlapped >>

\* A tick, from any open socket, refreshes last_tick; time without one passes.
Tick(s) ==
  /\ life[s] = "open"
  /\ loopUp /\ ~closing
  /\ silent
  /\ silent' = FALSE
  /\ UNCHANGED << loopUp, closing, fatal, sockState, authState, authFailures, socket,
                  connEvent, reconnectTask, pc, force, held, life, overlapped >>

GoSilent ==
  /\ ~silent
  /\ silent' = TRUE
  /\ UNCHANGED << loopUp, closing, fatal, sockState, authState, authFailures, socket,
                  connEvent, reconnectTask, pc, force, held, life, overlapped >>

(***************************************************************************)
(* Specification.                                                          *)
(***************************************************************************)

\* The step that resumes a suspended rebuild.
Resume(c) ==
  \/ EndTeardown(c)
  \/ BackoffDone(c)
  \/ AuthOk(c)
  \/ AuthFails(c)
  \/ ConnectDone(c)
  \/ ConnectTimeout(c)
  \/ Reapplied(c)

Next ==
  \/ HostStart
  \/ HostRefresh
  \/ HostCancelled
  \/ WatchdogFires
  \/ \E r \in Slots : Spawn(r) \/ TaskStart(r)
  \/ \E c \in Builders : Resume(c)
  \/ StopBegin
  \/ StopEnd
  \/ \E s \in Sockets : CbConnect(s) \/ ServerClose(s) \/ CloseDone(s)
                        \/ CbError(s) \/ Tick(s)
  \/ \E s \in Sockets, authShaped \in BOOLEAN : CbClose(s, authShaped)
  \/ GoSilent

Spec == Init /\ [][Next]_vars

\* The event loop runs every ready callback, sleeps and timeouts expire, a close
\* call returns and a close that happened is reported.  Nothing is assumed of the
\* server, the auth backend, the session refresh, or the time between two ticks.
Fairness ==
  /\ WF_vars(HostStart)
  /\ WF_vars(WatchdogFires)
  /\ \A r \in Slots : WF_vars(Spawn(r)) /\ WF_vars(TaskStart(r))
  /\ \A c \in Builders : WF_vars(Resume(c))
  /\ WF_vars(StopEnd)
  /\ \A s \in Sockets :
       /\ WF_vars(CloseDone(s))
       /\ WF_vars(\E authShaped \in BOOLEAN : CbClose(s, authShaped))

FairSpec == Spec /\ Fairness

(***************************************************************************)
(* Properties.                                                             *)
(***************************************************************************)

\* As long as no two rebuilds ever overlapped, the only socket that can be
\* delivering ticks is the one the manager holds: no reconnect leaks a socket.
NoOrphanSocket ==
  ~overlapped => \A s \in Sockets : Live(s) => s = socket

\* While the manager is in service and no teardown is in progress, health() never
\* reports "connected" without holding a socket (again unless rebuilds overlapped).
ConnectedHasSocket ==
  (sockState = "connected" /\ ~closing /\ ~overlapped
     /\ \A c \in Coroutines : pc[c] \notin {"teardown", "abort"})
    => socket # None

\* Once stop() has returned, and it did not run while the refresh loop was
\* rebuilding, no socket is left open and none will be opened.
StopClosesSockets ==
  (pc["stop"] = "done" /\ ~overlapped) =>
    /\ \A s \in Sockets : ~Live(s)
    /\ \A c \in Builders : pc[c] \notin Rebuilding

\* The fatal state is left quiet: once it is entered and the rebuilds in flight
\* have ended, none ever starts again, whatever tasks, callbacks or session
\* refreshes are still on their way.
FatalIsQuiet == [][(fatal /\ Busy = {}) => Busy' \subseteq {"stop"}]_vars

\* A connection reported "connected" that carries no ticks does not go unnoticed
\* while the watchdog is alive: it is replaced, or ticks come back.
StaleConnectionReplaced ==
  (sockState = "connected" /\ silent /\ pc["watchdog"] # "off")
    ~> (~silent \/ sockState # "connected" \/ socket = None \/ closing \/ fatal)

\* Every rebuild comes to an end: no coroutine waits forever for a handshake, a
\* close call or a socket that another one replaced.
RebuildsEnd == \A c \in Builders : (pc[c] \in Rebuilding) ~> (pc[c] \notin Rebuilding)

\* What the comment at lines 634-636 says of a rebuild that failed to authenticate:
\* "the watchdog will re-trigger us".  The code does not: the socket state is left
\* "reconnecting", which _watchdog_loop skips.
FailedAttemptIsRetried ==
  (sockState = "reconnecting" /\ Busy = {} /\ pc["watchdog"] = "sleep")
    ~> (sockState # "reconnecting" \/ Busy # {})
=============================================================================
