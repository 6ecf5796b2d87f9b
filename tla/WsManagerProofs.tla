-------------------------- MODULE WsManagerProofs --------------------------
(***************************************************************************)
(* Proofs about WsManager: the type invariant, and the three safety        *)
(* invariants, for every set of tasks and sockets.                         *)
(***************************************************************************)
EXTENDS WsManager, TLAPS

USE ConstantsAssumption DEF ConstantsAssumption, Pcs, Rebuilding, Lives, Builders, Coroutines

\* Where a coroutine goes when its attempt is over is always a known place.
LEMMA PcAfterType ==
  \A c \in Builders : PcAfter(c) \in {"off", "sleep"} /\ PcAfterFailure(c) \in {"off", "sleep"}
BY DEF PcAfter, PcAfterFailure

\* Tearing down keeps the types of the four variables it touches.
LEMMA BeginTeardownType ==
  ASSUME TypeOK, NEW c \in Builders, NEW busy \in Pcs, NEW next \in Pcs,
         BeginTeardown(c, busy, next)
  PROVE  /\ socket' \in Sockets \union {None}
         /\ held' \in [Coroutines -> Sockets \union {None}]
         /\ life' \in [Sockets -> Lives]
         /\ pc' \in [Coroutines -> Pcs]
<1>. USE DEF TypeOK
<1>1. CASE socket # None
  <2>1. socket \in Sockets /\ life[socket] \in Lives
    BY <1>1
  <2>2. life' = [life EXCEPT ![socket] = IF Live(socket) THEN "closing" ELSE @]
    BY <1>1 DEF BeginTeardown
  <2>3. life' \in [Sockets -> Lives]
    BY <2>1, <2>2
  <2>4. socket' \in Sockets \union {None} /\ held' \in [Coroutines -> Sockets \union {None}]
    BY <1>1, <2>1 DEF BeginTeardown
  <2>5. pc' \in [Coroutines -> Pcs]
    BY <1>1 DEF BeginTeardown
  <2>. QED BY <2>3, <2>4, <2>5
<1>2. CASE socket = None
  BY <1>2 DEF BeginTeardown
<1>. QED BY <1>1, <1>2

\* So does _hard_reconnect up to its first await, whichever coroutine calls it.
LEMMA HardReconnectType ==
  ASSUME TypeOK, NEW c \in Builders, NEW forced \in BOOLEAN, HardReconnect(c, forced)
  PROVE  /\ fatal' \in BOOLEAN /\ overlapped' \in BOOLEAN
         /\ sockState' \in {"connected", "reconnecting", "disconnected"}
         /\ authState' \in {"ok", "refreshing", "error", "fatal"}
         /\ socket' \in Sockets \union {None}
         /\ reconnectTask' \in Slots \union {None}
         /\ pc' \in [Coroutines -> Pcs]
         /\ held' \in [Coroutines -> Sockets \union {None}]
         /\ life' \in [Sockets -> Lives]
<1>1. CASE IgnoreReconnect(c)
  BY <1>1, PcAfterType DEF IgnoreReconnect, TaskAfter, TypeOK
<1>2. CASE GiveUpReconnecting(c, forced)
  BY <1>2, PcAfterType DEF GiveUpReconnecting, TaskAfter, TypeOK
<1>3. CASE StartReconnect(c, forced)
  <2>1. BeginTeardown(c, "teardown", "backoff")
    BY <1>3 DEF StartReconnect
  <2>2. /\ socket' \in Sockets \union {None}
        /\ held' \in [Coroutines -> Sockets \union {None}]
        /\ life' \in [Sockets -> Lives]
        /\ pc' \in [Coroutines -> Pcs]
    BY <2>1, BeginTeardownType, "teardown" \in Pcs, "backoff" \in Pcs
  <2>. QED BY <1>3, <2>2 DEF StartReconnect, TypeOK
<1>. QED BY <1>1, <1>2, <1>3 DEF HardReconnect

\* The variables keep their types: every handler leaves each variable inside the
\* set of values the code can hold there.
THEOREM TypeCorrect == Spec => []TypeOK
<1>1. Init => TypeOK
  <2>. SUFFICES ASSUME Init PROVE TypeOK
    OBVIOUS
  <2>. USE DEF Init
  <2>1. authFailures \in 0..MaxAuthFailures
    OBVIOUS
  <2>2. pc \in [Coroutines -> Pcs]
    OBVIOUS
  <2>3. force \in [Builders -> BOOLEAN] /\ held \in [Coroutines -> Sockets \union {None}]
    OBVIOUS
  <2>4. life \in [Sockets -> Lives]
    OBVIOUS
  <2>. QED BY <2>1, <2>2, <2>3, <2>4 DEF TypeOK
<1>2. TypeOK /\ [Next]_vars => TypeOK'
  <2> SUFFICES ASSUME TypeOK, [Next]_vars PROVE TypeOK'
    OBVIOUS
  <2>. USE DEF TypeOK
  <2>1. CASE HostStart
    BY <2>1 DEF HostStart
  <2>2. CASE HostRefresh
    <3>1. HardReconnect("host", TRUE)
      BY <2>2 DEF HostRefresh
    <3>. QED BY <2>2, <3>1, HardReconnectType DEF HostRefresh
  <2>3. CASE HostCancelled
    BY <2>3 DEF HostCancelled
  <2>4. CASE WatchdogFires
    <3>1. HardReconnect("watchdog", FALSE)
      BY <2>4 DEF WatchdogFires
    <3>. QED BY <2>4, <3>1, HardReconnectType DEF WatchdogFires
  <2>5. ASSUME NEW r \in Slots, Spawn(r) PROVE TypeOK'
    BY <2>5 DEF Spawn
  <2>6. ASSUME NEW r \in Slots, TaskStart(r) PROVE TypeOK'
    <3>1. HardReconnect(r, force[r]) /\ force[r] \in BOOLEAN
      BY <2>6 DEF TaskStart
    <3>2. r \in Builders
      OBVIOUS
    <3>. QED BY <2>6, <3>1, <3>2, HardReconnectType DEF TaskStart
  <2>7. ASSUME NEW c \in Builders, Resume(c) PROVE TypeOK'
    <3>1. CASE EndTeardown(c)
      BY <3>1, PcAfterType DEF EndTeardown, TaskAfter
    <3>2. CASE BackoffDone(c)
      BY <3>2 DEF BackoffDone
    <3>3. CASE AuthOk(c)
      BY <3>3 DEF AuthOk
    <3>4. CASE AuthFails(c)
      BY <3>4, PcAfterType DEF AuthFails, TaskAfter
    <3>5. CASE ConnectDone(c)
      <4>1. authFailures' \in 0..MaxAuthFailures
        BY <3>5 DEF ConnectDone
      <4>. QED BY <3>5, <4>1 DEF ConnectDone
    <3>6. CASE ConnectTimeout(c)
      <4>1. BeginTeardown(c, "abort", PcAfterFailure(c))
        BY <3>6 DEF ConnectTimeout
      <4>2. PcAfterFailure(c) \in Pcs /\ "abort" \in Pcs
        BY PcAfterType
      <4>3. /\ socket' \in Sockets \union {None}
            /\ held' \in [Coroutines -> Sockets \union {None}]
            /\ life' \in [Sockets -> Lives]
            /\ pc' \in [Coroutines -> Pcs]
        BY <4>1, <4>2, BeginTeardownType
      <4>4. reconnectTask' \in Slots \union {None}
        BY <3>6 DEF ConnectTimeout, TaskAfter
      <4>. QED BY <3>6, <4>3, <4>4 DEF ConnectTimeout
    <3>7. CASE Reapplied(c)
      BY <3>7, PcAfterType DEF Reapplied, TaskAfter
    <3>. QED BY <2>7, <3>1, <3>2, <3>3, <3>4, <3>5, <3>6, <3>7 DEF Resume
  <2>8. CASE StopBegin
    BY <2>8 DEF StopBegin, Cancelled, Live
  <2>9. CASE StopEnd
    BY <2>9 DEF StopEnd
  <2>10. ASSUME NEW s \in Sockets,
                CbConnect(s) \/ ServerClose(s) \/ CloseDone(s) \/ CbError(s) \/ Tick(s)
         PROVE  TypeOK'
    <3>1. CASE CbConnect(s)
      BY <3>1 DEF CbConnect
    <3>2. CASE ServerClose(s)
      BY <3>2 DEF ServerClose
    <3>3. CASE CloseDone(s)
      BY <3>3 DEF CloseDone
    <3>4. CASE CbError(s)
      BY <3>4 DEF CbError, Schedule
    <3>5. CASE Tick(s)
      BY <3>5 DEF Tick
    <3>. QED BY <2>10, <3>1, <3>2, <3>3, <3>4, <3>5
  <2>11. ASSUME NEW s \in Sockets, NEW authShaped \in BOOLEAN, CbClose(s, authShaped)
         PROVE  TypeOK'
    BY <2>11 DEF CbClose, Schedule
  <2>12. CASE GoSilent
    BY <2>12 DEF GoSilent
  <2>13. CASE UNCHANGED vars
    BY <2>13 DEF vars
  <2>. QED
    BY <2>1, <2>2, <2>3, <2>4, <2>5, <2>6, <2>7, <2>8, <2>9, <2>10, <2>11, <2>12,
       <2>13 DEF Next
<1>. QED BY <1>1, <1>2, PTL DEF Spec

-----------------------------------------------------------------------------
(***************************************************************************)
(* The safety invariants.  None of them is inductive: that a rebuild finds *)
(* no socket when it installs its own is known only from where it stands,  *)
(* and that it stands there alone only from the history of overlaps.       *)
(***************************************************************************)

\* Before start() the manager is inert.
InertBeforeStart ==
  pc["host"] = "idle" =>
    /\ ~loopUp /\ socket = None
    /\ pc["stop"] = "idle"
    /\ \A c \in Builders \ {"host"} : pc[c] = "off"

\* The watchdog does not exist while start() is running.
WatchdogAfterStart ==
  (~force["host"] /\ pc["host"] \in Rebuilding \union {"idle", "reapply"})
    => pc["watchdog"] = "off"

\* A coroutine that awaits a close call knows which socket it closes.
HeldWhileClosing ==
  \A c \in Coroutines : pc[c] \in {"teardown", "abort"} => held[c] # None

RebuildAlone ==
  \A c, d \in Coroutines : pc[c] \in Rebuilding /\ pc[d] \in Rebuilding => c = d

\* From the moment a rebuild drops the old socket until it installs the new one
\* the manager holds none; while it awaits the handshake it holds one.
SocketOfRebuild ==
  \A c \in Coroutines :
    /\ pc[c] \in {"teardown", "backoff", "auth", "abort"} => socket = None
    /\ pc[c] = "wait" => socket # None

\* From its first step on, stop() is the only one to touch the socket.
StopTookOver ==
  pc["stop"] # "idle" =>
    /\ closing /\ socket = None
    /\ \A c \in Builders : pc[c] \notin Rebuilding

LiveIsHeld == \A s \in Sockets : Live(s) => s = socket

ConnectedHolds ==
  (sockState = "connected" /\ ~closing
     /\ \A c \in Coroutines : pc[c] \notin {"teardown", "abort"}) => socket # None

Alone == RebuildAlone /\ SocketOfRebuild /\ StopTookOver /\ LiveIsHeld /\ ConnectedHolds

IInv == InertBeforeStart /\ HeldWhileClosing /\ (~overlapped => Alone)

LEMMA WatchdogAfterStartInductive ==
  ASSUME TypeOK, WatchdogAfterStart, [Next]_vars
  PROVE  WatchdogAfterStart'
<1>. USE DEF TypeOK, WatchdogAfterStart
<1>1. CASE HostStart \/ HostCancelled \/ StopEnd \/ GoSilent \/ UNCHANGED vars
  BY <1>1 DEF HostStart, HostCancelled, StopEnd, GoSilent, vars
<1>2. CASE HostRefresh
  BY <1>2 DEF HostRefresh
<1>3. CASE WatchdogFires
  BY <1>3, PcAfterType DEF WatchdogFires, HardReconnect, IgnoreReconnect,
     GiveUpReconnecting, StartReconnect, BeginTeardown
<1>4. ASSUME NEW r \in Slots, Spawn(r) \/ TaskStart(r) PROVE WatchdogAfterStart'
  BY <1>4, PcAfterType DEF Spawn, TaskStart, HardReconnect, IgnoreReconnect,
     GiveUpReconnecting, StartReconnect, BeginTeardown
<1>5. ASSUME NEW c \in Builders, Resume(c) PROVE WatchdogAfterStart'
  BY <1>5, PcAfterType DEF Resume, EndTeardown, BackoffDone, AuthOk, AuthFails,
     ConnectDone, ConnectTimeout, BeginTeardown, Reapplied
<1>6. CASE StopBegin
  BY <1>6 DEF StopBegin, Cancelled
<1>7. ASSUME NEW s \in Sockets,
             \/ CbConnect(s) \/ ServerClose(s) \/ CloseDone(s) \/ CbError(s) \/ Tick(s)
             \/ \E authShaped \in BOOLEAN : CbClose(s, authShaped)
      PROVE  WatchdogAfterStart'
  BY <1>7 DEF CbConnect, ServerClose, CloseDone, CbError, Tick, CbClose, Schedule
<1>. QED BY <1>1, <1>2, <1>3, <1>4, <1>5, <1>6, <1>7 DEF Next

LEMMA IInvInit == Init => IInv
BY DEF Init, IInv, InertBeforeStart, HeldWhileClosing, Alone, RebuildAlone,
   SocketOfRebuild, StopTookOver, LiveIsHeld, ConnectedHolds, Live

\* Entering, or declining to enter, a rebuild: the step shared by the watchdog,
\* the refresh loop and the scheduled tasks.
LEMMA HardReconnectInv ==
  ASSUME TypeOK, TypeOK', IInv, NEW c \in Builders, NEW forced \in BOOLEAN,
         HardReconnect(c, forced), pc[c] \in {"sleep", "ready"},
         UNCHANGED << loopUp, closing >>
  PROVE  IInv'
<1>. USE DEF TypeOK, IInv
<1>1. CASE IgnoreReconnect(c) \/ GiveUpReconnecting(c, forced)
  <2>1. /\ pc' = [pc EXCEPT ![c] = PcAfter(c)]
        /\ PcAfter(c) \in {"off", "sleep"}
        /\ UNCHANGED << socket, held, life, overlapped >>
        /\ sockState' \in {sockState, "disconnected"}
    BY <1>1, PcAfterType DEF IgnoreReconnect, GiveUpReconnecting
  <2>2. InertBeforeStart' /\ HeldWhileClosing'
    BY <2>1 DEF InertBeforeStart, HeldWhileClosing
  <2>3. ASSUME ~overlapped' PROVE Alone'
    <3>1. Alone
      BY <2>1, <2>3
    <3>2. RebuildAlone' /\ SocketOfRebuild' /\ StopTookOver'
      BY <2>1, <3>1 DEF Alone, RebuildAlone, SocketOfRebuild, StopTookOver
    <3>3. LiveIsHeld' /\ ConnectedHolds'
      BY <2>1, <3>1 DEF Alone, LiveIsHeld, ConnectedHolds, Live
    <3>. QED BY <3>2, <3>3 DEF Alone
  <2>. QED BY <2>2, <2>3
<1>2. CASE StartReconnect(c, forced)
  <2>1. /\ ~closing
        /\ BeginTeardown(c, "teardown", "backoff")
        /\ overlapped' = (overlapped \/ Busy # {})
        /\ UNCHANGED sockState
    BY <1>2 DEF StartReconnect
  <2>2. InertBeforeStart' /\ HeldWhileClosing'
    <3>1. pc["host"] # "idle"
      BY DEF InertBeforeStart
    <3>2. CASE socket # None
      BY <2>1, <3>1, <3>2 DEF BeginTeardown, InertBeforeStart, HeldWhileClosing
    <3>3. CASE socket = None
      BY <2>1, <3>1, <3>3 DEF BeginTeardown, InertBeforeStart, HeldWhileClosing
    <3>. QED BY <3>2, <3>3
  <2>3. ASSUME ~overlapped' PROVE Alone'
    <3>1. Alone /\ \A d \in Coroutines : pc[d] \notin Rebuilding
      BY <2>1, <2>3 DEF Busy
    <3>2. RebuildAlone' /\ SocketOfRebuild' /\ StopTookOver'
      BY <2>1, <3>1 DEF Alone, BeginTeardown, RebuildAlone, SocketOfRebuild, StopTookOver
    <3>3. LiveIsHeld'
      BY <2>1, <3>1 DEF Alone, BeginTeardown, LiveIsHeld, Live
    <3>4. ConnectedHolds'
      BY <2>1, <3>1 DEF Alone, BeginTeardown, ConnectedHolds
    <3>. QED BY <3>2, <3>3, <3>4 DEF Alone
  <2>. QED BY <2>2, <2>3
<1>. QED BY <1>1, <1>2 DEF HardReconnect

\* The step that resumes a rebuild.
LEMMA ResumeInv ==
  ASSUME TypeOK, TypeOK', IInv, WatchdogAfterStart, NEW c \in Builders, Resume(c)
  PROVE  IInv'
<1>. USE DEF TypeOK, IInv
<1>0. pc["host"] # "idle"
  BY DEF Resume, InertBeforeStart, EndTeardown, BackoffDone, AuthOk, AuthFails,
     ConnectDone, ConnectTimeout, Reapplied
<1>1. CASE EndTeardown(c)
  <2>1. /\ pc[c] \in {"teardown", "abort"}
        /\ \E p \in {"backoff", "off", "sleep"} :
             /\ pc' = [pc EXCEPT ![c] = p]
             /\ p = "backoff" => pc[c] = "teardown"
        /\ held' = [held EXCEPT ![c] = None]
        /\ sockState' = "disconnected"
        /\ UNCHANGED << loopUp, closing, socket, life, overlapped >>
    BY <1>1, PcAfterType DEF EndTeardown
  <2>2. InertBeforeStart' /\ HeldWhileClosing'
    BY <1>0, <2>1 DEF InertBeforeStart, HeldWhileClosing
  <2>3. ~overlapped' => Alone'
    BY <2>1 DEF Alone, RebuildAlone, SocketOfRebuild, StopTookOver, LiveIsHeld,
       ConnectedHolds, Live
  <2>. QED BY <2>2, <2>3
<1>2. CASE BackoffDone(c)
  <2>1. InertBeforeStart' /\ HeldWhileClosing'
    BY <1>0, <1>2 DEF BackoffDone, InertBeforeStart, HeldWhileClosing
  <2>2. ~overlapped' => Alone'
    BY <1>2 DEF BackoffDone, Alone, RebuildAlone, SocketOfRebuild, StopTookOver,
       LiveIsHeld, ConnectedHolds, Live
  <2>. QED BY <2>1, <2>2
<1>3. CASE AuthOk(c)
  <2>1. InertBeforeStart' /\ HeldWhileClosing'
    BY <1>0, <1>3 DEF AuthOk, InertBeforeStart, HeldWhileClosing
  <2>2. ASSUME ~overlapped' PROVE Alone'
    <3>1. Alone /\ socket = None /\ pc["stop"] = "idle"
      BY <1>3, <2>2 DEF AuthOk, Alone, SocketOfRebuild, StopTookOver
    <3>2. PICK s \in Sockets : socket' = s /\ life' = [life EXCEPT ![s] = "opening"]
      BY <1>3 DEF AuthOk
    <3>3. RebuildAlone' /\ SocketOfRebuild' /\ StopTookOver'
      BY <1>3, <3>1, <3>2 DEF AuthOk, Alone, RebuildAlone, SocketOfRebuild, StopTookOver
    <3>4. LiveIsHeld' /\ ConnectedHolds'
      BY <3>1, <3>2 DEF Alone, LiveIsHeld, ConnectedHolds, Live
    <3>. QED BY <3>3, <3>4 DEF Alone
  <2>. QED BY <2>1, <2>2
<1>4. CASE AuthFails(c)
  <2>1. /\ pc[c] = "auth"
        /\ \E p \in {"off", "sleep"} : pc' = [pc EXCEPT ![c] = p]
        /\ UNCHANGED << loopUp, closing, sockState, held, socket, life, overlapped >>
    BY <1>4, PcAfterType DEF AuthFails
  <2>2. InertBeforeStart' /\ HeldWhileClosing'
    BY <1>0, <2>1 DEF InertBeforeStart, HeldWhileClosing
  <2>3. ~overlapped' => Alone'
    BY <2>1 DEF Alone, RebuildAlone, SocketOfRebuild, StopTookOver, LiveIsHeld,
       ConnectedHolds, Live
  <2>. QED BY <2>2, <2>3
<1>5. CASE ConnectDone(c)
  <2>1. InertBeforeStart' /\ HeldWhileClosing'
    BY <1>0, <1>5 DEF ConnectDone, InertBeforeStart, HeldWhileClosing
  <2>2. ~overlapped' => Alone'
    BY <1>5 DEF ConnectDone, Alone, RebuildAlone, SocketOfRebuild, StopTookOver,
       LiveIsHeld, ConnectedHolds, Live
  <2>. QED BY <2>1, <2>2
<1>6. CASE ConnectTimeout(c)
  <2>1. /\ pc[c] = "wait"
        /\ BeginTeardown(c, "abort", PcAfterFailure(c))
        /\ PcAfterFailure(c) \in {"off", "sleep"}
        /\ UNCHANGED << loopUp, closing, sockState, overlapped >>
    BY <1>6, PcAfterType DEF ConnectTimeout
  <2>2. InertBeforeStart' /\ HeldWhileClosing'
    BY <1>0, <2>1 DEF BeginTeardown, InertBeforeStart, HeldWhileClosing
  <2>3. ASSUME ~overlapped' PROVE Alone'
    <3>1. Alone /\ socket # None
      BY <2>1, <2>3 DEF Alone, SocketOfRebuild
    <3>2. RebuildAlone' /\ SocketOfRebuild' /\ StopTookOver'
      BY <2>1, <3>1 DEF Alone, BeginTeardown, RebuildAlone, SocketOfRebuild, StopTookOver
    <3>3. LiveIsHeld' /\ ConnectedHolds'
      BY <2>1, <3>1 DEF Alone, BeginTeardown, LiveIsHeld, ConnectedHolds, Live
    <3>. QED BY <3>2, <3>3 DEF Alone
  <2>. QED BY <2>2, <2>3
<1>7. CASE Reapplied(c)
  <2>1. /\ pc[c] = "reapply"
        /\ \A d \in Coroutines : pc'[d] # pc[d] =>
             /\ pc'[d] \in {"off", "sleep"}
             /\ d \in {c, "watchdog"}
             /\ pc[d] \in {"reapply", "off"}
        /\ UNCHANGED << loopUp, closing, sockState, held, socket, life, overlapped >>
    BY <1>7, PcAfterType DEF Reapplied, WatchdogAfterStart
  <2>2. InertBeforeStart' /\ HeldWhileClosing'
    BY <1>0, <2>1 DEF InertBeforeStart, HeldWhileClosing
  <2>3. ~overlapped' => Alone'
    BY <2>1 DEF Alone, RebuildAlone, SocketOfRebuild, StopTookOver, LiveIsHeld,
       ConnectedHolds, Live
  <2>. QED BY <2>2, <2>3
<1>. QED BY <1>1, <1>2, <1>3, <1>4, <1>5, <1>6, <1>7 DEF Resume

\* stop() and the callbacks.
LEMMA StopInv ==
  ASSUME TypeOK, TypeOK', IInv, StopBegin \/ StopEnd
  PROVE  IInv'
<1>. USE DEF TypeOK, IInv
<1>1. CASE StopBegin
  <2>1. InertBeforeStart' /\ HeldWhileClosing'
    BY <1>1 DEF StopBegin, Cancelled, InertBeforeStart, HeldWhileClosing
  <2>2. ASSUME ~overlapped' PROVE Alone'
    <3>1. Alone /\ \A c \in Coroutines : pc[c] \in Rebuilding => c \in Cancelled
      BY <1>1, <2>2 DEF StopBegin, Busy
    <3>2. \A c \in Coroutines \ {"stop"} : pc'[c] \notin Rebuilding
      BY <1>1, <3>1 DEF StopBegin
    <3>3. socket' = None /\ closing' /\ pc'["stop"] \in {"teardown", "done"}
      BY <1>1 DEF StopBegin, Cancelled
    <3>4. RebuildAlone' /\ SocketOfRebuild' /\ StopTookOver' /\ ConnectedHolds'
      BY <3>2, <3>3 DEF RebuildAlone, SocketOfRebuild, StopTookOver, ConnectedHolds
    <3>5. LiveIsHeld'
      BY <1>1, <3>1 DEF StopBegin, Alone, LiveIsHeld, Live
    <3>. QED BY <3>4, <3>5 DEF Alone
  <2>. QED BY <2>1, <2>2
<1>2. CASE StopEnd
  <2>1. InertBeforeStart' /\ HeldWhileClosing'
    BY <1>2 DEF StopEnd, InertBeforeStart, HeldWhileClosing
  <2>2. ~overlapped' => Alone'
    BY <1>2 DEF StopEnd, Alone, RebuildAlone, SocketOfRebuild, StopTookOver,
       LiveIsHeld, ConnectedHolds, Live
  <2>. QED BY <2>1, <2>2
<1>. QED BY <1>1, <1>2

LEMMA CallbackInv ==
  ASSUME TypeOK, TypeOK', IInv, NEW s \in Sockets,
         \/ CbConnect(s) \/ ServerClose(s) \/ CloseDone(s) \/ CbError(s) \/ Tick(s)
         \/ \E authShaped \in BOOLEAN : CbClose(s, authShaped)
  PROVE  IInv'
<1>. USE DEF TypeOK, IInv
<1>1. /\ \/ UNCHANGED pc
         \/ loopUp /\ \E r \in Slots : pc[r] = "off" /\ pc' = [pc EXCEPT ![r] = "queued"]
      /\ \A x \in Sockets : Live(x)' => Live(x)
      /\ sockState' \in {sockState, "disconnected"}
      /\ UNCHANGED << loopUp, closing, socket, held, overlapped >>
  BY DEF CbConnect, ServerClose, CloseDone, CbError, Tick, CbClose, Schedule, Live
<1>2. InertBeforeStart' /\ HeldWhileClosing'
  BY <1>1 DEF InertBeforeStart, HeldWhileClosing
<1>3. ~overlapped' => Alone'
  BY <1>1 DEF Alone, RebuildAlone, SocketOfRebuild, StopTookOver, LiveIsHeld, ConnectedHolds
<1>. QED BY <1>2, <1>3

LEMMA IInvInductive ==
  ASSUME TypeOK, TypeOK', WatchdogAfterStart, IInv, [Next]_vars
  PROVE  IInv'
<1>. USE DEF TypeOK
<1>1. CASE HostStart
  <2>1. \A c \in Coroutines \ {"host"} : pc[c] \notin Rebuilding
    BY <1>1 DEF HostStart, IInv, InertBeforeStart
  <2>2. socket = None /\ pc["stop"] = "idle"
    BY <1>1 DEF HostStart, IInv, InertBeforeStart
  <2>3. InertBeforeStart' /\ HeldWhileClosing'
    BY <1>1 DEF HostStart, IInv, InertBeforeStart, HeldWhileClosing
  <2>4. ~overlapped' => Alone'
    BY <1>1, <2>1, <2>2 DEF HostStart, IInv, Alone, RebuildAlone, SocketOfRebuild,
       StopTookOver, LiveIsHeld, ConnectedHolds, Live
  <2>. QED BY <2>3, <2>4 DEF IInv
<1>2. CASE HostRefresh
  BY <1>2, HardReconnectInv DEF HostRefresh
<1>3. CASE HostCancelled
  BY <1>3 DEF HostCancelled, IInv, InertBeforeStart, HeldWhileClosing, Alone,
     RebuildAlone, SocketOfRebuild, StopTookOver, LiveIsHeld, ConnectedHolds, Live
<1>4. CASE WatchdogFires
  BY <1>4, HardReconnectInv DEF WatchdogFires
<1>5. ASSUME NEW r \in Slots, Spawn(r) PROVE IInv'
  BY <1>5 DEF Spawn, IInv, InertBeforeStart, HeldWhileClosing, Alone, RebuildAlone,
     SocketOfRebuild, StopTookOver, LiveIsHeld, ConnectedHolds, Live
<1>6. ASSUME NEW r \in Slots, TaskStart(r) PROVE IInv'
  <2>1. r \in Builders /\ force[r] \in BOOLEAN
    OBVIOUS
  <2>. QED BY <1>6, <2>1, HardReconnectInv DEF TaskStart
<1>7. ASSUME NEW c \in Builders, Resume(c) PROVE IInv'
  BY <1>7, ResumeInv
<1>8. CASE StopBegin \/ StopEnd
  BY <1>8, StopInv
<1>9. ASSUME NEW s \in Sockets,
             \/ CbConnect(s) \/ ServerClose(s) \/ CloseDone(s) \/ CbError(s) \/ Tick(s)
             \/ \E authShaped \in BOOLEAN : CbClose(s, authShaped)
      PROVE  IInv'
  BY <1>9, CallbackInv
<1>10. CASE GoSilent \/ UNCHANGED vars
  BY <1>10 DEF GoSilent, vars, IInv, InertBeforeStart, HeldWhileClosing, Alone,
     RebuildAlone, SocketOfRebuild, StopTookOver, LiveIsHeld, ConnectedHolds, Live
<1>. QED
  BY <1>1, <1>2, <1>3, <1>4, <1>5, <1>6, <1>7, <1>8, <1>9, <1>10 DEF Next

THEOREM Inductive == Spec => [](WatchdogAfterStart /\ IInv)
<1>1. Init => WatchdogAfterStart /\ IInv
  BY IInvInit DEF Init, WatchdogAfterStart
<1>2. TypeOK /\ TypeOK' /\ WatchdogAfterStart /\ IInv /\ [Next]_vars
        => (WatchdogAfterStart /\ IInv)'
  BY WatchdogAfterStartInductive, IInvInductive
<1>. QED BY <1>1, <1>2, TypeCorrect, PTL DEF Spec

\* No reconnect leaks a socket, for any number of tasks and sockets, as long as no
\* two rebuilds overlapped: the socket the manager holds is the only live one.
THEOREM NoOrphan == Spec => []NoOrphanSocket
<1>1. IInv => NoOrphanSocket
  BY DEF IInv, Alone, LiveIsHeld, NoOrphanSocket
<1>. QED BY <1>1, Inductive, PTL

\* health() never reports "connected" without a socket, under the same proviso.
THEOREM ConnectedSocket == Spec => []ConnectedHasSocket
<1>1. IInv => ConnectedHasSocket
  BY DEF IInv, Alone, ConnectedHolds, ConnectedHasSocket
<1>. QED BY <1>1, Inductive, PTL

\* A stop() that did not run into a rebuild of the refresh loop leaves nothing open
\* behind and nothing that could open it.
THEOREM StopCloses == Spec => []StopClosesSockets
<1>1. IInv => StopClosesSockets
  <2>. SUFFICES ASSUME IInv, pc["stop"] = "done", ~overlapped
                PROVE  /\ \A s \in Sockets : ~Live(s)
                       /\ \A c \in Builders : pc[c] \notin Rebuilding
    BY DEF StopClosesSockets
  <2>1. socket = None /\ \A c \in Builders : pc[c] \notin Rebuilding
    BY DEF IInv, Alone, StopTookOver
  <2>2. \A s \in Sockets : ~Live(s)
    BY <2>1 DEF IInv, Alone, LiveIsHeld, ConstantsAssumption
  <2>. QED BY <2>1, <2>2
<1>. QED BY <1>1, Inductive, PTL

(***************************************************************************)
(* The fatal state.                                                        *)
(***************************************************************************)

\* Nobody can have given up before start().
FatalAfterStart == fatal => pc["host"] # "idle"

LEMMA FatalAfterStartInductive ==
  ASSUME TypeOK, IInv, FatalAfterStart, [Next]_vars
  PROVE  FatalAfterStart'
<1>. USE DEF TypeOK, FatalAfterStart
<1>a. pc["host"] = "idle" => \A c \in Builders \ {"host"} : pc[c] = "off"
  BY DEF IInv, InertBeforeStart
<1>1. CASE HostStart \/ HostCancelled \/ StopBegin \/ StopEnd \/ GoSilent \/ UNCHANGED vars
  BY <1>1 DEF HostStart, HostCancelled, StopBegin, StopEnd, GoSilent, vars
<1>2. ASSUME NEW c \in Builders, NEW forced \in BOOLEAN, pc[c] \in {"sleep", "ready"},
             HardReconnect(c, forced)
      PROVE  FatalAfterStart'
  <2>1. pc["host"] # "idle"
    BY <1>a, <1>2
  <2>2. \E v \in {"off", "sleep", "teardown", "backoff"} : pc' = [pc EXCEPT ![c] = v]
    BY <1>2, PcAfterType DEF HardReconnect, IgnoreReconnect, GiveUpReconnecting,
       StartReconnect, BeginTeardown
  <2>. QED BY <2>1, <2>2
<1>3. CASE HostRefresh \/ WatchdogFires
  BY <1>2, <1>3 DEF HostRefresh, WatchdogFires
<1>4. ASSUME NEW r \in Slots, Spawn(r) \/ TaskStart(r) PROVE FatalAfterStart'
  <2>1. CASE Spawn(r)
    BY <2>1 DEF Spawn
  <2>2. CASE TaskStart(r)
    BY <1>2, <2>2 DEF TaskStart
  <2>. QED BY <1>4, <2>1, <2>2
<1>5. ASSUME NEW c \in Builders, Resume(c) PROVE FatalAfterStart'
  BY <1>5, PcAfterType DEF Resume, EndTeardown, BackoffDone, AuthOk, AuthFails,
     ConnectDone, ConnectTimeout, BeginTeardown, Reapplied
<1>6. ASSUME NEW s \in Sockets,
             \/ CbConnect(s) \/ ServerClose(s) \/ CloseDone(s) \/ CbError(s) \/ Tick(s)
             \/ \E authShaped \in BOOLEAN : CbClose(s, authShaped)
      PROVE  FatalAfterStart'
  BY <1>6 DEF CbConnect, ServerClose, CloseDone, CbError, Tick, CbClose, Schedule
<1>. QED BY <1>1, <1>3, <1>4, <1>5, <1>6 DEF Next

\* In the fatal state nobody but stop() begins to touch the socket.
LEMMA FatalStep ==
  ASSUME TypeOK, FatalAfterStart, [Next]_vars, fatal, Busy = {}
  PROVE  Busy' \subseteq {"stop"}
<1>. USE DEF TypeOK
<1>a. \A c \in Coroutines : pc[c] \notin Rebuilding
  BY DEF Busy
<1>. SUFFICES \A c \in Builders : pc'[c] \notin Rebuilding
  BY DEF Busy
<1>1. CASE HostStart \/ HostCancelled \/ StopBegin \/ StopEnd \/ GoSilent \/ UNCHANGED vars
  BY <1>a, <1>1 DEF HostStart, HostCancelled, StopBegin, StopEnd, GoSilent, vars,
     FatalAfterStart
<1>2. ASSUME NEW c \in Builders, NEW forced \in BOOLEAN, HardReconnect(c, forced)
      PROVE  \A d \in Builders : pc'[d] \notin Rebuilding
  <2>1. pc' = [pc EXCEPT ![c] = PcAfter(c)] /\ PcAfter(c) \in {"off", "sleep"}
    BY <1>2, PcAfterType DEF HardReconnect, IgnoreReconnect, GiveUpReconnecting,
       StartReconnect
  <2>. QED BY <1>a, <2>1
<1>3. CASE HostRefresh \/ WatchdogFires
  BY <1>2, <1>3 DEF HostRefresh, WatchdogFires
<1>4. ASSUME NEW r \in Slots, Spawn(r) \/ TaskStart(r)
      PROVE  \A d \in Builders : pc'[d] \notin Rebuilding
  <2>1. CASE Spawn(r)
    BY <1>a, <2>1 DEF Spawn
  <2>2. CASE TaskStart(r)
    BY <1>2, <2>2 DEF TaskStart
  <2>. QED BY <1>4, <2>1, <2>2
<1>5. ASSUME NEW c \in Builders, Resume(c)
      PROVE  \A d \in Builders : pc'[d] \notin Rebuilding
  <2>1. Reapplied(c)
    BY <1>a, <1>5 DEF Resume, EndTeardown, BackoffDone, AuthOk, AuthFails,
       ConnectDone, ConnectTimeout
  <2>. QED BY <1>a, <2>1, PcAfterType DEF Reapplied
<1>6. ASSUME NEW s \in Sockets,
             \/ CbConnect(s) \/ ServerClose(s) \/ CloseDone(s) \/ CbError(s) \/ Tick(s)
             \/ \E authShaped \in BOOLEAN : CbClose(s, authShaped)
      PROVE  \A d \in Builders : pc'[d] \notin Rebuilding
  BY <1>a, <1>6 DEF CbConnect, ServerClose, CloseDone, CbError, Tick, CbClose, Schedule
<1>. QED BY <1>1, <1>3, <1>4, <1>5, <1>6 DEF Next

\* Once the authentication cap was hit and the rebuilds under way have ended, no tick,
\* callback, watchdog or session refresh begins another.
THEOREM FatalStaysQuiet == Spec => FatalIsQuiet
<1>1. Init => FatalAfterStart
  BY DEF Init, FatalAfterStart
<1>2. TypeOK /\ IInv /\ FatalAfterStart /\ [Next]_vars => FatalAfterStart'
  BY FatalAfterStartInductive
<1>3. TypeOK /\ FatalAfterStart /\ [Next]_vars
        => [(fatal /\ Busy = {}) => Busy' \subseteq {"stop"}]_vars
  BY FatalStep
<1>. QED BY <1>1, <1>2, <1>3, TypeCorrect, Inductive, PTL DEF Spec, FatalIsQuiet
=================================================================
