------------------------------ MODULE LiveHub ------------------------------
(***************************************************************************)
(* The websocket clients: LiveHub (app/realtime/hub.py) and the handler of *)
(* a connection, live_ws (app/api/ws.py).                                  *)
(*                                                                         *)
(* Two coroutines broadcast: the interval scheduler the closed bars and    *)
(* the candle_3m_open messages, the pipeline's consumer the option chain   *)
(* (and the ticks, which take the same path and are left out).  Each       *)
(* connection's handler first sends the replay and then answers pings.     *)
(* All of them send to a client under its lock, which is served in the     *)
(* order it was asked for.  Messages of a kind are numbered as broadcast.  *)
(* A step is the code between two awaits; every send may suspend.          *)
(***************************************************************************)
EXTENDS Naturals, Sequences

CONSTANTS
  Clients,    \* websockets; each connects once (a bound)
  Fragile,    \* those whose connection may be lost
  HistoryMax, \* maxlen of _candle_history
  MaxMessages \* how many messages are broadcast (a bound)

ASSUME ConstantsAssumption ==
  /\ Fragile \subseteq Clients
  /\ HistoryMax \in Nat \ {0}
  /\ MaxMessages \in Nat
  /\ {"scheduler", "pipeline"} \intersect Clients = {}

VARIABLES
  bars,     \* how many bars were broadcast; _candle_history is the last of them
  opens,    \* _last_candle_3m_open; 0 is None
  chains,   \* _last_option_chain; 0 is None
  clients,  \* _clients
  lock,     \* for each client the sends that hold or await its lock, in turn
  sending,  \* for each broadcaster the message, the clients left and the dead ones
  handler,  \* what each connection's handler is sending, or where it waits
  pos, seen, \* its iterator over the history: the bar it is at, bars when it began
  broken,   \* connections that are gone, though the server may not know
  shown,    \* history: the bars, the open candle and the chain each client has
  aborted   \* history: replays that an exception cut short

vars == << bars, opens, chains, clients, lock, sending, handler, pos, seen, broken,
           shown, aborted >>

Broadcasters == {"scheduler", "pipeline"}
Kinds   == {"hello", "bar", "open", "chain", "pong"}
Replays == {"hello", "bar", "open", "chain"}
Serving == {"loop", "pong"}

Idle == [kind |-> "none", n |-> 0, left |-> {}, dead |-> {}]

NothingShown == [bars |-> {}, open |-> 0, chain |-> 0]

\* The bars of _candle_history, a deque that drops its oldest: Oldest..bars.
Oldest == IF bars > HistoryMax THEN bars - HistoryMax + 1 ELSE 1

TypeOK ==
  /\ bars \in 0..MaxMessages /\ opens \in 0..MaxMessages /\ chains \in 0..MaxMessages
  /\ clients \subseteq Clients /\ broken \subseteq Clients /\ aborted \subseteq Clients
  /\ \A c \in Clients : \A j \in DOMAIN lock[c] :
       lock[c][j] \in [by : Broadcasters \union {c}, kind : Kinds, n : Nat]
  /\ \A b \in Broadcasters : sending[b].left \subseteq Clients /\ sending[b].dead \subseteq Clients
  /\ handler \in [Clients -> {"new", "loop", "closing", "off"} \union Kinds]
  /\ pos \in [Clients -> 0..MaxMessages] /\ seen \in [Clients -> 0..MaxMessages]
  /\ shown \in [Clients -> [bars  : SUBSET (1..MaxMessages),
                            open  : 0..MaxMessages,
                            chain : 0..MaxMessages]]

Init ==
  /\ bars = 0 /\ opens = 0 /\ chains = 0
  /\ clients = {}
  /\ lock = [c \in Clients |-> << >>]
  /\ sending = [b \in Broadcasters |-> Idle]
  /\ handler = [c \in Clients |-> "new"]
  /\ pos = [c \in Clients |-> 0] /\ seen = [c \in Clients |-> 0]
  /\ broken = {}
  /\ shown = [c \in Clients |-> NothingShown]
  /\ aborted = {}

\* Mutant of Wait: the lock is served last come, first served.
WaitLast(queue, send) == IF queue = << >> THEN << send >>
                         ELSE << Head(queue), send >> \o Tail(queue)

\* _send_text: the send takes the lock, or its turn behind those who have asked.
Wait(queue, send) == Append(queue, send)

(***************************************************************************)
(* Broadcasts.                                                             *)
(***************************************************************************)

\* Broadcaster b, with its message m and the locks as they are, goes on to the next
\* client, passing over those unregistered since (the send raises at once), or, at
\* the end, unregisters the clients a send to which has failed.
Proceed(b, m, locks) ==
  LET reachable == m.left \intersect clients IN
  IF reachable = {}
  THEN /\ clients' = clients \ m.dead
       /\ sending' = [sending EXCEPT ![b] = Idle]
       /\ lock' = locks
  ELSE \E c \in reachable :
       /\ lock' = [locks EXCEPT ![c] = Wait(@, [by |-> b, kind |-> m.kind, n |-> m.n])]
       /\ sending' = [sending EXCEPT ![b] = [m EXCEPT !.left = @ \ {c}]]
       /\ UNCHANGED clients

\* Mutant of Audience: a client gets no broadcast while its replay lasts.
AudienceServed == {c \in clients : handler[c] \in Serving}

\* The clients a broadcast goes to, copied when it begins.
Audience == clients

\* broadcast_json up to its first await: the state a later replay reads is updated
\* at once, whoever the message is sent to.
Broadcast(b, kind, n) ==
  /\ bars + opens + chains < MaxMessages
  /\ sending[b] = Idle
  /\ Proceed(b, [kind |-> kind, n |-> n, left |-> Audience, dead |-> {}], lock)
  /\ UNCHANGED << handler, pos, seen, broken, shown, aborted >>

BroadcastBar ==
  /\ bars' = bars + 1
  /\ Broadcast("scheduler", "bar", bars')
  /\ UNCHANGED << opens, chains >>

BroadcastOpen ==
  /\ opens' = opens + 1
  /\ Broadcast("scheduler", "open", opens')
  /\ UNCHANGED << bars, chains >>

BroadcastChain ==
  /\ chains' = chains + 1
  /\ Broadcast("pipeline", "chain", chains')
  /\ UNCHANGED << bars, opens >>

(***************************************************************************)
(* A connection's handler.                                                 *)
(***************************************************************************)

\* accept, register, and the hello of notify_client_connected.
Connect(c) ==
  /\ handler[c] = "new"
  /\ clients' = clients \union {c}
  /\ handler' = [handler EXCEPT ![c] = "hello"]
  /\ lock' = [lock EXCEPT ![c] = Wait(@, [by |-> c, kind |-> "hello", n |-> 0])]
  /\ UNCHANGED << bars, opens, chains, sending, pos, seen, broken, shown, aborted >>

\* Where the replay goes once it is through with the history.
ReadChain == IF chains > 0 THEN "chain" ELSE "loop"
ReadOpen  == IF opens > 0 THEN "open" ELSE ReadChain

\* Does the iterator have another bar?
MoreBars(c) == pos[c] < bars

\* A deque that has changed makes its iterator raise, even at the end.
Raises(c) == handler[c] = "bar" /\ bars # seen[c]

\* What the replay sends after a send that was successful.
NextOfReplay(c) ==
  CASE handler[c] = "hello" -> IF bars > 0 THEN "bar" ELSE ReadOpen
    [] handler[c] = "bar"   -> IF MoreBars(c) THEN "bar" ELSE ReadOpen
    [] handler[c] = "open"  -> ReadChain
    [] OTHER                -> "loop"

\* The handler's own send to c has ended.  A failing replay is logged and followed
\* by the receive loop all the same; so is one to a client a broadcast unregistered.
HandlerGoesOn(c, ok, locks) ==
  LET next   == NextOfReplay(c)
      number == CASE next = "bar"   -> IF handler[c] = "hello" THEN Oldest ELSE pos[c] + 1
                  [] next = "open"  -> opens
                  [] next = "chain" -> chains
                  [] OTHER          -> 0
  IN
  \/ /\ handler[c] = "pong"
     /\ handler' = [handler EXCEPT ![c] = IF ok THEN "loop" ELSE "closing"]
     /\ lock' = locks
     /\ UNCHANGED << pos, seen, aborted >>
  \/ /\ handler[c] \in Replays
     /\ ~ok \/ Raises(c) \/ (next # "loop" /\ c \notin clients)
     /\ handler' = [handler EXCEPT ![c] = "loop"]
     /\ aborted' = aborted \union {c}
     /\ lock' = locks
     /\ UNCHANGED << pos, seen >>
  \/ /\ handler[c] \in Replays
     /\ ok /\ ~Raises(c) /\ (next = "loop" \/ c \in clients)
     /\ handler' = [handler EXCEPT ![c] = next]
     /\ lock' = IF next = "loop" THEN locks
                ELSE [locks EXCEPT ![c] = Wait(@, [by |-> c, kind |-> next, n |-> number])]
     /\ pos' = IF next = "bar" THEN [pos EXCEPT ![c] = number] ELSE pos
     /\ seen' = IF handler[c] = "hello" THEN [seen EXCEPT ![c] = bars] ELSE seen
     /\ UNCHANGED aborted

\* Mutant of HandlerSends: a client that is not registered is passed over.
HandlerSendsSilently(c) ==
  /\ handler[c] = "loop"
  /\ c \in clients
  /\ handler' = [handler EXCEPT ![c] = "pong"]
  /\ lock' = [lock EXCEPT ![c] = Wait(@, [by |-> c, kind |-> "pong", n |-> 0])]
  /\ UNCHANGED << bars, opens, chains, clients, sending, pos, seen, broken, shown, aborted >>

\* The receive loop sends a heartbeat after a silence, or a pong.  To a client a
\* broadcast has unregistered it cannot, and gives the connection up.
HandlerSends(c) ==
  /\ handler[c] = "loop"
  /\ IF c \in clients
     THEN /\ handler' = [handler EXCEPT ![c] = "pong"]
          /\ lock' = [lock EXCEPT ![c] = Wait(@, [by |-> c, kind |-> "pong", n |-> 0])]
     ELSE /\ handler' = [handler EXCEPT ![c] = "closing"]
          /\ UNCHANGED lock
  /\ UNCHANGED << bars, opens, chains, clients, sending, pos, seen, broken, shown, aborted >>

\* The finally clause.  What was recorded of the connection is forgotten with it.
Unregister(c) ==
  /\ handler' = [handler EXCEPT ![c] = "off"]
  /\ clients' = clients \ {c}
  /\ pos' = [pos EXCEPT ![c] = 0] /\ seen' = [seen EXCEPT ![c] = 0]
  /\ shown' = [shown EXCEPT ![c] = NothingShown]
  /\ aborted' = aborted \ {c}
  /\ UNCHANGED << bars, opens, chains, lock, sending, broken >>

\* After an exception of the receive loop the handler closes the connection.
HandlerCloses(c) == handler[c] = "closing" /\ Unregister(c)

\* The receive loop learns that the connection is gone.
ReceiveFails(c) == handler[c] = "loop" /\ c \in broken /\ Unregister(c)

(***************************************************************************)
(* The server and the network.                                             *)
(***************************************************************************)

\* What a client has once a message reached it.
Show(view, send) ==
  CASE send.kind = "bar"   -> [view EXCEPT !.bars = @ \union {send.n}]
    [] send.kind = "open"  -> [view EXCEPT !.open = send.n]
    [] send.kind = "chain" -> [view EXCEPT !.chain = send.n]
    [] OTHER               -> view

\* Mutant of Release: a send that failed keeps the lock.
ReleaseIfSent(c, ok) == IF ok THEN [lock EXCEPT ![c] = Tail(@)] ELSE lock

\* The lock passes to the next in turn, whether the send was successful or not.
Release(c, ok) == [lock EXCEPT ![c] = Tail(@)]

\* The send that holds the lock of c ends, and whoever awaited it goes on.  To a
\* connection that is gone or closed it fails, or is lost without a word.
SendEnds(c) ==
  /\ lock[c] # << >>
  /\ LET send  == Head(lock[c])
         alive == c \notin broken /\ handler[c] # "off"
     IN  \E ok \in IF alive THEN {TRUE} ELSE BOOLEAN :
           /\ shown' = IF alive THEN [shown EXCEPT ![c] = Show(@, send)] ELSE shown
           /\ IF send.by = c
              THEN /\ HandlerGoesOn(c, ok, Release(c, ok))
                   /\ UNCHANGED << clients, sending >>
              ELSE /\ Proceed(send.by, [sending[send.by] EXCEPT !.dead =
                                          IF ok THEN @ ELSE @ \union {c}], Release(c, ok))
                   /\ UNCHANGED << handler, pos, seen, aborted >>
  /\ UNCHANGED << bars, opens, chains, broken >>

ConnectionLost(c) ==
  /\ c \in Fragile \ broken
  /\ handler[c] \notin {"new", "off"}
  /\ broken' = broken \union {c}
  /\ UNCHANGED << bars, opens, chains, clients, lock, sending, handler, pos, seen, shown,
                  aborted >>

(***************************************************************************)
(* Specification.                                                          *)
(***************************************************************************)

Next ==
  \/ BroadcastBar
  \/ BroadcastOpen
  \/ BroadcastChain
  \/ \E c \in Clients : \/ Connect(c)
                        \/ HandlerSends(c)
                        \/ HandlerCloses(c)
                        \/ ReceiveFails(c)
                        \/ SendEnds(c)
                        \/ ConnectionLost(c)

Spec == Init /\ [][Next]_vars

\* Every send ends: a client reads, or its connection breaks (nothing in the code
\* limits the time of a send).  A client that only listens is sent heartbeats.  That a
\* receive learns of a broken connection is not assumed.
Fairness ==
  \A c \in Clients : WF_vars(SendEnds(c)) /\ WF_vars(HandlerSends(c) \/ HandlerCloses(c))

FairSpec == Spec /\ Fairness

(***************************************************************************)
(* Properties.                                                             *)
(***************************************************************************)

Healthy(c) == handler[c] \in Serving /\ c \notin broken

\* The current message of broadcaster b is still to reach c.
OnItsWay(b, kind, c) ==
  /\ sending[b].kind = kind
  /\ c \in sending[b].left \/ \E j \in DOMAIN lock[c] : lock[c][j].by = b

\* A client whose replay was not cut short has, from the oldest bar replayed on,
\* every bar but the one being sent to it, and the current open candle and option
\* chain: nothing falls between the replay and the broadcasts, in whatever order
\* the two meet.
NothingMissed ==
  \A c \in Clients : (Healthy(c) /\ c \notin aborted) =>
    /\ \A n \in (IF seen[c] > HistoryMax THEN seen[c] - HistoryMax + 1 ELSE 1)..bars :
         n \in shown[c].bars \/ (n = bars /\ OnItsWay("scheduler", "bar", c))
    /\ shown[c].open = opens \/ OnItsWay("scheduler", "open", c)
    /\ shown[c].chain = chains \/ OnItsWay("pipeline", "chain", c)

\* No client ever goes back to an older open candle or option chain, although the
\* replay sends what it read some time ago and broadcasts come in between.
NeverOutdated ==
  [][\A c \in Clients : handler'[c] # "off" =>
                        /\ shown'[c].open >= shown[c].open
                        /\ shown'[c].chain >= shown[c].chain]_vars

\* As long as every send ends, so does every broadcast of the scheduler, which is
\* then back in time for its next bar: clients that come, go or break meanwhile do
\* not hold it up, nor does the other broadcaster.
BroadcastsEnd == (sending["scheduler"] # Idle) ~> (sending["scheduler"] = Idle)

\* A client that a failed send has unregistered does not stay connected without
\* receiving anything: its handler notices and ends.
UnregisteredIsClosed ==
  \A c \in Fragile : (handler[c] \in Serving /\ c \notin clients) ~> (handler[c] = "off")

=============================================================================
