--------------------------- MODULE WsSubscriptions ---------------------------
(***************************************************************************)
(* The option subscriptions: the ATM window InstrumentManager decides on   *)
(* (app/instruments/manager.py), the tasks NubraIngestionService spawns to *)
(* apply it (app/ingestion/nubra_socket.py), the registry and the calls of *)
(* WebSocketManager (app/ingestion/ws_manager.py), and what the server has *)
(* been told on the socket in use.                                         *)
(*                                                                         *)
(* An applier is a coroutine that changes or replays subscriptions:        *)
(*   "boot"     _subscribe_all, after start() has connected;               *)
(*   "rebuild"  _reapply_subscriptions, at the end of a reconnect;         *)
(*   a task     one _apply_option_diff, created by the callback of         *)
(*              update_atm.                                                *)
(* Each issues one call at a time; the call runs in a thread, so the calls *)
(* of different appliers take effect in any order.  A strike stands for    *)
(* its CE and PE tokens; the tokens that never change (futures, equities)  *)
(* are left out.  Reconnects do not overlap here (see WsManager).          *)
(***************************************************************************)
EXTENDS Naturals, FiniteSets

CONSTANTS
  MaxStrike,     \* the strikes of the option map are 0..MaxStrike
  Radius,        \* strike_radius, in steps of 50
  InitialAtm,    \* the ATM of initial_nifty_price
  Tasks,         \* identities for _apply_option_diff tasks (a bound)
  MaxSockets,    \* how many sockets are created (a bound)
  NoCall,        \* no call in flight
  CallsMayFail   \* may the SDK's subscribe or unsubscribe raise?

ASSUME ConstantsAssumption ==
  /\ MaxStrike \in Nat /\ Radius \in Nat /\ MaxSockets \in Nat \ {0}
  /\ InitialAtm \in 0..MaxStrike
  /\ {"boot", "rebuild"} \intersect Tasks = {}
  /\ CallsMayFail \in BOOLEAN

VARIABLES
  atm,      \* _active_atm
  tokens,   \* _active_option_tokens
  subs,     \* _subscriptions, for each data type
  sock,     \* _socket, numbered; 0 is None
  created,  \* how many sockets were created
  link,     \* the connection of that socket
  wire,     \* what the server has on that connection, for each data type
  pc,       \* the operation each applier issues next
  call,     \* the call each applier awaits
  adds,     \* diff.added, or what boot subscribes to
  removes,  \* diff.removed
  snap,     \* the snapshot _reapply_subscriptions iterates over
  left,     \* the keys of it that are left
  indexOn,  \* NIFTY ticks reach the pipeline
  crossed,  \* history: an issuer started while another issuer was at work
  tangled,  \* history: an applier started while any other was at work
  refused   \* history: a call made on the connection in use has raised

vars == << atm, tokens, subs, sock, created, link, wire, pc, call, adds, removes,
           snap, left, indexOn, crossed, tangled, refused >>

Strikes   == 0..MaxStrike
DataTypes == {"orderbook", "greeks"}
Issuers   == {"boot"} \union Tasks
Appliers  == Issuers \union {"rebuild"}

\* get_option_tokens: the strikes of the map within the radius of the ATM.
Window(a) == {s \in Strikes : a <= s + Radius /\ s <= a + Radius}

\* The operations of _apply_option_diff, in order, and of _subscribe_all.
Unsubscribes == {"unsub greeks", "unsub orderbook"}
Subscribes   == {"sub greeks", "sub orderbook"}
Ops          == Unsubscribes \union Subscribes

TypeOf(op) == IF op \in {"unsub greeks", "sub greeks"} THEN "greeks" ELSE "orderbook"

\* Mutant of After: _apply_option_diff does not unsubscribe the order book.
AfterSkipsOrderbook(c, op) ==
  IF c = "boot"
  THEN IF op = "sub orderbook" THEN "sub greeks" ELSE "idle"
  ELSE CASE op = "unsub greeks"    -> "sub greeks"
         [] op = "sub greeks"      -> "sub orderbook"
         [] OTHER                  -> "idle"

After(c, op) ==
  IF c = "boot"
  THEN IF op = "sub orderbook" THEN "sub greeks" ELSE "idle"
  ELSE CASE op = "unsub greeks"    -> "unsub orderbook"
         [] op = "unsub orderbook" -> "sub greeks"
         [] op = "sub greeks"      -> "sub orderbook"
         [] OTHER                  -> "idle"

Calls == [op : {"sub", "unsub"}, type : DataTypes, syms : SUBSET Strikes,
          sock : 1..MaxSockets]
         \union [op : {"index"}, sock : 1..MaxSockets]

ASSUME NoCallAssumption == NoCall \notin Calls

AtWork(c) == \/ pc[c] \in Ops
             \/ call[c] # NoCall
             \/ c = "rebuild" /\ left # {}

\* No _apply_option_diff, and not _subscribe_all, is at work.
Settled == \A c \in Issuers : ~AtWork(c)

Quiet == \A c \in Appliers : ~AtWork(c)

TypeOK ==
  /\ atm \in Strikes /\ tokens \subseteq Strikes
  /\ subs \in [DataTypes -> SUBSET Strikes]
  /\ sock \in 0..MaxSockets /\ created \in 0..MaxSockets
  /\ link \in {"opening", "open", "lost"} /\ indexOn \in BOOLEAN
  /\ crossed \in BOOLEAN /\ tangled \in BOOLEAN /\ refused \in BOOLEAN
  /\ wire \in [DataTypes -> SUBSET Strikes]
  /\ pc \in [Appliers -> Ops \union {"off", "idle"}]
  /\ call \in [Appliers -> Calls \union {NoCall}]
  /\ adds \in [Issuers -> SUBSET Strikes] /\ removes \in [Issuers -> SUBSET Strikes]
  /\ snap \in [DataTypes -> SUBSET Strikes] /\ left \subseteq DataTypes

Nothing == [t \in DataTypes |-> {}]

\* start() has connected the first socket, with nothing to reapply.
Init ==
  /\ atm = InitialAtm
  /\ tokens = {}
  /\ subs = Nothing
  /\ sock = 1
  /\ created = 1
  /\ link = "open"
  /\ wire = Nothing
  /\ pc = [c \in Appliers |-> IF c = "boot" THEN "off" ELSE "idle"]
  /\ call = [c \in Appliers |-> NoCall]
  /\ adds = [c \in Issuers |-> {}]
  /\ removes = [c \in Issuers |-> {}]
  /\ snap = Nothing
  /\ left = {}
  /\ indexOn = FALSE
  /\ crossed = FALSE
  /\ tangled = FALSE
  /\ refused = FALSE

(***************************************************************************)
(* Who asks for subscriptions.                                             *)
(***************************************************************************)

\* _subscribe_all up to its first await: get_subscription_tokens arms the window
\* of the configured price, and the index subscription goes out first.
Boot ==
  /\ pc["boot"] = "off"
  /\ atm' = InitialAtm
  /\ tokens' = Window(InitialAtm)
  /\ adds' = [adds EXCEPT !["boot"] = Window(InitialAtm)]
  /\ pc' = [pc EXCEPT !["boot"] = "sub orderbook"]
  /\ call' = IF sock = 0 THEN call
             ELSE [call EXCEPT !["boot"] = [op |-> "index", sock |-> sock]]
  /\ crossed' = (crossed \/ ~Settled)
  /\ tangled' = (tangled \/ ~Quiet)
  /\ UNCHANGED << subs, sock, created, link, wire, removes, snap, left, indexOn, refused >>

\* Mutant of AtmMoves: the diff removes the whole previous window.
AtmMovesRemovingAll(a) ==
  /\ indexOn
  /\ a # atm
  /\ atm' = a
  /\ tokens' = Window(a)
  /\ IF Window(a) = tokens
     THEN UNCHANGED << adds, removes, pc, crossed, tangled >>
     ELSE \E t \in Tasks :
            /\ ~AtWork(t)
            /\ adds' = [adds EXCEPT ![t] = Window(a)]
            /\ removes' = [removes EXCEPT ![t] = tokens]
            /\ pc' = [pc EXCEPT ![t] = "unsub greeks"]
            /\ crossed' = (crossed \/ ~Settled)
            /\ tangled' = (tangled \/ ~Quiet)
  /\ UNCHANGED << subs, sock, created, link, wire, call, snap, left, indexOn, refused >>

\* A NIFTY tick for which update_atm finds that the ATM has moved: the new window
\* is recorded at once, a task is spawned to tell the server.
AtmMoves(a) ==
  /\ indexOn
  /\ a # atm
  /\ atm' = a
  /\ tokens' = Window(a)
  /\ IF Window(a) = tokens
     THEN UNCHANGED << adds, removes, pc, crossed, tangled >>
     ELSE \E t \in Tasks :
            /\ ~AtWork(t)
            /\ adds' = [adds EXCEPT ![t] = Window(a) \ tokens]
            /\ removes' = [removes EXCEPT ![t] = tokens \ Window(a)]
            /\ pc' = [pc EXCEPT ![t] = "unsub greeks"]
            /\ crossed' = (crossed \/ ~Settled)
            /\ tangled' = (tangled \/ ~Quiet)
  /\ UNCHANGED << subs, sock, created, link, wire, call, snap, left, indexOn, refused >>

(***************************************************************************)
(* subscribe and unsubscribe.                                              *)
(***************************************************************************)

\* The registry is changed, then the call is handed to a thread: with no symbols
\* neither happens, with no socket only the first.
Issue(c) ==
  /\ pc[c] \in Ops
  /\ call[c] = NoCall
  /\ LET unsub == pc[c] \in Unsubscribes
         t     == TypeOf(pc[c])
         syms  == IF unsub THEN removes[c] ELSE adds[c]
     IN  /\ subs' = [subs EXCEPT ![t] = IF unsub THEN @ \ syms ELSE @ \union syms]
         /\ call' = IF sock = 0 \/ syms = {} THEN call
                    ELSE [call EXCEPT ![c] = [op |-> IF unsub THEN "unsub" ELSE "sub",
                                              type |-> t, syms |-> syms, sock |-> sock]]
         /\ pc' = [pc EXCEPT ![c] = After(c, pc[c])]
         /\ IF pc'[c] = "idle"
            THEN adds' = [adds EXCEPT ![c] = {}] /\ removes' = [removes EXCEPT ![c] = {}]
            ELSE UNCHANGED << adds, removes >>
  /\ UNCHANGED << atm, tokens, sock, created, link, wire, snap, left, indexOn, crossed,
                  tangled, refused >>

\* Mutant of Resend: replaying a key ends the replay.
ResendOnlyOne(t) ==
  /\ t \in left
  /\ call["rebuild"] = NoCall
  /\ left' = {}
  /\ snap' = [snap EXCEPT ![t] = {}]
  /\ call' = IF sock = 0 \/ snap[t] = {} THEN call
             ELSE [call EXCEPT !["rebuild"] =
                     [op |-> "sub", type |-> t, syms |-> snap[t], sock |-> sock]]
  /\ UNCHANGED << atm, tokens, subs, sock, created, link, wire, pc, adds, removes,
                  indexOn, crossed, tangled, refused >>

\* A key of the snapshot is sent again, in any order of the keys.
Resend(t) ==
  /\ t \in left
  /\ call["rebuild"] = NoCall
  /\ left' = left \ {t}
  /\ snap' = [snap EXCEPT ![t] = {}]
  /\ call' = IF sock = 0 \/ snap[t] = {} THEN call
             ELSE [call EXCEPT !["rebuild"] =
                     [op |-> "sub", type |-> t, syms |-> snap[t], sock |-> sock]]
  /\ UNCHANGED << atm, tokens, subs, sock, created, link, wire, pc, adds, removes,
                  indexOn, crossed, tangled, refused >>

\* The thread ends.  The call has reached the server if its socket is the one in
\* use and connected; the exception it may raise instead is swallowed.
CallReturns(c) ==
  /\ call[c] # NoCall
  /\ call' = [call EXCEPT ![c] = NoCall]
  /\ \/ /\ call[c].sock = sock /\ link = "open"
        /\ indexOn' = (indexOn \/ call[c].op = "index")
        /\ UNCHANGED refused
        /\ wire' = CASE call[c].op = "index" -> wire
                     [] call[c].op = "sub"   -> [wire EXCEPT ![call[c].type] = @ \union call[c].syms]
                     [] OTHER                -> [wire EXCEPT ![call[c].type] = @ \ call[c].syms]
     \/ /\ CallsMayFail \/ call[c].sock # sock \/ link # "open"
        /\ refused' = (refused \/ call[c].sock = sock)
        /\ UNCHANGED << wire, indexOn >>
  /\ UNCHANGED << atm, tokens, subs, sock, created, link, pc, adds, removes, snap, left,
                  crossed, tangled >>

(***************************************************************************)
(* The connection.                                                         *)
(***************************************************************************)

\* The connection is lost, and with it all the server was told on it.
ConnectionLost ==
  /\ link = "open"
  /\ link' = "lost"
  /\ wire' = Nothing
  /\ UNCHANGED << atm, tokens, subs, sock, created, pc, call, adds, removes, snap, left,
                  indexOn, crossed, tangled, refused >>

\* A reconnect begins; the watchdog's may find the connection still open.
Teardown ==
  /\ ~AtWork("rebuild")
  /\ sock # 0 /\ created < MaxSockets
  /\ sock' = 0
  /\ link' = "lost"
  /\ wire' = Nothing
  /\ UNCHANGED << atm, tokens, subs, created, pc, call, adds, removes, snap, left,
                  indexOn, crossed, tangled, refused >>

NewSocket ==
  /\ sock = 0
  /\ created' = created + 1
  /\ sock' = created + 1
  /\ link' = "opening"
  /\ UNCHANGED << atm, tokens, subs, wire, pc, call, adds, removes, snap, left, indexOn,
                  crossed, tangled, refused >>

\* Mutant of Connected: the snapshot is replayed only for the order book.
ConnectedHalfReplay ==
  /\ link = "opening"
  /\ link' = "open"
  /\ snap' = subs
  /\ left' = {"orderbook"}
  /\ indexOn' = (indexOn \/ pc["boot"] # "off")
  /\ tangled' = (tangled \/ ~Quiet)
  /\ refused' = FALSE
  /\ UNCHANGED << atm, tokens, subs, sock, created, wire, pc, call, adds, removes, crossed >>

\* The rebuild sees the connection and takes its snapshot of the registry (of
\* which the index stream is a part).  Calls made on the socket before that were lost.
Connected ==
  /\ link = "opening"
  /\ link' = "open"
  /\ snap' = subs
  /\ left' = DataTypes
  /\ indexOn' = (indexOn \/ pc["boot"] # "off")
  /\ tangled' = (tangled \/ ~Quiet)
  /\ refused' = FALSE
  /\ UNCHANGED << atm, tokens, subs, sock, created, wire, pc, call, adds, removes, crossed >>

(***************************************************************************)
(* Specification.                                                          *)
(***************************************************************************)

Next ==
  \/ Boot
  \/ \E a \in Strikes : AtmMoves(a)
  \/ \E c \in Issuers : Issue(c)
  \/ \E t \in DataTypes : Resend(t)
  \/ \E c \in Appliers : CallReturns(c)
  \/ ConnectionLost
  \/ Teardown
  \/ NewSocket
  \/ Connected

Spec == Init /\ [][Next]_vars

\* The event loop resumes what is ready and a call in a thread returns.  Nothing is
\* assumed of the market, of the network or of who reconnects.
Fairness ==
  /\ WF_vars(Boot)
  /\ \A c \in Issuers : WF_vars(Issue(c))
  /\ WF_vars(\E t \in DataTypes : Resend(t))
  /\ \A c \in Appliers : WF_vars(CallReturns(c))

FairSpec == Spec /\ Fairness

(***************************************************************************)
(* Properties.                                                             *)
(***************************************************************************)

\* When no diff is in flight and no two diffs ever overlapped, the registry holds
\* exactly the window of the current ATM, for both data types, whatever calls raised
\* and reconnects came between: this is what the next reconnect will ask for.
RegistryFollowsAtm ==
  (Settled /\ ~crossed /\ pc["boot"] = "idle") => \A t \in DataTypes : subs[t] = tokens

\* Then, unless it refused a call, the server sends all the registry holds, across
\* any number of lost connections and even if diffs overlapped a replay.  It sends
\* no more than that if they did not.
WireFollowsRegistry ==
  (Quiet /\ ~crossed /\ link = "open" /\ ~refused) =>
    \A t \in DataTypes : subs[t] \subseteq wire[t] /\ (~tangled => wire[t] = subs[t])

\* The server is never told to stop a token of the current window, not even to be
\* asked for it again a moment later: the strikes two windows share keep ticking
\* while the window moves.
WindowKeepsTicking ==
  [][(link = "open" /\ link' = "open" /\ ~crossed')
       => \A t \in DataTypes : (wire[t] \ wire'[t]) \intersect tokens = {}]_vars

\* Once connected, and unless a call is refused, the replay ends with every registered
\* token subscribed: a reconnect never leaves part of the window without ticks.
ReplayCompletes ==
  (link = "open" /\ left # {} /\ ~crossed)
    ~> (link # "open" \/ crossed \/ refused \/ \A t \in DataTypes : subs[t] \subseteq wire[t])

=============================================================================
