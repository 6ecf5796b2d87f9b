----------------------- MODULE WsSubscriptionsProofs -----------------------
(***************************************************************************)
(* Proofs about WsSubscriptions, for any strikes, radius, number of tasks  *)
(* and of sockets.  IInv says, as long as issuers did not overlap, where   *)
(* the one at work leads the registry to and what is still under way to    *)
(* the server.                                                             *)
(***************************************************************************)
EXTENDS WsSubscriptions, TLAPS

\* The pc of an applier, whether a rebuild is possible and what a lost connection
\* forgets.
Shape ==
  /\ pc["rebuild"] = "idle"
  /\ pc["boot"] \in {"off", "sub orderbook", "sub greeks", "idle"}
  /\ \A t \in Tasks : pc[t] # "off"
  /\ removes["boot"] = {}
  /\ call["rebuild"] # NoCall => call["rebuild"].op = "sub"
  /\ sock = 0 => link = "lost" /\ created < MaxSockets
  /\ link # "open" => wire = Nothing
  /\ crossed => tangled

\* Before _subscribe_all nothing is registered, and no tick can move the ATM.
BeforeBoot ==
  pc["boot"] = "off" =>
    /\ ~indexOn /\ subs = Nothing
    /\ \A c \in Issuers : call[c] = NoCall
    /\ \A t \in Tasks : pc[t] = "idle"

\* What the registry will hold for t when issuer c has made its calls.
StillUnsubs(c, t) == \/ pc[c] = "unsub greeks"
                     \/ pc[c] = "unsub orderbook" /\ t = "orderbook"

StillSubs(c, t) == \/ pc[c] \in Unsubscribes
                   \/ pc[c] = "sub greeks" /\ (c # "boot" \/ t = "greeks")
                   \/ pc[c] = "sub orderbook" /\ (c = "boot" \/ t = "orderbook")

Ahead(c, t) == (subs[t] \ (IF StillUnsubs(c, t) THEN removes[c] ELSE {}))
                 \union (IF StillSubs(c, t) THEN adds[c] ELSE {})

AloneIssuer  == \A c, d \in Issuers : AtWork(c) /\ AtWork(d) => c = d
AloneApplier == \A c, d \in Appliers : AtWork(c) /\ AtWork(d) => c = d

Heading == \A c \in Issuers : pc[c] \in Ops => \A t \in DataTypes : Ahead(c, t) = tokens

AtRest == (pc["boot"] # "off" /\ \A c \in Issuers : pc[c] \notin Ops)
            => \A t \in DataTypes : subs[t] = tokens

\* What an issuer takes away is no part of the window it leads to.
Dropping ==
  \A c \in Issuers :
    /\ pc[c] \in Ops => removes[c] \intersect tokens = {}
    /\ (call[c] # NoCall /\ call[c].op = "unsub")
         => call[c].syms \intersect (tokens \union subs[call[c].type]) = {}

\* A call of kind op on symbol s of type t is on its way on the socket in use.
OnItsWay(op, t, s) ==
  \E c \in Appliers : /\ call[c] # NoCall /\ call[c].op = op
                      /\ call[c].type = t /\ call[c].sock = sock /\ s \in call[c].syms

Told == (link = "open" /\ ~refused) =>
          \A t \in DataTypes : \A s \in subs[t] :
            s \in wire[t] \/ (t \in left /\ s \in snap[t]) \/ OnItsWay("sub", t, s)

\* While at most one applier is at work the server has nothing else, and nothing
\* else is asked for.
Exact ==
  /\ (link = "open" /\ ~refused) =>
       \A t \in DataTypes : \A s \in wire[t] : s \in subs[t] \/ OnItsWay("unsub", t, s)
  /\ \A c \in Appliers : (call[c] # NoCall /\ call[c].op = "sub")
                            => call[c].syms \subseteq subs[call[c].type]
  /\ \A t \in left : snap[t] \subseteq subs[t]

IInv ==
  /\ TypeOK /\ Shape /\ BeforeBoot
  /\ ~crossed => AloneIssuer /\ Heading /\ AtRest /\ Dropping /\ Told
  /\ ~tangled => AloneApplier /\ Exact

(***************************************************************************)
(* The first state, and one lemma per action.                              *)
(***************************************************************************)

\* The calls that change subscriptions, and their fields.
LEMMA CallFields ==
  ASSUME NEW k \in Calls, k.op # "index"
  PROVE  k.op \in {"sub", "unsub"} /\ k.type \in DataTypes /\ k.syms \subseteq Strikes
PROOF
<1>. QED  BY DEF Calls

\* What names are and are not.
LEMMA Names ==
  /\ "boot" \notin Tasks /\ "rebuild" \notin Tasks /\ "rebuild" \notin Issuers
  /\ "boot" \in Issuers /\ Tasks \subseteq Issuers /\ Issuers \subseteq Appliers /\ "rebuild" \in Appliers
  /\ \A c \in Appliers : c \in Issuers \/ c = "rebuild"
  /\ \A c \in Issuers : c \in Tasks \/ c = "boot"
PROOF
<1>. QED  BY ConstantsAssumption DEF Issuers, Appliers

\* The window of an ATM is a set of strikes.
LEMMA WindowStrikes == \A a \in Strikes : Window(a) \subseteq Strikes
PROOF
<1>. QED  BY DEF Window

LEMMA InitInv == Init => IInv
PROOF
<1>. SUFFICES ASSUME Init PROVE IInv
  OBVIOUS
<1>1. TypeOK
  <2>. USE ConstantsAssumption
  <2>1. pc \in [Appliers -> Ops \union {"off", "idle"}]
    BY DEF Init
  <2>2. call \in [Appliers -> Calls \union {NoCall}]
    BY DEF Init
  <2>3. subs \in [DataTypes -> SUBSET Strikes] /\ wire = subs /\ snap = subs
    BY DEF Init, Nothing
  <2>4. /\ adds \in [Issuers -> SUBSET Strikes] /\ removes \in [Issuers -> SUBSET Strikes]
        /\ left \subseteq DataTypes
    BY DEF Init
  <2>5. atm \in Strikes /\ sock \in 0..MaxSockets /\ created \in 0..MaxSockets
    BY DEF Init, Strikes
  <2>. QED  BY <2>1, <2>2, <2>3, <2>4, <2>5 DEF TypeOK, Init
<1>2. Shape /\ BeforeBoot
  <2>1. /\ pc["boot"] = "off" /\ pc["rebuild"] = "idle" /\ removes["boot"] = {}
        /\ \A t \in Tasks : pc[t] = "idle"
        /\ \A c \in Appliers : call[c] = NoCall
    BY Names DEF Init
  <2>2. ~indexOn /\ (crossed => tangled) /\ subs = Nothing
    BY DEF Init
  <2>3. BeforeBoot
    BY <2>1, <2>2, Names DEF BeforeBoot
  <2>4. /\ sock = 0 => link = "lost" /\ created < MaxSockets
        /\ link # "open" => wire = Nothing
        /\ \A t \in Tasks : pc[t] # "off"
    BY <2>1 DEF Init
  <2>. QED  BY <2>1, <2>2, <2>3, <2>4, Names DEF Shape
<1>3. \A c \in Appliers : ~AtWork(c)
  BY Names DEF Init, AtWork, Ops, Unsubscribes, Subscribes
<1>4. AloneIssuer /\ AloneApplier
  BY <1>3, Names DEF AloneIssuer, AloneApplier
<1>5. Heading /\ AtRest /\ Dropping
  BY <1>3, Names DEF Heading, AtRest, Dropping, AtWork, Init
<1>6. Told /\ Exact
  BY Names DEF Told, Exact, Init, Nothing
<1>. QED  BY <1>1, <1>2, <1>4, <1>5, <1>6 DEF IInv

LEMMA BootInv == IInv /\ Boot => IInv'
PROOF
<1>. SUFFICES ASSUME IInv, Boot PROVE IInv'
  OBVIOUS
<1>. USE Names
<1>a. TypeOK /\ Shape /\ BeforeBoot /\ pc["boot"] = "off"
  BY DEF IInv, Boot
<1>1. TypeOK'
  <2>1. sock # 0 => [op |-> "index", sock |-> sock] \in Calls
    BY <1>a DEF TypeOK, Calls
  <2>2. call' \in [Appliers -> Calls \union {NoCall}]
    BY <1>a, <2>1 DEF TypeOK, Boot
  <2>3. pc' \in [Appliers -> Ops \union {"off", "idle"}]
    BY <1>a DEF TypeOK, Boot, Ops, Subscribes
  <2>4. adds' \in [Issuers -> SUBSET Strikes] /\ tokens' \subseteq Strikes /\ atm' \in Strikes
    BY <1>a, WindowStrikes, ConstantsAssumption DEF TypeOK, Boot, Strikes
  <2>5. crossed' \in BOOLEAN /\ tangled' \in BOOLEAN
    BY <1>a DEF TypeOK, Boot
  <2>. QED  BY <1>a, <2>2, <2>3, <2>4, <2>5 DEF TypeOK, Boot
<1>2. Shape' /\ BeforeBoot'
  <2>1. pc' = [pc EXCEPT !["boot"] = "sub orderbook"] /\ pc'["boot"] = "sub orderbook"
    BY <1>a DEF Boot, TypeOK
  <2>2. call'["rebuild"] = call["rebuild"]
    BY <1>a DEF Boot, TypeOK
  <2>3. ~Settled => ~Quiet
    BY DEF Settled, Quiet
  <2>. QED  BY <1>a, <2>1, <2>2, <2>3 DEF Shape, BeforeBoot, Boot, TypeOK
<1>3. ASSUME ~crossed' PROVE AloneIssuer' /\ Heading' /\ AtRest' /\ Dropping' /\ Told'
  <2>1. Settled /\ ~crossed
    BY <1>3 DEF Boot
  <2>2. /\ \A c \in Issuers : pc[c] \notin Ops /\ call[c] = NoCall
        /\ \A c \in Tasks : pc'[c] = pc[c] /\ call'[c] = NoCall
        /\ pc'["boot"] = "sub orderbook" /\ adds'["boot"] = tokens'
    BY <2>1, <1>a DEF Settled, AtWork, Boot, BeforeBoot, TypeOK
  <2>3. AloneIssuer'
    BY <2>2 DEF AloneIssuer, AtWork
  <2>4. subs' = Nothing /\ removes'["boot"] = {}
    BY <1>a DEF Boot, BeforeBoot, Shape
  <2>5. Heading'
    <3>1. \A c \in Issuers : pc'[c] \in Ops => c = "boot"
      BY <2>2
    <3>2. \A t \in DataTypes : Ahead("boot", t)' = tokens'
      BY <2>2, <2>4 DEF Ahead, StillSubs, StillUnsubs, Nothing, Unsubscribes, Subscribes
    <3>. QED  BY <3>1, <3>2 DEF Heading
  <2>6. AtRest'
    BY <2>2 DEF AtRest, Ops, Subscribes
  <2>7. Dropping'
    <3>1. call'["boot"] = NoCall \/ call'["boot"].op = "index"
      BY <2>2, <1>a DEF Boot, TypeOK
    <3>2. \A c \in Issuers : pc'[c] \in Ops => c = "boot"
      BY <2>2
    <3>. QED  BY <2>2, <2>4, <3>1, <3>2 DEF Dropping
  <2>8. Told'
    BY <2>4 DEF Told, Nothing
  <2>. QED  BY <2>3, <2>5, <2>6, <2>7, <2>8
<1>4. ASSUME ~tangled' PROVE AloneApplier' /\ Exact'
  <2>1. Quiet /\ ~tangled /\ Exact
    BY <1>4 DEF Boot, IInv
  <2>2. \A c \in Appliers : c # "boot" => ~AtWork(c)'
    BY <2>1, <1>a DEF Quiet, AtWork, Boot, TypeOK
  <2>3. AloneApplier'
    BY <2>2 DEF AloneApplier
  <2>4. \A c \in Appliers : call'[c] # NoCall => call'[c].op = "index"
    BY <2>1, <1>a DEF Quiet, AtWork, Boot, TypeOK
  <2>5. /\ subs' = subs /\ left' = left /\ snap' = snap
        /\ link' = link /\ wire' = wire /\ refused' = refused
    BY DEF Boot
  <2>6. \A c \in Appliers : call[c] = NoCall
    BY <2>1 DEF Quiet, AtWork
  <2>7. \A t \in DataTypes, s \in Strikes : ~OnItsWay("unsub", t, s)
    BY <2>6 DEF OnItsWay
  <2>8. \A t \in DataTypes : \A s \in wire[t] : s \in Strikes
    BY <1>a DEF TypeOK
  <2>9. Exact'
    BY <2>1, <2>4, <2>5, <2>7, <2>8 DEF Exact
  <2>. QED  BY <2>3, <2>9
<1>. QED  BY <1>1, <1>2, <1>3, <1>4 DEF IInv

LEMMA AtmMovesInv == ASSUME NEW a \in Strikes PROVE IInv /\ AtmMoves(a) => IInv'
PROOF
<1>. SUFFICES ASSUME IInv, AtmMoves(a) PROVE IInv'
  OBVIOUS
<1>. USE Names
<1>a. TypeOK /\ Shape /\ BeforeBoot /\ pc["boot"] # "off" /\ (~crossed' => ~crossed)
  <2>1. TypeOK /\ Shape /\ BeforeBoot /\ indexOn
    BY DEF IInv, AtmMoves
  <2>2. ~crossed' => ~crossed
    BY DEF AtmMoves
  <2>. QED  BY <2>1, <2>2 DEF BeforeBoot
<1>b. /\ UNCHANGED << subs, sock, created, link, wire, call, snap, left, indexOn, refused >>
      /\ tokens' = Window(a) /\ atm' = a /\ Window(a) \subseteq Strikes
  BY WindowStrikes DEF AtmMoves
<1>1. CASE Window(a) = tokens
  <2>1. UNCHANGED << tokens, subs, sock, created, link, wire, pc, call, adds, removes, snap,
                     left, indexOn, crossed, tangled, refused >>
    BY <1>1, <1>b DEF AtmMoves
  <2>2. TypeOK'
    BY <1>a, <1>b, <2>1 DEF TypeOK
  <2>3. \A c : AtWork(c)' = AtWork(c)
    BY <2>1 DEF AtWork
  <2>4. \A c, t : Ahead(c, t)' = Ahead(c, t)
    BY <2>1 DEF Ahead, StillSubs, StillUnsubs
  <2>5. Shape' /\ BeforeBoot'
    BY <1>a, <2>1 DEF Shape, BeforeBoot
  <2>6. ASSUME ~crossed' PROVE AloneIssuer' /\ Heading' /\ AtRest' /\ Dropping' /\ Told'
    <3>1. AloneIssuer /\ Heading /\ AtRest /\ Dropping /\ Told
      BY <2>1, <2>6 DEF IInv
    <3>2. AloneIssuer'
      BY <3>1, <2>3 DEF AloneIssuer
    <3>3. Heading' /\ AtRest'
      BY <3>1, <2>4, <2>1 DEF Heading, AtRest
    <3>4. Dropping' /\ Told'
      BY <3>1, <2>1 DEF Dropping, Told, OnItsWay
    <3>. QED  BY <3>2, <3>3, <3>4
  <2>7. ASSUME ~tangled' PROVE AloneApplier' /\ Exact'
    <3>1. AloneApplier /\ Exact
      BY <2>1, <2>7 DEF IInv
    <3>. QED  BY <3>1, <2>3, <2>1 DEF AloneApplier, Exact, OnItsWay
  <2>. QED  BY <2>2, <2>5, <2>6, <2>7 DEF IInv
<1>2. CASE Window(a) # tokens
  <2>1. PICK t \in Tasks :
          /\ ~AtWork(t)
          /\ adds' = [adds EXCEPT ![t] = Window(a) \ tokens]
          /\ removes' = [removes EXCEPT ![t] = tokens \ Window(a)]
          /\ pc' = [pc EXCEPT ![t] = "unsub greeks"]
          /\ crossed' = (crossed \/ ~Settled)
          /\ tangled' = (tangled \/ ~Quiet)
    BY <1>2 DEF AtmMoves
  <2>2. TypeOK'
    <3>1. crossed' \in BOOLEAN /\ tangled' \in BOOLEAN
      BY <1>a, <2>1 DEF TypeOK
    <3>2. /\ adds' \in [Issuers -> SUBSET Strikes] /\ removes' \in [Issuers -> SUBSET Strikes]
          /\ pc' \in [Appliers -> Ops \union {"off", "idle"}]
      BY <1>a, <1>b, <2>1 DEF TypeOK, Ops, Unsubscribes
    <3>. QED  BY <3>1, <3>2, <1>a, <1>b DEF TypeOK
  <2>3. /\ pc'[t] = "unsub greeks" /\ adds'[t] = tokens' \ tokens /\ removes'[t] = tokens \ tokens'
        /\ \A c \in Appliers : c # t => pc'[c] = pc[c]
        /\ \A c \in Issuers : c # t => adds'[c] = adds[c] /\ removes'[c] = removes[c]
    BY <1>a, <1>b, <2>1 DEF TypeOK
  <2>4. Shape' /\ BeforeBoot'
    <3>1. crossed' => tangled'
      BY <1>a, <2>1 DEF Shape, Settled, Quiet
    <3>. QED  BY <3>1, <2>3, <1>a, <1>b DEF Shape, BeforeBoot
  <2>5. ASSUME ~crossed' PROVE AloneIssuer' /\ Heading' /\ AtRest' /\ Dropping' /\ Told'
    <3>1. Settled /\ AtRest /\ Told
      BY <2>1, <2>5 DEF IInv
    <3>2. \A c \in Issuers : call[c] = NoCall /\ (c # t => pc'[c] \notin Ops)
      BY <3>1, <2>3 DEF Settled, AtWork
    <3>3. \A x \in DataTypes : subs[x] = tokens
      BY <3>1, <1>a DEF Settled, AtWork, AtRest
    <3>4. AloneIssuer'
      BY <3>2, <1>b DEF AloneIssuer, AtWork
    <3>5. \A x \in DataTypes : Ahead(t, x)' = tokens'
      <4>1. tokens' \subseteq Strikes /\ tokens \subseteq Strikes
        BY <1>a, <1>b DEF TypeOK
      <4>. QED  BY <4>1, <3>3, <2>3, <1>b DEF Ahead, StillSubs, StillUnsubs, Unsubscribes
    <3>6. Heading'
      BY <3>5, <3>2 DEF Heading
    <3>7. AtRest'
      BY <2>3 DEF AtRest, Ops, Unsubscribes
    <3>8. Dropping'
      BY <3>2, <2>3, <1>b DEF Dropping
    <3>9. Told'
      BY <3>1, <1>b DEF Told, OnItsWay
    <3>. QED  BY <3>4, <3>6, <3>7, <3>8, <3>9
  <2>6. ASSUME ~tangled' PROVE AloneApplier' /\ Exact'
    <3>1. Quiet /\ Exact
      BY <2>1, <2>6 DEF IInv
    <3>2. \A c \in Appliers : c # t => ~AtWork(c)'
      BY <3>1, <2>3, <1>b DEF Quiet, AtWork
    <3>. QED  BY <3>1, <3>2, <1>b DEF AloneApplier, Exact, OnItsWay
  <2>. QED  BY <2>2, <2>4, <2>5, <2>6 DEF IInv
<1>. QED  BY <1>1, <1>2

\* What does not change the registry, its issuers or the window keeps all that is
\* said of them.
LEMMA IssuersStay ==
  ASSUME IInv, Shape',
         UNCHANGED << tokens, subs, pc, adds, removes, crossed >>,
         \A c \in Issuers : call'[c] = call[c], pc["boot"] # "off" \/ indexOn' = indexOn
  PROVE  BeforeBoot' /\ (~crossed' => AloneIssuer' /\ Heading' /\ AtRest' /\ Dropping')
PROOF
<1>. USE Names
<1>1. BeforeBoot'
  BY DEF IInv, BeforeBoot
<1>2. \A c \in Issuers : AtWork(c)' = AtWork(c)
  BY DEF AtWork
<1>3. \A c, t : Ahead(c, t)' = Ahead(c, t)
  BY DEF Ahead, StillSubs, StillUnsubs
<1>4. ASSUME ~crossed' PROVE AloneIssuer' /\ Heading' /\ AtRest' /\ Dropping'
  <2>1. AloneIssuer /\ Heading /\ AtRest /\ Dropping
    BY <1>4 DEF IInv
  <2>. QED  BY <2>1, <1>2, <1>3 DEF AloneIssuer, Heading, AtRest, Dropping
<1>. QED  BY <1>1, <1>4

\* A step that closes the connection keeps the invariant.
LEMMA ClosedInv ==
  ASSUME IInv, TypeOK', Shape', link' # "open",
         UNCHANGED << tokens, subs, pc, call, adds, removes, snap, left, indexOn, crossed,
                      tangled >>
  PROVE  IInv'
PROOF
<1>. USE Names
<1>1. \A c \in Appliers : AtWork(c)' = AtWork(c)
  BY DEF AtWork
<1>2. BeforeBoot' /\ (~crossed' => AloneIssuer' /\ Heading' /\ AtRest' /\ Dropping')
  <2>1. BeforeBoot'
    BY DEF IInv, BeforeBoot
  <2>2. \A c, t : Ahead(c, t)' = Ahead(c, t)
    BY DEF Ahead, StillSubs, StillUnsubs
  <2>3. ASSUME ~crossed' PROVE AloneIssuer' /\ Heading' /\ AtRest' /\ Dropping'
    <3>1. AloneIssuer /\ Heading /\ AtRest /\ Dropping
      BY <2>3 DEF IInv
    <3>. QED  BY <3>1, <1>1, <2>2 DEF AloneIssuer, Heading, AtRest, Dropping
  <2>. QED  BY <2>1, <2>3
<1>3. Told'
  BY DEF Told
<1>4. ASSUME ~tangled' PROVE AloneApplier' /\ Exact'
  <2>1. AloneApplier /\ Exact
    BY <1>4 DEF IInv
  <2>. QED  BY <2>1, <1>1 DEF AloneApplier, Exact
<1>. QED  BY <1>2, <1>3, <1>4 DEF IInv

LEMMA ConnectionLostInv == IInv /\ ConnectionLost => IInv'
PROOF
<1>. SUFFICES ASSUME IInv, ConnectionLost PROVE IInv'
  OBVIOUS
<1>1. TypeOK'
  BY DEF IInv, TypeOK, ConnectionLost, Nothing
<1>2. Shape'
  BY DEF IInv, Shape, ConnectionLost
<1>. QED  BY <1>1, <1>2, ClosedInv DEF ConnectionLost

LEMMA TeardownInv == IInv /\ Teardown => IInv'
PROOF
<1>. SUFFICES ASSUME IInv, Teardown PROVE IInv'
  OBVIOUS
<1>1. TypeOK'
  BY ConstantsAssumption DEF IInv, TypeOK, Teardown, Nothing
<1>2. Shape'
  BY DEF IInv, Shape, Teardown
<1>. QED  BY <1>1, <1>2, ClosedInv DEF Teardown

LEMMA NewSocketInv == IInv /\ NewSocket => IInv'
PROOF
<1>. SUFFICES ASSUME IInv, NewSocket PROVE IInv'
  OBVIOUS
<1>1. TypeOK /\ created < MaxSockets /\ sock = 0 /\ link = "lost"
  BY DEF IInv, Shape, NewSocket
<1>2. created' \in 1..MaxSockets /\ sock' = created'
  BY <1>1, ConstantsAssumption DEF TypeOK, NewSocket
<1>3. TypeOK'
  BY <1>1, <1>2 DEF TypeOK, NewSocket
<1>4. Shape'
  <2>0. wire' = Nothing /\ (crossed' => tangled')
    BY <1>1 DEF IInv, Shape, NewSocket
  <2>1. sock' # 0
    BY <1>2
  <2>2. UNCHANGED << pc, removes, call >>
    BY DEF NewSocket
  <2>. QED  BY <2>0, <2>1, <2>2 DEF IInv, Shape
<1>. QED  BY <1>3, <1>4, ClosedInv DEF NewSocket

LEMMA ConnectedInv == IInv /\ Connected => IInv'
PROOF
<1>. SUFFICES ASSUME IInv, Connected PROVE IInv'
  OBVIOUS
<1>. USE Names
<1>a. TypeOK /\ Shape /\ sock # 0 /\ wire = Nothing
  BY DEF IInv, Shape, Connected
<1>1. TypeOK'
  <2>1. indexOn' \in BOOLEAN /\ tangled' \in BOOLEAN /\ refused' \in BOOLEAN
    BY <1>a DEF TypeOK, Connected
  <2>. QED  BY <2>1, <1>a DEF TypeOK, Connected
<1>2. Shape'
  BY <1>a DEF Shape, Connected
<1>3. BeforeBoot' /\ (~crossed' => AloneIssuer' /\ Heading' /\ AtRest' /\ Dropping')
  <2>1. pc["boot"] # "off" \/ indexOn' = indexOn
    BY <1>a DEF Connected, TypeOK
  <2>. QED  BY <2>1, <1>2, IssuersStay DEF Connected
<1>4. Told'
  BY DEF Told, Connected
<1>5. ASSUME ~tangled' PROVE AloneApplier' /\ Exact'
  <2>1. Quiet
    BY <1>5 DEF Connected
  <2>2. \A c \in Issuers : ~AtWork(c)'
    BY <2>1 DEF Quiet, AtWork, Connected
  <2>3. AloneApplier'
    BY <2>2 DEF AloneApplier
  <2>4. Exact'
    BY <2>1, <1>a DEF Exact, Connected, Quiet, AtWork, Nothing
  <2>. QED  BY <2>3, <2>4
<1>. QED  BY <1>1, <1>2, <1>3, <1>4, <1>5 DEF IInv

\* The call that issuer c makes for its next operation: what it adds or takes away.
Made(c) == [op   |-> IF pc[c] \in Unsubscribes THEN "unsub" ELSE "sub",
            type |-> TypeOf(pc[c]),
            syms |-> IF pc[c] \in Unsubscribes THEN removes[c] ELSE adds[c],
            sock |-> sock]

\* What one Issue does, and that it leads where the issuer was leading.
LEMMA IssueEffect ==
  ASSUME IInv, NEW c \in Issuers, Issue(c)
  PROVE  /\ pc[c] \in Ops /\ call[c] = NoCall
         /\ TypeOf(pc[c]) \in DataTypes
         /\ Made(c).syms \subseteq Strikes
         /\ sock # 0 => Made(c) \in Calls /\ Made(c) # NoCall
         /\ call' = IF sock = 0 \/ Made(c).syms = {} THEN call
                    ELSE [call EXCEPT ![c] = Made(c)]
         /\ subs' = [subs EXCEPT ![TypeOf(pc[c])] =
                       IF pc[c] \in Unsubscribes THEN @ \ removes[c] ELSE @ \union adds[c]]
         /\ pc' = [pc EXCEPT ![c] = After(c, pc[c])]
         /\ pc'[c] \in Ops \union {"idle"} /\ (c = "boot" => pc'[c] \in {"sub greeks", "idle"})
         /\ IF pc'[c] = "idle"
            THEN adds' = [adds EXCEPT ![c] = {}] /\ removes' = [removes EXCEPT ![c] = {}]
            ELSE adds' = adds /\ removes' = removes
         /\ \A t \in DataTypes : Ahead(c, t)' = Ahead(c, t)
PROOF
<1>. USE Names
<1>a. TypeOK /\ Shape /\ pc[c] \in Ops /\ call[c] = NoCall
  BY DEF IInv, Issue
<1>b. adds[c] \subseteq Strikes /\ removes[c] \subseteq Strikes /\ sock \in 0..MaxSockets
  BY <1>a DEF TypeOK
<1>1. TypeOf(pc[c]) \in DataTypes /\ Made(c).syms \subseteq Strikes
  BY <1>b DEF TypeOf, DataTypes, Made
<1>2. sock # 0 => Made(c) \in Calls /\ Made(c) # NoCall
  <2>1. sock # 0 => sock \in 1..MaxSockets
    BY <1>b, ConstantsAssumption
  <2>. QED  BY <1>b, <1>1, <2>1, NoCallAssumption DEF Made, Calls
<1>3. call' = IF sock = 0 \/ Made(c).syms = {} THEN call
              ELSE [call EXCEPT ![c] = Made(c)]
  BY DEF Issue, Made
<1>4. subs' = [subs EXCEPT ![TypeOf(pc[c])] =
                 IF pc[c] \in Unsubscribes THEN @ \ removes[c] ELSE @ \union adds[c]]
  BY DEF Issue
<1>5. pc' = [pc EXCEPT ![c] = After(c, pc[c])] /\ pc'[c] = After(c, pc[c])
  BY <1>a DEF Issue, TypeOK
<1>6. pc'[c] \in Ops \union {"idle"} /\ (c = "boot" => pc'[c] \in {"sub greeks", "idle"})
  BY <1>a, <1>5 DEF After, Ops, Unsubscribes, Subscribes, Shape
<1>7. IF pc'[c] = "idle"
      THEN adds' = [adds EXCEPT ![c] = {}] /\ removes' = [removes EXCEPT ![c] = {}]
      ELSE adds' = adds /\ removes' = removes
  BY DEF Issue
<1>8. ASSUME NEW t \in DataTypes PROVE Ahead(c, t)' = Ahead(c, t)
  <2>. DEFINE R == removes[c]
              A == adds[c]
              S == subs[t]
  <2>1. subs'[t] = IF t # TypeOf(pc[c]) THEN S
                   ELSE IF pc[c] \in Unsubscribes THEN S \ R ELSE S \union A
    BY <1>a, <1>4 DEF TypeOK
  <2>2. pc'[c] # "idle" => adds'[c] = A /\ removes'[c] = R
    BY <1>7
  <2>3. t = "orderbook" \/ t = "greeks"
    BY DEF DataTypes
  <2>4. CASE c = "boot"
    <3>1. pc[c] \in {"sub orderbook", "sub greeks"}
      BY <1>a, <2>4 DEF Shape, Ops, Unsubscribes, Subscribes
    <3>2. CASE pc[c] = "sub orderbook"
      <4>1. pc'[c] = "sub greeks"
        BY <1>5, <2>4, <3>2 DEF After
      <4>. QED  BY <2>1, <2>2, <2>3, <2>4, <3>2, <4>1 
                DEF Ahead, StillSubs, StillUnsubs, TypeOf, Unsubscribes
    <3>3. CASE pc[c] = "sub greeks"
      <4>1. pc'[c] = "idle"
        BY <1>5, <2>4, <3>3 DEF After
      <4>. QED  BY <2>1, <2>3, <2>4, <3>3, <4>1 
                DEF Ahead, StillSubs, StillUnsubs, TypeOf, Unsubscribes
    <3>. QED  BY <3>1, <3>2, <3>3
  <2>5. CASE c # "boot"
    <3>1. CASE pc[c] = "unsub greeks"
      <4>1. pc'[c] = "unsub orderbook"
        BY <1>5, <2>5, <3>1 DEF After
      <4>. QED  BY <2>1, <2>2, <2>3, <2>5, <3>1, <4>1 
                DEF Ahead, StillSubs, StillUnsubs, TypeOf, Unsubscribes
    <3>2. CASE pc[c] = "unsub orderbook"
      <4>1. pc'[c] = "sub greeks"
        BY <1>5, <2>5, <3>2 DEF After
      <4>. QED  BY <2>1, <2>2, <2>3, <2>5, <3>2, <4>1 
                DEF Ahead, StillSubs, StillUnsubs, TypeOf, Unsubscribes
    <3>3. CASE pc[c] = "sub greeks"
      <4>1. pc'[c] = "sub orderbook"
        BY <1>5, <2>5, <3>3 DEF After
      <4>. QED  BY <2>1, <2>2, <2>3, <2>5, <3>3, <4>1 
                DEF Ahead, StillSubs, StillUnsubs, TypeOf, Unsubscribes
    <3>4. CASE pc[c] = "sub orderbook"
      <4>1. pc'[c] = "idle"
        BY <1>5, <2>5, <3>4 DEF After
      <4>. QED  BY <2>1, <2>3, <2>5, <3>4, <4>1 
                DEF Ahead, StillSubs, StillUnsubs, TypeOf, Unsubscribes
    <3>. QED  BY <1>a, <3>1, <3>2, <3>3, <3>4 DEF Ops, Unsubscribes, Subscribes
  <2>. QED  BY <2>4, <2>5
<1>. QED  BY <1>a, <1>1, <1>2, <1>3, <1>4, <1>5, <1>6, <1>7, <1>8

LEMMA IssueInv == ASSUME NEW c \in Issuers PROVE IInv /\ Issue(c) => IInv'
PROOF
<1>. SUFFICES ASSUME IInv, Issue(c) PROVE IInv'
  OBVIOUS
<1>. USE Names
<1>. DEFINE t0 == TypeOf(pc[c])
<1>a. TypeOK /\ Shape /\ BeforeBoot
  BY DEF IInv
<1>b. /\ pc[c] \in Ops /\ call[c] = NoCall /\ AtWork(c)
      /\ t0 \in DataTypes /\ Made(c).syms \subseteq Strikes
      /\ sock # 0 => Made(c) \in Calls /\ Made(c) # NoCall
      /\ call' = IF sock = 0 \/ Made(c).syms = {} THEN call
                 ELSE [call EXCEPT ![c] = Made(c)]
      /\ subs' = [subs EXCEPT ![t0] =
                    IF pc[c] \in Unsubscribes THEN @ \ removes[c] ELSE @ \union adds[c]]
      /\ pc' = [pc EXCEPT ![c] = After(c, pc[c])]
      /\ pc'[c] \in Ops \union {"idle"} /\ (c = "boot" => pc'[c] \in {"sub greeks", "idle"})
      /\ IF pc'[c] = "idle"
         THEN adds' = [adds EXCEPT ![c] = {}] /\ removes' = [removes EXCEPT ![c] = {}]
         ELSE adds' = adds /\ removes' = removes
      /\ \A t \in DataTypes : Ahead(c, t)' = Ahead(c, t)
  BY IssueEffect DEF AtWork
<1>c. UNCHANGED << atm, tokens, sock, created, link, wire, snap, left, indexOn, crossed,
                   tangled, refused >>
  BY DEF Issue
<1>d. /\ \A d \in Appliers : d # c => pc'[d] = pc[d] /\ call'[d] = call[d]
      /\ \A d \in Appliers : d # c => AtWork(d)' = AtWork(d)
      /\ call'[c] = NoCall \/ (call'[c] = Made(c) /\ sock # 0)
      /\ sock # 0 /\ Made(c).syms # {} => call'[c] = Made(c)
  <2>1. \A d \in Appliers : d # c => pc'[d] = pc[d] /\ call'[d] = call[d]
    BY <1>a, <1>b DEF TypeOK
  <2>. QED  BY <1>a, <1>b, <1>c, <2>1 DEF TypeOK, AtWork
<1>e. /\ subs'[t0] = IF pc[c] \in Unsubscribes THEN subs[t0] \ removes[c]
                     ELSE subs[t0] \union adds[c]
      /\ \A t \in DataTypes : t # t0 => subs'[t] = subs[t]
  BY <1>a, <1>b DEF TypeOK
<1>f. /\ Made(c).op = (IF pc[c] \in Unsubscribes THEN "unsub" ELSE "sub")
      /\ Made(c).syms = (IF pc[c] \in Unsubscribes THEN removes[c] ELSE adds[c])
      /\ Made(c).type = t0 /\ Made(c).sock = sock
  BY DEF Made
<1>. HIDE DEF t0
<1>1. TypeOK'
  <2>1. call' \in [Appliers -> Calls \union {NoCall}]
    BY <1>a, <1>b DEF TypeOK
  <2>2. pc' \in [Appliers -> Ops \union {"off", "idle"}]
    <3>1. After(c, pc[c]) = pc'[c]
      BY <1>a, <1>b DEF TypeOK
    <3>. QED  BY <1>a, <1>b, <3>1 DEF TypeOK
  <2>3. adds' \in [Issuers -> SUBSET Strikes] /\ removes' \in [Issuers -> SUBSET Strikes]
    BY <1>a, <1>b DEF TypeOK
  <2>4. subs' \in [DataTypes -> SUBSET Strikes]
    BY <1>a, <1>b DEF TypeOK
  <2>. QED  BY <1>a, <1>c, <2>1, <2>2, <2>3, <2>4 DEF TypeOK
<1>2. Shape'
  <2>1. removes'["boot"] = {}
    BY <1>a, <1>b DEF Shape, TypeOK
  <2>2. /\ pc'["rebuild"] = "idle" /\ call'["rebuild"] = call["rebuild"]
        /\ pc'["boot"] \in {"off", "sub orderbook", "sub greeks", "idle"}
        /\ \A t \in Tasks : pc'[t] # "off"
    <3>1. \A t \in Tasks : pc'[t] # "off"
      BY <1>a, <1>b, <1>d DEF Shape, Ops, Unsubscribes, Subscribes
    <3>. QED  BY <3>1, <1>a, <1>b, <1>d DEF Shape
  <2>. QED  BY <1>a, <1>c, <2>1, <2>2 DEF Shape
<1>3. BeforeBoot'
  <2>1. pc'["boot"] # "off"
    BY <1>a, <1>b, <1>d DEF BeforeBoot, Ops, Unsubscribes, Subscribes
  <2>. QED  BY <2>1 DEF BeforeBoot
<1>4. ASSUME ~crossed' PROVE AloneIssuer' /\ Heading' /\ AtRest' /\ Dropping' /\ Told'
  <2>a. AloneIssuer /\ Heading /\ AtRest /\ Dropping /\ Told
    BY <1>4, <1>c DEF IInv
  <2>b. \A d \in Issuers : d # c => ~AtWork(d) /\ pc[d] \notin Ops /\ call[d] = NoCall
    BY <2>a, <1>b DEF AloneIssuer, AtWork
  <2>1. AloneIssuer'
    BY <2>b, <1>d DEF AloneIssuer
  <2>2. Heading'
    BY <2>a, <2>b, <1>b, <1>c, <1>d DEF Heading
  <2>3. AtRest'
    <3>. SUFFICES ASSUME pc'[c] \notin Ops, NEW t \in DataTypes PROVE subs'[t] = tokens
      BY <1>c DEF AtRest
    <3>1. Ahead(c, t)' = tokens
      BY <2>a, <1>b DEF Heading
    <3>2. Ahead(c, t)' = subs'[t] \ {}
      BY <1>b DEF Ahead, StillSubs, StillUnsubs, Ops, Unsubscribes, Subscribes
    <3>. QED  BY <3>1, <3>2
  <2>4. Dropping'
    <3>1. \A d \in Issuers : d # c => pc'[d] \notin Ops /\ call'[d] = NoCall
      BY <2>b, <1>d
    <3>2. pc'[c] \in Ops => removes'[c] \intersect tokens' = {}
      BY <2>a, <1>b, <1>c DEF Dropping, Ops, Unsubscribes, Subscribes
    <3>3. (call'[c] # NoCall /\ call'[c].op = "unsub")
             => call'[c].syms \intersect (tokens' \union subs'[call'[c].type]) = {}
      <4>. SUFFICES ASSUME call'[c] # NoCall, call'[c].op = "unsub"
                    PROVE  call'[c].syms \intersect (tokens \union subs'[call'[c].type]) = {}
        BY <1>c
      <4>1. call'[c] = Made(c)
        BY <1>d
      <4>2. pc[c] \in Unsubscribes /\ call'[c].syms = removes[c] /\ call'[c].type = t0
        BY <4>1, <1>f
      <4>3. subs'[t0] = subs[t0] \ removes[c]
        BY <4>2, <1>e
      <4>4. removes[c] \intersect tokens = {}
        BY <2>a, <1>b DEF Dropping
      <4>. QED  BY <4>2, <4>3, <4>4
    <3>. QED  BY <3>1, <3>2, <3>3 DEF Dropping
  <2>5. Told'
    <3>. SUFFICES ASSUME link = "open", ~refused, NEW t \in DataTypes, NEW s \in subs'[t]
                  PROVE  s \in wire[t] \/ (t \in left /\ s \in snap[t]) 
                         \/ OnItsWay("sub", t, s)'
      BY <1>c DEF Told
    <3>1. sock # 0
      BY <1>a DEF Shape
    <3>2. CASE s \in subs[t]
      <4>1. OnItsWay("sub", t, s) => OnItsWay("sub", t, s)'
        BY <1>b, <1>c, <1>d DEF OnItsWay
      <4>. QED  BY <3>2, <4>1, <2>a DEF Told
    <3>3. CASE s \notin subs[t]
      <4>1. t = t0 /\ pc[c] \notin Unsubscribes /\ s \in adds[c]
        BY <3>3, <1>e
      <4>2. call'[c] = Made(c) /\ Made(c) # NoCall
        BY <4>1, <3>1, <1>b, <1>d, <1>f
      <4>. QED  BY <4>1, <4>2, <1>c, <1>f DEF OnItsWay
    <3>. QED  BY <3>2, <3>3
  <2>. QED  BY <2>1, <2>2, <2>3, <2>4, <2>5
<1>5. ASSUME ~tangled' PROVE AloneApplier' /\ Exact'
  <2>a. AloneApplier /\ Exact
    BY <1>5, <1>c DEF IInv
  <2>b. \A d \in Appliers : d # c => ~AtWork(d) /\ call[d] = NoCall
    BY <2>a, <1>b DEF AloneApplier, AtWork
  <2>c. left = {}
    BY <2>b DEF AtWork
  <2>1. AloneApplier'
    BY <2>b, <1>d DEF AloneApplier
  <2>2. ASSUME link = "open", ~refused, NEW t \in DataTypes, NEW s \in wire[t], s \notin subs'[t]
        PROVE  OnItsWay("unsub", t, s)'
    <3>1. s \in subs[t]
      BY <2>2, <2>a, <2>b, <1>b DEF Exact, OnItsWay
    <3>2. t = t0 /\ pc[c] \in Unsubscribes /\ s \in removes[c]
      BY <2>2, <3>1, <1>e
    <3>3. sock # 0
      BY <1>a, <2>2 DEF Shape
    <3>4. call'[c] = Made(c) /\ Made(c) # NoCall
      BY <3>2, <3>3, <1>b, <1>d, <1>f
    <3>. QED  BY <3>2, <3>4, <1>c, <1>f DEF OnItsWay
  <2>3. \A d \in Appliers : (call'[d] # NoCall /\ call'[d].op = "sub")
                               => call'[d].syms \subseteq subs'[call'[d].type]
    BY <2>b, <1>d, <1>e, <1>f
  <2>. QED  BY <2>1, <2>2, <2>3, <2>c, <1>c DEF Exact
<1>. QED  BY <1>1, <1>2, <1>3, <1>4, <1>5 DEF IInv

LEMMA ResendInv == ASSUME NEW t \in DataTypes PROVE IInv /\ Resend(t) => IInv'
PROOF
<1>. SUFFICES ASSUME IInv, Resend(t) PROVE IInv'
  OBVIOUS
<1>. USE Names
<1>. DEFINE k == [op |-> "sub", type |-> t, syms |-> snap[t], sock |-> sock]
<1>a. /\ TypeOK /\ Shape /\ t \in left /\ call["rebuild"] = NoCall
      /\ left' = left \ {t} /\ snap' = [snap EXCEPT ![t] = {}]
      /\ call' = IF sock = 0 \/ snap[t] = {} THEN call ELSE [call EXCEPT !["rebuild"] = k]
      /\ UNCHANGED << atm, tokens, subs, sock, created, link, wire, pc, adds, removes,
                      indexOn, crossed, tangled, refused >>
  BY DEF IInv, Resend
<1>b. snap[t] \subseteq Strikes /\ sock \in 0..MaxSockets
  BY <1>a DEF TypeOK
<1>c. sock # 0 => k \in Calls /\ k # NoCall
  <2>1. sock # 0 => sock \in 1..MaxSockets
    BY <1>b, ConstantsAssumption
  <2>. QED  BY <1>b, <2>1, NoCallAssumption DEF Calls
<1>d. /\ k.op = "sub" /\ k.type = t /\ k.syms = snap[t] /\ k.sock = sock
      /\ \A c \in Issuers : call'[c] = call[c]
      /\ call'["rebuild"] = NoCall \/ (call'["rebuild"] = k /\ sock # 0)
      /\ sock # 0 /\ snap[t] # {} => call'["rebuild"] = k
  BY <1>a DEF TypeOK
<1>e. /\ snap'[t] = {} /\ \A x \in DataTypes : x # t => snap'[x] = snap[x]
  BY <1>a DEF TypeOK
<1>1. TypeOK'
  <2>1. call' \in [Appliers -> Calls \union {NoCall}]
    BY <1>a, <1>c DEF TypeOK
  <2>2. snap' \in [DataTypes -> SUBSET Strikes] /\ left' \subseteq DataTypes
    BY <1>a DEF TypeOK
  <2>. QED  BY <1>a, <2>1, <2>2 DEF TypeOK
<1>. HIDE DEF k
<1>2. Shape'
  BY <1>a, <1>d DEF Shape
<1>3. BeforeBoot' /\ (~crossed' => AloneIssuer' /\ Heading' /\ AtRest' /\ Dropping')
  BY <1>a, <1>2, <1>d, IssuersStay
<1>4. ASSUME ~crossed' PROVE Told'
  <2>1. Told
    BY <1>4, <1>a DEF IInv
  <2>. SUFFICES ASSUME link = "open", ~refused, NEW x \in DataTypes, NEW s \in subs[x]
                PROVE  s \in wire[x] \/ (x \in left' /\ s \in snap'[x]) 
                       \/ OnItsWay("sub", x, s)'
    BY <1>a DEF Told
  <2>2. sock # 0
    BY <1>a DEF Shape
  <2>3. OnItsWay("sub", x, s) => OnItsWay("sub", x, s)'
    BY <1>a, <1>d DEF OnItsWay
  <2>4. x = t /\ s \in snap[t] => OnItsWay("sub", x, s)'
    <3>1. s \in snap[t] => call'["rebuild"] = k /\ k # NoCall
      BY <2>2, <1>c, <1>d
    <3>. QED  BY <3>1, <1>a, <1>d DEF OnItsWay
  <2>. QED  BY <2>1, <2>3, <2>4, <1>a, <1>e DEF Told
<1>5. ASSUME ~tangled' PROVE AloneApplier' /\ Exact'
  <2>a. AloneApplier /\ Exact
    BY <1>5, <1>a DEF IInv
  <2>b. AtWork("rebuild") /\ \A c \in Issuers : ~AtWork(c) /\ call[c] = NoCall
    BY <2>a, <1>a DEF AloneApplier, AtWork
  <2>1. AloneApplier'
    <3>1. \A c \in Issuers : ~AtWork(c)'
      BY <2>b, <1>a, <1>d DEF AtWork
    <3>. QED  BY <3>1 DEF AloneApplier
  <2>2. \A x \in DataTypes, s \in Strikes : ~OnItsWay("unsub", x, s)
    BY <2>b, <1>a DEF OnItsWay
  <2>3. \A x \in DataTypes : wire[x] \subseteq Strikes
    BY <1>a DEF TypeOK
  <2>4. k.syms \subseteq subs[t] /\ \A x \in left' : snap'[x] \subseteq subs[x]
    <3>1. \A x \in left' : x \in DataTypes /\ x \in left /\ x # t
      BY <1>a DEF TypeOK
    <3>. QED  BY <3>1, <2>a, <1>a, <1>d, <1>e DEF Exact
  <2>5. \A c \in Appliers : (call'[c] # NoCall /\ call'[c].op = "sub")
                               => call'[c].syms \subseteq subs'[call'[c].type]
    BY <2>b, <2>4, <1>a, <1>d
  <2>. QED  BY <2>1, <2>2, <2>3, <2>4, <2>5, <2>a, <1>a DEF Exact
<1>. QED  BY <1>1, <1>2, <1>3, <1>4, <1>5 DEF IInv

LEMMA CallReturnsInv == ASSUME NEW c \in Appliers PROVE IInv /\ CallReturns(c) => IInv'
PROOF
<1>. SUFFICES ASSUME IInv, CallReturns(c) PROVE IInv'
  OBVIOUS
<1>. USE Names
<1>. DEFINE k == call[c]
<1>a. /\ TypeOK /\ Shape /\ BeforeBoot /\ k # NoCall /\ k \in Calls
      /\ call' = [call EXCEPT ![c] = NoCall]
      /\ UNCHANGED << atm, tokens, subs, sock, created, link, pc, adds, removes, snap, left,
                      crossed, tangled >>
  BY DEF IInv, CallReturns, TypeOK
<1>b. /\ call'[c] = NoCall
      /\ \A d \in Appliers : d # c => call'[d] = call[d]
  BY <1>a DEF TypeOK
<1>c. /\ k.op # "index" => k.op \in {"sub", "unsub"} /\ k.type \in DataTypes /\ k.syms \subseteq Strikes
      /\ c = "rebuild" => k.op = "sub"
  BY <1>a, CallFields DEF Shape
<1>d. \/ /\ k.sock = sock /\ link = "open" /\ refused' = refused
         /\ indexOn' = (indexOn \/ k.op = "index")
         /\ wire' = CASE k.op = "index" -> wire
                      [] k.op = "sub"   -> [wire EXCEPT ![k.type] = @ \union k.syms]
                      [] OTHER          -> [wire EXCEPT ![k.type] = @ \ k.syms]
      \/ /\ refused' = (refused \/ k.sock = sock) /\ wire' = wire /\ indexOn' = indexOn
  BY DEF CallReturns
<1>e. /\ k.op = "index" => wire' = wire
      /\ (wire' # wire /\ k.op = "sub") => 
           /\ wire'[k.type] = wire[k.type] \union k.syms
           /\ \A t \in DataTypes : t # k.type => wire'[t] = wire[t]
      /\ (wire' # wire /\ k.op = "unsub") => 
           /\ wire'[k.type] = wire[k.type] \ k.syms
           /\ \A t \in DataTypes : t # k.type => wire'[t] = wire[t]
      /\ wire' \in [DataTypes -> SUBSET Strikes]
  BY <1>a, <1>c, <1>d DEF TypeOK
<1>f. ~refused' => /\ ~refused
                   /\ k.sock = sock /\ k.op = "sub" /\ link = "open" => k.syms \subseteq wire'[k.type]
                   /\ k.sock = sock /\ k.op = "unsub" /\ link = "open" 
                        => k.syms \intersect wire'[k.type] = {}
  <2>1. ~refused' => \/ ~refused /\ k.sock # sock
                     \/ ~refused /\ k.op = "index"
                     \/ ~refused /\ k.op = "sub" /\ wire' = [wire EXCEPT ![k.type] = @ \union k.syms]
                     \/ ~refused /\ k.op = "unsub" /\ wire' = [wire EXCEPT ![k.type] = @ \ k.syms]
    BY <1>a, <1>c, <1>d DEF TypeOK
  <2>2. wire \in [DataTypes -> SUBSET Strikes]
    BY <1>a DEF TypeOK
  <2>. HIDE DEF k
  <2>. QED  BY <1>c, <2>1, <2>2
<1>1. TypeOK'
  <2>1. call' \in [Appliers -> Calls \union {NoCall}]
    BY <1>a DEF TypeOK
  <2>2. refused' \in BOOLEAN /\ indexOn' \in BOOLEAN
    BY <1>a, <1>d DEF TypeOK
  <2>. QED  BY <1>a, <1>e, <2>1, <2>2 DEF TypeOK
<1>2. Shape' /\ BeforeBoot'
  <2>1. link # "open" => wire' = wire
    BY <1>d
  <2>2. Shape'
    BY <1>a, <1>b, <2>1 DEF Shape
  <2>3. pc["boot"] = "off" => ~indexOn'
    <3>1. pc["boot"] = "off" => c = "rebuild" /\ ~indexOn
      BY <1>a DEF BeforeBoot
    <3>. QED  BY <3>1, <1>a, <1>c, <1>d DEF TypeOK
  <2>. QED  BY <2>2, <2>3, <1>a, <1>b DEF BeforeBoot
<1>3. \A d \in Appliers : AtWork(d)' => AtWork(d)
  BY <1>a, <1>b DEF AtWork
<1>4. ASSUME ~crossed' PROVE AloneIssuer' /\ Heading' /\ AtRest' /\ Dropping' /\ Told'
  <2>a. AloneIssuer /\ Heading /\ AtRest /\ Dropping /\ Told
    BY <1>4, <1>a DEF IInv
  <2>1. AloneIssuer'
    BY <2>a, <1>3 DEF AloneIssuer
  <2>2. \A d, t : Ahead(d, t)' = Ahead(d, t)
    BY <1>a DEF Ahead, StillSubs, StillUnsubs
  <2>3. Heading' /\ AtRest'
    BY <2>a, <2>2, <1>a DEF Heading, AtRest
  <2>4. Dropping'
    BY <2>a, <1>a, <1>b DEF Dropping
  <2>5. Told'
    <3>. SUFFICES ASSUME link = "open", ~refused', NEW t \in DataTypes, NEW s \in subs[t]
                  PROVE  s \in wire'[t] \/ (t \in left /\ s \in snap[t]) 
                         \/ OnItsWay("sub", t, s)'
      BY <1>a DEF Told
    <3>1. CASE s \in wire[t]
      <4>1. ~(k.op = "unsub" /\ k.type = t /\ s \in k.syms)
        <5>1. k.op = "unsub" => c \in Issuers /\ k.syms \intersect subs[k.type] = {}
          BY <2>a, <1>a, <1>c DEF Dropping
        <5>. QED  BY <5>1
      <4>. QED  BY <3>1, <4>1, <1>c, <1>e
    <3>2. CASE OnItsWay("sub", t, s)
      <4>1. PICK d \in Appliers : /\ call[d] # NoCall /\ call[d].op = "sub"
                                  /\ call[d].type = t /\ call[d].sock = sock /\ s \in call[d].syms
        BY <3>2 DEF OnItsWay
      <4>2. CASE d = c
        BY <4>1, <4>2, <1>f
      <4>3. CASE d # c
        BY <4>1, <4>3, <1>a, <1>b DEF OnItsWay
      <4>. QED  BY <4>2, <4>3
    <3>. QED  BY <3>1, <3>2, <2>a, <1>f DEF Told
  <2>. QED  BY <2>1, <2>3, <2>4, <2>5
<1>5. ASSUME ~tangled' PROVE AloneApplier' /\ Exact'
  <2>a. AloneApplier /\ Exact
    BY <1>5, <1>a DEF IInv
  <2>1. AloneApplier'
    BY <2>a, <1>3 DEF AloneApplier
  <2>2. ASSUME link = "open", ~refused', NEW t \in DataTypes, NEW s \in wire'[t], s \notin subs[t]
        PROVE  OnItsWay("unsub", t, s)'
    <3>1. s \in wire[t]
      <4>1. k.op = "sub" => k.syms \subseteq subs[k.type]
        BY <2>a, <1>a DEF Exact
      <4>. QED  BY <2>2, <4>1, <1>c, <1>e
    <3>2. OnItsWay("unsub", t, s)
      BY <3>1, <2>2, <2>a, <1>f DEF Exact
    <3>3. PICK d \in Appliers : /\ call[d] # NoCall /\ call[d].op = "unsub"
                                /\ call[d].type = t /\ call[d].sock = sock /\ s \in call[d].syms
      BY <3>2 DEF OnItsWay
    <3>4. d # c
      BY <3>3, <2>2, <1>f
    <3>. QED  BY <3>3, <3>4, <1>a, <1>b DEF OnItsWay
  <2>3. \A d \in Appliers : (call'[d] # NoCall /\ call'[d].op = "sub")
                               => call'[d].syms \subseteq subs'[call'[d].type]
    BY <2>a, <1>a, <1>b DEF Exact
  <2>. QED  BY <2>1, <2>2, <2>3, <2>a, <1>a DEF Exact
<1>. QED  BY <1>1, <1>2, <1>4, <1>5 DEF IInv

(***************************************************************************)
(* The theorems.                                                           *)
(***************************************************************************)

\* A step, or none, keeps the invariant.
LEMMA NextInv == IInv /\ [Next]_vars => IInv'
PROOF
<1>. SUFFICES ASSUME IInv, [Next]_vars PROVE IInv'
  OBVIOUS
<1>1. CASE Boot
  BY <1>1, BootInv
<1>2. CASE \E a \in Strikes : AtmMoves(a)
  BY <1>2, AtmMovesInv
<1>3. CASE \E c \in Issuers : Issue(c)
  BY <1>3, IssueInv
<1>4. CASE \E t \in DataTypes : Resend(t)
  BY <1>4, ResendInv
<1>5. CASE \E c \in Appliers : CallReturns(c)
  BY <1>5, CallReturnsInv
<1>6. CASE ConnectionLost
  BY <1>6, ConnectionLostInv
<1>7. CASE Teardown
  BY <1>7, TeardownInv
<1>8. CASE NewSocket
  BY <1>8, NewSocketInv
<1>9. CASE Connected
  BY <1>9, ConnectedInv
<1>10. CASE UNCHANGED vars
  <2>1. TypeOK' /\ Shape' /\ BeforeBoot'
    BY <1>10 DEF IInv, vars, TypeOK, Shape, BeforeBoot
  <2>2. ASSUME ~crossed' PROVE AloneIssuer' /\ Heading' /\ AtRest' /\ Dropping' /\ Told'
    <3>1. AloneIssuer /\ Heading /\ AtRest /\ Dropping /\ Told
      BY <1>10, <2>2 DEF IInv, vars
    <3>2. AloneIssuer'
      BY <1>10, <3>1 DEF vars, AloneIssuer, AtWork
    <3>3. \A c, t : Ahead(c, t)' = Ahead(c, t)
      BY <1>10 DEF vars, Ahead, StillSubs, StillUnsubs
    <3>4. Heading' /\ AtRest'
      BY <1>10, <3>1, <3>3 DEF vars, Heading, AtRest
    <3>5. Dropping' /\ Told'
      BY <1>10, <3>1 DEF vars, Dropping, Told, OnItsWay
    <3>. QED  BY <3>2, <3>4, <3>5
  <2>3. ASSUME ~tangled' PROVE AloneApplier' /\ Exact'
    BY <1>10, <2>3 DEF IInv, vars, AloneApplier, AtWork, Exact, OnItsWay
  <2>. QED  BY <2>1, <2>2, <2>3 DEF IInv
<1>. QED  BY <1>1, <1>2, <1>3, <1>4, <1>5, <1>6, <1>7, <1>8, <1>9, <1>10 DEF Next

\* Where issuers lead the registry and what is under way to the server, for any
\* strikes, radius, tasks and sockets.
THEOREM SubscriptionsInvariant == Spec => []IInv
PROOF
<1>. QED  BY InitInv, NextInv, PTL DEF Spec

\* When no diff is in flight and none overlapped another, the registry is the window
\* of the current ATM: update_atm and _apply_option_diff agree across calls that
\* raise, lost connections and reconnects.
THEOREM RegistryIsWindow == Spec => []RegistryFollowsAtm
PROOF
<1>1. IInv => RegistryFollowsAtm
  <2>. SUFFICES ASSUME IInv, Settled, ~crossed, pc["boot"] = "idle"
                PROVE  \A t \in DataTypes : subs[t] = tokens
    BY DEF RegistryFollowsAtm
  <2>. QED  BY DEF IInv, AtRest, Settled, AtWork
<1>. QED  BY <1>1, SubscriptionsInvariant, PTL

\* When nobody is at work and no call was refused, the server sends all that the
\* registry of WebSocketManager holds, and no more if nothing overlapped.
THEOREM WireIsRegistry == Spec => []WireFollowsRegistry
PROOF
<1>1. IInv => WireFollowsRegistry
  <2>. SUFFICES ASSUME IInv, Quiet, ~crossed, link = "open", ~refused, NEW t \in DataTypes
                PROVE  subs[t] \subseteq wire[t] /\ (~tangled => wire[t] = subs[t])
    BY DEF WireFollowsRegistry
  <2>1. \A c \in Appliers : call[c] = NoCall
    BY DEF Quiet, AtWork
  <2>2. left = {}
    BY Names DEF Quiet, AtWork
  <2>3. subs[t] \subseteq wire[t]
    BY <2>1, <2>2 DEF IInv, Told, OnItsWay
  <2>4. ~tangled => wire[t] \subseteq subs[t]
    BY <2>1 DEF IInv, Exact, OnItsWay
  <2>. QED  BY <2>3, <2>4
<1>. QED  BY <1>1, SubscriptionsInvariant, PTL

\* No step takes a token of the current window away from the server while the
\* connection lasts: a diff of _apply_option_diff never silences a strike that stays.
THEOREM WindowIsNotSilenced == Spec => WindowKeepsTicking
PROOF
<1>1. IInv /\ [Next]_vars =>
        [(link = "open" /\ link' = "open" /\ ~crossed')
           => \A t \in DataTypes : (wire[t] \ wire'[t]) \intersect tokens = {}]_vars
  <2>. SUFFICES ASSUME IInv, [Next]_vars, link = "open", link' = "open", ~crossed',
                       NEW t \in DataTypes
                PROVE  (wire[t] \ wire'[t]) \intersect tokens = {}
    OBVIOUS
  <2>1. CASE \E c \in Appliers : CallReturns(c)
    <3>1. PICK c \in Appliers : CallReturns(c)
      BY <2>1
    <3>2. TypeOK /\ Shape /\ Dropping /\ call[c] # NoCall /\ call[c] \in Calls
      BY <3>1 DEF IInv, CallReturns, TypeOK
    <3>3. \/ wire' = wire
          \/ call[c].op = "sub" /\ wire' = [wire EXCEPT ![call[c].type] = @ \union call[c].syms]
          \/ /\ call[c].op = "unsub"
             /\ wire' = [wire EXCEPT ![call[c].type] = @ \ call[c].syms]
      BY <3>1, <3>2, CallFields DEF CallReturns
    <3>4. call[c].op = "unsub" => call[c].syms \intersect tokens = {}
      BY <3>2, Names DEF Dropping, Shape
    <3>. QED  BY <3>2, <3>3, <3>4 DEF TypeOK
  <2>2. CASE ~\E c \in Appliers : CallReturns(c)
    <3>1. wire' = wire
      BY <2>2 DEF Next, vars, Boot, AtmMoves, Issue, Resend, ConnectionLost, Teardown,
                  NewSocket, Connected
    <3>. QED  BY <3>1
  <2>. QED  BY <2>1, <2>2
<1>. QED  BY <1>1, SubscriptionsInvariant, PTL DEF Spec, WindowKeepsTicking

=============================================================================
