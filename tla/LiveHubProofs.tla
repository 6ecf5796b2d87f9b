---------------------------- MODULE LiveHubProofs ----------------------------
(***************************************************************************)
(* Proofs about LiveHub, for any clients, any length of the history and    *)
(* any number of broadcasts: nothing falls between the replay of a         *)
(* connection and the broadcasts (NothingMissed), and no client goes back  *)
(* to an older open candle or option chain (NeverOutdated).                *)
(***************************************************************************)
EXTENDS LiveHub, SequenceTheorems, TLAPS

Sends    == [by : Broadcasters \union Clients, kind : Kinds, n : Nat]
Messages == [kind : Kinds \union {"none"}, n : Nat, left : SUBSET Clients, dead : SUBSET Clients]
Views    == [bars  : SUBSET (1..MaxMessages),
             open  : 0..MaxMessages,
             chain : 0..MaxMessages]

(***************************************************************************)
(* The inductive invariant.                                                *)
(***************************************************************************)

\* The sends in a line.
In(q) == {q[j] : j \in DOMAIN q}

\* No party has two sends in a line.
AtMostOne(q) == \A i, j \in DOMAIN q : q[i].by = q[j].by => i = j

\* Of two open candles or two option chains in a line, the one in front is no newer.
InTurn(q) ==
  \A i, j \in DOMAIN q :
    (i < j /\ q[i].kind = q[j].kind /\ q[i].kind \in {"open", "chain"}) => q[i].n <= q[j].n

Carries(q, b) == \E s \in In(q) : s.by = b

\* The types, with the lines as sequences.
Types ==
  /\ bars \in 0..MaxMessages /\ opens \in 0..MaxMessages /\ chains \in 0..MaxMessages
  /\ clients \subseteq Clients /\ broken \subseteq Clients /\ aborted \subseteq Clients
  /\ lock \in [Clients -> Seq(Sends)]
  /\ sending \in [Broadcasters -> Messages]
  /\ handler \in [Clients -> {"new", "loop", "closing", "off"} \union Kinds]
  /\ pos \in [Clients -> 0..MaxMessages] /\ seen \in [Clients -> 0..MaxMessages]
  /\ shown \in [Clients -> Views]

\* Each send in a client's line is what its party is sending now, and not older than
\* what the client has.
QueueInv(c) ==
  /\ AtMostOne(lock[c]) /\ InTurn(lock[c])
  /\ \A s \in In(lock[c]) :
       /\ s.by \in Broadcasters \union {c}
       /\ s.by = c => s.kind = handler[c] /\ (s.kind = "bar" => s.n = pos[c])
       /\ s.by # c => s.kind = sending[s.by].kind /\ s.n = sending[s.by].n
       /\ s.kind = "bar" => 1 <= s.n /\ s.n <= bars
       /\ s.kind = "open" => shown[c].open <= s.n /\ s.n <= opens
       /\ s.kind = "chain" => shown[c].chain <= s.n /\ s.n <= chains

Queues == \A c \in Clients : QueueInv(c)

\* A broadcaster is in one line at a time, with the newest message of its kind.
SendingInv ==
  /\ \A b \in Broadcasters : \A c, d \in Clients :
       (Carries(lock[c], b) /\ Carries(lock[d], b)) => c = d
  /\ sending["scheduler"].kind \in {"none", "bar", "open"}
  /\ sending["pipeline"].kind \in {"none", "chain"}
  /\ sending["scheduler"].kind = "bar" => sending["scheduler"].n = bars
  /\ sending["scheduler"].kind = "open" => sending["scheduler"].n = opens
  /\ sending["pipeline"].kind = "chain" => sending["pipeline"].n = chains

Gone(c) == c \in broken \/ handler[c] = "off"

\* Only sends to clients that are gone fail, and no other client is unregistered.
ClientsInv ==
  /\ \A b \in Broadcasters : \A c \in sending[b].dead : Gone(c)
  /\ \A c \in Clients : (~Gone(c) /\ handler[c] # "new") => c \in clients
  /\ \A c \in Clients : shown[c].open <= opens /\ shown[c].chain <= chains

PastHello == {"bar", "open", "chain", "loop", "pong"}
PastBars  == {"open", "chain", "loop", "pong"}
PastOpen  == {"chain", "loop", "pong"}

\* The oldest bar of the history when there are k bars.
First(k) == IF k > HistoryMax THEN k - HistoryMax + 1 ELSE 1

\* The handler has a message of its own in the line of its client.
Replaying(c, kind, n) == \E s \in In(lock[c]) : s.by = c /\ s.kind = kind /\ s.n = n

\* From the oldest bar replayed on, a client has each bar, or it is still in the replay,
\* or it is the one that is being broadcast.
HasBars(c) ==
  handler[c] \in PastHello =>
    \A n \in First(seen[c])..bars :
      \/ n \in shown[c].bars
      \/ n = bars /\ OnItsWay("scheduler", "bar", c)
      \/ handler[c] = "bar" /\ pos[c] <= n /\ n <= seen[c]

\* Once the replay has read the open candle, the client has the current one, or one of
\* the two sends in its line carries it, or the broadcast has not come to it yet.
HasOpen(c) ==
  handler[c] \in PastBars =>
    shown[c].open = opens \/ OnItsWay("scheduler", "open", c) \/ Replaying(c, "open", opens)

\* The same of the option chain.
HasChain(c) ==
  handler[c] \in PastOpen =>
    shown[c].chain = chains \/ OnItsWay("pipeline", "chain", c) \/ Replaying(c, "chain", chains)

ReplayInv ==
  \A c \in Clients \ (broken \union aborted) : HasBars(c) /\ HasOpen(c) /\ HasChain(c)

IInv == Types /\ Queues /\ SendingInv /\ ClientsInv /\ ReplayInv

(***************************************************************************)
(* The line at a lock.                                                     *)
(***************************************************************************)

\* A send that takes its turn is the last of the line.
LEMMA LineGrows ==
  ASSUME NEW q \in Seq(Sends), NEW e \in Sends
  PROVE  /\ Append(q, e) \in Seq(Sends)
         /\ In(Append(q, e)) = In(q) \union {e}
         /\ (AtMostOne(q) /\ ~Carries(q, e.by)) => AtMostOne(Append(q, e))
         /\ (/\ InTurn(q)
             /\ \A s \in In(q) : (s.kind = e.kind /\ e.kind \in {"open", "chain"}) => s.n <= e.n)
              => InTurn(Append(q, e))
<1>. DEFINE p == Append(q, e)  k == Len(q)
<1>1. /\ p \in Seq(Sends) /\ Len(p) = k + 1 /\ k \in Nat
      /\ \A j \in 1..k : p[j] = q[j]
      /\ p[k + 1] = e
  BY AppendProperties, LenProperties
<1>2. DOMAIN q = 1..k /\ DOMAIN p = 1..(k + 1)
  BY <1>1, LenProperties
<1>. HIDE DEF p, k
<1>3. /\ \A j \in DOMAIN p : (j \in DOMAIN q /\ p[j] = q[j]) \/ (j = k + 1 /\ p[j] = e)
      /\ \A j \in DOMAIN q : j \in DOMAIN p /\ j < k + 1
      /\ k + 1 \in DOMAIN p
  BY <1>1, <1>2
<1>4. In(p) = In(q) \union {e}
  BY <1>1, <1>2, <1>3 DEF In
<1>5. ASSUME AtMostOne(q), ~Carries(q, e.by) PROVE AtMostOne(p)
  <2>1. \A j \in DOMAIN q : q[j].by # e.by
    BY <1>5 DEF Carries, In
  <2>. QED BY <1>3, <1>5, <2>1 DEF AtMostOne
<1>6. ASSUME InTurn(q),
             \A s \in In(q) : (s.kind = e.kind /\ e.kind \in {"open", "chain"}) => s.n <= e.n
      PROVE  InTurn(p)
  <2>1. \A j \in DOMAIN q : (q[j].kind = e.kind /\ e.kind \in {"open", "chain"}) => q[j].n <= e.n
    BY <1>6 DEF In
  <2>2. ASSUME NEW i \in DOMAIN p, NEW j \in DOMAIN p, i < j, p[i].kind = p[j].kind,
               p[i].kind \in {"open", "chain"}
        PROVE  p[i].n <= p[j].n
    <3>1. CASE i \in DOMAIN q /\ j \in DOMAIN q
      BY <1>1, <1>2, <1>6, <2>2, <3>1 DEF InTurn
    <3>2. CASE i \in DOMAIN q /\ j = k + 1
      BY <1>1, <1>2, <2>1, <2>2, <3>2
    <3>3. i # k + 1
      BY <1>1, <1>2, <2>2
    <3>. QED BY <1>3, <3>1, <3>2, <3>3
  <2>. QED BY <2>2 DEF InTurn
<1>. QED BY <1>1, <1>4, <1>5, <1>6 DEF p

\* When the send at the head ends, the others stay as they were.
LEMMA LineMoves ==
  ASSUME NEW q \in Seq(Sends), q # << >>, AtMostOne(q), InTurn(q)
  PROVE  /\ Head(q) \in In(q) /\ Head(q) \in Sends /\ Tail(q) \in Seq(Sends)
         /\ In(Tail(q)) = {s \in In(q) : s.by # Head(q).by}
         /\ \A s \in In(q) : s.by = Head(q).by => s = Head(q)
         /\ AtMostOne(Tail(q)) /\ InTurn(Tail(q))
         /\ \A s \in In(Tail(q)) : (s.kind = Head(q).kind /\ s.kind \in {"open", "chain"})
                                     => Head(q).n <= s.n
<1>. DEFINE p == Tail(q)  k == Len(q)  h == Head(q)
<1>1. /\ k \in Nat \ {0} /\ h = q[1] /\ h \in Sends /\ p \in Seq(Sends) /\ Len(p) = k - 1
      /\ \A j \in 1..Len(p) : p[j] = q[j + 1]
  BY HeadTailProperties, EmptySeq
<1>2. DOMAIN q = 1..k /\ DOMAIN p = 1..(k - 1)
  BY <1>1, LenProperties
<1>. HIDE DEF p, k, h
<1>3. /\ 1 \in DOMAIN q
      /\ \A j \in DOMAIN p : j + 1 \in DOMAIN q /\ p[j] = q[j + 1] /\ 1 < j + 1 /\ j \in Nat
      /\ \A j \in DOMAIN q : j = 1 \/ (j - 1 \in DOMAIN p /\ p[j - 1] = q[j])
  BY <1>1, <1>2
<1>4. \A j \in DOMAIN q : q[j].by = h.by => j = 1
  BY <1>1, <1>3 DEF AtMostOne
<1>5. ASSUME NEW s PROVE s \in In(p) <=> s \in In(q) /\ s.by # h.by
  <2>1. ASSUME s \in In(p) PROVE s \in In(q) /\ s.by # h.by
    <3>1. PICK j \in DOMAIN p : s = p[j]
      BY <2>1 DEF In
    <3>2. j + 1 \in DOMAIN q /\ s = q[j + 1] /\ j + 1 # 1
      BY <1>3, <3>1
    <3>. QED BY <1>4, <3>2 DEF In
  <2>2. ASSUME s \in In(q), s.by # h.by PROVE s \in In(p)
    <3>1. PICK j \in DOMAIN q : s = q[j]
      BY <2>2 DEF In
    <3>2. j # 1
      BY <1>1, <2>2, <3>1
    <3>. QED BY <1>3, <3>1, <3>2 DEF In
  <2>. QED BY <2>1, <2>2
<1>6. h \in In(q) /\ \A s \in In(q) : s.by = h.by => s = h
  BY <1>1, <1>3, <1>4 DEF In
<1>7. AtMostOne(p)
  <2>1. ASSUME NEW i \in DOMAIN p, NEW j \in DOMAIN p, p[i].by = p[j].by PROVE i = j
    <3>1. i + 1 = j + 1 /\ i \in Nat /\ j \in Nat
      BY <1>3, <2>1 DEF AtMostOne
    <3>. QED BY <3>1
  <2>. QED BY <2>1 DEF AtMostOne
<1>8. InTurn(p)
  <2>1. ASSUME NEW i \in DOMAIN p, NEW j \in DOMAIN p, i < j, p[i].kind = p[j].kind,
               p[i].kind \in {"open", "chain"}
        PROVE  p[i].n <= p[j].n
    <3>1. i + 1 < j + 1
      BY <1>3, <2>1
    <3>. QED BY <1>3, <2>1, <3>1 DEF InTurn
  <2>. QED BY <2>1 DEF InTurn
<1>9. \A s \in In(p) : (s.kind = h.kind /\ s.kind \in {"open", "chain"}) => h.n <= s.n
  <2>1. ASSUME NEW j \in DOMAIN p, p[j].kind = h.kind, p[j].kind \in {"open", "chain"}
        PROVE  h.n <= p[j].n
    BY <1>1, <1>3, <2>1 DEF InTurn
  <2>. QED BY <2>1 DEF In
<1>10. In(p) = {s \in In(q) : s.by # h.by}
  BY <1>5
<1>. QED BY <1>1, <1>6, <1>7, <1>8, <1>9, <1>10 DEF p, h

(***************************************************************************)
(* The broadcasters.                                                       *)
(***************************************************************************)

LEMMA HubConstants ==
  /\ MaxMessages \in Nat /\ HistoryMax \in Nat /\ HistoryMax > 0
  /\ "scheduler" \in Broadcasters /\ "pipeline" \in Broadcasters
  /\ \A b \in Broadcasters : b \notin Clients /\ (b = "scheduler" \/ b = "pipeline")
  /\ "none" \notin Kinds
BY ConstantsAssumption DEF ConstantsAssumption, Broadcasters, Kinds

\* Where a broadcaster goes on to: the line of one more client, or the end.
LEMMA ProceedEffect ==
  ASSUME Types, NEW b \in Broadcasters, NEW m \in Messages, m.kind \in Kinds,
         NEW locks \in [Clients -> Seq(Sends)], Proceed(b, m, locks)
  PROVE  /\ lock' \in [Clients -> Seq(Sends)] /\ sending' \in [Broadcasters -> Messages]
         /\ clients' \subseteq clients
         /\ \A a \in Broadcasters : a # b => sending'[a] = sending[a]
         /\ \/ /\ lock' = locks /\ sending'[b] = Idle
               /\ m.left \intersect clients = {} /\ clients' = clients \ m.dead
            \/ \E d \in Clients, e \in Sends :
                 /\ d \in m.left /\ clients' = clients
                 /\ e.by = b /\ e.kind = m.kind /\ e.n = m.n
                 /\ lock'[d] = Append(locks[d], e)
                 /\ \A c \in Clients : c # d => lock'[c] = locks[c]
                 /\ sending'[b] \in Messages
                 /\ sending'[b].kind = m.kind /\ sending'[b].n = m.n
                 /\ sending'[b].left = m.left \ {d} /\ sending'[b].dead = m.dead
<1>1. sending \in [Broadcasters -> Messages] /\ clients \subseteq Clients
  BY DEF Types
<1>2. CASE m.left \intersect clients = {}
  <2>1. lock' = locks /\ sending' = [sending EXCEPT ![b] = Idle] /\ clients' = clients \ m.dead
    BY <1>2 DEF Proceed
  <2>2. Idle \in Messages
    BY DEF Idle, Messages
  <2>. QED BY <1>1, <1>2, <2>1, <2>2
<1>3. CASE m.left \intersect clients # {}
  <2>1. PICK d \in m.left \intersect clients :
          /\ lock' = [locks EXCEPT ![d] = Append(@, [by |-> b, kind |-> m.kind, n |-> m.n])]
          /\ sending' = [sending EXCEPT ![b] = [m EXCEPT !.left = @ \ {d}]]
          /\ UNCHANGED clients
    BY <1>3 DEF Proceed, Wait
  <2>. DEFINE e == [by |-> b, kind |-> m.kind, n |-> m.n]  r == [m EXCEPT !.left = @ \ {d}]
  <2>2. e \in Sends /\ e.by = b /\ e.kind = m.kind /\ e.n = m.n
    BY DEF Sends, Messages
  <2>3. /\ r \in Messages /\ r.kind = m.kind /\ r.n = m.n
        /\ r.left = m.left \ {d} /\ r.dead = m.dead
    BY DEF Messages
  <2>4. d \in Clients
    BY <1>1
  <2>5. Append(locks[d], e) \in Seq(Sends)
    BY <2>2, <2>4, AppendProperties
  <2>. HIDE DEF e, r
  <2>6. /\ lock' = [locks EXCEPT ![d] = Append(locks[d], e)] /\ sending' = [sending EXCEPT ![b] = r]
    BY <2>1 DEF e, r
  <2>7. /\ lock' \in [Clients -> Seq(Sends)] /\ lock'[d] = Append(locks[d], e)
        /\ \A c \in Clients : c # d => lock'[c] = locks[c]
    BY <2>4, <2>5, <2>6
  <2>8. /\ sending' \in [Broadcasters -> Messages] /\ sending'[b] = r
        /\ \A a \in Broadcasters : a # b => sending'[a] = sending[a]
    BY <1>1, <2>3, <2>6
  <2>9. \E x \in Clients, y \in Sends :
          /\ x \in m.left /\ clients' = clients
          /\ y.by = b /\ y.kind = m.kind /\ y.n = m.n
          /\ lock'[x] = Append(locks[x], y)
          /\ \A c \in Clients : c # x => lock'[c] = locks[c]
          /\ sending'[b] \in Messages
          /\ sending'[b].kind = m.kind /\ sending'[b].n = m.n
          /\ sending'[b].left = m.left \ {x} /\ sending'[b].dead = m.dead
    BY <2>1, <2>2, <2>3, <2>4, <2>7, <2>8
  <2>. QED BY <2>1, <2>7, <2>8, <2>9
<1>. QED BY <1>2, <1>3

\* Message m of broadcaster b, that goes on from here, is still to reach c; or the other
\* broadcaster's is.
StillComing(b, m, a, kind, c) ==
  IF a = b THEN m.kind = kind /\ c \in m.left ELSE OnItsWay(a, kind, c)

\* A step in which broadcaster b goes on with message m, with no send in any line, keeps
\* the lines in order.
LEMMA BroadcasterInLine ==
  ASSUME IInv, NEW b \in Broadcasters, NEW m \in Messages, m.kind \in Kinds,
         NEW locks \in [Clients -> Seq(Sends)], Proceed(b, m, locks),
         UNCHANGED << handler, pos >>,
         \/ b = "scheduler" /\ m.kind = "bar" /\ m.n = bars' /\ 1 <= bars'
         \/ b = "scheduler" /\ m.kind = "open" /\ m.n = opens'
         \/ b = "pipeline" /\ m.kind = "chain" /\ m.n = chains',
         b = "scheduler" => chains' = chains,
         b = "pipeline" => bars' = bars /\ opens' = opens,
         bars' \in Nat, opens' \in Nat, chains' \in Nat,
         bars <= bars', opens <= opens', chains <= chains',
         shown' \in [Clients -> Views],
         \A c \in Clients : /\ AtMostOne(locks[c]) /\ InTurn(locks[c])
                            /\ In(locks[c]) = {s \in In(lock[c]) : s.by # b}
                            /\ shown'[c].open <= opens' /\ shown'[c].chain <= chains'
                            /\ \A s \in In(locks[c]) :
                                 /\ s.kind = "open" => shown'[c].open <= s.n
                                 /\ s.kind = "chain" => shown'[c].chain <= s.n
  PROVE  /\ lock' \in [Clients -> Seq(Sends)] /\ sending' \in [Broadcasters -> Messages]
         /\ Queues' /\ SendingInv'
<1>1. /\ Types /\ Queues /\ SendingInv
  BY DEF IInv
<1>2. /\ lock' \in [Clients -> Seq(Sends)] /\ sending' \in [Broadcasters -> Messages]
      /\ \A a \in Broadcasters : a # b => sending'[a] = sending[a]
      /\ \/ lock' = locks /\ sending'[b] = Idle
         \/ \E d \in Clients, e \in Sends :
              /\ e.by = b /\ e.kind = m.kind /\ e.n = m.n
              /\ lock'[d] = Append(locks[d], e)
              /\ \A c \in Clients : c # d => lock'[c] = locks[c]
              /\ sending'[b].kind = m.kind /\ sending'[b].n = m.n
  <2>1. /\ lock' \in [Clients -> Seq(Sends)] /\ sending' \in [Broadcasters -> Messages]
        /\ clients' \subseteq clients
        /\ \A a \in Broadcasters : a # b => sending'[a] = sending[a]
        /\ \/ /\ lock' = locks /\ sending'[b] = Idle
              /\ m.left \intersect clients = {} /\ clients' = clients \ m.dead
           \/ \E d \in Clients, e \in Sends :
                /\ d \in m.left /\ clients' = clients
                /\ e.by = b /\ e.kind = m.kind /\ e.n = m.n
                /\ lock'[d] = Append(locks[d], e)
                /\ \A c \in Clients : c # d => lock'[c] = locks[c]
                /\ sending'[b] \in Messages
                /\ sending'[b].kind = m.kind /\ sending'[b].n = m.n
                /\ sending'[b].left = m.left \ {d} /\ sending'[b].dead = m.dead
    BY <1>1, ProceedEffect
  <2>2. ASSUME NEW d \in Clients, NEW e \in Sends,
               /\ e.by = b /\ e.kind = m.kind /\ e.n = m.n
               /\ lock'[d] = Append(locks[d], e)
               /\ \A c \in Clients : c # d => lock'[c] = locks[c]
               /\ sending'[b].kind = m.kind /\ sending'[b].n = m.n
        PROVE  \E x \in Clients, y \in Sends :
                 /\ y.by = b /\ y.kind = m.kind /\ y.n = m.n
                 /\ lock'[x] = Append(locks[x], y)
                 /\ \A c \in Clients : c # x => lock'[c] = locks[c]
                 /\ sending'[b].kind = m.kind /\ sending'[b].n = m.n
    BY <2>2
  <2>. QED BY <2>1, <2>2
<1>3. bars \in Nat /\ opens \in Nat /\ chains \in Nat
  BY <1>1, HubConstants DEF Types
<1>4. ASSUME NEW c \in Clients, NEW s \in In(locks[c])
      PROVE  /\ s \in In(lock[c]) /\ s.by # b /\ s \in Sends /\ s.n \in Nat
             /\ s.by \in Broadcasters \union {c}
             /\ s.by = c => s.kind = handler'[c] /\ (s.kind = "bar" => s.n = pos'[c])
             /\ s.by # c => s.kind = sending'[s.by].kind /\ s.n = sending'[s.by].n
             /\ s.kind = "bar" => 1 <= s.n /\ s.n <= bars'
             /\ s.kind = "open" => shown'[c].open <= s.n /\ s.n <= opens'
             /\ s.kind = "chain" => shown'[c].chain <= s.n /\ s.n <= chains'
  <2>1. s \in In(lock[c]) /\ s.by # b
    BY <1>4
  <2>2. s \in Sends /\ s.n \in Nat
    <3>1. \A j \in DOMAIN locks[c] : locks[c][j] \in Sends
      BY <1>4, LenProperties, ElementOfSeq
    <3>2. s \in Sends
      BY <1>4, <3>1 DEF In
    <3>. QED BY <3>2 DEF Sends
  <2>3. /\ s.by \in Broadcasters \union {c}
        /\ s.by = c => s.kind = handler[c] /\ (s.kind = "bar" => s.n = pos[c])
        /\ s.by # c => s.kind = sending[s.by].kind /\ s.n = sending[s.by].n
        /\ s.kind = "bar" => 1 <= s.n /\ s.n <= bars
        /\ s.kind = "open" => s.n <= opens
        /\ s.kind = "chain" => s.n <= chains
    BY <1>1, <2>1 DEF Queues, QueueInv
  <2>4. s.by # c => sending'[s.by] = sending[s.by]
    BY <1>2, <2>1, <2>3
  <2>5. (s.n <= bars => s.n <= bars') /\ (s.n <= opens => s.n <= opens')
        /\ (s.n <= chains => s.n <= chains')
    BY <1>3, <2>2
  <2>. QED BY <1>4, <2>1, <2>2, <2>3, <2>4, <2>5
<1>5. CASE lock' = locks /\ sending'[b] = Idle
  <2>1. Queues'
    <3>1. ASSUME NEW c \in Clients PROVE QueueInv(c)'
      BY <1>4, <1>5 DEF QueueInv
    <3>. QED BY <3>1 DEF Queues
  <2>2. ASSUME NEW a \in Broadcasters, NEW c \in Clients, NEW d \in Clients,
               Carries(lock'[c], a), Carries(lock'[d], a)
        PROVE  c = d
    <3>1. \A x \in Clients : Carries(lock'[x], a) => Carries(lock[x], a)
      BY <1>4, <1>5 DEF Carries
    <3>. QED BY <1>1, <2>2, <3>1 DEF SendingInv
  <2>3. /\ sending'["scheduler"].kind \in {"none", "bar", "open"}
        /\ sending'["pipeline"].kind \in {"none", "chain"}
        /\ sending'["scheduler"].kind = "bar" => sending'["scheduler"].n = bars'
        /\ sending'["scheduler"].kind = "open" => sending'["scheduler"].n = opens'
        /\ sending'["pipeline"].kind = "chain" => sending'["pipeline"].n = chains'
    BY <1>1, <1>2, <1>5, HubConstants DEF SendingInv, Idle
  <2>. QED BY <1>2, <2>1, <2>2, <2>3 DEF SendingInv
<1>6. CASE ~(lock' = locks /\ sending'[b] = Idle)
  <2>1. PICK d \in Clients, e \in Sends :
          /\ e.by = b /\ e.kind = m.kind /\ e.n = m.n
          /\ lock'[d] = Append(locks[d], e)
          /\ \A c \in Clients : c # d => lock'[c] = locks[c]
          /\ sending'[b].kind = m.kind /\ sending'[b].n = m.n
    BY <1>2, <1>6
  <2>2. ~Carries(locks[d], b) /\ locks[d] \in Seq(Sends) /\ e.by \notin Clients
    BY <1>4, <2>1, HubConstants DEF Carries
  <2>3. \A s \in In(locks[d]) : (s.kind = e.kind /\ e.kind \in {"open", "chain"}) => s.n <= e.n
    BY <1>4, <2>1
  <2>4. /\ In(lock'[d]) = In(locks[d]) \union {e}
        /\ AtMostOne(lock'[d]) /\ InTurn(lock'[d])
    BY <2>1, <2>2, <2>3, LineGrows
  <2>5. Queues'
    <3>1. ASSUME NEW c \in Clients, c # d PROVE QueueInv(c)'
      <4>1. lock'[c] = locks[c]
        BY <2>1, <3>1
      <4>. QED BY <1>4, <4>1 DEF QueueInv
    <3>2. QueueInv(d)'
      <4>1. ASSUME NEW s \in In(lock'[d])
            PROVE  /\ s.by \in Broadcasters \union {d}
                   /\ s.by = d => s.kind = handler'[d] /\ (s.kind = "bar" => s.n = pos'[d])
                   /\ s.by # d => s.kind = sending'[s.by].kind /\ s.n = sending'[s.by].n
                   /\ s.kind = "bar" => 1 <= s.n /\ s.n <= bars'
                   /\ s.kind = "open" => shown'[d].open <= s.n /\ s.n <= opens'
                   /\ s.kind = "chain" => shown'[d].chain <= s.n /\ s.n <= chains'
        <5>1. CASE s = e
          BY <2>1, <2>2, <5>1
        <5>2. CASE s # e
          <6>1. s \in In(locks[d])
            BY <2>4, <4>1, <5>2
          <6>. QED BY <1>4, <6>1
        <5>. QED BY <5>1, <5>2
      <4>. QED BY <2>4, <4>1 DEF QueueInv
    <3>. QED BY <3>1, <3>2 DEF Queues
  <2>6. ASSUME NEW a \in Broadcasters, NEW x \in Clients, NEW y \in Clients,
               Carries(lock'[x], a), Carries(lock'[y], a)
        PROVE  x = y
    <3>1. CASE a = b
      <4>1. \A c \in Clients : c # d => ~Carries(lock'[c], b)
        BY <1>4, <2>1 DEF Carries
      <4>. QED BY <2>6, <3>1, <4>1
    <3>2. CASE a # b
      <4>1. \A c \in Clients : Carries(lock'[c], a) => Carries(lock[c], a)
        <5>1. \A c \in Clients : Carries(locks[c], a) => Carries(lock[c], a)
          BY <1>4 DEF Carries
        <5>2. Carries(lock'[d], a) => Carries(locks[d], a)
          BY <2>1, <2>4, <3>2 DEF Carries
        <5>. QED BY <2>1, <5>1, <5>2
      <4>. QED BY <1>1, <2>6, <4>1 DEF SendingInv
    <3>. QED BY <3>1, <3>2
  <2>7. /\ sending'["scheduler"].kind \in {"none", "bar", "open"}
        /\ sending'["pipeline"].kind \in {"none", "chain"}
        /\ sending'["scheduler"].kind = "bar" => sending'["scheduler"].n = bars'
        /\ sending'["scheduler"].kind = "open" => sending'["scheduler"].n = opens'
        /\ sending'["pipeline"].kind = "chain" => sending'["pipeline"].n = chains'
    <3>1. CASE b = "scheduler"
      BY <1>1, <1>2, <2>1, <3>1, HubConstants DEF SendingInv
    <3>2. CASE b = "pipeline"
      BY <1>1, <1>2, <2>1, <3>2, HubConstants DEF SendingInv
    <3>. QED BY <3>1, <3>2, HubConstants
  <2>. QED BY <1>2, <2>5, <2>6, <2>7 DEF SendingInv
<1>. QED BY <1>5, <1>6

LEMMA OnItsWayCarried ==
  ASSUME NEW a, NEW kind, NEW c
  PROVE  /\ OnItsWay(a, kind, c) <=> /\ sending[a].kind = kind
                                     /\ c \in sending[a].left \/ Carries(lock[c], a)
         /\ OnItsWay(a, kind, c)' <=> /\ sending'[a].kind = kind
                                      /\ c \in sending'[a].left \/ Carries(lock'[c], a)
<1>1. Carries(lock[c], a) <=> \E j \in DOMAIN lock[c] : lock[c][j].by = a
  BY DEF Carries, In
<1>2. Carries(lock'[c], a) <=> \E j \in DOMAIN lock'[c] : lock'[c][j].by = a
  BY DEF Carries, In
<1>. QED BY <1>1, <1>2 DEF OnItsWay

\* When a broadcaster goes on, no client that is connected loses a message it is yet to get.
LEMMA BroadcasterPasses ==
  ASSUME IInv, NEW b \in Broadcasters, NEW m \in Messages, m.kind \in Kinds,
         NEW locks \in [Clients -> Seq(Sends)], Proceed(b, m, locks),
         NEW c \in clients, c \notin m.dead,
         {s \in In(lock[c]) : s.by # b} \subseteq In(locks[c])
  PROVE  /\ c \in clients'
         /\ In(locks[c]) \subseteq In(lock'[c])
         /\ \A a \in Broadcasters : \A kind : StillComing(b, m, a, kind, c) => OnItsWay(a, kind, c)'
<1>1. Types /\ c \in Clients
  BY DEF IInv, Types
<1>2. \A a \in Broadcasters : a # b => sending'[a] = sending[a]
  BY <1>1, ProceedEffect
<1>3. /\ c \in clients' /\ In(locks[c]) \subseteq In(lock'[c])
      /\ c \in m.left => /\ sending'[b].kind = m.kind
                         /\ c \in sending'[b].left \/ Carries(lock'[c], b)
  <2>1. CASE /\ lock' = locks /\ sending'[b] = Idle
             /\ m.left \intersect clients = {} /\ clients' = clients \ m.dead
    BY <2>1
  <2>2. ASSUME NEW d \in Clients, NEW e \in Sends,
               /\ d \in m.left /\ clients' = clients
               /\ e.by = b /\ e.kind = m.kind /\ e.n = m.n
               /\ lock'[d] = Append(locks[d], e)
               /\ \A x \in Clients : x # d => lock'[x] = locks[x]
               /\ sending'[b] \in Messages
               /\ sending'[b].kind = m.kind /\ sending'[b].n = m.n
               /\ sending'[b].left = m.left \ {d} /\ sending'[b].dead = m.dead
        PROVE  /\ c \in clients' /\ In(locks[c]) \subseteq In(lock'[c])
               /\ sending'[b].kind = m.kind
               /\ c \in m.left => c \in sending'[b].left \/ Carries(lock'[c], b)
    <3>1. CASE c = d
      <4>1. In(lock'[c]) = In(locks[c]) \union {e}
        BY <1>1, <2>2, <3>1, LineGrows
      <4>. QED BY <2>2, <4>1 DEF Carries
    <3>2. CASE c # d
      BY <1>1, <2>2, <3>2
    <3>. QED BY <3>1, <3>2
  <2>. QED BY <1>1, <2>1, <2>2, ProceedEffect
<1>4. ASSUME NEW a \in Broadcasters, NEW kind, StillComing(b, m, a, kind, c)
      PROVE  OnItsWay(a, kind, c)'
  <2>1. CASE a = b
    BY <1>3, <1>4, <2>1, OnItsWayCarried DEF StillComing
  <2>2. CASE a # b
    <3>1. sending[a].kind = kind /\ (c \in sending[a].left \/ Carries(lock[c], a))
      BY <1>4, <2>2, OnItsWayCarried DEF StillComing
    <3>2. Carries(lock[c], a) => Carries(lock'[c], a)
      BY <1>3, <2>2 DEF Carries
    <3>. QED BY <1>2, <2>2, <3>1, <3>2, OnItsWayCarried
  <2>. QED BY <2>1, <2>2
<1>. QED BY <1>3, <1>4

\* So a step of a broadcaster keeps the invariant if what it promises each client, that its
\* message is still coming, is what that client needs.
LEMMA BroadcasterKeeps ==
  ASSUME IInv, NEW b \in Broadcasters, NEW m \in Messages, m.kind \in Kinds,
         NEW locks \in [Clients -> Seq(Sends)], Proceed(b, m, locks),
         UNCHANGED << handler, pos, seen, broken, aborted >>,
         \/ b = "scheduler" /\ m.kind = "bar" /\ m.n = bars' /\ 1 <= bars'
         \/ b = "scheduler" /\ m.kind = "open" /\ m.n = opens'
         \/ b = "pipeline" /\ m.kind = "chain" /\ m.n = chains',
         b = "scheduler" => chains' = chains,
         b = "pipeline" => bars' = bars /\ opens' = opens,
         bars' \in 0..MaxMessages, opens' \in 0..MaxMessages, chains' \in 0..MaxMessages,
         bars <= bars', opens <= opens', chains <= chains',
         shown' \in [Clients -> Views],
         \A c \in m.dead : Gone(c),
         \A c \in Clients : /\ AtMostOne(locks[c]) /\ InTurn(locks[c])
                            /\ In(locks[c]) = {s \in In(lock[c]) : s.by # b}
                            /\ shown'[c].open <= opens' /\ shown'[c].chain <= chains'
                            /\ \A s \in In(locks[c]) :
                                 /\ s.kind = "open" => shown'[c].open <= s.n
                                 /\ s.kind = "chain" => shown'[c].chain <= s.n,
         \A c \in Clients \ (broken \union aborted) :
           /\ handler[c] \in PastHello =>
                \A n \in First(seen[c])..bars' :
                  \/ n \in shown'[c].bars
                  \/ n = bars' /\ StillComing(b, m, "scheduler", "bar", c)
                  \/ handler[c] = "bar" /\ pos[c] <= n /\ n <= seen[c]
           /\ handler[c] \in PastBars =>
                \/ shown'[c].open = opens' \/ StillComing(b, m, "scheduler", "open", c)
                \/ Replaying(c, "open", opens')
           /\ handler[c] \in PastOpen =>
                \/ shown'[c].chain = chains' \/ StillComing(b, m, "pipeline", "chain", c)
                \/ Replaying(c, "chain", chains')
  PROVE  IInv'
<1>1. Types /\ Queues /\ SendingInv /\ ClientsInv /\ ReplayInv
  BY DEF IInv
<1>2. bars' \in Nat /\ opens' \in Nat /\ chains' \in Nat
  BY HubConstants
<1>3. /\ lock' \in [Clients -> Seq(Sends)] /\ sending' \in [Broadcasters -> Messages]
      /\ Queues' /\ SendingInv'
  BY <1>2, BroadcasterInLine
<1>4. Types'
  <2>1. clients' \subseteq clients
    BY <1>1, ProceedEffect
  <2>. QED BY <1>1, <1>3, <2>1 DEF Types
<1>5. ASSUME NEW c \in Clients PROVE Gone(c)' <=> Gone(c)
  BY DEF Gone
<1>6. ASSUME NEW c \in Clients, ~Gone(c), handler[c] # "new"
      PROVE  /\ c \in clients' /\ In(locks[c]) \subseteq In(lock'[c])
             /\ \A a \in Broadcasters : \A kind :
                  StillComing(b, m, a, kind, c) => OnItsWay(a, kind, c)'
  <2>1. c \in clients /\ c \notin m.dead /\ {s \in In(lock[c]) : s.by # b} \subseteq In(locks[c])
    BY <1>1, <1>6 DEF ClientsInv
  <2>. QED BY <2>1, BroadcasterPasses
<1>7. ClientsInv'
  <2>1. ASSUME NEW a \in Broadcasters, NEW c \in sending'[a].dead PROVE Gone(c)'
    <3>1. c \in Clients
      BY <1>3, <2>1 DEF Messages
    <3>2. CASE a # b
      <4>1. sending'[a] = sending[a]
        BY <1>1, <3>2, ProceedEffect
      <4>. QED BY <1>1, <1>5, <2>1, <3>1, <4>1 DEF ClientsInv
    <3>3. CASE a = b
      <4>1. sending'[b].dead \subseteq m.dead
        <5>1. sending'[b] = Idle \/ sending'[b].dead = m.dead
          <6>1. Types
            BY <1>1
          <6>. QED BY <6>1, ProceedEffect
        <5>. QED BY <5>1 DEF Idle
      <4>. QED BY <1>5, <2>1, <3>1, <3>3, <4>1
    <3>. QED BY <3>2, <3>3
  <2>2. ASSUME NEW c \in Clients, ~Gone(c)', handler'[c] # "new" PROVE c \in clients'
    BY <1>5, <1>6, <2>2
  <2>3. \A c \in Clients : shown'[c].open <= opens' /\ shown'[c].chain <= chains'
    OBVIOUS
  <2>. QED BY <2>1, <2>2, <2>3 DEF ClientsInv
<1>8. ReplayInv'
  <2>1. ASSUME NEW c \in Clients, c \notin broken', c \notin aborted'
        PROVE  HasBars(c)' /\ HasOpen(c)' /\ HasChain(c)'
    <3>1. c \in Clients \ (broken \union aborted)
      BY <2>1
    <3>2. ASSUME handler[c] \in PastHello
          PROVE  \A a \in Broadcasters : \A kind :
                   StillComing(b, m, a, kind, c) => OnItsWay(a, kind, c)'
      <4>1. ~Gone(c) /\ handler[c] # "new"
        BY <2>1, <3>2 DEF Gone, PastHello
      <4>. QED BY <1>6, <4>1
    <3>3. ASSUME handler[c] \in PastHello
          PROVE  \A s \in In(lock[c]) : s.by = c => s \in In(lock'[c])
      <4>1. In(locks[c]) \subseteq In(lock'[c]) /\ In(locks[c]) = {s \in In(lock[c]) : s.by # b}
        <5>1. ~Gone(c) /\ handler[c] # "new"
          BY <2>1, <3>3 DEF Gone, PastHello
        <5>. QED BY <1>6, <5>1
      <4>2. c # b
        BY HubConstants
      <4>. QED BY <4>1, <4>2
    <3>4. HasBars(c)'
      <4>1. ASSUME handler[c] \in PastHello, NEW n \in First(seen[c])..bars'
            PROVE  \/ n \in shown'[c].bars
                   \/ n = bars' /\ OnItsWay("scheduler", "bar", c)'
                   \/ handler[c] = "bar" /\ pos[c] <= n /\ n <= seen[c]
        BY <3>1, <3>2, <4>1, HubConstants
      <4>. QED BY <4>1 DEF HasBars, First
    <3>5. HasOpen(c)'
      <4>1. ASSUME handler[c] \in PastBars
            PROVE  \/ shown'[c].open = opens' \/ OnItsWay("scheduler", "open", c)'
                   \/ Replaying(c, "open", opens')
        BY <3>1, <3>2, <4>1, HubConstants DEF PastBars, PastHello
      <4>2. handler[c] \in PastBars => handler[c] \in PastHello
        BY DEF PastBars, PastHello
      <4>3. handler[c] \in PastBars /\ Replaying(c, "open", opens') => Replaying(c, "open", opens)'
        BY <3>3, <4>2 DEF Replaying
      <4>. QED BY <4>1, <4>3 DEF HasOpen
    <3>6. HasChain(c)'
      <4>1. ASSUME handler[c] \in PastOpen
            PROVE  \/ shown'[c].chain = chains' \/ OnItsWay("pipeline", "chain", c)'
                   \/ Replaying(c, "chain", chains')
        BY <3>1, <3>2, <4>1, HubConstants DEF PastOpen, PastHello
      <4>2. handler[c] \in PastOpen => handler[c] \in PastHello
        BY DEF PastOpen, PastHello
      <4>3. (handler[c] \in PastOpen /\ Replaying(c, "chain", chains'))
              => Replaying(c, "chain", chains)'
        BY <3>3, <4>2 DEF Replaying
      <4>. QED BY <4>1, <4>3 DEF HasChain
    <3>. QED BY <3>4, <3>5, <3>6
  <2>. QED BY <2>1 DEF ReplayInv
<1>. QED BY <1>3, <1>4, <1>7, <1>8 DEF IInv

\* A broadcaster that is idle has no send in any line.
LEMMA IdleInNoLine ==
  ASSUME IInv, NEW b \in Broadcasters, sending[b] = Idle, NEW c \in Clients
  PROVE  /\ \A s \in In(lock[c]) : s.by # b
         /\ \A kind \in Kinds : ~OnItsWay(b, kind, c)
<1>1. Idle.kind \notin Kinds
  BY HubConstants DEF Idle
<1>2. ASSUME NEW s \in In(lock[c]), s.by = b PROVE FALSE
  <2>1. s \in Sends
    <3>1. lock[c] \in Seq(Sends)
      BY DEF IInv, Types
    <3>2. \A j \in DOMAIN lock[c] : lock[c][j] \in Sends
      BY <3>1, LenProperties, ElementOfSeq
    <3>. QED BY <3>2 DEF In
  <2>2. s.kind = sending[b].kind
    BY <1>2, HubConstants DEF IInv, Queues, QueueInv
  <2>. QED BY <1>1, <2>1, <2>2 DEF Sends
<1>. QED BY <1>1, <1>2, OnItsWayCarried

LEMMA BroadcastKeeps ==
  ASSUME IInv, NEW b \in Broadcasters, NEW kind \in Kinds, NEW n, Broadcast(b, kind, n),
         \/ /\ b = "scheduler" /\ kind = "bar" /\ n = bars'
            /\ bars' = bars + 1 /\ opens' = opens /\ chains' = chains
         \/ /\ b = "scheduler" /\ kind = "open" /\ n = opens'
            /\ bars' = bars /\ opens' = opens + 1 /\ chains' = chains
         \/ /\ b = "pipeline" /\ kind = "chain" /\ n = chains'
            /\ bars' = bars /\ opens' = opens /\ chains' = chains + 1
  PROVE  IInv'
<1>. DEFINE m == [kind |-> kind, n |-> n, left |-> Audience, dead |-> {}]
<1>1. /\ Types /\ Queues /\ SendingInv /\ ClientsInv /\ ReplayInv
      /\ lock \in [Clients -> Seq(Sends)] /\ clients \subseteq Clients
  BY DEF IInv, Types
<1>2. /\ bars + opens + chains < MaxMessages /\ sending[b] = Idle /\ Proceed(b, m, lock)
      /\ UNCHANGED << handler, pos, seen, broken, aborted >> /\ shown' = shown
  BY DEF Broadcast
<1>3. /\ bars \in Nat /\ opens \in Nat /\ chains \in Nat
      /\ bars' \in 0..MaxMessages /\ opens' \in 0..MaxMessages /\ chains' \in 0..MaxMessages
      /\ bars <= bars' /\ opens <= opens' /\ chains <= chains'
      /\ bars' = bars + 1 => 1 <= bars'
  BY <1>1, <1>2, HubConstants DEF Types
<1>4. /\ m \in Messages /\ m.kind = kind /\ m.n = n /\ m.left = clients /\ m.dead = {}
  BY <1>1, <1>3 DEF Messages, Audience
<1>. HIDE DEF m
<1>5. ASSUME NEW c \in Clients
      PROVE  /\ \A s \in In(lock[c]) : s.by # b
             /\ \A k \in Kinds : ~OnItsWay(b, k, c)
  BY <1>2, IdleInNoLine
<1>6. ASSUME NEW c \in Clients
      PROVE  /\ AtMostOne(lock[c]) /\ InTurn(lock[c])
             /\ In(lock[c]) = {s \in In(lock[c]) : s.by # b}
             /\ shown'[c].open <= opens' /\ shown'[c].chain <= chains'
             /\ \A s \in In(lock[c]) :
                  /\ s.kind = "open" => shown'[c].open <= s.n
                  /\ s.kind = "chain" => shown'[c].chain <= s.n
  <2>1. AtMostOne(lock[c]) /\ InTurn(lock[c])
    BY <1>1 DEF Queues, QueueInv
  <2>2. \A s \in In(lock[c]) : /\ s.kind = "open" => shown'[c].open <= s.n
                               /\ s.kind = "chain" => shown'[c].chain <= s.n
    BY <1>1, <1>2 DEF Queues, QueueInv
  <2>3. shown'[c].open <= opens' /\ shown'[c].chain <= chains'
    <3>1. shown[c].open \in Nat /\ shown[c].chain \in Nat
      BY <1>1, HubConstants DEF Types, Views
    <3>2. shown[c].open <= opens /\ shown[c].chain <= chains
      BY <1>1 DEF ClientsInv
    <3>. QED BY <1>2, <1>3, <3>1, <3>2
  <2>. QED BY <1>5, <2>1, <2>2, <2>3
<1>7. ASSUME NEW c \in Clients \ (broken \union aborted)
      PROVE  /\ handler[c] \in PastHello =>
                  \A k \in First(seen[c])..bars' :
                    \/ k \in shown'[c].bars
                    \/ k = bars' /\ StillComing(b, m, "scheduler", "bar", c)
                    \/ handler[c] = "bar" /\ pos[c] <= k /\ k <= seen[c]
             /\ handler[c] \in PastBars =>
                  \/ shown'[c].open = opens' \/ StillComing(b, m, "scheduler", "open", c)
                  \/ Replaying(c, "open", opens')
             /\ handler[c] \in PastOpen =>
                  \/ shown'[c].chain = chains' \/ StillComing(b, m, "pipeline", "chain", c)
                  \/ Replaying(c, "chain", chains')
  <2>1. HasBars(c) /\ HasOpen(c) /\ HasChain(c)
    BY <1>1, <1>7 DEF ReplayInv
  <2>2. handler[c] \in PastHello => c \in clients
    BY <1>1, <1>7 DEF ClientsInv, Gone, PastHello
  <2>3. /\ handler[c] \in PastBars => handler[c] \in PastHello
        /\ handler[c] \in PastOpen => handler[c] \in PastHello
    BY DEF PastBars, PastOpen, PastHello
  <2>4. ASSUME NEW a \in Broadcasters, NEW k \in Kinds, OnItsWay(a, k, c)
        PROVE  StillComing(b, m, a, k, c) /\ a # b
    BY <1>5, <1>7, <2>4 DEF StillComing
  <2>5. handler[c] \in PastHello => StillComing(b, m, b, kind, c)
    BY <1>4, <2>2 DEF StillComing
  <2>6. ASSUME handler[c] \in PastHello, NEW k \in First(seen[c])..bars'
        PROVE  \/ k \in shown'[c].bars
               \/ k = bars' /\ StillComing(b, m, "scheduler", "bar", c)
               \/ handler[c] = "bar" /\ pos[c] <= k /\ k <= seen[c]
    <3>1. seen[c] \in Nat /\ First(seen[c]) \in Nat /\ k \in Nat
      BY <1>1, <1>7, HubConstants DEF Types, First
    <3>2. CASE k <= bars
      <4>1. k \in First(seen[c])..bars
        BY <1>3, <2>6, <3>1, <3>2
      <4>2. CASE k \in shown[c].bars \/ (handler[c] = "bar" /\ pos[c] <= k /\ k <= seen[c])
        BY <1>2, <4>2
      <4>3. CASE k = bars /\ OnItsWay("scheduler", "bar", c)
        <5>1. StillComing(b, m, "scheduler", "bar", c) /\ b # "scheduler"
          BY <2>4, <4>3, HubConstants DEF Kinds
        <5>2. bars' = bars
          BY <5>1
        <5>. QED BY <4>3, <5>1, <5>2
      <4>. QED BY <2>1, <2>6, <4>1, <4>2, <4>3 DEF HasBars
    <3>3. CASE ~(k <= bars)
      <4>1. k = bars' /\ bars' = bars + 1
        BY <1>3, <2>6, <3>1, <3>3
      <4>2. b = "scheduler" /\ kind = "bar"
        BY <1>3, <4>1
      <4>. QED BY <2>5, <2>6, <4>1, <4>2
    <3>. QED BY <3>2, <3>3
  <2>7. ASSUME handler[c] \in PastBars
        PROVE  \/ shown'[c].open = opens' \/ StillComing(b, m, "scheduler", "open", c)
               \/ Replaying(c, "open", opens')
    <3>1. CASE opens' = opens
      BY <1>2, <2>1, <2>4, <2>7, <3>1, HubConstants DEF HasOpen, Kinds
    <3>2. CASE opens' # opens
      BY <2>3, <2>5, <2>7, <3>2
    <3>. QED BY <3>1, <3>2
  <2>8. ASSUME handler[c] \in PastOpen
        PROVE  \/ shown'[c].chain = chains' \/ StillComing(b, m, "pipeline", "chain", c)
               \/ Replaying(c, "chain", chains')
    <3>1. CASE chains' = chains
      BY <1>2, <2>1, <2>4, <2>8, <3>1, HubConstants DEF HasChain, Kinds
    <3>2. CASE chains' # chains
      BY <2>3, <2>5, <2>8, <3>2
    <3>. QED BY <3>1, <3>2
  <2>. QED BY <2>6, <2>7, <2>8
<1>8. /\ shown' \in [Clients -> Views]
      /\ \A c \in m.dead : Gone(c)
      /\ m.kind \in Kinds
      /\ b = "scheduler" => chains' = chains
      /\ b = "pipeline" => bars' = bars /\ opens' = opens
      /\ \/ b = "scheduler" /\ m.kind = "bar" /\ m.n = bars' /\ 1 <= bars'
         \/ b = "scheduler" /\ m.kind = "open" /\ m.n = opens'
         \/ b = "pipeline" /\ m.kind = "chain" /\ m.n = chains'
  BY <1>1, <1>2, <1>3, <1>4 DEF Types
<1>. QED BY <1>1, <1>2, <1>3, <1>4, <1>6, <1>7, <1>8, BroadcasterKeeps

\* What a client has after a message, unless the message is too old or too new.
LEMMA ShowEffect ==
  ASSUME NEW view \in Views, NEW s \in Sends,
         s.kind = "bar" => s.n \in 1..MaxMessages,
         s.kind \in {"open", "chain"} => s.n \in 0..MaxMessages
  PROVE  /\ Show(view, s) \in Views
         /\ Show(view, s).bars = IF s.kind = "bar" THEN view.bars \union {s.n} ELSE view.bars
         /\ Show(view, s).open = IF s.kind = "open" THEN s.n ELSE view.open
         /\ Show(view, s).chain = IF s.kind = "chain" THEN s.n ELSE view.chain
<1>1. CASE s.kind = "bar"
  BY <1>1 DEF Show, Views
<1>2. CASE s.kind = "open"
  BY <1>2 DEF Show, Views
<1>3. CASE s.kind = "chain"
  BY <1>3 DEF Show, Views
<1>4. CASE s.kind \notin {"bar", "open", "chain"}
  BY <1>4 DEF Show, Views
<1>. QED BY <1>1, <1>2, <1>3, <1>4

\* The send at the head of a line ends: what the line is then, and what the client has.
LEMMA SendEffect ==
  ASSUME IInv, NEW c \in Clients, lock[c] # << >>,
         shown' = IF c \notin broken /\ handler[c] # "off"
                  THEN [shown EXCEPT ![c] = Show(@, Head(lock[c]))] ELSE shown
  PROVE  /\ Head(lock[c]) \in In(lock[c]) /\ Head(lock[c]) \in Sends
         /\ Tail(lock[c]) \in Seq(Sends)
         /\ In(Tail(lock[c])) = {s \in In(lock[c]) : s.by # Head(lock[c]).by}
         /\ \A s \in In(lock[c]) : s.by = Head(lock[c]).by => s = Head(lock[c])
         /\ AtMostOne(Tail(lock[c])) /\ InTurn(Tail(lock[c]))
         /\ shown' \in [Clients -> Views]
         /\ \A d \in Clients : d # c => shown'[d] = shown[d]
         /\ \A d \in Clients : shown'[d].open <= opens /\ shown'[d].chain <= chains
         /\ shown[c].open <= shown'[c].open /\ shown[c].chain <= shown'[c].chain
         /\ ~Gone(c) =>
              /\ shown'[c].bars = IF Head(lock[c]).kind = "bar"
                                  THEN shown[c].bars \union {Head(lock[c]).n} ELSE shown[c].bars
              /\ shown'[c].open = IF Head(lock[c]).kind = "open"
                                  THEN Head(lock[c]).n ELSE shown[c].open
              /\ shown'[c].chain = IF Head(lock[c]).kind = "chain"
                                   THEN Head(lock[c]).n ELSE shown[c].chain
         /\ \A s \in In(Tail(lock[c])) : /\ s.kind = "open" => shown'[c].open <= s.n
                                         /\ s.kind = "chain" => shown'[c].chain <= s.n
<1>. DEFINE q == lock[c]  h == Head(lock[c])  view == Show(shown[c], h)
<1>1. /\ Types /\ Queues /\ ClientsInv /\ QueueInv(c)
      /\ q \in Seq(Sends) /\ shown[c] \in Views /\ shown \in [Clients -> Views]
  BY DEF IInv, Types, Queues
<1>2. AtMostOne(q) /\ InTurn(q)
  BY <1>1 DEF QueueInv
<1>3. /\ h \in In(q) /\ h \in Sends /\ Tail(q) \in Seq(Sends)
      /\ In(Tail(q)) = {s \in In(q) : s.by # h.by}
      /\ \A s \in In(q) : s.by = h.by => s = h
      /\ AtMostOne(Tail(q)) /\ InTurn(Tail(q))
      /\ \A s \in In(Tail(q)) : (s.kind = h.kind /\ s.kind \in {"open", "chain"}) => h.n <= s.n
  BY <1>1, <1>2, LineMoves
<1>4. /\ h.kind = "bar" => 1 <= h.n /\ h.n <= bars
      /\ \A s \in In(q) : /\ s.kind = "open" => shown[c].open <= s.n /\ s.n <= opens
                          /\ s.kind = "chain" => shown[c].chain <= s.n /\ s.n <= chains
  BY <1>1, <1>3 DEF QueueInv
<1>5. /\ h.n \in Nat /\ bars \in 0..MaxMessages /\ opens \in 0..MaxMessages
      /\ chains \in 0..MaxMessages /\ MaxMessages \in Nat
      /\ shown[c].open \in Nat /\ shown[c].chain \in Nat
      /\ shown[c].open <= opens /\ shown[c].chain <= chains
  BY <1>1, <1>3, HubConstants DEF Types, Sends, Views, ClientsInv
<1>6. /\ h.kind = "bar" => h.n \in 1..MaxMessages
      /\ h.kind \in {"open", "chain"} => h.n \in 0..MaxMessages
  BY <1>3, <1>4, <1>5
<1>7. /\ view \in Views
      /\ view.bars = IF h.kind = "bar" THEN shown[c].bars \union {h.n} ELSE shown[c].bars
      /\ view.open = IF h.kind = "open" THEN h.n ELSE shown[c].open
      /\ view.chain = IF h.kind = "chain" THEN h.n ELSE shown[c].chain
  BY <1>1, <1>3, <1>6, ShowEffect
<1>8. \A d \in Clients : shown[d].open <= opens /\ shown[d].chain <= chains
  BY <1>1 DEF ClientsInv
<1>9. CASE Gone(c)
  <2>1. shown' = shown
    BY <1>9 DEF Gone
  <2>. QED BY <1>1, <1>3, <1>4, <1>5, <1>8, <1>9, <2>1
<1>10. CASE ~Gone(c)
  <2>1. shown' = [shown EXCEPT ![c] = view]
    BY <1>10 DEF Gone
  <2>. HIDE DEF view
  <2>2. /\ shown' \in [Clients -> Views] /\ shown'[c] = view
        /\ \A d \in Clients : d # c => shown'[d] = shown[d]
    BY <1>1, <1>7, <2>1
  <2>. HIDE DEF h, q
  <2>3. /\ view.open <= opens /\ view.chain <= chains
        /\ shown[c].open <= view.open /\ shown[c].chain <= view.chain
    BY <1>3, <1>4, <1>5, <1>7
  <2>4. \A s \in In(Tail(q)) : /\ s.kind = "open" => view.open <= s.n
                               /\ s.kind = "chain" => view.chain <= s.n
    BY <1>3, <1>4, <1>7
  <2>5. \A d \in Clients : shown'[d].open <= opens /\ shown'[d].chain <= chains
    BY <1>8, <2>2, <2>3
  <2>. QED BY <1>3, <1>7, <2>2, <2>3, <2>4, <2>5 DEF h, q
<1>. QED BY <1>9, <1>10

\* The end of a broadcaster's send keeps the invariant.
LEMMA BroadcastGoesOn ==
  ASSUME IInv, NEW c \in Clients, lock[c] # << >>, Head(lock[c]).by # c, SendEnds(c)
  PROVE  IInv'
<1>. DEFINE h == Head(lock[c])  b == h.by
            alive == c \notin broken /\ handler[c] # "off"
            locks == [lock EXCEPT ![c] = Tail(@)]
<1>1. /\ Types /\ Queues /\ SendingInv /\ ClientsInv /\ ReplayInv
      /\ lock \in [Clients -> Seq(Sends)] /\ sending \in [Broadcasters -> Messages]
  BY DEF IInv, Types
<1>2. shown' = IF c \notin broken /\ handler[c] # "off"
               THEN [shown EXCEPT ![c] = Show(@, Head(lock[c]))] ELSE shown
  BY DEF SendEnds
<1>3. PICK ok \in (IF alive THEN {TRUE} ELSE BOOLEAN) :
        /\ Proceed(b, [sending[b] EXCEPT !.dead = IF ok THEN @ ELSE @ \union {c}], locks)
        /\ UNCHANGED << handler, pos, seen, aborted >>
  BY DEF SendEnds, Release
<1>. DEFINE m == [sending[b] EXCEPT !.dead = IF ok THEN @ ELSE @ \union {c}]
<1>4. UNCHANGED << bars, opens, chains, broken >>
  BY DEF SendEnds
<1>5. /\ h \in In(lock[c]) /\ h \in Sends
      /\ Tail(lock[c]) \in Seq(Sends)
      /\ In(Tail(lock[c])) = {s \in In(lock[c]) : s.by # b}
      /\ \A s \in In(lock[c]) : s.by = b => s = h
      /\ AtMostOne(Tail(lock[c])) /\ InTurn(Tail(lock[c]))
      /\ shown' \in [Clients -> Views]
      /\ \A d \in Clients : d # c => shown'[d] = shown[d]
      /\ \A d \in Clients : shown'[d].open <= opens /\ shown'[d].chain <= chains
      /\ ~Gone(c) =>
           /\ shown'[c].bars = IF h.kind = "bar" THEN shown[c].bars \union {h.n} ELSE shown[c].bars
           /\ shown'[c].open = IF h.kind = "open" THEN h.n ELSE shown[c].open
           /\ shown'[c].chain = IF h.kind = "chain" THEN h.n ELSE shown[c].chain
      /\ \A s \in In(Tail(lock[c])) : /\ s.kind = "open" => shown'[c].open <= s.n
                                      /\ s.kind = "chain" => shown'[c].chain <= s.n
  BY <1>2, SendEffect
<1>6. /\ b \in Broadcasters /\ h.kind = sending[b].kind /\ h.n = sending[b].n
      /\ h.kind \in Kinds /\ (h.kind = "bar" => 1 <= h.n)
  <2>1. b # c
    OBVIOUS
  <2>2. QueueInv(c)
    BY <1>1 DEF Queues
  <2>. QED BY <1>5, <2>1, <2>2 DEF QueueInv, Sends
<1>. HIDE DEF b, h
<1>7. /\ m \in Messages /\ m.kind = sending[b].kind /\ m.n = sending[b].n
      /\ m.left = sending[b].left /\ m.dead \subseteq sending[b].dead \union {c}
      /\ c \in m.dead => c \in sending[b].dead \/ ~ok
  BY <1>1, <1>6 DEF Messages
<1>8. \A d \in m.dead : Gone(d)
  <2>1. ~ok => Gone(c)
    BY <1>3 DEF Gone
  <2>. QED BY <1>1, <1>6, <1>7, <2>1 DEF ClientsInv
<1>9. Proceed(b, m, locks)
  BY <1>3
<1>. HIDE DEF m
<1>10. /\ locks \in [Clients -> Seq(Sends)] /\ locks[c] = Tail(lock[c])
       /\ \A d \in Clients : d # c => locks[d] = lock[d]
  BY <1>1, <1>5
<1>. HIDE DEF locks
<1>11. \A d \in Clients : Carries(lock[d], b) => d = c
  BY <1>1, <1>5, <1>6 DEF SendingInv, Carries, b
<1>12. ASSUME NEW d \in Clients
       PROVE  /\ AtMostOne(locks[d]) /\ InTurn(locks[d])
              /\ In(locks[d]) = {s \in In(lock[d]) : s.by # b}
              /\ shown'[d].open <= opens' /\ shown'[d].chain <= chains'
              /\ \A s \in In(locks[d]) :
                   /\ s.kind = "open" => shown'[d].open <= s.n
                   /\ s.kind = "chain" => shown'[d].chain <= s.n
  <2>1. CASE d = c
    BY <1>4, <1>5, <1>10, <2>1
  <2>2. CASE d # c
    <3>1. QueueInv(d) /\ locks[d] = lock[d] /\ shown'[d] = shown[d]
      BY <1>1, <1>5, <1>10, <2>2 DEF Queues
    <3>2. In(locks[d]) = {s \in In(lock[d]) : s.by # b}
      BY <1>11, <2>2, <3>1 DEF Carries
    <3>. QED BY <1>4, <1>5, <3>1, <3>2 DEF QueueInv
  <2>. QED BY <2>1, <2>2
<1>13. /\ b = "scheduler" \/ b = "pipeline"
       /\ \/ b = "scheduler" /\ m.kind = "bar" /\ m.n = bars' /\ 1 <= bars'
          \/ b = "scheduler" /\ m.kind = "open" /\ m.n = opens'
          \/ b = "pipeline" /\ m.kind = "chain" /\ m.n = chains'
  BY <1>1, <1>4, <1>6, <1>7, HubConstants DEF SendingInv
<1>14. ASSUME NEW d \in Clients \ (broken \union aborted)
       PROVE  /\ handler[d] \in PastHello =>
                   \A n \in First(seen[d])..bars' :
                     \/ n \in shown'[d].bars
                     \/ n = bars' /\ StillComing(b, m, "scheduler", "bar", d)
                     \/ handler[d] = "bar" /\ pos[d] <= n /\ n <= seen[d]
              /\ handler[d] \in PastBars =>
                   \/ shown'[d].open = opens' \/ StillComing(b, m, "scheduler", "open", d)
                   \/ Replaying(d, "open", opens')
              /\ handler[d] \in PastOpen =>
                   \/ shown'[d].chain = chains' \/ StillComing(b, m, "pipeline", "chain", d)
                   \/ Replaying(d, "chain", chains')
  <2>1. HasBars(d) /\ HasOpen(d) /\ HasChain(d)
    BY <1>1, <1>14 DEF ReplayInv
  <2>2. \* a message on its way is still coming, or has just come
        ASSUME NEW a \in Broadcasters, NEW k, OnItsWay(a, k, d)
        PROVE  StillComing(b, m, a, k, d) \/ (a = b /\ d = c /\ h.kind = k /\ h.n = m.n)
    <3>1. CASE a # b
      BY <2>2, <3>1 DEF StillComing
    <3>2. CASE a = b
      <4>1. sending[b].kind = k /\ (d \in sending[b].left \/ Carries(lock[d], b))
        BY <2>2, <3>2, OnItsWayCarried
      <4>. QED BY <1>6, <1>7, <1>11, <1>14, <3>2, <4>1 DEF StillComing
    <3>. QED BY <3>1, <3>2
  <2>3. /\ handler[d] \in PastHello => ~Gone(d)
        /\ handler[d] \in PastBars => handler[d] \in PastHello
        /\ handler[d] \in PastOpen => handler[d] \in PastHello
    BY <1>14 DEF Gone, PastHello, PastBars, PastOpen
  <2>4. shown[d].bars \subseteq shown'[d].bars \/ Gone(d)
    BY <1>5, <1>14
  <2>5. ASSUME handler[d] \in PastHello, NEW n \in First(seen[d])..bars'
        PROVE  \/ n \in shown'[d].bars
               \/ n = bars' /\ StillComing(b, m, "scheduler", "bar", d)
               \/ handler[d] = "bar" /\ pos[d] <= n /\ n <= seen[d]
    <3>1. CASE n = bars /\ OnItsWay("scheduler", "bar", d)
      <4>1. CASE "scheduler" = b /\ d = c /\ h.kind = "bar" /\ h.n = m.n
        <5>1. m.n = bars
          BY <1>1, <1>6, <1>7, <4>1 DEF SendingInv
        <5>. QED BY <1>5, <2>3, <2>5, <3>1, <4>1, <5>1
      <4>. QED BY <1>4, <2>2, <3>1, <4>1, HubConstants
    <3>2. CASE n \in shown[d].bars \/ (handler[d] = "bar" /\ pos[d] <= n /\ n <= seen[d])
      BY <2>3, <2>4, <2>5, <3>2
    <3>. QED BY <1>4, <2>1, <2>5, <3>1, <3>2 DEF HasBars
  <2>6. ASSUME handler[d] \in PastBars
        PROVE  \/ shown'[d].open = opens' \/ StillComing(b, m, "scheduler", "open", d)
               \/ Replaying(d, "open", opens')
    <3>1. CASE shown[d].open = opens
      <4>1. CASE d = c /\ h.kind = "open"
        <5>1. h.n = opens
          BY <1>1, <1>6, <4>1, HubConstants DEF SendingInv
        <5>. QED BY <1>4, <1>5, <2>3, <2>6, <4>1, <5>1
      <4>. QED BY <1>4, <1>5, <1>14, <2>3, <2>6, <3>1, <4>1
    <3>2. CASE OnItsWay("scheduler", "open", d)
      <4>1. CASE "scheduler" = b /\ d = c /\ h.kind = "open" /\ h.n = m.n
        <5>1. m.n = opens
          BY <1>1, <1>6, <1>7, <4>1 DEF SendingInv
        <5>. QED BY <1>4, <1>5, <2>3, <2>6, <4>1, <5>1
      <4>. QED BY <2>2, <3>2, <4>1, HubConstants
    <3>. QED BY <1>4, <2>1, <2>6, <3>1, <3>2 DEF HasOpen
  <2>7. ASSUME handler[d] \in PastOpen
        PROVE  \/ shown'[d].chain = chains' \/ StillComing(b, m, "pipeline", "chain", d)
               \/ Replaying(d, "chain", chains')
    <3>1. CASE shown[d].chain = chains
      <4>1. CASE d = c /\ h.kind = "chain"
        <5>1. h.n = chains
          BY <1>1, <1>6, <4>1, HubConstants DEF SendingInv
        <5>. QED BY <1>4, <1>5, <2>3, <2>7, <4>1, <5>1
      <4>. QED BY <1>4, <1>5, <1>14, <2>3, <2>7, <3>1, <4>1
    <3>2. CASE OnItsWay("pipeline", "chain", d)
      <4>1. CASE "pipeline" = b /\ d = c /\ h.kind = "chain" /\ h.n = m.n
        <5>1. m.n = chains
          BY <1>1, <1>6, <1>7, <4>1 DEF SendingInv
        <5>. QED BY <1>4, <1>5, <2>3, <2>7, <4>1, <5>1
      <4>. QED BY <2>2, <3>2, <4>1, HubConstants
    <3>. QED BY <1>4, <2>1, <2>7, <3>1, <3>2 DEF HasChain
  <2>. QED BY <2>5, <2>6, <2>7
<1>15. /\ bars' \in 0..MaxMessages /\ opens' \in 0..MaxMessages /\ chains' \in 0..MaxMessages
       /\ bars <= bars' /\ opens <= opens' /\ chains <= chains'
       /\ b = "scheduler" => chains' = chains
       /\ b = "pipeline" => bars' = bars /\ opens' = opens
  BY <1>1, <1>4, HubConstants DEF Types
<1>16. /\ m.kind \in Kinds /\ shown' \in [Clients -> Views]
       /\ UNCHANGED << handler, pos, seen, broken, aborted >>
  BY <1>3, <1>4, <1>5, <1>6, <1>7
<1>. QED BY <1>6, <1>7, <1>8, <1>9, <1>10, <1>12, <1>13, <1>14, <1>15, <1>16, BroadcasterKeeps

(***************************************************************************)
(* The handlers.                                                           *)
(***************************************************************************)

\* A step of the handler of c, which leaves its line without a send of its own, or with one
\* that is what the handler is sending now, keeps the lines in order, the broadcasts on
\* their way, and what concerns the other clients.
LEMMA HandlerKeeps ==
  ASSUME IInv, NEW c \in Clients, UNCHANGED << bars, opens, chains, sending, broken >>,
         NEW q \in Seq(Sends), AtMostOne(q), InTurn(q),
         In(q) = {s \in In(lock[c]) : s.by # c},
         \/ lock' = [lock EXCEPT ![c] = q]
         \/ \E e \in Sends :
              /\ lock' = [lock EXCEPT ![c] = Append(q, e)]
              /\ e.by = c /\ e.kind = handler'[c]
              /\ e.kind = "bar" => e.n = pos'[c] /\ 1 <= e.n /\ e.n <= bars
              /\ e.kind = "open" => e.n = opens
              /\ e.kind = "chain" => e.n = chains,
         \A d \in Clients : d # c =>
            /\ handler'[d] = handler[d] /\ pos'[d] = pos[d] /\ seen'[d] = seen[d]
            /\ shown'[d] = shown[d]
            /\ d \in clients' <=> d \in clients
            /\ d \in aborted' <=> d \in aborted,
         shown'[c].open <= opens, shown'[c].chain <= chains,
         \A s \in In(q) : /\ s.kind = "open" => shown'[c].open <= s.n
                          /\ s.kind = "chain" => shown'[c].chain <= s.n,
         (c \notin broken /\ handler'[c] \notin {"off", "new"}) => c \in clients',
         Gone(c) => Gone(c)',
         (c \notin broken /\ c \notin aborted') => HasBars(c)' /\ HasOpen(c)' /\ HasChain(c)',
         handler' \in [Clients -> {"new", "loop", "closing", "off"} \union Kinds],
         pos' \in [Clients -> 0..MaxMessages], seen' \in [Clients -> 0..MaxMessages],
         shown' \in [Clients -> Views], clients' \subseteq Clients, aborted' \subseteq Clients
  PROVE  IInv'
<1>1. /\ Types /\ Queues /\ SendingInv /\ ClientsInv /\ ReplayInv
      /\ lock \in [Clients -> Seq(Sends)] /\ c \notin Broadcasters
      /\ opens \in Nat /\ chains \in Nat
  BY HubConstants DEF IInv, Types
<1>2. /\ lock' \in [Clients -> Seq(Sends)]
      /\ \A d \in Clients : d # c => lock'[d] = lock[d]
      /\ \/ lock'[c] = q
         \/ \E e \in Sends :
              /\ lock'[c] = Append(q, e)
              /\ e.by = c /\ e.kind = handler'[c]
              /\ e.kind = "bar" => e.n = pos'[c] /\ 1 <= e.n /\ e.n <= bars
              /\ e.kind = "open" => e.n = opens
              /\ e.kind = "chain" => e.n = chains
  <2>1. CASE lock' = [lock EXCEPT ![c] = q]
    BY <1>1, <2>1
  <2>2. ASSUME NEW e \in Sends,
               /\ lock' = [lock EXCEPT ![c] = Append(q, e)]
               /\ e.by = c /\ e.kind = handler'[c]
               /\ e.kind = "bar" => e.n = pos'[c] /\ 1 <= e.n /\ e.n <= bars
               /\ e.kind = "open" => e.n = opens
               /\ e.kind = "chain" => e.n = chains
        PROVE  /\ lock' \in [Clients -> Seq(Sends)] /\ lock'[c] = Append(q, e)
               /\ \A d \in Clients : d # c => lock'[d] = lock[d]
    <3>1. Append(q, e) \in Seq(Sends)
      BY AppendProperties
    <3>. QED BY <1>1, <2>2, <3>1
  <2>. QED BY <2>1, <2>2
<1>3. ASSUME NEW s \in In(q)
      PROVE  /\ s \in In(lock[c]) /\ s.by # c /\ s.by \in Broadcasters /\ s \in Sends
             /\ s.kind = sending[s.by].kind /\ s.n = sending[s.by].n
             /\ s.kind = "bar" => 1 <= s.n /\ s.n <= bars
             /\ s.kind = "open" => s.n <= opens
             /\ s.kind = "chain" => s.n <= chains
  <2>1. s \in In(lock[c]) /\ s.by # c
    BY <1>3
  <2>2. \A j \in DOMAIN q : q[j] \in Sends
    BY LenProperties, ElementOfSeq
  <2>3. s \in Sends
    BY <1>3, <2>2 DEF In
  <2>. QED BY <1>1, <2>1, <2>3 DEF Queues, QueueInv
<1>4. /\ AtMostOne(lock'[c]) /\ InTurn(lock'[c]) /\ In(q) \subseteq In(lock'[c])
      /\ \A s \in In(lock'[c]) :
           \/ s \in In(q)
           \/ /\ s.by = c /\ s.kind = handler'[c]
              /\ s.kind = "bar" => s.n = pos'[c] /\ 1 <= s.n /\ s.n <= bars
              /\ s.kind = "open" => s.n = opens
              /\ s.kind = "chain" => s.n = chains
  <2>1. CASE lock'[c] = q
    BY <2>1
  <2>2. ASSUME NEW e \in Sends,
               /\ lock'[c] = Append(q, e)
               /\ e.by = c /\ e.kind = handler'[c]
               /\ e.kind = "bar" => e.n = pos'[c] /\ 1 <= e.n /\ e.n <= bars
               /\ e.kind = "open" => e.n = opens
               /\ e.kind = "chain" => e.n = chains
        PROVE  /\ AtMostOne(lock'[c]) /\ InTurn(lock'[c]) /\ In(lock'[c]) = In(q) \union {e}
    <3>1. ~Carries(q, e.by)
      BY <1>3, <2>2 DEF Carries
    <3>2. \A s \in In(q) : (s.kind = e.kind /\ e.kind \in {"open", "chain"}) => s.n <= e.n
      BY <1>3, <2>2
    <3>. QED BY <2>2, <3>1, <3>2, LineGrows
  <2>. QED BY <1>2, <2>1, <2>2
<1>5. Queues'
  <2>1. ASSUME NEW d \in Clients, d # c PROVE QueueInv(d)'
    <3>1. /\ QueueInv(d) /\ lock'[d] = lock[d] /\ handler'[d] = handler[d] /\ pos'[d] = pos[d]
          /\ shown'[d] = shown[d]
      BY <1>1, <1>2, <2>1 DEF Queues
    <3>2. ASSUME NEW s \in In(lock'[d])
          PROVE  /\ s.by \in Broadcasters \union {d}
                 /\ s.by = d => s.kind = handler'[d] /\ (s.kind = "bar" => s.n = pos'[d])
                 /\ s.by # d => s.kind = sending'[s.by].kind /\ s.n = sending'[s.by].n
                 /\ s.kind = "bar" => 1 <= s.n /\ s.n <= bars'
                 /\ s.kind = "open" => shown'[d].open <= s.n /\ s.n <= opens'
                 /\ s.kind = "chain" => shown'[d].chain <= s.n /\ s.n <= chains'
      <4>1. s \in In(lock[d])
        BY <3>1, <3>2
      <4>. QED BY <3>1, <4>1 DEF QueueInv
    <3>3. AtMostOne(lock'[d]) /\ InTurn(lock'[d])
      BY <3>1 DEF QueueInv
    <3>. QED BY <3>2, <3>3 DEF QueueInv
  <2>2. QueueInv(c)'
    <3>1. ASSUME NEW s \in In(lock'[c])
          PROVE  /\ s.by \in Broadcasters \union {c}
                 /\ s.by = c => s.kind = handler'[c] /\ (s.kind = "bar" => s.n = pos'[c])
                 /\ s.by # c => s.kind = sending'[s.by].kind /\ s.n = sending'[s.by].n
                 /\ s.kind = "bar" => 1 <= s.n /\ s.n <= bars'
                 /\ s.kind = "open" => shown'[c].open <= s.n /\ s.n <= opens'
                 /\ s.kind = "chain" => shown'[c].chain <= s.n /\ s.n <= chains'
      <4>1. CASE s \in In(q)
        BY <1>3, <4>1
      <4>2. CASE s \notin In(q)
        BY <1>1, <1>4, <3>1, <4>2
      <4>. QED BY <4>1, <4>2
    <3>. QED BY <1>4, <3>1 DEF QueueInv
  <2>. QED BY <2>1, <2>2 DEF Queues
<1>6. \A d \in Clients : \A b \in Broadcasters : Carries(lock'[d], b) <=> Carries(lock[d], b)
  <2>1. ASSUME NEW b \in Broadcasters PROVE Carries(lock'[c], b) <=> Carries(lock[c], b)
    <3>1. Carries(lock[c], b) <=> Carries(q, b)
      BY <1>1, <2>1 DEF Carries
    <3>2. Carries(lock'[c], b) <=> Carries(q, b)
      BY <1>1, <1>4, <2>1 DEF Carries
    <3>. QED BY <3>1, <3>2
  <2>. QED BY <1>2, <2>1
<1>7. SendingInv'
  <2>1. \A b \in Broadcasters : \A d, e \in Clients :
          (Carries(lock'[d], b) /\ Carries(lock'[e], b)) => d = e
    BY <1>1, <1>6 DEF SendingInv
  <2>. QED BY <1>1, <2>1 DEF SendingInv
<1>8. \A d \in Clients : Gone(d) => Gone(d)'
  BY DEF Gone
<1>9. ClientsInv'
  <2>1. ASSUME NEW b \in Broadcasters, NEW d \in sending'[b].dead PROVE Gone(d)'
    <3>1. d \in Clients
      BY <1>1, <2>1 DEF Types, Messages
    <3>. QED BY <1>1, <1>8, <2>1, <3>1 DEF ClientsInv
  <2>2. ASSUME NEW d \in Clients, ~Gone(d)', handler'[d] # "new" PROVE d \in clients'
    BY <1>1, <2>2 DEF ClientsInv, Gone
  <2>3. \A d \in Clients : shown'[d].open <= opens' /\ shown'[d].chain <= chains'
    BY <1>1 DEF ClientsInv
  <2>. QED BY <2>1, <2>2, <2>3 DEF ClientsInv
<1>10. ReplayInv'
  <2>1. ASSUME NEW d \in Clients, d \notin broken', d \notin aborted'
        PROVE  HasBars(d)' /\ HasOpen(d)' /\ HasChain(d)'
    <3>1. CASE d = c
      BY <2>1, <3>1
    <3>2. CASE d # c
      <4>1. HasBars(d) /\ HasOpen(d) /\ HasChain(d)
        BY <1>1, <2>1, <3>2 DEF ReplayInv
      <4>2. ASSUME NEW b \in Broadcasters, NEW kind
            PROVE  OnItsWay(b, kind, d)' <=> OnItsWay(b, kind, d)
        BY <1>6, <4>2, OnItsWayCarried
      <4>3. HasBars(d)'
        <5>1. OnItsWay("scheduler", "bar", d)' <=> OnItsWay("scheduler", "bar", d)
          BY <4>2, HubConstants
        <5>. QED BY <3>2, <4>1, <5>1 DEF HasBars, First
      <4>4. HasOpen(d)'
        <5>1. OnItsWay("scheduler", "open", d)' <=> OnItsWay("scheduler", "open", d)
          BY <4>2, HubConstants
        <5>. QED BY <1>2, <3>2, <4>1, <5>1 DEF HasOpen, Replaying
      <4>5. HasChain(d)'
        <5>1. OnItsWay("pipeline", "chain", d)' <=> OnItsWay("pipeline", "chain", d)
          BY <4>2, HubConstants
        <5>. QED BY <1>2, <3>2, <4>1, <5>1 DEF HasChain, Replaying
      <4>. QED BY <4>3, <4>4, <4>5
    <3>. QED BY <3>1, <3>2
  <2>. QED BY <2>1 DEF ReplayInv
<1>11. Types'
  BY <1>1, <1>2 DEF Types
<1>. QED BY <1>5, <1>7, <1>9, <1>10, <1>11 DEF IInv

\* A handler that is sending nothing has no send in the line.
LEMMA HandlerInNoLine ==
  ASSUME IInv, NEW c \in Clients, handler[c] \notin Kinds
  PROVE  /\ lock[c] \in Seq(Sends) /\ AtMostOne(lock[c]) /\ InTurn(lock[c])
         /\ In(lock[c]) = {s \in In(lock[c]) : s.by # c}
         /\ \A s \in In(lock[c]) : /\ s.kind = "open" => shown[c].open <= s.n
                                   /\ s.kind = "chain" => shown[c].chain <= s.n
<1>1. /\ lock[c] \in Seq(Sends) /\ QueueInv(c)
  BY DEF IInv, Types, Queues
<1>2. ASSUME NEW s \in In(lock[c]), s.by = c PROVE FALSE
  <2>1. \A j \in DOMAIN lock[c] : lock[c][j] \in Sends
    BY <1>1, LenProperties, ElementOfSeq
  <2>2. s.kind \in Kinds
    BY <1>2, <2>1 DEF In, Sends
  <2>3. s.kind = handler[c]
    BY <1>1, <1>2 DEF QueueInv
  <2>. QED BY <2>2, <2>3
<1>3. AtMostOne(lock[c]) /\ InTurn(lock[c])
  BY <1>1 DEF QueueInv
<1>4. \A s \in In(lock[c]) : /\ s.kind = "open" => shown[c].open <= s.n
                             /\ s.kind = "chain" => shown[c].chain <= s.n
  BY <1>1 DEF QueueInv
<1>. QED BY <1>1, <1>2, <1>3, <1>4

\* What a handler does in its line takes no broadcast out of it.
LEMMA StillOnItsWay ==
  ASSUME NEW c \in Clients, UNCHANGED sending,
         NEW q \in Seq(Sends), In(q) = {s \in In(lock[c]) : s.by # c},
         lock'[c] = q \/ \E e \in Sends : e.by = c /\ lock'[c] = Append(q, e),
         NEW b \in Broadcasters, NEW kind
  PROVE  OnItsWay(b, kind, c)' <=> OnItsWay(b, kind, c)
<1>1. b # c
  BY HubConstants
<1>2. Carries(q, b) <=> Carries(lock[c], b)
  BY <1>1 DEF Carries
<1>3. Carries(lock'[c], b) <=> Carries(q, b)
  <2>1. ASSUME NEW e \in Sends, e.by = c, lock'[c] = Append(q, e)
        PROVE  Carries(lock'[c], b) <=> Carries(q, b)
    <3>1. In(lock'[c]) = In(q) \union {e}
      BY <2>1, LineGrows
    <3>. QED BY <1>1, <2>1, <3>1 DEF Carries
  <2>. QED BY <2>1
<1>. QED BY <1>2, <1>3, OnItsWayCarried

LEMMA ConnectKeeps ==
  ASSUME IInv, NEW c \in Clients, Connect(c)
  PROVE  IInv'
<1>. DEFINE e == [by |-> c, kind |-> "hello", n |-> 0]  q == lock[c]
<1>1. Types /\ ClientsInv
  BY DEF IInv
<1>2. /\ handler[c] = "new" /\ clients' = clients \union {c}
      /\ handler' = [handler EXCEPT ![c] = "hello"]
      /\ lock' = [lock EXCEPT ![c] = Append(q, e)]
      /\ UNCHANGED << bars, opens, chains, sending, pos, seen, broken, shown, aborted >>
  BY DEF Connect, Wait
<1>3. e \in Sends /\ e.by = c /\ e.kind = "hello"
  BY DEF Sends, Kinds
<1>. HIDE DEF e
<1>4. /\ q \in Seq(Sends) /\ AtMostOne(q) /\ InTurn(q)
      /\ In(q) = {s \in In(lock[c]) : s.by # c}
      /\ \A s \in In(q) : /\ s.kind = "open" => shown[c].open <= s.n
                          /\ s.kind = "chain" => shown[c].chain <= s.n
  BY <1>2, HandlerInNoLine DEF Kinds
<1>. HIDE DEF q
<1>5. /\ handler' \in [Clients -> {"new", "loop", "closing", "off"} \union Kinds]
      /\ handler'[c] = "hello" /\ \A d \in Clients : d # c => handler'[d] = handler[d]
  BY <1>1, <1>2 DEF Types, Kinds
<1>6. HasBars(c)' /\ HasOpen(c)' /\ HasChain(c)'
  BY <1>5 DEF HasBars, HasOpen, HasChain, PastHello, PastBars, PastOpen
<1>7. /\ shown'[c].open <= opens /\ shown'[c].chain <= chains
      /\ pos' \in [Clients -> 0..MaxMessages] /\ seen' \in [Clients -> 0..MaxMessages]
      /\ shown' \in [Clients -> Views] /\ clients' \subseteq Clients /\ aborted' \subseteq Clients
      /\ c \in clients' /\ (Gone(c) => Gone(c)')
  BY <1>1, <1>2 DEF Types, ClientsInv, Gone
<1>8. /\ \A d \in Clients : d # c =>
            /\ handler'[d] = handler[d] /\ pos'[d] = pos[d] /\ seen'[d] = seen[d]
            /\ shown'[d] = shown[d]
            /\ d \in clients' <=> d \in clients
            /\ d \in aborted' <=> d \in aborted
      /\ \A s \in In(q) : /\ s.kind = "open" => shown'[c].open <= s.n
                          /\ s.kind = "chain" => shown'[c].chain <= s.n
  BY <1>2, <1>4, <1>5
<1>9. \E x \in Sends :
        /\ lock' = [lock EXCEPT ![c] = Append(q, x)]
        /\ x.by = c /\ x.kind = handler'[c]
        /\ x.kind = "bar" => x.n = pos'[c] /\ 1 <= x.n /\ x.n <= bars
        /\ x.kind = "open" => x.n = opens
        /\ x.kind = "chain" => x.n = chains
  BY <1>2, <1>3, <1>5
<1>. QED BY <1>2, <1>4, <1>5, <1>6, <1>7, <1>8, <1>9, HandlerKeeps

LEMMA HandlerSendsKeeps ==
  ASSUME IInv, NEW c \in Clients, HandlerSends(c)
  PROVE  IInv'
<1>. DEFINE e == [by |-> c, kind |-> "pong", n |-> 0]  q == lock[c]
<1>1. Types /\ ClientsInv /\ ReplayInv
  BY DEF IInv
<1>2. /\ handler[c] = "loop"
      /\ \/ /\ c \in clients /\ handler' = [handler EXCEPT ![c] = "pong"]
            /\ lock' = [lock EXCEPT ![c] = Append(q, e)]
         \/ c \notin clients /\ handler' = [handler EXCEPT ![c] = "closing"] /\ lock' = lock
      /\ UNCHANGED << bars, opens, chains, clients, sending, pos, seen, broken, shown, aborted >>
  BY DEF HandlerSends, Wait
<1>3. e \in Sends /\ e.by = c /\ e.kind = "pong"
  BY DEF Sends, Kinds
<1>. HIDE DEF e
<1>4. /\ q \in Seq(Sends) /\ AtMostOne(q) /\ InTurn(q)
      /\ In(q) = {s \in In(lock[c]) : s.by # c}
      /\ \A s \in In(q) : /\ s.kind = "open" => shown[c].open <= s.n
                          /\ s.kind = "chain" => shown[c].chain <= s.n
  BY <1>2, HandlerInNoLine DEF Kinds
<1>5. /\ handler' \in [Clients -> {"new", "loop", "closing", "off"} \union Kinds]
      /\ handler'[c] \in {"pong", "closing"}
      /\ handler'[c] = "pong" => c \in clients /\ lock' = [lock EXCEPT ![c] = Append(q, e)]
      /\ handler'[c] = "closing" => c \notin clients /\ lock' = [lock EXCEPT ![c] = q]
      /\ \A d \in Clients : d # c => handler'[d] = handler[d]
  <2>1. lock = [lock EXCEPT ![c] = lock[c]]
    BY <1>1 DEF Types
  <2>. QED BY <1>1, <1>2, <2>1 DEF Types, Kinds
<1>. HIDE DEF q
<1>6. lock'[c] = q \/ \E x \in Sends : x.by = c /\ lock'[c] = Append(q, x)
  BY <1>1, <1>3, <1>5 DEF Types
<1>7. ASSUME c \notin broken, c \notin aborted'
      PROVE  HasBars(c)' /\ HasOpen(c)' /\ HasChain(c)'
  <2>1. c \in Clients \ (broken \union aborted)
    BY <1>2, <1>7
  <2>2. HasBars(c) /\ HasOpen(c) /\ HasChain(c)
    BY <1>1, <2>1 DEF ReplayInv
  <2>3. ~\E s \in In(lock[c]) : s.by = c
    BY <1>4 DEF q
  <2>4. \A kind : OnItsWay("scheduler", kind, c)' <=> OnItsWay("scheduler", kind, c)
    BY <1>2, <1>4, <1>6, StillOnItsWay, HubConstants
  <2>5. \A kind : OnItsWay("pipeline", kind, c)' <=> OnItsWay("pipeline", kind, c)
    BY <1>2, <1>4, <1>6, StillOnItsWay, HubConstants
  <2>6. HasBars(c)'
    <3>1. \A n \in First(seen[c])..bars :
            n \in shown[c].bars \/ (n = bars /\ OnItsWay("scheduler", "bar", c))
      BY <1>2, <2>2 DEF HasBars, PastHello
    <3>. QED BY <1>2, <2>4, <3>1 DEF HasBars, First
  <2>7. shown[c].open = opens \/ OnItsWay("scheduler", "open", c)
    BY <1>2, <2>2, <2>3 DEF HasOpen, PastBars, Replaying
  <2>8. shown[c].chain = chains \/ OnItsWay("pipeline", "chain", c)
    BY <1>2, <2>2, <2>3 DEF HasChain, PastOpen, Replaying
  <2>9. HasOpen(c)' /\ HasChain(c)'
    BY <1>2, <2>4, <2>5, <2>7, <2>8 DEF HasOpen, HasChain
  <2>. QED BY <2>6, <2>9
<1>8. /\ shown'[c].open <= opens /\ shown'[c].chain <= chains
      /\ pos' \in [Clients -> 0..MaxMessages] /\ seen' \in [Clients -> 0..MaxMessages]
      /\ shown' \in [Clients -> Views] /\ clients' \subseteq Clients /\ aborted' \subseteq Clients
      /\ (c \notin broken /\ handler'[c] \notin {"off", "new"}) => c \in clients'
      /\ Gone(c) => Gone(c)'
  BY <1>1, <1>2 DEF Types, ClientsInv, Gone
<1>9. /\ \A d \in Clients : d # c =>
            /\ handler'[d] = handler[d] /\ pos'[d] = pos[d] /\ seen'[d] = seen[d]
            /\ shown'[d] = shown[d]
            /\ d \in clients' <=> d \in clients
            /\ d \in aborted' <=> d \in aborted
      /\ \A s \in In(q) : /\ s.kind = "open" => shown'[c].open <= s.n
                          /\ s.kind = "chain" => shown'[c].chain <= s.n
  BY <1>2, <1>4, <1>5
<1>10. \/ lock' = [lock EXCEPT ![c] = q]
       \/ \E x \in Sends :
            /\ lock' = [lock EXCEPT ![c] = Append(q, x)]
            /\ x.by = c /\ x.kind = handler'[c]
            /\ x.kind = "bar" => x.n = pos'[c] /\ 1 <= x.n /\ x.n <= bars
            /\ x.kind = "open" => x.n = opens
            /\ x.kind = "chain" => x.n = chains
  BY <1>3, <1>5
<1>. QED BY <1>2, <1>4, <1>5, <1>7, <1>8, <1>9, <1>10, HandlerKeeps

LEMMA UnregisterKeeps ==
  ASSUME IInv, NEW c \in Clients, handler[c] \in {"loop", "closing"}, Unregister(c)
  PROVE  IInv'
<1>1. Types /\ ClientsInv
  BY DEF IInv
<1>2. /\ handler' = [handler EXCEPT ![c] = "off"]
      /\ clients' = clients \ {c}
      /\ pos' = [pos EXCEPT ![c] = 0] /\ seen' = [seen EXCEPT ![c] = 0]
      /\ shown' = [shown EXCEPT ![c] = NothingShown]
      /\ aborted' = aborted \ {c}
      /\ UNCHANGED << bars, opens, chains, lock, sending, broken >>
  BY DEF Unregister
<1>3. NothingShown \in Views /\ NothingShown.open = 0 /\ NothingShown.chain = 0
  BY HubConstants DEF NothingShown, Views
<1>4. /\ lock[c] \in Seq(Sends) /\ AtMostOne(lock[c]) /\ InTurn(lock[c])
      /\ In(lock[c]) = {s \in In(lock[c]) : s.by # c}
  BY HandlerInNoLine DEF Kinds
<1>5. /\ handler' \in [Clients -> {"new", "loop", "closing", "off"} \union Kinds]
      /\ pos' \in [Clients -> 0..MaxMessages] /\ seen' \in [Clients -> 0..MaxMessages]
      /\ shown' \in [Clients -> Views] /\ clients' \subseteq Clients /\ aborted' \subseteq Clients
      /\ handler'[c] = "off" /\ shown'[c] = NothingShown
  BY <1>1, <1>2, <1>3, HubConstants DEF Types
<1>6. \A d \in Clients : d # c =>
        /\ handler'[d] = handler[d] /\ pos'[d] = pos[d] /\ seen'[d] = seen[d]
        /\ shown'[d] = shown[d]
        /\ d \in clients' <=> d \in clients
        /\ d \in aborted' <=> d \in aborted
  BY <1>1, <1>2 DEF Types
<1>7. /\ shown'[c].open <= opens /\ shown'[c].chain <= chains
      /\ \A s \in In(lock[c]) : /\ s.kind = "open" => shown'[c].open <= s.n
                                /\ s.kind = "chain" => shown'[c].chain <= s.n
  <2>1. \A s \in In(lock[c]) : s \in Sends
    <3>1. \A j \in DOMAIN lock[c] : lock[c][j] \in Sends
      BY <1>4, LenProperties, ElementOfSeq
    <3>. QED BY <3>1 DEF In
  <2>2. opens \in Nat /\ chains \in Nat
    BY <1>1, HubConstants DEF Types
  <2>. QED BY <1>3, <1>5, <2>1, <2>2 DEF Sends
<1>8. HasBars(c)' /\ HasOpen(c)' /\ HasChain(c)' /\ Gone(c)'
  BY <1>5 DEF HasBars, HasOpen, HasChain, PastHello, PastBars, PastOpen, Gone
<1>9. lock' = [lock EXCEPT ![c] = lock[c]]
  BY <1>1, <1>2 DEF Types
<1>. QED BY <1>2, <1>4, <1>5, <1>6, <1>7, <1>8, <1>9, HandlerKeeps

LEMMA ConnectionLostKeeps ==
  ASSUME IInv, NEW c \in Clients, ConnectionLost(c)
  PROVE  IInv'
<1>1. /\ broken' = broken \union {c}
      /\ UNCHANGED << bars, opens, chains, clients, lock, sending, handler, pos, seen, shown,
                      aborted >>
  BY DEF ConnectionLost
<1>2. Types' /\ Queues' /\ SendingInv'
  BY <1>1 DEF IInv, Types, Queues, QueueInv, SendingInv
<1>3. \A d : Gone(d) => Gone(d)'
  BY <1>1 DEF Gone
<1>4. ClientsInv'
  BY <1>1, <1>3 DEF IInv, ClientsInv
<1>5. ReplayInv'
  <2>1. ASSUME NEW d \in Clients, d \notin broken', d \notin aborted'
        PROVE  HasBars(d)' /\ HasOpen(d)' /\ HasChain(d)'
    <3>1. HasBars(d) /\ HasOpen(d) /\ HasChain(d)
      BY <1>1, <2>1 DEF IInv, ReplayInv
    <3>2. \A a, kind : OnItsWay(a, kind, d)' <=> OnItsWay(a, kind, d)
      BY <1>1 DEF OnItsWay
    <3>3. HasBars(d)'
      BY <1>1, <3>1, <3>2 DEF HasBars, First
    <3>4. HasOpen(d)'
      BY <1>1, <3>1, <3>2 DEF HasOpen, Replaying
    <3>5. HasChain(d)'
      BY <1>1, <3>1, <3>2 DEF HasChain, Replaying
    <3>. QED BY <3>3, <3>4, <3>5
  <2>. QED BY <2>1 DEF ReplayInv
<1>. QED BY <1>2, <1>4, <1>5 DEF IInv

\* What a handler does after its own send: it is back in the receive loop or gives up, or its
\* replay is cut short, or goes on to what comes next.
PingAnswered(c, ok, locks) ==
  /\ handler[c] = "pong" /\ lock' = locks /\ UNCHANGED << pos, seen, aborted >>
  /\ handler' = [handler EXCEPT ![c] = IF ok THEN "loop" ELSE "closing"]

CutShort(c, locks) ==
  /\ handler[c] \in Replays /\ lock' = locks /\ UNCHANGED << pos, seen >>
  /\ handler' = [handler EXCEPT ![c] = "loop"] /\ aborted' = aborted \union {c}

GoesTo(c, next, locks) ==
  /\ handler[c] \in Replays /\ ~Raises(c) /\ UNCHANGED aborted
  /\ handler' = [handler EXCEPT ![c] = next]
  /\ \/ next = "loop" /\ lock' = locks
     \/ \E e \in Sends :
          /\ lock' = [locks EXCEPT ![c] = Append(@, e)]
          /\ e.by = c /\ e.kind = next
          /\ e.kind = "bar" => e.n = pos'[c] /\ 1 <= e.n /\ e.n <= bars
          /\ e.kind = "open" => e.n = opens
          /\ e.kind = "chain" => e.n = chains
  /\ next = "bar" =>
       /\ handler[c] \in {"hello", "bar"} /\ bars > 0
       /\ pos' = [pos EXCEPT ![c] = IF handler[c] = "hello" THEN Oldest ELSE pos[c] + 1]
       /\ handler[c] = "bar" => pos[c] < bars
  /\ next # "bar" =>
       /\ pos' = pos
       /\ handler[c] = "hello" => bars = 0
       /\ handler[c] = "bar" => pos[c] >= bars
  /\ next = "open" => handler[c] \in {"hello", "bar"}
  /\ next = "chain" => handler[c] \in {"hello", "bar", "open"}
  /\ (next \in {"chain", "loop"} /\ handler[c] \in {"hello", "bar"}) => opens = 0
  /\ (next = "loop" /\ handler[c] # "chain") => chains = 0
  /\ seen' = IF handler[c] = "hello" THEN [seen EXCEPT ![c] = bars] ELSE seen

LEMMA HandlerGoesOnEffect ==
  ASSUME Types, NEW c \in Clients, NEW ok \in BOOLEAN, NEW locks \in [Clients -> Seq(Sends)],
         HandlerGoesOn(c, ok, locks)
  PROVE  \/ PingAnswered(c, ok, locks)
         \/ CutShort(c, locks)
         \/ \E next \in {"bar", "open", "chain", "loop"} : GoesTo(c, next, locks)
<1>1. CASE handler[c] = "pong"
  BY <1>1 DEF HandlerGoesOn, Replays, PingAnswered
<1>2. CASE handler[c] \in Replays /\ aborted' = aborted \union {c} /\ lock' = locks
           /\ handler' = [handler EXCEPT ![c] = "loop"] /\ UNCHANGED << pos, seen >>
  BY <1>2 DEF CutShort
<1>. DEFINE next == NextOfReplay(c)
            number == CASE next = "bar"   -> IF handler[c] = "hello" THEN Oldest ELSE pos[c] + 1
                        [] next = "open"  -> opens
                        [] next = "chain" -> chains
                        [] OTHER          -> 0
            e == [by |-> c, kind |-> next, n |-> number]
<1>3. CASE /\ handler[c] \in Replays /\ ~Raises(c) /\ UNCHANGED aborted
           /\ handler' = [handler EXCEPT ![c] = next]
           /\ lock' = IF next = "loop" THEN locks
                      ELSE [locks EXCEPT ![c] = Append(@, [by |-> c, kind |-> next, n |-> number])]
           /\ pos' = IF next = "bar" THEN [pos EXCEPT ![c] = number] ELSE pos
           /\ seen' = IF handler[c] = "hello" THEN [seen EXCEPT ![c] = bars] ELSE seen
  <2>1. /\ bars \in Nat /\ opens \in Nat /\ chains \in Nat /\ pos[c] \in Nat
        /\ pos \in [Clients -> 0..MaxMessages] /\ Oldest \in Nat
        /\ bars > 0 => 1 <= Oldest /\ Oldest <= bars
    BY HubConstants DEF Types, Oldest
  <2>2. /\ next \in {"bar", "open", "chain", "loop"}
        /\ next = "bar" => /\ handler[c] \in {"hello", "bar"} /\ bars > 0
                           /\ handler[c] = "bar" => pos[c] < bars
        /\ next # "bar" => /\ handler[c] = "hello" => bars = 0
                           /\ handler[c] = "bar" => pos[c] >= bars
        /\ next = "open" => handler[c] \in {"hello", "bar"}
        /\ next = "chain" => handler[c] \in {"hello", "bar", "open"}
        /\ (next \in {"chain", "loop"} /\ handler[c] \in {"hello", "bar"}) => opens = 0
        /\ (next = "loop" /\ handler[c] # "chain") => chains = 0
    BY <1>3, <2>1 DEF NextOfReplay, ReadOpen, ReadChain, MoreBars, Replays
  <2>. HIDE DEF next
  <2>3. /\ next = "bar" => number = IF handler[c] = "hello" THEN Oldest ELSE pos[c] + 1
        /\ next = "open" => number = opens
        /\ next = "chain" => number = chains
        /\ next = "loop" => number = 0
    OBVIOUS
  <2>. HIDE DEF number
  <2>4. next = "bar" => 1 <= number /\ number <= bars
    BY <2>1, <2>2, <2>3
  <2>5. number \in Nat
    BY <2>1, <2>2, <2>3
  <2>6. CASE next = "loop"
    BY <1>3, <2>2, <2>3, <2>6 DEF GoesTo
  <2>7. CASE next # "loop"
    <3>1. /\ e \in Sends /\ e.by = c /\ e.kind = next /\ e.n = number
          /\ lock' = [locks EXCEPT ![c] = Append(@, e)]
      BY <1>3, <2>2, <2>5, <2>7 DEF Sends, Kinds
    <3>2. /\ next = "bar" => number = pos'[c]
          /\ next = "bar" =>
               pos' = [pos EXCEPT ![c] = IF handler[c] = "hello" THEN Oldest ELSE pos[c] + 1]
          /\ next # "bar" => pos' = pos
      BY <1>3, <2>1, <2>3
    <3>. HIDE DEF e
    <3>3. \E x \in Sends :
            /\ lock' = [locks EXCEPT ![c] = Append(@, x)]
            /\ x.by = c /\ x.kind = next
            /\ x.kind = "bar" => x.n = pos'[c] /\ 1 <= x.n /\ x.n <= bars
            /\ x.kind = "open" => x.n = opens
            /\ x.kind = "chain" => x.n = chains
      BY <2>3, <2>4, <3>1, <3>2
    <3>. QED BY <1>3, <2>2, <3>2, <3>3 DEF GoesTo
  <2>. QED BY <2>6, <2>7
<1>. QED BY <1>1, <1>2, <1>3 DEF HandlerGoesOn, Wait

\* The end of a handler's own send keeps the invariant.
LEMMA HandlerGoesOnKeeps ==
  ASSUME IInv, NEW c \in Clients, lock[c] # << >>, Head(lock[c]).by = c, SendEnds(c)
  PROVE  IInv'
<1>. DEFINE h == Head(lock[c])  q == Tail(lock[c])  locks == [lock EXCEPT ![c] = Tail(@)]
<1>1. /\ Types /\ Queues /\ SendingInv /\ ClientsInv /\ ReplayInv /\ QueueInv(c)
      /\ lock \in [Clients -> Seq(Sends)]
  BY DEF IInv, Types, Queues
<1>2. shown' = IF c \notin broken /\ handler[c] # "off"
               THEN [shown EXCEPT ![c] = Show(@, Head(lock[c]))] ELSE shown
  BY DEF SendEnds
<1>3. UNCHANGED << bars, opens, chains, broken, clients, sending >>
  BY DEF SendEnds
<1>4. /\ h \in In(lock[c]) /\ h \in Sends /\ q \in Seq(Sends)
      /\ In(q) = {s \in In(lock[c]) : s.by # c}
      /\ \A s \in In(lock[c]) : s.by = c => s = h
      /\ AtMostOne(q) /\ InTurn(q)
      /\ shown' \in [Clients -> Views]
      /\ \A d \in Clients : d # c => shown'[d] = shown[d]
      /\ \A d \in Clients : shown'[d].open <= opens /\ shown'[d].chain <= chains
      /\ shown[c].open <= shown'[c].open /\ shown[c].chain <= shown'[c].chain
      /\ ~Gone(c) =>
           /\ shown'[c].bars = IF h.kind = "bar" THEN shown[c].bars \union {h.n} ELSE shown[c].bars
           /\ shown'[c].open = IF h.kind = "open" THEN h.n ELSE shown[c].open
           /\ shown'[c].chain = IF h.kind = "chain" THEN h.n ELSE shown[c].chain
      /\ \A s \in In(q) : /\ s.kind = "open" => shown'[c].open <= s.n
                          /\ s.kind = "chain" => shown'[c].chain <= s.n
  BY <1>2, SendEffect
<1>5. h.by = c /\ h.kind = handler[c] /\ (h.kind = "bar" => h.n = pos[c]) /\ h.kind \in Kinds
  BY <1>1, <1>4 DEF QueueInv, Sends
<1>6. PICK ok \in BOOLEAN : HandlerGoesOn(c, ok, locks) /\ (c \notin broken => ok)
  <2>1. handler[c] # "off"
    BY <1>5 DEF Kinds
  <2>. QED BY <2>1 DEF SendEnds, Release
<1>7. /\ locks \in [Clients -> Seq(Sends)] /\ locks[c] = q
      /\ locks = [lock EXCEPT ![c] = q]
      /\ \A s \in Sends : [locks EXCEPT ![c] = Append(@, s)] = [lock EXCEPT ![c] = Append(q, s)]
  BY <1>1, <1>4
<1>. HIDE DEF h, q, locks
<1>8. /\ bars \in Nat /\ opens \in Nat /\ chains \in Nat /\ pos[c] \in Nat /\ seen[c] \in Nat
      /\ shown'[c].open \in Nat /\ shown'[c].chain \in Nat
      /\ shown[c].open \in Nat /\ shown[c].chain \in Nat
      /\ handler \in [Clients -> {"new", "loop", "closing", "off"} \union Kinds]
      /\ bars \in 0..MaxMessages /\ aborted \subseteq Clients /\ clients \subseteq Clients
      /\ pos \in [Clients -> 0..MaxMessages] /\ seen \in [Clients -> 0..MaxMessages]
  BY <1>1, <1>4, HubConstants DEF Types, Views
<1>9. c \notin broken => ~Gone(c) /\ c \in clients
  BY <1>1, <1>5 DEF Gone, Kinds, ClientsInv
<1>10. \* what the replay has reached stays so, its own send included
       ASSUME c \in Clients \ (broken \union aborted)
       PROVE  /\ HasBars(c) /\ HasOpen(c) /\ HasChain(c)
              /\ shown[c].bars \subseteq shown'[c].bars
              /\ h.kind = "bar" => pos[c] \in shown'[c].bars
              /\ handler[c] \in PastBars =>
                   shown'[c].open = opens \/ OnItsWay("scheduler", "open", c)
              /\ handler[c] \in PastOpen =>
                   shown'[c].chain = chains \/ OnItsWay("pipeline", "chain", c)
  <2>1. HasBars(c) /\ HasOpen(c) /\ HasChain(c) /\ ~Gone(c)
    BY <1>1, <1>9, <1>10 DEF ReplayInv
  <2>2. shown[c].open = opens => shown'[c].open = opens
    BY <1>4, <1>8
  <2>3. shown[c].chain = chains => shown'[c].chain = chains
    BY <1>4, <1>8
  <2>4. Replaying(c, "open", opens) => shown'[c].open = opens
    BY <1>4, <2>1 DEF Replaying
  <2>5. Replaying(c, "chain", chains) => shown'[c].chain = chains
    BY <1>4, <2>1 DEF Replaying
  <2>6. shown[c].bars \subseteq shown'[c].bars /\ (h.kind = "bar" => pos[c] \in shown'[c].bars)
    BY <1>4, <1>5, <2>1
  <2>. QED BY <2>1, <2>2, <2>3, <2>4, <2>5, <2>6 DEF HasOpen, HasChain
<1>11. CASE PingAnswered(c, ok, locks)
  <2>1. /\ lock' = [lock EXCEPT ![c] = q] /\ lock'[c] = q
        /\ handler'[c] \in {"loop", "closing"}
        /\ \A d \in Clients : d # c => handler'[d] = handler[d]
        /\ handler' \in [Clients -> {"new", "loop", "closing", "off"} \union Kinds]
    BY <1>1, <1>7, <1>8, <1>11 DEF PingAnswered
  <2>2. ASSUME c \notin broken, c \notin aborted'
        PROVE  HasBars(c)' /\ HasOpen(c)' /\ HasChain(c)'
    <3>1. c \in Clients \ (broken \union aborted)
      BY <1>11, <2>2 DEF PingAnswered
    <3>2. /\ OnItsWay("scheduler", "bar", c)' <=> OnItsWay("scheduler", "bar", c)
          /\ OnItsWay("scheduler", "open", c)' <=> OnItsWay("scheduler", "open", c)
          /\ OnItsWay("pipeline", "chain", c)' <=> OnItsWay("pipeline", "chain", c)
      BY <1>3, <1>4, <2>1, StillOnItsWay, HubConstants
    <3>3. HasBars(c)'
      <4>1. \A n \in First(seen[c])..bars :
              n \in shown'[c].bars \/ (n = bars /\ OnItsWay("scheduler", "bar", c))
        BY <1>10, <1>11, <3>1 DEF HasBars, PastHello, PingAnswered
      <4>. QED BY <1>3, <1>11, <3>2, <4>1 DEF HasBars, First, PingAnswered
    <3>4. HasOpen(c)' /\ HasChain(c)'
      BY <1>3, <1>10, <1>11, <3>1, <3>2 DEF HasOpen, HasChain, PastBars, PastOpen, PingAnswered
    <3>. QED BY <3>3, <3>4
  <2>3. Gone(c) => Gone(c)'
    BY <1>3, <1>5 DEF Gone, Kinds
  <2>. QED BY <1>3, <1>4, <1>8, <1>9, <1>11, <2>1, <2>2, <2>3, HandlerKeeps DEF PingAnswered
<1>12. CASE CutShort(c, locks)
  <2>1. /\ lock' = [lock EXCEPT ![c] = q] /\ handler'[c] = "loop"
        /\ \A d \in Clients : d # c => handler'[d] = handler[d]
        /\ handler' \in [Clients -> {"new", "loop", "closing", "off"} \union Kinds]
        /\ aborted' \subseteq Clients /\ c \in aborted'
        /\ \A d \in Clients : d # c => (d \in aborted' <=> d \in aborted)
    BY <1>1, <1>7, <1>8, <1>12 DEF CutShort
  <2>2. Gone(c) => Gone(c)'
    BY <1>3, <1>5 DEF Gone, Kinds
  <2>. QED BY <1>3, <1>4, <1>8, <1>9, <1>12, <2>1, <2>2, HandlerKeeps DEF CutShort
<1>13. ASSUME NEW next \in {"bar", "open", "chain", "loop"}, GoesTo(c, next, locks)
       PROVE  IInv'
  <2>1. /\ handler' \in [Clients -> {"new", "loop", "closing", "off"} \union Kinds]
        /\ handler'[c] = next /\ \A d \in Clients : d # c => handler'[d] = handler[d]
    BY <1>8, <1>13 DEF Kinds, GoesTo
  <2>2. /\ seen' \in [Clients -> 0..MaxMessages]
        /\ seen'[c] = IF handler[c] = "hello" THEN bars ELSE seen[c]
        /\ \A d \in Clients : d # c => seen'[d] = seen[d]
    BY <1>8, <1>13 DEF GoesTo
  <2>3. bars > 0 => Oldest = First(bars) /\ Oldest \in 1..bars
    BY <1>8, HubConstants DEF Oldest, First
  <2>4. /\ pos' \in [Clients -> 0..MaxMessages]
        /\ next = "bar" => pos'[c] = IF handler[c] = "hello" THEN First(bars) ELSE pos[c] + 1
        /\ \A d \in Clients : d # c => pos'[d] = pos[d]
    <3>1. CASE next = "bar"
      <4>. DEFINE number == IF handler[c] = "hello" THEN Oldest ELSE pos[c] + 1
      <4>1. /\ number \in 0..MaxMessages
            /\ number = IF handler[c] = "hello" THEN First(bars) ELSE pos[c] + 1
        BY <1>8, <1>13, <2>3, <3>1, HubConstants DEF GoesTo
      <4>2. pos' = [pos EXCEPT ![c] = number]
        BY <1>13, <3>1 DEF GoesTo
      <4>. HIDE DEF number
      <4>. QED BY <1>8, <4>1, <4>2
    <3>2. CASE next # "bar"
      BY <1>8, <1>13, <3>2 DEF GoesTo
    <3>. QED BY <3>1, <3>2
  <2>5. \/ next = "loop" /\ lock' = [lock EXCEPT ![c] = q] /\ lock'[c] = q
        \/ \E e \in Sends :
             /\ lock' = [lock EXCEPT ![c] = Append(q, e)] /\ lock'[c] = Append(q, e)
             /\ e \in In(lock'[c])
             /\ e.by = c /\ e.kind = next
             /\ e.kind = "bar" => e.n = pos'[c] /\ 1 <= e.n /\ e.n <= bars
             /\ e.kind = "open" => e.n = opens
             /\ e.kind = "chain" => e.n = chains
    <3>1. CASE next = "loop" /\ lock' = locks
      BY <1>1, <1>7, <3>1
    <3>2. ASSUME NEW e \in Sends, lock' = [locks EXCEPT ![c] = Append(@, e)]
          PROVE  /\ lock' = [lock EXCEPT ![c] = Append(q, e)] /\ lock'[c] = Append(q, e)
                 /\ e \in In(lock'[c])
      <4>1. lock' = [lock EXCEPT ![c] = Append(q, e)] /\ lock'[c] = Append(q, e)
        BY <1>1, <1>7, <3>2
      <4>2. In(Append(q, e)) = In(q) \union {e}
        BY <1>4, LineGrows
      <4>. QED BY <4>1, <4>2
    <3>. QED BY <1>13, <3>1, <3>2 DEF GoesTo
  <2>6. ASSUME c \notin broken, c \notin aborted'
        PROVE  HasBars(c)' /\ HasOpen(c)' /\ HasChain(c)'
    <3>1. c \in Clients \ (broken \union aborted)
      BY <1>13, <2>6 DEF GoesTo
    <3>2. lock'[c] = q \/ \E e \in Sends : e.by = c /\ lock'[c] = Append(q, e)
      BY <2>5
    <3>3. /\ OnItsWay("scheduler", "bar", c)' <=> OnItsWay("scheduler", "bar", c)
          /\ OnItsWay("scheduler", "open", c)' <=> OnItsWay("scheduler", "open", c)
          /\ OnItsWay("pipeline", "chain", c)' <=> OnItsWay("pipeline", "chain", c)
      BY <1>3, <1>4, <3>2, StillOnItsWay, HubConstants
    <3>4. HasBars(c)'
      <4>1. ASSUME NEW n \in First(seen'[c])..bars
            PROVE  \/ n \in shown'[c].bars
                   \/ n = bars /\ OnItsWay("scheduler", "bar", c)
                   \/ next = "bar" /\ pos'[c] <= n /\ n <= seen'[c]
        <5>1. n \in Nat
          <6>1. First(seen'[c]) \in Nat
            BY <1>8, <2>2, HubConstants DEF First
          <6>. QED BY <1>8, <4>1, <6>1
        <5>2. CASE handler[c] = "hello"
          <6>1. bars > 0
            BY <1>8, <2>2, <4>1, <5>1, <5>2, HubConstants DEF First
          <6>2. next = "bar" /\ seen'[c] = bars /\ pos'[c] = First(bars)
            BY <1>8, <1>13, <2>2, <2>4, <5>2, <6>1 DEF GoesTo
          <6>. QED BY <4>1, <6>2
        <5>3. CASE handler[c] # "hello"
          <6>1. /\ seen'[c] = seen[c]
                /\ \/ n \in shown[c].bars
                   \/ n = bars /\ OnItsWay("scheduler", "bar", c)
                   \/ handler[c] = "bar" /\ pos[c] <= n /\ n <= seen[c]
            BY <1>10, <1>13, <2>2, <3>1, <4>1, <5>3 DEF HasBars, PastHello, Replays, GoesTo
          <6>2. CASE handler[c] = "bar" /\ pos[c] <= n /\ n <= seen[c]
            <7>1. seen[c] = bars /\ pos[c] \in shown'[c].bars
              BY <1>5, <1>10, <1>13, <3>1, <6>2 DEF Raises, GoesTo
            <7>2. next = "bar" => pos'[c] = pos[c] + 1
              BY <2>4, <6>2
            <7>3. next # "bar" => pos[c] >= bars
              BY <1>13, <6>2 DEF GoesTo
            <7>4. n = pos[c] \/ pos[c] + 1 <= n
              BY <1>8, <5>1, <6>2
            <7>. QED BY <1>8, <5>1, <6>1, <6>2, <7>1, <7>2, <7>3, <7>4
          <6>. QED BY <1>10, <3>1, <6>1, <6>2
        <5>. QED BY <5>2, <5>3
      <4>. QED BY <1>3, <2>1, <3>3, <4>1 DEF HasBars, First
    <3>5. HasOpen(c)'
      <4>1. ASSUME next \in PastBars
            PROVE  \/ shown'[c].open = opens \/ OnItsWay("scheduler", "open", c)
                   \/ \E s \in In(lock'[c]) : s.by = c /\ s.kind = "open" /\ s.n = opens
        <5>1. CASE handler[c] \in PastBars
          BY <1>10, <3>1, <5>1
        <5>2. CASE handler[c] \notin PastBars
          <6>1. handler[c] \in {"hello", "bar"}
            BY <1>13, <5>2 DEF PastBars, Replays, GoesTo
          <6>2. CASE next = "open"
            BY <2>5, <6>2
          <6>3. CASE next # "open"
            <7>1. opens = 0
              BY <1>13, <4>1, <6>1, <6>3 DEF PastBars, GoesTo
            <7>. QED BY <1>4, <1>8, <7>1
          <6>. QED BY <6>2, <6>3
        <5>. QED BY <5>1, <5>2
      <4>. QED BY <1>3, <2>1, <3>3, <4>1 DEF HasOpen, Replaying
    <3>6. HasChain(c)'
      <4>1. ASSUME next \in PastOpen
            PROVE  \/ shown'[c].chain = chains \/ OnItsWay("pipeline", "chain", c)
                   \/ \E s \in In(lock'[c]) : s.by = c /\ s.kind = "chain" /\ s.n = chains
        <5>1. CASE handler[c] \in PastOpen
          BY <1>10, <3>1, <5>1
        <5>2. CASE handler[c] \notin PastOpen
          <6>1. CASE next = "chain"
            BY <2>5, <6>1
          <6>2. CASE next # "chain"
            <7>1. chains = 0
              BY <1>13, <4>1, <5>2, <6>2 DEF PastOpen, GoesTo
            <7>. QED BY <1>4, <1>8, <7>1
          <6>. QED BY <6>1, <6>2
        <5>. QED BY <5>1, <5>2
      <4>. QED BY <1>3, <2>1, <3>3, <4>1 DEF HasChain, Replaying
    <3>. QED BY <3>4, <3>5, <3>6
  <2>7. Gone(c) => Gone(c)'
    BY <1>3, <1>5 DEF Gone, Kinds
  <2>8. \/ lock' = [lock EXCEPT ![c] = q]
        \/ \E e \in Sends :
             /\ lock' = [lock EXCEPT ![c] = Append(q, e)]
             /\ e.by = c /\ e.kind = handler'[c]
             /\ e.kind = "bar" => e.n = pos'[c] /\ 1 <= e.n /\ e.n <= bars
             /\ e.kind = "open" => e.n = opens
             /\ e.kind = "chain" => e.n = chains
    BY <2>1, <2>5
  <2>9. /\ \A d \in Clients : d # c =>
             /\ handler'[d] = handler[d] /\ pos'[d] = pos[d] /\ seen'[d] = seen[d]
             /\ shown'[d] = shown[d]
             /\ d \in clients' <=> d \in clients
             /\ d \in aborted' <=> d \in aborted
        /\ shown'[c].open <= opens /\ shown'[c].chain <= chains
        /\ (c \notin broken /\ handler'[c] \notin {"off", "new"}) => c \in clients'
        /\ clients' \subseteq Clients /\ aborted' \subseteq Clients
    BY <1>3, <1>4, <1>8, <1>9, <1>13, <2>1, <2>2, <2>4 DEF GoesTo
  <2>. QED BY <1>3, <1>4, <2>1, <2>2, <2>4, <2>6, <2>7, <2>8, <2>9, HandlerKeeps
<1>14. HandlerGoesOn(c, ok, locks) /\ Types /\ locks \in [Clients -> Seq(Sends)]
  BY <1>1, <1>6, <1>7
<1>. QED BY <1>11, <1>12, <1>13, <1>14, HandlerGoesOnEffect

(***************************************************************************)
(* The theorems.                                                           *)
(***************************************************************************)

LEMMA InitEstablishes == Init => IInv
<1>. SUFFICES ASSUME Init PROVE IInv
  OBVIOUS
<1>1. Types
  <2>1. Idle \in Messages /\ NothingShown \in Views /\ << >> \in Seq(Sends)
    BY HubConstants DEF Idle, Messages, NothingShown, Views
  <2>. QED BY <2>1, HubConstants DEF Init, Types
<1>2. \A c \in Clients : In(lock[c]) = {} /\ DOMAIN lock[c] = {}
  <2>1. DOMAIN << >> = {}
    OBVIOUS
  <2>2. ASSUME NEW c \in Clients PROVE lock[c] = << >>
    BY DEF Init
  <2>. QED BY <2>1, <2>2 DEF In
<1>3. Queues
  BY <1>2 DEF Queues, QueueInv, AtMostOne, InTurn
<1>4. SendingInv
  BY <1>2, HubConstants DEF Init, SendingInv, Carries, Idle
<1>5. ClientsInv
  BY DEF Init, ClientsInv, Idle, NothingShown, Gone
<1>6. ReplayInv
  BY DEF Init, ReplayInv, HasBars, HasOpen, HasChain, PastHello, PastBars, PastOpen
<1>. QED BY <1>1, <1>3, <1>4, <1>5, <1>6 DEF IInv

LEMMA NextKeeps == IInv /\ [Next]_vars => IInv'
<1>. SUFFICES ASSUME IInv, [Next]_vars PROVE IInv'
  OBVIOUS
<1>1. bars \in Nat /\ opens \in Nat /\ chains \in Nat
  BY HubConstants DEF IInv, Types
<1>2. CASE BroadcastBar
  <2>1. "bar" \in Kinds
    BY DEF Kinds
  <2>. QED BY <1>2, <2>1, BroadcastKeeps, HubConstants DEF BroadcastBar
<1>3. CASE BroadcastOpen
  <2>1. "open" \in Kinds
    BY DEF Kinds
  <2>. QED BY <1>3, <2>1, BroadcastKeeps, HubConstants DEF BroadcastOpen
<1>4. CASE BroadcastChain
  <2>1. "chain" \in Kinds
    BY DEF Kinds
  <2>. QED BY <1>4, <2>1, BroadcastKeeps, HubConstants DEF BroadcastChain
<1>5. ASSUME NEW c \in Clients, Connect(c) PROVE IInv'
  BY <1>5, ConnectKeeps
<1>6. ASSUME NEW c \in Clients, HandlerSends(c) PROVE IInv'
  BY <1>6, HandlerSendsKeeps
<1>7. ASSUME NEW c \in Clients, HandlerCloses(c) PROVE IInv'
  BY <1>7, UnregisterKeeps DEF HandlerCloses
<1>8. ASSUME NEW c \in Clients, ReceiveFails(c) PROVE IInv'
  BY <1>8, UnregisterKeeps DEF ReceiveFails
<1>9. ASSUME NEW c \in Clients, SendEnds(c) PROVE IInv'
  <2>1. lock[c] # << >>
    BY <1>9 DEF SendEnds
  <2>2. CASE Head(lock[c]).by = c
    BY <1>9, <2>1, <2>2, HandlerGoesOnKeeps
  <2>3. CASE Head(lock[c]).by # c
    BY <1>9, <2>1, <2>3, BroadcastGoesOn
  <2>. QED BY <2>2, <2>3
<1>10. ASSUME NEW c \in Clients, ConnectionLost(c) PROVE IInv'
  BY <1>10, ConnectionLostKeeps
<1>11. CASE UNCHANGED vars
  <2>1. Types' /\ Queues' /\ SendingInv' /\ ClientsInv'
    BY <1>11 DEF IInv, Types, Queues, QueueInv, SendingInv, ClientsInv, Gone, vars
  <2>2. ReplayInv'
    BY <1>11 DEF IInv, ReplayInv, HasBars, HasOpen, HasChain, OnItsWay, Replaying, First, vars
  <2>. QED BY <2>1, <2>2 DEF IInv
<1>. QED BY <1>2, <1>3, <1>4, <1>5, <1>6, <1>7, <1>8, <1>9, <1>10, <1>11 DEF Next

\* Every party has at most one send at a client's lock, each in turn, and what it carries is
\* what that party is sending; only clients that are gone are unregistered by a broadcast.
THEOREM HubInvariant == Spec => []IInv
BY InitEstablishes, NextKeeps, PTL DEF Spec

\* The variables of the hub have the types stated in LiveHub.
THEOREM HubTypes == Spec => []TypeOK
<1>1. IInv => TypeOK
  <2>. SUFFICES ASSUME IInv PROVE TypeOK
    OBVIOUS
  <2>1. Types /\ Queues
    BY DEF IInv
  <2>2. ASSUME NEW c \in Clients, NEW j \in DOMAIN lock[c]
        PROVE  lock[c][j] \in [by : Broadcasters \union {c}, kind : Kinds, n : Nat]
    <3>1. lock[c][j] \in In(lock[c]) /\ lock[c][j] \in Sends
      BY <2>1, LenProperties, ElementOfSeq DEF Types, In
    <3>2. lock[c][j].by \in Broadcasters \union {c}
      BY <2>1, <3>1 DEF Queues, QueueInv
    <3>. QED BY <3>1, <3>2 DEF Sends
  <2>3. \A b \in Broadcasters :
          sending[b].left \subseteq Clients /\ sending[b].dead \subseteq Clients
    BY <2>1 DEF Types, Messages
  <2>. QED BY <2>1, <2>2, <2>3 DEF Types, TypeOK, Views
<1>. QED BY <1>1, HubInvariant, PTL

\* Nothing falls between the replay of a connection and the broadcasts: a connected client
\* whose replay was not cut short has every bar from the oldest replayed on, the current
\* open candle and the current option chain, but for what is on its way to it.
THEOREM HubMissesNothing == Spec => []NothingMissed
<1>1. IInv => NothingMissed
  <2>. SUFFICES ASSUME IInv, NEW c \in Clients, Healthy(c), c \notin aborted
                PROVE  /\ \A n \in First(seen[c])..bars :
                            n \in shown[c].bars \/ (n = bars /\ OnItsWay("scheduler", "bar", c))
                       /\ shown[c].open = opens \/ OnItsWay("scheduler", "open", c)
                       /\ shown[c].chain = chains \/ OnItsWay("pipeline", "chain", c)
    BY DEF NothingMissed, First
  <2>1. HasBars(c) /\ HasOpen(c) /\ HasChain(c) /\ handler[c] \in {"loop", "pong"}
    BY DEF IInv, ReplayInv, Healthy, Serving
  <2>2. \A s \in In(lock[c]) : s.by = c => s.kind \notin {"open", "chain"}
    BY <2>1 DEF IInv, Queues, QueueInv
  <2>. QED BY <2>1, <2>2 DEF HasBars, HasOpen, HasChain, Replaying, PastHello, PastBars, PastOpen
<1>. QED BY <1>1, HubInvariant, PTL

\* No client goes back to an older open candle or option chain, although its replay sends
\* what it read some time ago and broadcasts come in between.
THEOREM HubNeverOutdated == Spec => NeverOutdated
<1>1. IInv /\ [Next]_vars =>
        [\A c \in Clients : handler'[c] # "off" =>
                            /\ shown'[c].open >= shown[c].open
                            /\ shown'[c].chain >= shown[c].chain]_vars
  <2>. SUFFICES ASSUME IInv, Next, NEW c \in Clients, handler'[c] # "off"
                PROVE  shown'[c].open >= shown[c].open /\ shown'[c].chain >= shown[c].chain
    OBVIOUS
  <2>1. /\ shown[c].open \in Nat /\ shown[c].chain \in Nat
        /\ handler \in [Clients -> {"new", "loop", "closing", "off"} \union Kinds]
        /\ shown \in [Clients -> Views]
    BY HubConstants DEF IInv, Types, Views
  <2>2. CASE shown'[c] = shown[c]
    BY <2>1, <2>2
  <2>3. ASSUME NEW d \in Clients, HandlerCloses(d) \/ ReceiveFails(d) PROVE shown'[c] = shown[c]
    <3>1. Unregister(d)
      BY <2>3 DEF HandlerCloses, ReceiveFails
    <3>2. c # d
      BY <2>1, <3>1 DEF Unregister
    <3>. QED BY <2>1, <3>1, <3>2 DEF Unregister
  <2>4. ASSUME NEW d \in Clients, SendEnds(d)
        PROVE  shown'[c].open >= shown[c].open /\ shown'[c].chain >= shown[c].chain
    <3>1. /\ shown[d].open <= shown'[d].open /\ shown[d].chain <= shown'[d].chain
          /\ \A x \in Clients : x # d => shown'[x] = shown[x]
          /\ shown' \in [Clients -> Views]
      BY <2>4, SendEffect DEF SendEnds
    <3>2. shown'[c].open \in Nat /\ shown'[c].chain \in Nat
      BY <3>1, HubConstants DEF Views
    <3>. QED BY <2>1, <2>2, <3>1, <3>2
  <2>5. CASE BroadcastBar \/ BroadcastOpen \/ BroadcastChain
    BY <2>2, <2>5 DEF BroadcastBar, BroadcastOpen, BroadcastChain, Broadcast
  <2>6. ASSUME NEW d \in Clients, Connect(d) \/ HandlerSends(d) \/ ConnectionLost(d)
        PROVE  shown'[c] = shown[c]
    BY <2>6 DEF Connect, HandlerSends, ConnectionLost
  <2>. QED BY <2>2, <2>3, <2>4, <2>5, <2>6 DEF Next
<1>. QED BY <1>1, HubInvariant, PTL DEF Spec, NeverOutdated

=============================================================================
