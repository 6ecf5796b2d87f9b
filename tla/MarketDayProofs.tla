---------------------------- MODULE MarketDayProofs ----------------------------
(***************************************************************************)
(* Proofs about DbWriter and MarketDay, which extends it.                  *)
(*                                                                         *)
(* The writer, for any topics, payloads, sizes of the queue and of a       *)
(* batch, and number of items: no row is inserted twice, a bar's tables    *)
(* are written in their order, what is lost is lost by a failure, and      *)
(* every table is a log of what was enqueued (RowLog).                     *)
(*                                                                         *)
(* The day, for any number of jobs, processes and items: the writer in it  *)
(* is DbWriter, so that all of this holds on every day; and the refresh    *)
(* job's exit code 0 tells the truth.                                      *)
(***************************************************************************)
EXTENDS MarketDay, FiniteSetTheorems, TLAPS

(***************************************************************************)
(* The inserts of a flush.                                                 *)
(***************************************************************************)

Positions == 1..Len(WriteOrder)

LEMMA Order ==
  /\ Len(WriteOrder) = 8 /\ Done = 9 /\ Positions = 1..8
  /\ \A p \in Positions : WriteOrder[p] \in Tables
  /\ \A p, q \in Positions : WriteOrder[p] = WriteOrder[q] => p = q
  /\ \A t \in Tables : \E p \in Positions : WriteOrder[p] = t
<1>1. Len(WriteOrder) = 8 /\ Done = 9 /\ Positions = 1..8
  BY DEF WriteOrder, Done, Positions
<1>2. Tables = {"strikes", "candles", "futures", "stocks", "options", "ohlc", "ohlc_3m", "events"}
  BY DEF Tables, TopicOf
<1>3. /\ WriteOrder[1] = "strikes" /\ WriteOrder[2] = "candles" /\ WriteOrder[3] = "futures"
      /\ WriteOrder[4] = "stocks" /\ WriteOrder[5] = "options" /\ WriteOrder[6] = "ohlc"
      /\ WriteOrder[7] = "ohlc_3m" /\ WriteOrder[8] = "events"
  BY DEF WriteOrder
<1>4. \A p \in Positions : p = 1 \/ p = 2 \/ p = 3 \/ p = 4 \/ p = 5 \/ p = 6 \/ p = 7 \/ p = 8
  BY <1>1
<1>5. \A p \in Positions : WriteOrder[p] \in Tables
  BY <1>2, <1>3, <1>4
<1>6. \A p, q \in Positions : WriteOrder[p] = WriteOrder[q] => p = q
  BY <1>3, <1>4
<1>7. \A t \in Tables : \E p \in Positions : WriteOrder[p] = t
  <2>1. {1, 2, 3, 4, 5, 6, 7, 8} \subseteq Positions
    BY <1>1
  <2>. QED BY <1>2, <1>3, <2>1
<1>. QED BY <1>1, <1>5, <1>6, <1>7

\* The first of some positions.
LEMMA FirstPosition ==
  ASSUME NEW S \in SUBSET (1..8), S # {}
  PROVE  \E p \in S : \A q \in S : p <= q
<1>. SUFFICES ASSUME \A p \in S : \E q \in S : q < p PROVE FALSE
  OBVIOUS
<1>1. 1 \notin S
  OBVIOUS
<1>2. 2 \notin S
  BY <1>1
<1>3. 3 \notin S
  BY <1>1, <1>2
<1>4. 4 \notin S
  BY <1>1, <1>2, <1>3
<1>5. 5 \notin S
  BY <1>1, <1>2, <1>3, <1>4
<1>6. 6 \notin S
  BY <1>1, <1>2, <1>3, <1>4, <1>5
<1>7. 7 \notin S
  BY <1>1, <1>2, <1>3, <1>4, <1>5, <1>6
<1>8. 8 \notin S
  BY <1>1, <1>2, <1>3, <1>4, <1>5, <1>6, <1>7
<1>9. PICK x \in S : TRUE
  OBVIOUS
<1>10. x \in 1..8
  OBVIOUS
<1>. QED BY <1>1, <1>2, <1>3, <1>4, <1>5, <1>6, <1>7, <1>8, <1>9, <1>10

\* The inserts passed over have nothing to write.
LEMMA NextInsertSkips ==
  ASSUME NEW items, NEW s \in 0..8
  PROVE  /\ NextInsert(items, s) \in (s + 1)..9
         /\ \A p \in Positions : (s < p /\ p < NextInsert(items, s)) =>
              \A i \in items : ~Yields(i, WriteOrder[p])
<1>. DEFINE S == Inserts(items, s)
<1>1. S \subseteq 1..8 /\ \A p \in S : p > s
  BY Order DEF Inserts
<1>2. \A p \in Positions : (s < p /\ p \notin S) => \A i \in items : ~Yields(i, WriteOrder[p])
  BY Order DEF Inserts
<1>. HIDE DEF S
<1>3. CASE S = {}
  <2>1. NextInsert(items, s) = 9
    BY <1>3, Order DEF NextInsert, S
  <2>. QED BY <1>2, <1>3, <2>1
<1>4. CASE S # {}
  <2>. DEFINE first == CHOOSE p \in S : \A q \in S : p <= q
  <2>1. first \in S /\ \A q \in S : first <= q
    BY <1>1, <1>4, FirstPosition
  <2>2. NextInsert(items, s) = first
    BY <1>4 DEF NextInsert, S
  <2>. HIDE DEF first
  <2>3. \A p \in Positions : p < first => p \notin S
    BY <1>1, <2>1, Order
  <2>. QED BY <1>1, <1>2, <2>1, <2>2, <2>3
<1>. QED BY <1>3, <1>4

(***************************************************************************)
(* The inductive invariant.                                                *)
(***************************************************************************)

\* The queue and the batch are in the order of the producers, the batch first.
Fifo ==
  /\ \A j \in 1..Len(queue) : queue[j].n <= Accepted(queue[j].topic)
  /\ \A j, l \in 1..Len(queue) :
       (j < l /\ queue[j].topic = queue[l].topic) => queue[j].n < queue[l].n
  /\ \A b \in batch : b.n <= Accepted(b.topic)
  /\ \A b \in batch, j \in 1..Len(queue) : b.topic = queue[j].topic => b.n < queue[j].n

\* What a table has rows of is older than what may still be written to it.
NewerToCome ==
  /\ \A t \in Tables, n \in 1..MaxItems : rows[t][n] > 0 =>
       /\ TopicOf[t] \in Topics /\ n <= Accepted(TopicOf[t])
       /\ \A j \in 1..Len(queue) : queue[j].topic = TopicOf[t] => n < queue[j].n
  /\ \A p \in Positions, n \in 1..MaxItems : (rows[WriteOrder[p]][n] > 0 /\ step <= p) =>
       \A b \in batch : b.topic = TopicOf[WriteOrder[p]] => n < b.n

\* The inserts that the flush has passed have written the rows of the batch.
Passed ==
  /\ step = 0 => batch = {}
  /\ \A p \in Positions, b \in batch : (p < step /\ Yields(b, WriteOrder[p])) =>
       rows[WriteOrder[p]][b.n] > 0

IInv == TypeOK /\ Fifo /\ NewerToCome /\ Passed /\ AtMostOnce /\ PartnersFirst /\ LostOnlyByFailure

\* What an insert does to the tables.
LEMMA InsertWrites ==
  ASSUME IInv, step \in Positions, WriteRows
  PROVE  LET t == WriteOrder[step] IN
         /\ rows' \in [Tables -> [1..MaxItems -> Nat]]
         /\ \A u \in Tables : u # t => rows'[u] = rows[u]
         /\ \A n \in 1..MaxItems : rows'[t][n] > 0 <=>
              (rows[t][n] > 0 \/ \E i \in batch : i.n = n /\ Yields(i, t))
         /\ t \in Plain => \A n \in 1..MaxItems : rows'[t][n] <= 1
<1>. DEFINE t == WriteOrder[step]
<1>1. t \in Tables
  BY Order
<1>2. rows' = [rows EXCEPT ![t] = Written(t)]
  BY DEF WriteRows
<1>3. rows \in [Tables -> [1..MaxItems -> Nat]] /\ batch \subseteq Items
  BY DEF IInv, TypeOK
<1>. HIDE DEF t
<1>. DEFINE Hit(n) == \E i \in batch : i.n = n /\ Yields(i, t)
<1>4. Written(t) \in [1..MaxItems -> Nat]
  <2>1. Written(t) = [n \in 1..MaxItems |-> IF ~Hit(n) THEN rows[t][n]
                       ELSE IF t \in Plain THEN rows[t][n] + 1 ELSE 1]
    BY DEF Written
  <2>2. \A n \in 1..MaxItems : rows[t][n] \in Nat
    BY <1>1, <1>3
  <2>. HIDE DEF Hit
  <2>. QED BY <2>1, <2>2
<1>5. rows' \in [Tables -> [1..MaxItems -> Nat]] /\ rows'[t] = Written(t)
      /\ \A u \in Tables : u # t => rows'[u] = rows[u]
  BY <1>1, <1>2, <1>3, <1>4
<1>6. ASSUME NEW n \in 1..MaxItems
      PROVE  rows'[t][n] > 0 <=> (rows[t][n] > 0 \/ \E i \in batch : i.n = n /\ Yields(i, t))
  <2>1. rows[t][n] \in Nat
    BY <1>1, <1>3, <1>6
  <2>2. rows'[t][n] = IF ~Hit(n) THEN rows[t][n]
                      ELSE IF t \in Plain THEN rows[t][n] + 1 ELSE 1
    BY <1>5, <1>6 DEF Written
  <2>3. rows'[t][n] > 0 <=> (rows[t][n] > 0 \/ Hit(n))
    <3>. HIDE DEF Hit
    <3>. QED BY <2>1, <2>2
  <2>. QED BY <2>3
<1>7. ASSUME t \in Plain, NEW n \in 1..MaxItems
      PROVE  rows'[t][n] <= 1
  <2>1. rows[t][n] <= 1 /\ rows[t][n] \in Nat
    BY <1>1, <1>3, <1>7 DEF IInv, AtMostOnce
  <2>2. CASE \E i \in batch : i.n = n /\ Yields(i, t)
    <3>1. PICK i \in batch : i.n = n /\ Yields(i, t)
      BY <2>2
    <3>2. i.topic = TopicOf[WriteOrder[step]]
      BY <3>1 DEF Yields, t
    <3>3. n \in Nat /\ step \in Nat
      BY Order
    <3>4. ~(rows[WriteOrder[step]][n] > 0)
      BY <3>1, <3>2, <3>3 DEF IInv, NewerToCome
    <3>5. rows[t][n] = 0
      BY <2>1, <3>4 DEF t
    <3>. QED BY <1>5, <1>7, <2>2, <3>5 DEF Written
  <2>3. CASE ~ \E i \in batch : i.n = n /\ Yields(i, t)
    BY <1>5, <2>1, <2>3 DEF Written
  <2>. QED BY <2>2, <2>3
<1>. QED BY <1>5, <1>6, <1>7 DEF t

\* The step that does an insert keeps all that is said of the tables but where the
\* flush is.
LEMMA InsertKeeps ==
  ASSUME IInv, step \in Positions, WriteRows
  PROVE  /\ rows' \in [Tables -> [1..MaxItems -> Nat]]
         /\ \A t \in Tables, n \in 1..MaxItems : rows'[t][n] > 0 =>
              /\ TopicOf[t] \in Topics /\ n <= Accepted(TopicOf[t])
              /\ \A j \in 1..Len(queue) : queue[j].topic = TopicOf[t] => n < queue[j].n
         /\ \A p \in Positions : p # step => rows'[WriteOrder[p]] = rows[WriteOrder[p]]
         /\ \A t \in Tables, n \in 1..MaxItems : rows[t][n] > 0 => rows'[t][n] > 0
         /\ \A b \in batch : Yields(b, WriteOrder[step]) => rows'[WriteOrder[step]][b.n] > 0
         /\ AtMostOnce'
         /\ \A p \in Partners : \A i \in Enqueued :
              (Yields(i, p[1]) /\ Yields(i, p[2]) /\ rows'[p[2]][i.n] > 0) => rows'[p[1]][i.n] > 0
<1>. DEFINE t == WriteOrder[step]
<1>1. /\ rows' \in [Tables -> [1..MaxItems -> Nat]]
      /\ \A u \in Tables : u # t => rows'[u] = rows[u]
      /\ \A n \in 1..MaxItems : rows'[t][n] > 0 <=>
           (rows[t][n] > 0 \/ \E i \in batch : i.n = n /\ Yields(i, t))
      /\ t \in Plain => \A n \in 1..MaxItems : rows'[t][n] <= 1
  BY InsertWrites
<1>2. t \in Tables /\ \A p \in Positions : p # step => WriteOrder[p] # t /\ WriteOrder[p] \in Tables
  BY Order
<1>3. \A b \in batch : b \in Items /\ b.topic \in Topics /\ b.n \in 1..MaxItems
  BY DEF IInv, TypeOK, Items
<1>. HIDE DEF t
<1>4. ASSUME NEW u \in Tables, NEW n \in 1..MaxItems, rows'[u][n] > 0
      PROVE  /\ TopicOf[u] \in Topics /\ n <= Accepted(TopicOf[u])
             /\ \A j \in 1..Len(queue) : queue[j].topic = TopicOf[u] => n < queue[j].n
  <2>1. CASE rows[u][n] > 0
    BY <1>4, <2>1 DEF IInv, NewerToCome
  <2>2. CASE ~(rows[u][n] > 0)
    <3>1. u = t /\ \E i \in batch : i.n = n /\ Yields(i, t)
      BY <1>1, <1>4, <2>2
    <3>2. PICK i \in batch : i.n = n /\ Yields(i, t)
      BY <3>1
    <3>3. i.topic = TopicOf[u] /\ i.n = n /\ i.topic \in Topics
      BY <1>3, <3>1, <3>2 DEF Yields
    <3>. QED BY <3>2, <3>3 DEF IInv, Fifo
  <2>. QED BY <2>1, <2>2
<1>5. \A p \in Positions : p # step => rows'[WriteOrder[p]] = rows[WriteOrder[p]]
  BY <1>1, <1>2
<1>6. \A u \in Tables, n \in 1..MaxItems : rows[u][n] > 0 => rows'[u][n] > 0
  BY <1>1
<1>7. \A b \in batch : Yields(b, t) => rows'[t][b.n] > 0
  BY <1>1, <1>3
<1>8. AtMostOnce'
  <2>1. Plain \subseteq Tables
    BY DEF Plain, Tables, TopicOf
  <2>. QED BY <1>1, <2>1 DEF IInv, AtMostOnce
<1>9. ASSUME NEW p \in Partners, NEW i \in Enqueued,
             Yields(i, p[1]), Yields(i, p[2]), rows'[p[2]][i.n] > 0
      PROVE  rows'[p[1]][i.n] > 0
  <2>1. PICK q \in 1..7 : p[1] = WriteOrder[q] /\ p[2] = WriteOrder[q + 1]
    <3>1. p = << WriteOrder[1], WriteOrder[2] >> \/ p = << WriteOrder[3], WriteOrder[4] >>
            \/ p = << WriteOrder[6], WriteOrder[7] >>
      BY DEF Partners, WriteOrder
    <3>. QED BY <3>1
  <2>2. q \in Positions /\ q + 1 \in Positions /\ q # q + 1 /\ i.n \in 1..MaxItems
        /\ WriteOrder[q] \in Tables /\ WriteOrder[q + 1] \in Tables
    BY Order DEF Enqueued, Items
  <2>3. CASE rows[p[2]][i.n] > 0
    BY <1>6, <1>9, <2>1, <2>2, <2>3 DEF IInv, PartnersFirst
  <2>4. CASE ~(rows[p[2]][i.n] > 0)
    <3>1. q + 1 = step
      BY <1>5, <1>9, <2>1, <2>2, <2>4
    <3>2. PICK b \in batch : b.n = i.n /\ Yields(b, t)
      BY <1>1, <1>9, <2>1, <2>2, <2>4, <3>1 DEF t
    <3>3. b = i
      <4>1. b.topic = i.topic
        BY <1>9, <2>1, <3>1, <3>2 DEF Yields, t
      <4>2. b \in [topic : Topics, n : 1..MaxItems] /\ i \in [topic : Topics, n : 1..MaxItems]
        BY <1>3 DEF Enqueued, Items
      <4>. QED BY <3>2, <4>1, <4>2
    <3>4. rows[WriteOrder[q]][b.n] > 0
      BY <1>9, <2>1, <2>2, <3>1, <3>3 DEF IInv, Passed
    <3>. QED BY <1>6, <2>1, <2>2, <3>3, <3>4
  <2>. QED BY <2>3, <2>4
<1>. QED BY <1>1, <1>4, <1>5, <1>6, <1>7, <1>8, <1>9 DEF t

(***************************************************************************)
(* The steps.                                                              *)
(***************************************************************************)

LEMMA EnqueueKeeps ==
  ASSUME IInv, NEW k \in Topics, NEW payload \in Payloads[k], Enqueue(k, payload)
  PROVE  IInv'
<1>. USE ConstantsAssumption DEF ConstantsAssumption
<1>. DEFINE AnyPayload == UNION {Payloads[c] : c \in Topics}
            item == [topic |-> k, n |-> Accepted(k) + 1]
<1>1. /\ Len(queue) < QueueMax /\ Len(made[k]) < MaxItems
      /\ made' = [made EXCEPT ![k] = Append(@, payload)]
      /\ queue' = Append(queue, item)
      /\ UNCHANGED << runtime, batch, step, rows, lost >>
  BY DEF Enqueue, Accepted
<1>2. /\ queue \in Seq(Items) /\ made \in [Topics -> Seq(AnyPayload)] /\ batch \subseteq Items
      /\ rows \in [Tables -> [1..MaxItems -> Nat]]
  BY DEF IInv, TypeOK
<1>3. payload \in AnyPayload
  OBVIOUS
<1>. HIDE DEF AnyPayload
<1>4. /\ made' \in [Topics -> Seq(AnyPayload)] /\ Accepted(k)' = Accepted(k) + 1
      /\ \A c \in Topics : c # k => made'[c] = made[c]
      /\ \A n \in 1..Accepted(k) : made'[k][n] = made[k][n]
  BY <1>1, <1>2, <1>3 DEF Accepted
<1>5. Accepted(k) \in Nat /\ Accepted(k) < MaxItems /\ item \in Items
      /\ item.topic = k /\ item.n = Accepted(k) + 1
  BY <1>1, <1>2 DEF Accepted, Items
<1>6. ASSUME NEW c \in Topics
      PROVE  /\ Accepted(c) \in Nat /\ Accepted(c)' \in Nat /\ Accepted(c) <= Accepted(c)'
             /\ Accepted(c)' <= MaxItems
  <2>1. made[c] \in Seq(AnyPayload)
    BY <1>2
  <2>2. Len(made[c]) \in Nat /\ Len(made[c]) <= MaxItems
    BY <2>1 DEF IInv, TypeOK
  <2>3. CASE c = k
    BY <1>4, <1>5, <2>3
  <2>4. CASE c # k
    BY <1>4, <2>2, <2>4 DEF Accepted
  <2>. QED BY <2>3, <2>4
<1>7. \A i \in Items : i.topic \in Topics /\ i.n \in 1..MaxItems
  BY DEF Items
<1>8. \A i \in Items, t \in Tables : i.n <= Accepted(i.topic) => (Yields(i, t)' <=> Yields(i, t))
  BY <1>4, <1>7 DEF Yields
<1>. HIDE DEF item
<1>9. /\ Len(queue') = Len(queue) + 1 /\ Len(queue) \in Nat
      /\ \A j \in 1..Len(queue) : queue'[j] = queue[j] /\ queue[j] \in Items
      /\ queue'[Len(queue) + 1] = item
  BY <1>1, <1>2, <1>5
<1>. DEFINE L == Len(queue)
<1>10. L \in Nat /\ \A j \in 1..Len(queue)' : j \in 1..L \/ j = L + 1
  BY <1>9
<1>. HIDE DEF L
<1>11. TypeOK'
  <2>1. \A c \in Topics : Len(made'[c]) <= MaxItems
    BY <1>6 DEF Accepted
  <2>2. queue' \in Seq(Items) /\ Len(queue') <= QueueMax
    BY <1>1, <1>2, <1>5, <1>9
  <2>. QED BY <1>1, <1>4, <2>1, <2>2 DEF IInv, TypeOK, AnyPayload
<1>12. Fifo'
  <2>1. ASSUME NEW j \in 1..Len(queue')
        PROVE  queue'[j].n <= Len(made'[queue'[j].topic])
    <3>1. CASE j \in 1..L
      <4>1. queue'[j] = queue[j] /\ queue[j] \in Items /\ queue[j].n <= Accepted(queue[j].topic)
        BY <1>9, <3>1 DEF IInv, Fifo, L
      <4>2. queue[j].topic \in Topics /\ queue[j].n \in Nat
        BY <1>7, <4>1
      <4>. QED BY <1>6, <4>1, <4>2 DEF Accepted
    <3>2. CASE j = L + 1
      BY <1>4, <1>5, <1>9, <3>2 DEF L, Accepted
    <3>. QED BY <1>10, <3>1, <3>2
  <2>2. ASSUME NEW j \in 1..Len(queue'), NEW l \in 1..Len(queue'),
               j < l, queue'[j].topic = queue'[l].topic
        PROVE  queue'[j].n < queue'[l].n
    <3>1. j \in 1..L
      BY <1>10, <2>2
    <3>2. CASE l \in 1..L
      BY <1>9, <2>2, <3>1, <3>2 DEF IInv, Fifo, L
    <3>3. CASE l = L + 1
      <4>1. queue[j] \in Items /\ queue[j].topic = k /\ queue'[j] = queue[j]
        BY <1>5, <1>9, <2>2, <3>1, <3>3 DEF L
      <4>2. queue[j].n <= Accepted(k) /\ queue[j].n \in Nat
        BY <1>7, <3>1, <4>1 DEF IInv, Fifo, L
      <4>. QED BY <1>5, <1>9, <3>3, <4>1, <4>2 DEF L
    <3>. QED BY <1>10, <3>2, <3>3
  <2>3. ASSUME NEW b \in batch
        PROVE  b.n <= Len(made'[b.topic])
    <3>1. b.topic \in Topics /\ b.n \in Nat /\ b.n <= Accepted(b.topic)
      BY <1>2, <1>7 DEF IInv, Fifo
    <3>. QED BY <1>6, <3>1 DEF Accepted
  <2>4. ASSUME NEW b \in batch, NEW j \in 1..Len(queue'), b.topic = queue'[j].topic
        PROVE  b.n < queue'[j].n
    <3>1. CASE j \in 1..L
      BY <1>9, <2>4, <3>1 DEF IInv, Fifo, L
    <3>2. CASE j = L + 1
      <4>1. b.topic = k /\ b.n \in Nat /\ b.n <= Accepted(k)
        BY <1>2, <1>5, <1>7, <1>9, <2>4, <3>2 DEF IInv, Fifo, L
      <4>. QED BY <1>5, <1>9, <3>2, <4>1 DEF L
    <3>. QED BY <1>10, <3>1, <3>2
  <2>. QED BY <1>1, <2>1, <2>2, <2>3, <2>4 DEF Fifo, Accepted
<1>13. NewerToCome'
  <2>1. ASSUME NEW t \in Tables, NEW n \in 1..MaxItems, rows[t][n] > 0
        PROVE  /\ TopicOf[t] \in Topics /\ n <= Accepted(TopicOf[t])'
               /\ \A j \in 1..Len(queue') : queue'[j].topic = TopicOf[t] => n < queue'[j].n
    <3>1. TopicOf[t] \in Topics /\ n <= Accepted(TopicOf[t])
      BY <2>1 DEF IInv, NewerToCome
    <3>2. ASSUME NEW j \in 1..Len(queue'), queue'[j].topic = TopicOf[t]
          PROVE  n < queue'[j].n
      <4>1. CASE j \in 1..L
        BY <1>9, <2>1, <3>2, <4>1 DEF IInv, NewerToCome, L
      <4>2. CASE j = L + 1
        BY <1>5, <1>9, <3>1, <3>2, <4>2 DEF L
      <4>. QED BY <1>10, <4>1, <4>2
    <3>3. n <= Accepted(TopicOf[t])'
      BY <1>6, <3>1
    <3>. QED BY <3>1, <3>2, <3>3
  <2>. QED BY <1>1, <2>1 DEF IInv, NewerToCome
<1>14. Passed'
  BY <1>1, <1>2, <1>8, Order DEF IInv, Passed, Fifo
<1>15. AtMostOnce'
  BY <1>1 DEF IInv, AtMostOnce
<1>16. PartnersFirst'
  <2>. SUFFICES ASSUME NEW p \in Partners, NEW i \in Enqueued',
                       Yields(i, p[1])', Yields(i, p[2])', rows[p[2]][i.n] > 0
                PROVE  rows[p[1]][i.n] > 0
    BY <1>1 DEF PartnersFirst
  <2>1. p[1] \in Tables /\ p[2] \in Tables
    BY DEF Partners, Tables, TopicOf
  <2>2. i \in Items /\ i.topic = TopicOf[p[2]] /\ i.n \in 1..MaxItems
    BY <1>7 DEF Enqueued, Yields
  <2>3. i.n <= Accepted(i.topic)
    BY <2>1, <2>2 DEF IInv, NewerToCome
  <2>4. i \in Enqueued /\ Yields(i, p[1]) /\ Yields(i, p[2])
    BY <1>8, <2>1, <2>2, <2>3 DEF Enqueued
  <2>. QED BY <2>4 DEF IInv, PartnersFirst
<1>17. LostOnlyByFailure'
  <2>. SUFFICES ASSUME NEW i \in Enqueued'
                PROVE  (i \in Queued \/ i \in batch \/ i \in lost \/ Stored(i))'
    BY DEF LostOnlyByFailure
  <2>1. Queued \subseteq Queued' /\ item \in Queued'
    BY <1>9, <1>10 DEF Queued, L
  <2>2. CASE i \in Enqueued
    <3>1. i \in Items /\ i.n <= Accepted(i.topic)
      BY <2>2 DEF Enqueued
    <3>2. Stored(i) => Stored(i)'
      BY <1>1, <1>8, <3>1 DEF Stored
    <3>. QED BY <1>1, <2>1, <2>2, <3>2 DEF IInv, LostOnlyByFailure
  <2>3. CASE i \notin Enqueued
    <3>1. i \in Items /\ i.n <= Accepted(i.topic)' /\ ~(i.n <= Accepted(i.topic))
      BY <2>3 DEF Enqueued
    <3>2. i.topic = k
      BY <1>4, <1>7, <3>1 DEF Accepted
    <3>3. i.n = Accepted(k) + 1
      BY <1>4, <1>5, <1>7, <3>1, <3>2
    <3>4. i = item
      BY <3>1, <3>2, <3>3 DEF Items, item
    <3>. QED BY <2>1, <3>4
  <2>. QED BY <2>2, <2>3
<1>. QED BY <1>11, <1>12, <1>13, <1>14, <1>15, <1>16, <1>17 DEF IInv

LEMMA FlushStartKeeps == ASSUME IInv, FlushStart PROVE IInv'
<1>. USE ConstantsAssumption DEF ConstantsAssumption
<1>. DEFINE L == Len(queue)
            T == Taken
<1>1. /\ step = 0 /\ queue # << >> /\ UNCHANGED << runtime, rows, made, lost >>
      /\ queue' = SubSeq(queue, T + 1, L) /\ batch' = {queue[j] : j \in 1..T}
      /\ step' = NextInsert(batch', 0)
  BY DEF FlushStart, Take
<1>2. queue \in Seq(Items) /\ batch = {}
  BY <1>1 DEF IInv, TypeOK, Passed
<1>3. L \in Nat /\ L > 0
  BY <1>1, <1>2
<1>4. T \in 1..L /\ T <= BatchSize
  BY <1>3 DEF Taken
<1>5. \A j \in 1..L : queue[j] \in Items
  BY <1>2
<1>6. /\ queue' \in Seq(Items) /\ Len(queue') = L - T
      /\ \A j \in 1..(L - T) : queue'[j] = queue[T + j]
  BY <1>1, <1>2, <1>3, <1>4
<1>. HIDE DEF T, L
<1>7. batch' \subseteq Items
  BY <1>1, <1>3, <1>4, <1>5
<1>8. Cardinality(batch') <= BatchSize
  <2>. DEFINE f == [j \in 1..T |-> queue[j]]
  <2>1. f \in Surjection(1..T, batch')
    BY <1>1 DEF Surjection
  <2>2. IsFiniteSet(1..T) /\ Cardinality(1..T) = T
    BY <1>3, <1>4, FS_Interval
  <2>3. Cardinality(batch') <= Cardinality(1..T) /\ IsFiniteSet(batch')
    BY <2>1, <2>2, FS_Surjection
  <2>4. Cardinality(batch') \in Nat
    BY <2>3, FS_CardinalityType
  <2>. QED BY <1>3, <1>4, <2>2, <2>3, <2>4
<1>9. /\ step' \in 1..9
      /\ \A p \in Positions : p < step' => \A i \in batch' : ~Yields(i, WriteOrder[p])
  <2>. DEFINE taken == {queue[j] : j \in 1..T}
  <2>1. batch' = taken /\ step' = NextInsert(taken, 0)
    BY <1>1
  <2>. HIDE DEF taken
  <2>2. 0 \in 0..8
    OBVIOUS
  <2>3. /\ NextInsert(taken, 0) \in (0 + 1)..9
        /\ \A p \in Positions : (0 < p /\ p < NextInsert(taken, 0)) =>
             \A i \in taken : ~Yields(i, WriteOrder[p])
    BY <2>2, NextInsertSkips
  <2>. QED BY <2>1, <2>3, Order
<1>10. TypeOK'
  <2>1. Len(queue') <= QueueMax
    BY <1>3, <1>4, <1>6 DEF IInv, TypeOK, L
  <2>2. step' \in 0..Done
    BY <1>9, Order
  <2>. QED BY <1>1, <1>6, <1>7, <1>8, <2>1, <2>2 DEF IInv, TypeOK
<1>11. \A b \in batch' : \E j \in 1..L : j <= T /\ b = queue[j]
  BY <1>1, <1>3, <1>4
<1>12. \A j \in 1..Len(queue') : T + j \in 1..L /\ T < T + j /\ queue'[j] = queue[T + j]
  BY <1>3, <1>4, <1>6
<1>13. Fifo'
  <2>1. \A j \in 1..Len(queue') : queue'[j].n <= Accepted(queue'[j].topic)
    BY <1>12 DEF IInv, Fifo, L
  <2>2. ASSUME NEW j \in 1..Len(queue'), NEW l \in 1..Len(queue'), j < l,
               queue'[j].topic = queue'[l].topic
        PROVE  queue'[j].n < queue'[l].n
    <3>1. T + j < T + l
      BY <1>3, <1>4, <1>6, <2>2
    <3>. QED BY <1>12, <2>2, <3>1 DEF IInv, Fifo, L
  <2>3. \A b \in batch' : b.n <= Accepted(b.topic)
    BY <1>11 DEF IInv, Fifo, L
  <2>4. ASSUME NEW b \in batch', NEW j \in 1..Len(queue'), b.topic = queue'[j].topic
        PROVE  b.n < queue'[j].n
    <3>1. PICK l \in 1..L : l <= T /\ b = queue[l]
      BY <1>11
    <3>2. l < T + j
      BY <1>3, <1>4, <1>6, <3>1
    <3>. QED BY <1>12, <2>4, <3>1, <3>2 DEF IInv, Fifo, L
  <2>. QED BY <1>1, <2>1, <2>2, <2>3, <2>4 DEF Fifo, Accepted
<1>14. NewerToCome'
  <2>1. ASSUME NEW t \in Tables, NEW n \in 1..MaxItems, rows[t][n] > 0
        PROVE  /\ TopicOf[t] \in Topics /\ n <= Accepted(TopicOf[t])
               /\ \A j \in 1..Len(queue') : queue'[j].topic = TopicOf[t] => n < queue'[j].n
               /\ \A b \in batch' : b.topic = TopicOf[t] => n < b.n
    <3>1. \A j \in 1..L : queue[j].topic = TopicOf[t] => n < queue[j].n
      BY <2>1 DEF IInv, NewerToCome, L
    <3>. QED BY <1>11, <1>12, <2>1, <3>1 DEF IInv, NewerToCome
  <2>2. \A p \in Positions, n \in 1..MaxItems : rows[WriteOrder[p]][n] > 0 =>
          \A b \in batch' : b.topic = TopicOf[WriteOrder[p]] => n < b.n
    BY <2>1, Order
  <2>. QED BY <1>1, <2>1, <2>2 DEF NewerToCome, Accepted
<1>15. Passed'
  BY <1>1, <1>9 DEF Passed, Yields
<1>16. AtMostOnce' /\ PartnersFirst'
  BY <1>1 DEF IInv, AtMostOnce, PartnersFirst, Enqueued, Accepted, Yields
<1>17. LostOnlyByFailure'
  <2>. SUFFICES ASSUME NEW i \in Enqueued
                PROVE  i \in Queued' \/ i \in batch' \/ i \in lost \/ Stored(i)
    BY <1>1 DEF LostOnlyByFailure, Enqueued, Accepted, Stored, Yields
  <2>1. CASE i \in Queued
    <3>1. PICK j \in 1..L : i = queue[j]
      BY <2>1 DEF Queued, L
    <3>2. CASE j <= T
      BY <1>1, <1>3, <1>4, <3>1, <3>2
    <3>3. CASE j > T
      <4>1. j - T \in 1..(L - T) /\ j = T + (j - T)
        BY <1>3, <1>4, <3>3
      <4>2. queue'[j - T] = i
        BY <1>6, <3>1, <4>1
      <4>. QED BY <1>6, <4>1, <4>2 DEF Queued
    <3>. QED BY <1>3, <1>4, <3>2, <3>3
  <2>. QED BY <1>2, <2>1 DEF IInv, LostOnlyByFailure
<1>. QED BY <1>10, <1>13, <1>14, <1>15, <1>16, <1>17 DEF IInv

LEMMA InsertStepKeeps == ASSUME IInv, Insert PROVE IInv'
<1>. DEFINE t == WriteOrder[step]
<1>1. step \in Positions /\ WriteRows /\ step' = NextInsert(batch, step)
      /\ UNCHANGED << runtime, queue, batch, made, lost >>
  BY DEF Insert, Positions
<1>2. /\ rows' \in [Tables -> [1..MaxItems -> Nat]]
      /\ \A u \in Tables, n \in 1..MaxItems : rows'[u][n] > 0 =>
           /\ TopicOf[u] \in Topics /\ n <= Accepted(TopicOf[u])
           /\ \A j \in 1..Len(queue) : queue[j].topic = TopicOf[u] => n < queue[j].n
      /\ \A p \in Positions : p # step => rows'[WriteOrder[p]] = rows[WriteOrder[p]]
      /\ \A u \in Tables, n \in 1..MaxItems : rows[u][n] > 0 => rows'[u][n] > 0
      /\ \A b \in batch : Yields(b, WriteOrder[step]) => rows'[WriteOrder[step]][b.n] > 0
      /\ AtMostOnce'
      /\ \A p \in Partners : \A i \in Enqueued :
           (Yields(i, p[1]) /\ Yields(i, p[2]) /\ rows'[p[2]][i.n] > 0) => rows'[p[1]][i.n] > 0
  BY <1>1, InsertKeeps
<1>3. step \in 1..8 /\ step' \in (step + 1)..9
      /\ \A p \in Positions : (step < p /\ p < step') => \A i \in batch : ~Yields(i, WriteOrder[p])
  BY <1>1, NextInsertSkips, Order
<1>4. batch \subseteq Items
  BY DEF IInv, TypeOK
<1>5. TypeOK'
  <2>1. step' \in 0..Done
    BY <1>3, Order
  <2>. QED BY <1>1, <1>2, <2>1 DEF IInv, TypeOK
<1>6. Fifo'
  BY <1>1 DEF IInv, Fifo, Accepted
<1>7. NewerToCome'
  <2>1. ASSUME NEW p \in Positions, NEW n \in 1..MaxItems, rows'[WriteOrder[p]][n] > 0, step' <= p,
               NEW b \in batch, b.topic = TopicOf[WriteOrder[p]]
        PROVE  n < b.n
    <3>1. p # step /\ step <= p
      BY <1>3, <2>1, Order
    <3>2. rows[WriteOrder[p]][n] > 0
      BY <1>2, <2>1, <3>1
    <3>. QED BY <2>1, <3>1, <3>2 DEF IInv, NewerToCome
  <2>. QED BY <1>1, <1>2, <2>1 DEF NewerToCome, Accepted
<1>8. Passed'
  <2>1. ASSUME NEW p \in Positions, NEW b \in batch, p < step', Yields(b, WriteOrder[p])
        PROVE  rows'[WriteOrder[p]][b.n] > 0
    <3>1. p <= step
      BY <1>3, <2>1, Order
    <3>2. CASE p = step
      BY <1>2, <2>1, <3>2
    <3>3. CASE p < step
      <4>1. rows[WriteOrder[p]][b.n] > 0
        BY <2>1, <3>3 DEF IInv, Passed
      <4>2. b.n \in 1..MaxItems /\ WriteOrder[p] \in Tables
        BY <1>4, Order DEF Items
      <4>. QED BY <1>2, <4>1, <4>2
    <3>. QED BY <1>3, <3>1, <3>2, <3>3, Order
  <2>2. step' # 0
    BY <1>3
  <2>. QED BY <1>1, <2>1, <2>2 DEF Passed, Yields
<1>9. LostOnlyByFailure'
  <2>1. \A i \in Enqueued : Stored(i) => Stored(i)'
    BY <1>1, <1>2 DEF Stored, Enqueued, Yields, Items
  <2>2. Enqueued' = Enqueued /\ Queued' = Queued
    BY <1>1 DEF Enqueued, Accepted, Queued
  <2>. QED BY <1>1, <2>1, <2>2 DEF IInv, LostOnlyByFailure
<1>10. PartnersFirst'
  BY <1>1, <1>2 DEF PartnersFirst, Enqueued, Accepted, Yields
<1>. QED BY <1>2, <1>5, <1>6, <1>7, <1>8, <1>9, <1>10 DEF IInv

LEMMA NoCards == Cardinality({}) <= BatchSize
BY FS_EmptySet, ConstantsAssumption DEF ConstantsAssumption

LEMMA FlushEndKeeps == ASSUME IInv, FlushEnd PROVE IInv'
<1>1. step = 9 /\ batch' = {} /\ step' = 0 /\ UNCHANGED << runtime, queue, rows, made, lost >>
  BY Order DEF FlushEnd
<1>2. TypeOK'
  <2>1. 0 \in 0..Done
    BY Order
  <2>. QED BY <1>1, <2>1, NoCards DEF IInv, TypeOK
<1>3. Fifo' /\ NewerToCome' /\ Passed' /\ AtMostOnce'
  BY <1>1 DEF IInv, Fifo, NewerToCome, Passed, AtMostOnce, Accepted
<1>4. PartnersFirst'
  BY <1>1 DEF IInv, PartnersFirst, Enqueued, Accepted, Yields
<1>5. LostOnlyByFailure'
  <2>1. ASSUME NEW i \in batch PROVE Stored(i)
    <3>1. ASSUME NEW t \in Tables, Yields(i, t) PROVE rows[t][i.n] > 0
      <4>1. PICK p \in Positions : WriteOrder[p] = t
        BY Order
      <4>2. p < step
        BY <1>1, Order
      <4>. QED BY <3>1, <4>1, <4>2 DEF IInv, Passed
    <3>. QED BY <3>1 DEF Stored
  <2>2. /\ Enqueued' = Enqueued /\ Queued' = Queued
        /\ \A i : Stored(i)' <=> Stored(i)
    BY <1>1 DEF Enqueued, Accepted, Queued, Stored, Yields
  <2>. QED BY <1>1, <2>1, <2>2 DEF IInv, LostOnlyByFailure
<1>. QED BY <1>2, <1>3, <1>4, <1>5 DEF IInv

\* A batch that is given up, and the queue that perhaps goes with it.
LEMMA GivingUpKeeps ==
  ASSUME IInv, batch' = {}, step' = 0, made' = made,
         UNCHANGED rows \/ (step \in Positions /\ WriteRows),
         \/ queue' = queue /\ lost' = lost \union Unwritten
         \/ queue' = << >> /\ lost' = lost \union Unwritten \union Queued,
         runtime' \in {"connecting", "ready", "error", "cancelled"}
  PROVE  IInv'
<1>1. /\ rows' \in [Tables -> [1..MaxItems -> Nat]]
      /\ \A t \in Tables, n \in 1..MaxItems : rows'[t][n] > 0 =>
           /\ TopicOf[t] \in Topics /\ n <= Accepted(TopicOf[t])
           /\ \A j \in 1..Len(queue) : queue[j].topic = TopicOf[t] => n < queue[j].n
      /\ \A t \in Tables, n \in 1..MaxItems : rows[t][n] > 0 => rows'[t][n] > 0
      /\ AtMostOnce'
      /\ \A p \in Partners : \A i \in Enqueued :
           (Yields(i, p[1]) /\ Yields(i, p[2]) /\ rows'[p[2]][i.n] > 0) => rows'[p[1]][i.n] > 0
  <2>1. CASE UNCHANGED rows
    BY <2>1 DEF IInv, TypeOK, NewerToCome, AtMostOnce, PartnersFirst
  <2>2. CASE step \in Positions /\ WriteRows
    BY <2>2, InsertKeeps
  <2>. QED BY <2>1, <2>2
<1>2. /\ queue \in Seq(Items) /\ batch \subseteq Items /\ lost \subseteq Items
      /\ Queued \subseteq Items
  BY DEF IInv, TypeOK, Queued
<1>3. queue' = queue \/ queue' = << >>
  OBVIOUS
<1>4. \A j \in 1..Len(queue') : j \in 1..Len(queue) /\ queue'[j] = queue[j]
  BY <1>3
<1>5. TypeOK'
  <2>1. queue' \in Seq(Items) /\ Len(queue') <= QueueMax
    <3>1. Len(queue) <= QueueMax /\ QueueMax \in Nat \ {0}
      BY ConstantsAssumption DEF IInv, TypeOK, ConstantsAssumption
    <3>2. CASE queue' = << >>
      BY <3>1, <3>2
    <3>. QED BY <1>2, <1>3, <3>1, <3>2
  <2>2. lost' \subseteq Items
    BY <1>2 DEF Unwritten
  <2>3. 0 \in 0..Done
    BY Order
  <2>. QED BY <1>1, <2>1, <2>2, <2>3, NoCards DEF IInv, TypeOK
<1>6. Fifo'
  <2>. SUFFICES /\ \A j \in 1..Len(queue') : queue'[j].n <= Accepted(queue'[j].topic)
                /\ \A j, l \in 1..Len(queue') :
                     (j < l /\ queue'[j].topic = queue'[l].topic) => queue'[j].n < queue'[l].n
    BY DEF Fifo, Accepted
  <2>. QED BY <1>4 DEF IInv, Fifo
<1>7. NewerToCome'
  BY <1>1, <1>4 DEF NewerToCome, Accepted
<1>8. Passed'
  BY DEF Passed
<1>9. PartnersFirst'
  BY <1>1 DEF PartnersFirst, Enqueued, Accepted, Yields
<1>10. LostOnlyByFailure'
  <2>. SUFFICES ASSUME NEW i \in Enqueued
                PROVE  i \in Queued' \/ i \in lost' \/ Stored(i)'
    BY DEF LostOnlyByFailure, Enqueued, Accepted
  <2>1. i \in Items /\ i.n \in 1..MaxItems
    BY DEF Enqueued, Items
  <2>2. Stored(i)' <=> \A t \in Tables : Yields(i, t) => rows'[t][i.n] > 0
    BY DEF Stored, Yields
  <2>3. CASE Stored(i)
    BY <1>1, <2>1, <2>2, <2>3 DEF Stored
  <2>4. CASE i \in batch
    <3>1. \A t \in Tables : rows'[t][i.n] \in Nat
      BY <1>1, <2>1
    <3>2. i \notin Unwritten => Stored(i)'
      BY <2>2, <2>4, <3>1 DEF Unwritten
    <3>. QED BY <3>2
  <2>5. CASE i \in Queued
    BY <2>5 DEF Queued
  <2>. QED BY <2>3, <2>4, <2>5 DEF IInv, LostOnlyByFailure
<1>. QED BY <1>1, <1>5, <1>6, <1>7, <1>8, <1>9, <1>10 DEF IInv

(***************************************************************************)
(* The theorems.                                                           *)
(***************************************************************************)

LEMMA InitHolds == Init => IInv
<1>. USE ConstantsAssumption DEF ConstantsAssumption
<1>. SUFFICES ASSUME Init PROVE IInv
  OBVIOUS
<1>1. /\ runtime = "connecting" /\ queue = << >> /\ batch = {} /\ step = 0 /\ lost = {}
      /\ rows = [t \in Tables |-> [n \in 1..MaxItems |-> 0]] /\ made = [k \in Topics |-> << >>]
  BY DEF Init
<1>2. \A k \in Topics : Accepted(k) = 0
  BY <1>1 DEF Accepted
<1>3. Enqueued = {}
  BY <1>2 DEF Enqueued, Items
<1>4. \A t \in Tables, n \in 1..MaxItems : rows[t][n] = 0
  BY <1>1
<1>5. TypeOK
  <2>1. \A k \in Topics : Len(made[k]) <= MaxItems
    BY <1>1
  <2>2. made \in [Topics -> Seq(UNION {Payloads[k] : k \in Topics})]
    BY <1>1
  <2>3. 0 \in 0..Done
    BY Order
  <2>. QED BY <1>1, <2>1, <2>2, <2>3, NoCards DEF TypeOK
<1>6. Fifo /\ Passed
  BY <1>1 DEF Fifo, Passed
<1>7. NewerToCome
  BY <1>1, <1>4, Order DEF NewerToCome
<1>8. AtMostOnce
  <2>1. Plain \subseteq Tables
    BY DEF Plain, Tables, TopicOf
  <2>. QED BY <1>4, <2>1 DEF AtMostOnce
<1>9. PartnersFirst /\ LostOnlyByFailure
  BY <1>3 DEF PartnersFirst, LostOnlyByFailure
<1>. QED BY <1>5, <1>6, <1>7, <1>8, <1>9 DEF IInv

LEMMA NextKeeps == IInv /\ [Next]_vars => IInv'
<1>. SUFFICES ASSUME IInv, [Next]_vars PROVE IInv'
  OBVIOUS
<1>1. ASSUME NEW k \in Topics, NEW payload \in Payloads[k], Enqueue(k, payload) PROVE IInv'
  BY <1>1, EnqueueKeeps
<1>2. CASE FlushStart
  BY <1>2, FlushStartKeeps
<1>3. CASE Insert
  BY <1>3, InsertStepKeeps
<1>4. CASE FlushEnd
  BY <1>4, FlushEndKeeps
<1>5. runtime \in {"connecting", "ready", "error", "cancelled"}
  BY DEF IInv, TypeOK
<1>6. CASE FlushFails
  BY <1>5, <1>6, GivingUpKeeps DEF FlushFails, Abandon, Positions
<1>7. CASE RuntimeFails
  BY <1>7, GivingUpKeeps DEF RuntimeFails, Abandon, Positions
<1>8. CASE RuntimeCancelled
  BY <1>8, GivingUpKeeps DEF RuntimeCancelled, Abandon, Positions
<1>9. CASE ProcessReplaced
  BY <1>9, GivingUpKeeps DEF ProcessReplaced, Positions
<1>10. CASE Connect
  <2>1. runtime' \in {"ready", "error"} /\ UNCHANGED << queue, batch, step, rows, made, lost >>
    BY <1>10 DEF Connect
  <2>. QED BY <2>1 DEF IInv, TypeOK, Fifo, NewerToCome, Passed, AtMostOnce, PartnersFirst,
         LostOnlyByFailure, Enqueued, Accepted, Queued, Stored, Yields
<1>11. CASE UNCHANGED vars
  BY <1>11 DEF vars, IInv, TypeOK, Fifo, NewerToCome, Passed, AtMostOnce, PartnersFirst,
       LostOnlyByFailure, Enqueued, Accepted, Queued, Stored, Yields
<1>. QED BY <1>1, <1>2, <1>3, <1>4, <1>6, <1>7, <1>8, <1>9, <1>10, <1>11 DEF Next

\* The invariant holds whatever fails, and whenever processes are replaced.
THEOREM WriterInvariant == Spec => []IInv
BY InitHolds, NextKeeps, PTL DEF Spec

\* Every reachable state of the writer is well typed; the queue and a batch never
\* exceed their sizes.
THEOREM WriterTypes == Spec => []TypeOK
<1>1. IInv => TypeOK
  BY DEF IInv
<1>. QED BY <1>1, WriterInvariant, PTL

\* No row of a table without a unique key is inserted twice (AtMostOnce).
THEOREM RowsInsertedOnce == Spec => []AtMostOnce
<1>1. IInv => AtMostOnce
  BY DEF IInv
<1>. QED BY <1>1, WriterInvariant, PTL

\* The first table of a pair has the rows of an item before the second (PartnersFirst).
THEOREM PartnersInOrder == Spec => []PartnersFirst
<1>1. IInv => PartnersFirst
  BY DEF IInv
<1>. QED BY <1>1, WriterInvariant, PTL

\* What is neither queued, nor being written, nor lost with a flush or a process is in
\* its tables (LostOnlyByFailure).
THEOREM NothingElseIsLost == Spec => []LostOnlyByFailure
<1>1. IInv => LostOnlyByFailure
  BY DEF IInv
<1>. QED BY <1>1, WriterInvariant, PTL

(***************************************************************************)
(* The tables are logs.                                                    *)
(***************************************************************************)

LoggedTables == {t \in Tables : TopicOf[t] \in Topics}
AcceptedBar  == [k \in Topics |-> Accepted(k)]
StoredBar    == [t \in LoggedTables |-> {n \in 1..MaxItems : rows[t][n] > 0}]

\* An insert adds to one table some items that are newer than all it has.
LEMMA InsertIsStore ==
  ASSUME IInv, step \in Positions, WriteRows, made' = made
  PROVE  [Log!Next]_(Log!vars)
<1>. DEFINE t == WriteOrder[step]
            items == {n \in 1..MaxItems : \E i \in batch : i.n = n /\ Yields(i, t)}
<1>1. /\ \A u \in Tables : u # t => rows'[u] = rows[u]
      /\ \A n \in 1..MaxItems : rows'[t][n] > 0 <=>
           (rows[t][n] > 0 \/ \E i \in batch : i.n = n /\ Yields(i, t))
  BY InsertWrites
<1>2. t \in Tables /\ step <= step /\ step \in 1..8
  BY Order
<1>3. \A i \in batch : i.topic \in Topics /\ i.n \in 1..MaxItems /\ i.n <= Accepted(i.topic)
  BY DEF IInv, TypeOK, Items, Fifo
<1>4. AcceptedBar' = AcceptedBar
  BY DEF AcceptedBar, Accepted
<1>5. CASE TopicOf[t] \in Topics
  <2>1. items \subseteq 1..AcceptedBar[TopicOf[t]]
    <3>1. ASSUME NEW n \in items PROVE n \in 1..Accepted(TopicOf[t])
      <4>1. PICK i \in batch : i.n = n /\ Yields(i, t)
        OBVIOUS
      <4>2. i.topic = TopicOf[t]
        BY <4>1 DEF Yields
      <4>3. Accepted(TopicOf[t]) \in Nat
        BY <1>5 DEF IInv, TypeOK, Accepted
      <4>. QED BY <1>3, <4>1, <4>2, <4>3
    <3>. QED BY <1>5, <3>1 DEF AcceptedBar
  <2>2. ASSUME NEW new \in items, NEW old \in StoredBar[t] PROVE old < new
    <3>1. old \in 1..MaxItems /\ rows[t][old] > 0
      BY <1>2, <1>5 DEF StoredBar, LoggedTables
    <3>2. PICK i \in batch : i.n = new /\ Yields(i, t)
      OBVIOUS
    <3>3. i.topic = TopicOf[WriteOrder[step]]
      BY <3>2 DEF Yields
    <3>. QED BY <1>2, <3>1, <3>2, <3>3 DEF IInv, NewerToCome
  <2>3. StoredBar' = [StoredBar EXCEPT ![t] = @ \union items]
    <3>. HIDE DEF t
    <3>1. \A u \in LoggedTables : u \in Tables
      BY DEF LoggedTables
    <3>2. ASSUME NEW u \in LoggedTables
          PROVE  {n \in 1..MaxItems : rows'[u][n] > 0} =
                   IF u = t THEN {n \in 1..MaxItems : rows[u][n] > 0} \union items
                   ELSE {n \in 1..MaxItems : rows[u][n] > 0}
      <4>1. CASE u = t
        BY <1>1, <4>1
      <4>2. CASE u # t
        BY <1>1, <3>1, <4>2
      <4>. QED BY <4>1, <4>2
    <3>. QED BY <3>2 DEF StoredBar
  <2>4. t \in LoggedTables
    BY <1>2, <1>5 DEF LoggedTables
  <2>. HIDE DEF t, items
  <2>5. \E u \in LoggedTables : \E added \in SUBSET (1..AcceptedBar[TopicOf[u]]) :
          /\ \A new \in added, old \in StoredBar[u] : old < new
          /\ StoredBar' = [StoredBar EXCEPT ![u] = @ \union added]
    BY <2>1, <2>2, <2>3, <2>4
  <2>6. Log!Next
    BY <1>4, <2>5 DEF Log!Next, Log!Store, AcceptedBar, StoredBar, LoggedTables
  <2>. QED BY <2>6
<1>6. CASE TopicOf[t] \notin Topics
  <2>1. \A i \in batch : ~Yields(i, t)
    BY <1>3, <1>6 DEF Yields
  <2>2. StoredBar' = StoredBar
    BY <1>1, <1>6, <2>1 DEF StoredBar, LoggedTables
  <2>. QED BY <1>4, <2>2 DEF Log!vars, AcceptedBar, StoredBar, LoggedTables
<1>. QED BY <1>5, <1>6

\* Each table is a log of what was enqueued (IsRowLog): whatever fails, its rows are
\* added in order, once, and are never taken back.
THEOREM TablesAreLogs == Spec => IsRowLog
<1>1. Init => Log!Init
  <2>. SUFFICES ASSUME Init PROVE Log!Init
    OBVIOUS
  <2>1. AcceptedBar = [k \in Topics |-> 0]
    BY DEF Init, AcceptedBar, Accepted
  <2>2. \A t \in LoggedTables : {n \in 1..MaxItems : rows[t][n] > 0} = {}
    BY DEF Init, LoggedTables
  <2>3. StoredBar = [t \in LoggedTables |-> {}]
    BY <2>2 DEF StoredBar
  <2>. QED BY <2>1, <2>3 DEF Log!Init, AcceptedBar, StoredBar, LoggedTables
<1>2. IInv /\ [Next]_vars => [Log!Next]_(Log!vars)
  <2>. SUFFICES ASSUME IInv, [Next]_vars PROVE [Log!Next]_(Log!vars)
    OBVIOUS
  <2>1. ASSUME NEW k \in Topics, NEW payload \in Payloads[k], Enqueue(k, payload)
        PROVE  Log!Next
    <3>1. made' = [made EXCEPT ![k] = Append(@, payload)] /\ rows' = rows
      BY <2>1 DEF Enqueue
    <3>2. AcceptedBar' = [AcceptedBar EXCEPT ![k] = @ + 1]
      <4>1. \A c \in Topics : made[c] \in Seq(UNION {Payloads[d] : d \in Topics})
        BY DEF IInv, TypeOK
      <4>2. Len(made'[k]) = Len(made[k]) + 1 /\ \A c \in Topics : c # k => made'[c] = made[c]
        BY <3>1, <4>1 DEF IInv, TypeOK
      <4>. QED BY <4>2 DEF AcceptedBar, Accepted
    <3>3. StoredBar' = StoredBar
      BY <3>1 DEF StoredBar
    <3>4. Log!Accept(k)
      BY <3>2, <3>3 DEF Log!Accept, AcceptedBar, StoredBar, LoggedTables
    <3>. QED BY <3>4 DEF Log!Next
  <2>2. CASE UNCHANGED << rows, made >>
    BY <2>2 DEF Log!vars, Accepted
  <2>3. CASE step \in Positions /\ WriteRows /\ made' = made
    BY <2>3, InsertIsStore
  <2>4. CASE FlushStart \/ FlushEnd \/ Connect \/ UNCHANGED vars
    BY <2>2, <2>4 DEF FlushStart, FlushEnd, Connect, vars
  <2>5. CASE Insert
    BY <2>3, <2>5 DEF Insert, Positions
  <2>6. CASE FlushFails \/ RuntimeFails \/ RuntimeCancelled
    BY <2>2, <2>3, <2>6 DEF FlushFails, RuntimeFails, RuntimeCancelled, Abandon, Positions
  <2>7. CASE ProcessReplaced
    BY <2>2, <2>3, <2>7 DEF ProcessReplaced, Positions
  <2>. QED BY <2>1, <2>4, <2>5, <2>6, <2>7 DEF Next
<1>. QED BY <1>1, <1>2, WriterInvariant, PTL DEF Spec, IsRowLog, Log!Spec

(***************************************************************************)
(* The writer over a day.                                                  *)
(***************************************************************************)

LEMMA DayStepIsWriterStep == [DayNext]_dayVars => [Next]_vars
<1>. SUFFICES ASSUME [DayNext]_dayVars PROVE [Next]_vars
  OBVIOUS
<1>1. CASE \E j \in DOMAIN FirstStep : Launch(j)
  BY <1>1 DEF Launch
<1>2. CASE JobKilled \/ ReadSecrets \/ Authenticate \/ Verify \/ Expire \/ WriteSession \/ WriteAuth
  BY <1>2 DEF JobKilled, ReadSecrets, Authenticate, Verify, Expire, WriteSession, WriteAuth
<1>3. CASE InstanceStarts \/ IngestionBoots \/ ShutdownBegins \/ InstanceDrains
  BY <1>3 DEF InstanceStarts, IngestionBoots, ShutdownBegins, InstanceDrains
<1>4. CASE ShutdownCancels
  BY <1>4 DEF ShutdownCancels, Next
<1>5. CASE InstanceEnds
  BY <1>5 DEF InstanceEnds, Next
<1>6. CASE ScaleUp \/ Poll \/ Signalled \/ ScaleDown
  BY <1>6 DEF ScaleUp, Poll, Signalled, ScaleDown
<1>7. CASE InProcess(Produce)
  BY <1>7 DEF InProcess, Produce, Next
<1>8. CASE \/ InProcess(Connect) \/ InProcess(FlushStart) \/ InProcess(Insert) \/ InProcess(FlushEnd)
           \/ InProcess(FlushFails) \/ InProcess(RuntimeFails)
  BY <1>8 DEF InProcess, Next
<1>9. CASE UNCHANGED dayVars
  BY <1>9 DEF dayVars
<1>. QED BY <1>1, <1>2, <1>3, <1>4, <1>5, <1>6, <1>7, <1>8, <1>9 DEF DayNext

\* A day of the service is a behaviour of the database writer, whichever jobs run and
\* however its processes end.
THEOREM DayImplementsWriter == DaySpec => Spec
<1>1. DayInit => Init
  BY DEF DayInit
<1>. QED BY <1>1, DayStepIsWriterStep, PTL DEF DaySpec, Spec

\* Over a day, and over every process of it, no row is inserted twice, the tables of a
\* bar are written in their order, and what is lost was lost with a flush or a process.
THEOREM DayTablesAreSound ==
  DaySpec => [](AtMostOnce /\ PartnersFirst /\ LostOnlyByFailure) /\ IsRowLog
BY DayImplementsWriter, RowsInsertedOnce, PartnersInOrder, NothingElseIsLost, TablesAreLogs, PTL

(***************************************************************************)
(* The refresh job.                                                        *)
(***************************************************************************)

\* What the locals of the job say of the secrets: the two are of its own session once
\* it has written both, and the token is the job's once that is written.
JobInv ==
  /\ token \in Ages /\ got \in Ages \union {"none"}
  /\ all_ok \in BOOLEAN /\ together \in BOOLEAN /\ renewed \in BOOLEAN /\ has_auth \in BOOLEAN
  /\ job = "session" => got # "none"
  /\ renewed => job \in {"session", "auth", "verify"}
  /\ (job = "verify" /\ renewed /\ has_auth /\ all_ok) => together
  /\ (job \in {"auth", "verify"} /\ all_ok) => token = got

LEMMA JobInvKeeps == JobInv /\ [DayNext]_dayVars => JobInv'
<1>. SUFFICES ASSUME JobInv, [DayNext]_dayVars PROVE JobInv'
  OBVIOUS
<1>. USE DEF JobInv, Ages
<1>1. ASSUME NEW j \in DOMAIN FirstStep, Launch(j) PROVE JobInv'
  <2>1. job = "none" /\ job' \in {"read", "scale_up", "signal"} /\ UNCHANGED secretVars
    BY <1>1 DEF Launch, FirstStep
  <2>. QED BY <2>1 DEF secretVars
<1>2. CASE JobKilled
  BY <1>2 DEF JobKilled, Finish, Forget
<1>3. CASE ReadSecrets
  BY <1>3 DEF ReadSecrets, Finish, Goto, secretVars
<1>4. CASE Authenticate
  <2>1. job = "login" /\ ~renewed /\ UNCHANGED << token, together, all_ok >>
    BY <1>4 DEF Authenticate
  <2>2. CASE job' = "session" /\ got' = token /\ UNCHANGED << renewed, has_auth >>
    BY <2>1, <2>2
  <2>3. CASE job' = "session" /\ got' = "good" /\ renewed' = TRUE /\ has_auth' \in BOOLEAN
    BY <2>1, <2>3
  <2>4. CASE job' = "none" /\ UNCHANGED << got, renewed, has_auth >>
    BY <2>1, <2>4
  <2>. QED BY <1>4, <2>2, <2>3, <2>4 DEF Authenticate, Finish, Goto
<1>5. CASE WriteSession
  <2>1. /\ job = "session" /\ job' = "auth"
        /\ got' = got /\ renewed' = renewed /\ has_auth' = has_auth
    BY <1>5 DEF WriteSession, Goto
  <2>2. CASE token' = got /\ together' = (together /\ ~renewed) /\ UNCHANGED all_ok
    BY <2>1, <2>2
  <2>3. CASE all_ok' = FALSE /\ UNCHANGED << token, together >>
    BY <2>1, <2>3
  <2>. QED BY <1>5, <2>2, <2>3 DEF WriteSession
<1>6. CASE WriteAuth
  <2>1. /\ job = "auth" /\ job' = "verify" /\ token' = token
        /\ got' = got /\ renewed' = renewed /\ has_auth' = has_auth
    BY <1>6 DEF WriteAuth, Goto
  <2>2. CASE ~(renewed /\ has_auth) /\ UNCHANGED << together, all_ok >>
    BY <2>1, <2>2
  <2>3. CASE renewed /\ has_auth /\ together' = all_ok /\ UNCHANGED all_ok
    BY <2>1, <2>3
  <2>4. CASE all_ok' = FALSE /\ UNCHANGED together
    BY <2>1, <2>4
  <2>. QED BY <1>6, <2>2, <2>3, <2>4 DEF WriteAuth
<1>7. CASE Verify
  BY <1>7 DEF Verify, Finish, Forget
<1>8. CASE Expire
  BY <1>8 DEF Expire, Older, jobVars
<1>9. CASE UNCHANGED << secretVars, job >>
  BY <1>9 DEF secretVars
<1>10. CASE InstanceStarts \/ IngestionBoots \/ ShutdownBegins \/ ShutdownCancels
            \/ InstanceDrains \/ InstanceEnds
  BY <1>9, <1>10 DEF InstanceStarts, IngestionBoots, ShutdownBegins, ShutdownCancels,
       InstanceDrains, InstanceEnds, jobVars
<1>11. CASE ScaleUp \/ Poll \/ Signalled \/ ScaleDown
  <2>1. job \in {"scale_up", "poll", "signal", "scale_down"}
        /\ job' \in {"none", "poll", "scale_down"} /\ UNCHANGED secretVars
    BY <1>11 DEF ScaleUp, Poll, Signalled, ScaleDown, Finish, Goto
  <2>. QED BY <2>1 DEF secretVars
<1>12. CASE \/ InProcess(Produce) \/ InProcess(Connect) \/ InProcess(FlushStart)
            \/ InProcess(Insert) \/ InProcess(FlushEnd)
            \/ InProcess(FlushFails) \/ InProcess(RuntimeFails)
  BY <1>9, <1>12 DEF InProcess, jobVars
<1>13. CASE UNCHANGED dayVars
  BY <1>9, <1>13 DEF dayVars, jobVars
<1>. QED BY <1>1, <1>2, <1>3, <1>4, <1>5, <1>6, <1>7, <1>8, <1>10, <1>11, <1>12, <1>13 DEF DayNext

\* Only three steps of the refresh job end it with the exit code 0.
LEMMA ExitsWithZero ==
  ASSUME [DayNext]_dayVars, job \in RefreshSteps, job' = "none", exit' = 0
  PROVE  (job = "read" /\ token = "good") \/ (job = "verify" /\ got = "good" /\ all_ok)
<1>. USE DEF RefreshSteps
<1>1. ~ \E j \in DOMAIN FirstStep : Launch(j)
  BY DEF Launch
<1>2. ~ JobKilled
  BY DEF JobKilled, Finish
<1>3. CASE ReadSecrets
  BY <1>3 DEF ReadSecrets, Goto
<1>4. ~ Authenticate
  BY DEF Authenticate, Finish, Goto
<1>5. ~ WriteSession /\ ~ WriteAuth
  BY DEF WriteSession, WriteAuth, Goto
<1>6. CASE Verify
  BY <1>6 DEF Verify, Finish
<1>7. ~(job' = job)
  OBVIOUS
<1>8. ~ Expire
  BY <1>7 DEF Expire, jobVars
<1>9. ~(InstanceStarts \/ IngestionBoots \/ ShutdownBegins \/ ShutdownCancels
         \/ InstanceDrains \/ InstanceEnds)
  BY <1>7 DEF InstanceStarts, IngestionBoots, ShutdownBegins, ShutdownCancels,
       InstanceDrains, InstanceEnds, jobVars
<1>10. ~(ScaleUp \/ Poll \/ Signalled \/ ScaleDown)
  BY DEF ScaleUp, Poll, Signalled, ScaleDown
<1>11. ~(\/ InProcess(Produce) \/ InProcess(Connect) \/ InProcess(FlushStart)
         \/ InProcess(Insert) \/ InProcess(FlushEnd)
         \/ InProcess(FlushFails) \/ InProcess(RuntimeFails))
  BY <1>7 DEF InProcess, jobVars
<1>12. ~ UNCHANGED dayVars
  BY <1>7 DEF dayVars, jobVars
<1>. QED BY <1>1, <1>2, <1>3, <1>4, <1>5, <1>6, <1>8, <1>9, <1>10, <1>11, <1>12 DEF DayNext

\* When the refresh job says that it succeeded the secret holds a session that lives on
\* for the job's leeway, and after a login that brought both tokens the two secrets are of
\* one session, whatever was there before (ExitZeroIsHonest).
THEOREM RefreshIsHonest == DaySpec => ExitZeroIsHonest
<1>1. DayInit => JobInv
  BY DEF DayInit, JobInv, Ages
<1>2. JobInv /\ [DayNext]_dayVars =>
        ((job \in RefreshSteps /\ job' = "none" /\ exit' = 0) =>
           /\ token = "good"
           /\ (renewed /\ has_auth) => together)
  BY ExitsWithZero DEF JobInv
<1>. QED BY <1>1, <1>2, JobInvKeeps, PTL DEF DaySpec, ExitZeroIsHonest

=============================================================================
