-------------------------- MODULE TickFanoutProofs --------------------------
(***************************************************************************)
(* What holds of TickFanout for every set of streams, every size of the    *)
(* queues and any number of ticks: its types, InOrder and EachOnce.        *)
(***************************************************************************)
EXTENDS TickFanout, SequenceTheorems, TLAPS

(***************************************************************************)
(* The inductive invariant behind InOrder.                                 *)
(***************************************************************************)

\* How many ticks were published to a broker.
Published(b) == IF b \in Feeds THEN Len(ticks) ELSE 0

\* A sequence of consecutive numbers, the first of which follows k.
Run(s, k) == \A i \in 1..Len(s) : s[i] = k + i

\* A broker whose queue was never full holds consecutive numbers, from the first
\* tick taken to the last one that is ready to be put, and no put waits.
Consecutive(b) ==
  /\ putters[b] = << >>
  /\ Run(taken[b], 0)
  /\ Run(queue[b], Len(taken[b]))
  /\ Run(ready[b], Len(taken[b]) + Len(queue[b]))
  /\ Len(taken[b]) + Len(queue[b]) + Len(ready[b]) = Published(b)

BrokersInv == \A b \in Brokers \ crowded : Consecutive(b)

\* What a worker has in its hand is a tick of its stream, taken from the broker, that
\* is newer than all it stored and wrote before.
HandInv(w) ==
  /\ latest[w] <= Len(taken["broker"])
  /\ hand[w] # 0 =>
       /\ hand[w] \in 1..Len(taken["broker"]) /\ ticks[hand[w]] = w
       /\ at[w] = "hset" => latest[w] < hand[w]
       /\ at[w] = "enqueue" => latest[w] = hand[w]
       /\ \A i \in 1..Len(written) : ticks[written[i]] = w => written[i] < hand[w]

\* What was written was taken from the broker, is in order within its stream, and the
\* store is no older.
WrittenInv ==
  /\ \A i \in 1..Len(written) :
       /\ written[i] \in 1..Len(taken["broker"])
       /\ written[i] <= latest[ticks[written[i]]]
  /\ \A i, j \in 1..Len(written) :
       (i < j /\ ticks[written[i]] = ticks[written[j]]) => written[i] < written[j]

WorkersInv == "broker" \notin crowded => WrittenInv /\ \A w \in Streams : HandInv(w)

IInv == TypeOK /\ BrokersInv /\ WorkersInv

(***************************************************************************)
(* Types.                                                                  *)
(***************************************************************************)

\* A tick is published to each broker it is for, and to none that is unknown.
LEMMA PublishesType ==
  ASSUME TypeOK, NEW n \in Numbers, Publishes(n)
  PROVE  ready' \in [Brokers -> Seq(Numbers)]
<1>1. ASSUME NEW b \in Brokers
      PROVE  (IF b \in Feeds THEN Append(ready[b], n) ELSE ready[b]) \in Seq(Numbers)
  <2>1. ready[b] \in Seq(Numbers)
    BY DEF TypeOK
  <2>. QED BY <2>1, AppendProperties
<1>. QED BY <1>1 DEF Publishes

\* A put keeps the types, and never more than QueueMax ticks in the queue.
LEMMA PutType ==
  ASSUME TypeOK, NEW b \in Brokers, Put(b)
  PROVE  /\ ready' \in [Brokers -> Seq(Numbers)]
         /\ putters' \in [Brokers -> Seq(Numbers)]
         /\ queue' \in [Brokers -> Seq(Numbers)]
         /\ \A c \in Brokers : Len(queue'[c]) <= QueueMax
         /\ crowded' \subseteq Brokers
<1>. USE FanoutAssumption DEF FanoutAssumption
<1>1. /\ ready[b] \in Seq(Numbers) /\ putters[b] \in Seq(Numbers) /\ queue[b] \in Seq(Numbers)
      /\ ready[b] # << >>
  BY DEF TypeOK, Put
<1>2. Head(ready[b]) \in Numbers /\ Tail(ready[b]) \in Seq(Numbers)
  BY <1>1, HeadTailProperties
<1>3. /\ Append(queue[b], Head(ready[b])) \in Seq(Numbers)
      /\ Len(Append(queue[b], Head(ready[b]))) = Len(queue[b]) + 1
      /\ Append(putters[b], Head(ready[b])) \in Seq(Numbers)
  BY <1>1, <1>2, AppendProperties
<1>4. Len(queue[b]) \in Nat
  BY <1>1, LenProperties
<1>5. ready' \in [Brokers -> Seq(Numbers)]
  BY <1>2 DEF Put, TypeOK
<1>6. CASE /\ Len(queue[b]) < QueueMax
           /\ queue' = [queue EXCEPT ![b] = Append(@, Head(ready[b]))]
           /\ UNCHANGED << putters, crowded >>
  BY <1>3, <1>4, <1>5, <1>6 DEF TypeOK
<1>7. CASE /\ Len(queue[b]) = QueueMax
           /\ putters' = [putters EXCEPT ![b] = Append(@, Head(ready[b]))]
           /\ crowded' = crowded \union {b}
           /\ UNCHANGED queue
  BY <1>3, <1>5, <1>7 DEF TypeOK
<1>. QED BY <1>6, <1>7 DEF Put

\* A get keeps the types, and hands out the first tick of the queue.
LEMMA GetType ==
  ASSUME TypeOK, NEW b \in Brokers, Get(b)
  PROVE  /\ ready' \in [Brokers -> Seq(Numbers)]
         /\ putters' \in [Brokers -> Seq(Numbers)]
         /\ queue' \in [Brokers -> Seq(Numbers)]
         /\ taken' \in [Brokers -> Seq(Numbers)]
         /\ \A c \in Brokers : Len(queue'[c]) <= QueueMax
         /\ Head(queue[b]) \in Numbers
         /\ taken'[b][Len(taken'[b])] = Head(queue[b])
<1>. USE FanoutAssumption DEF FanoutAssumption
<1>1. /\ ready[b] \in Seq(Numbers) /\ putters[b] \in Seq(Numbers)
      /\ queue[b] \in Seq(Numbers) /\ taken[b] \in Seq(Numbers)
      /\ queue[b] # << >> /\ Len(queue[b]) <= QueueMax
  BY DEF TypeOK, Get
<1>2. Head(queue[b]) \in Numbers /\ Tail(queue[b]) \in Seq(Numbers)
      /\ Len(Tail(queue[b])) = Len(queue[b]) - 1
  BY <1>1, HeadTailProperties
<1>3. /\ Append(taken[b], Head(queue[b])) \in Seq(Numbers)
      /\ Len(Append(taken[b], Head(queue[b]))) = Len(taken[b]) + 1
      /\ Append(taken[b], Head(queue[b]))[Len(taken[b]) + 1] = Head(queue[b])
  BY <1>1, <1>2, AppendProperties
<1>4. Len(queue[b]) \in Nat
  BY <1>1, LenProperties
<1>5. queue' = [queue EXCEPT ![b] = Tail(@)] /\ taken' = [taken EXCEPT ![b] = Append(@, Head(queue[b]))]
  BY DEF Get
<1>6. /\ queue' \in [Brokers -> Seq(Numbers)] /\ \A c \in Brokers : Len(queue'[c]) <= QueueMax
      /\ taken' \in [Brokers -> Seq(Numbers)]
      /\ taken'[b][Len(taken'[b])] = Head(queue[b])
  BY <1>1, <1>2, <1>3, <1>4, <1>5 DEF TypeOK
<1>7. putters' \in [Brokers -> Seq(Numbers)] /\ ready' \in [Brokers -> Seq(Numbers)]
  <2>1. CASE putters[b] = << >> /\ UNCHANGED << putters, ready >>
    BY <2>1 DEF TypeOK
  <2>2. CASE /\ putters[b] # << >>
             /\ ready' = [ready EXCEPT ![b] = Append(@, Head(putters[b]))]
             /\ putters' = [putters EXCEPT ![b] = Tail(@)]
    <3>1. Head(putters[b]) \in Numbers /\ Tail(putters[b]) \in Seq(Numbers)
      BY <1>1, <2>2, HeadTailProperties
    <3>2. Append(ready[b], Head(putters[b])) \in Seq(Numbers)
      BY <1>1, <3>1, AppendProperties
    <3>. QED BY <2>2, <3>1, <3>2 DEF TypeOK
  <2>. QED BY <2>1, <2>2 DEF Get, Wake
<1>. QED BY <1>2, <1>6, <1>7

\* The brokers the model fills and empties are known ones.
LEMMA RealtimeIsBroker == Realtime \in Brokers /\ "broker" \in Brokers
BY DEF Realtime, Brokers

\* Every step keeps the types.
LEMMA TypeStep == TypeOK /\ [Next]_vars => TypeOK'
<1>. SUFFICES ASSUME TypeOK, [Next]_vars PROVE TypeOK'
  OBVIOUS
<1>. USE FanoutAssumption DEF FanoutAssumption
<1>1. ASSUME NEW s \in Streams, OnTick(s) \/ Replay(s)
      PROVE  TypeOK'
  <2>1. /\ ticks' = Append(ticks, s) /\ Len(ticks) < MaxTicks /\ Publishes(Len(ticks) + 1)
        /\ UNCHANGED << settings, putters, queue, taken, crowded, workerVars >>
    BY <1>1 DEF OnTick, Replay
  <2>2. ticks' \in Seq(Streams) /\ Len(ticks') = Len(ticks) + 1 /\ Len(ticks) \in Nat
    BY <2>1, AppendProperties, LenProperties DEF TypeOK
  <2>3. ready' \in [Brokers -> Seq(Numbers)]
    BY <2>1, <2>2, PublishesType DEF Numbers
  <2>. QED BY <2>1, <2>2, <2>3 DEF TypeOK, settings, workerVars
<1>2. ASSUME NEW b \in Brokers, Put(b)
      PROVE  TypeOK'
  BY <1>2, PutType DEF TypeOK, Put, settings, workerVars
<1>3. CASE PipelineTakes
  BY <1>3, GetType, RealtimeIsBroker DEF PipelineTakes, Get, TypeOK, settings, workerVars
<1>4. ASSUME NEW w \in Streams, WorkerTakes(w)
      PROVE  TypeOK'
  <2>1. Get("broker")
    BY <1>4 DEF WorkerTakes
  <2>2. taken'["broker"][Len(taken'["broker"])] \in Numbers
    BY <2>1, GetType, RealtimeIsBroker
  <2>3. hand' \in [Streams -> Numbers] /\ at' \in [Streams -> {"hset", "enqueue"}]
    BY <1>4, <2>2 DEF WorkerTakes, TypeOK, Numbers
  <2>. QED BY <1>4, <2>1, <2>3, GetType, RealtimeIsBroker DEF WorkerTakes, Get, TypeOK, settings
<1>5. ASSUME NEW w \in Streams, WorkerSets(w)
      PROVE  TypeOK'
  <2>1. /\ hand' \in [Streams -> Numbers] /\ at' \in [Streams -> {"hset", "enqueue"}]
        /\ latest' \in [Streams -> Numbers]
    <3>1. 0 \in Numbers /\ hand[w] \in Numbers
      BY DEF TypeOK, Numbers
    <3>2. CASE latest' = [latest EXCEPT ![w] = hand[w]] /\ at' = [at EXCEPT ![w] = "enqueue"]
               /\ UNCHANGED hand
      BY <3>1, <3>2 DEF TypeOK
    <3>3. CASE hand' = [hand EXCEPT ![w] = 0] /\ UNCHANGED << latest, at >>
      BY <3>1, <3>3 DEF TypeOK
    <3>. QED BY <1>5, <3>2, <3>3 DEF WorkerSets
  <2>. QED BY <1>5, <2>1 DEF WorkerSets, TypeOK, settings, brokerVars
<1>6. ASSUME NEW w \in Streams, WorkerEnqueues(w)
      PROVE  TypeOK'
  <2>1. written' \in Seq(Numbers)
    BY <1>6, AppendProperties DEF WorkerEnqueues, TypeOK
  <2>2. hand' \in [Streams -> Numbers] /\ waiting' \in 0..DbMax
    BY <1>6 DEF WorkerEnqueues, TypeOK, Numbers
  <2>. QED BY <1>6, <2>1, <2>2 DEF WorkerEnqueues, TypeOK, settings, brokerVars
<1>7. CASE Flush
  BY <1>7 DEF Flush, TypeOK, settings, brokerVars
<1>8. CASE Connect
  BY <1>8 DEF Connect, TypeOK, settings, brokerVars
<1>9. CASE RuntimeFails
  BY <1>9 DEF RuntimeFails, TypeOK, Numbers, settings, brokerVars
<1>10. CASE UNCHANGED vars
  BY <1>10 DEF vars, TypeOK, settings, brokerVars, workerVars
<1>. QED BY <1>1, <1>2, <1>3, <1>4, <1>5, <1>6, <1>7, <1>8, <1>9, <1>10 DEF Next

\* The initial state has the types.
LEMMA TypeInit == Init => TypeOK
<1>. SUFFICES ASSUME Init PROVE TypeOK
  OBVIOUS
<1>1. << >> \in Seq(Numbers) /\ << >> \in Seq(Streams) /\ Len(<< >>) = 0
  OBVIOUS
<1>. QED BY <1>1, FanoutAssumption DEF Init, TypeOK, FanoutAssumption, Numbers

\* Each variable keeps its type, and no queue ever holds more than QueueMax ticks nor
\* DBWriter's more than DbMax.
THEOREM Typing == Spec => []TypeOK
BY TypeInit, TypeStep, PTL DEF Spec

(***************************************************************************)
(* Order.                                                                  *)
(***************************************************************************)

\* A broker that a step leaves alone stays consecutive.
LEMMA BrokerFrame ==
  ASSUME NEW b \in Brokers, Consecutive(b),
         ready'[b] = ready[b], putters'[b] = putters[b],
         queue'[b] = queue[b], taken'[b] = taken[b],
         UNCHANGED << settings, ticks >>
  PROVE  Consecutive(b)'
BY DEF Consecutive, Published, Feeds, Realtime, settings

\* The next number may be appended to a run.
LEMMA RunAppend ==
  ASSUME NEW s \in Seq(Numbers), NEW k \in Nat, Run(s, k), NEW n \in Numbers, n = k + Len(s) + 1
  PROVE  Run(Append(s, n), k) /\ Len(Append(s, n)) = Len(s) + 1
<1>1. /\ Len(Append(s, n)) = Len(s) + 1
      /\ \A i \in 1..Len(s) : Append(s, n)[i] = s[i]
      /\ Append(s, n)[Len(s) + 1] = n
  BY AppendProperties
<1>2. Len(s) \in Nat
  BY LenProperties
<1>3. ASSUME NEW i \in 1..(Len(s) + 1)
      PROVE  Append(s, n)[i] = k + i
  <2>1. CASE i = Len(s) + 1
    BY <1>1, <1>2, <2>1
  <2>2. CASE i # Len(s) + 1
    BY <1>1, <1>2, <2>2 DEF Run
  <2>. QED BY <2>1, <2>2
<1>. QED BY <1>1, <1>3 DEF Run

\* What is left of a run without its first number is one.
LEMMA RunTail ==
  ASSUME NEW s \in Seq(Numbers), s # << >>, NEW k \in Nat, Run(s, k)
  PROVE  /\ Head(s) = k + 1 /\ Head(s) \in Numbers
         /\ Run(Tail(s), k + 1) /\ Tail(s) \in Seq(Numbers) /\ Len(Tail(s)) + 1 = Len(s)
<1>1. Len(s) \in Nat /\ Len(s) >= 1
  BY LenProperties, EmptySeq
<1>2. /\ Head(s) \in Numbers /\ Tail(s) \in Seq(Numbers) /\ Head(s) = s[1]
      /\ Len(Tail(s)) = Len(s) - 1
      /\ \A i \in 1..Len(Tail(s)) : Tail(s)[i] = s[i + 1]
  BY HeadTailProperties
<1>3. Head(s) = k + 1
  BY <1>1, <1>2 DEF Run
<1>4. Run(Tail(s), k + 1)
  <2>1. ASSUME NEW i \in 1..Len(Tail(s))
        PROVE  Tail(s)[i] = (k + 1) + i
    <3>1. i + 1 \in 1..Len(s)
      BY <1>1, <1>2
    <3>2. s[i + 1] = k + (i + 1)
      BY <3>1 DEF Run
    <3>. QED BY <1>1, <1>2, <3>2
  <2>. QED BY <2>1 DEF Run
<1>. QED BY <1>1, <1>2, <1>3, <1>4

\* Numbers are natural, and so are the lengths of the sequences of a broker.
LEMMA Lengths ==
  ASSUME TypeOK, NEW b \in Brokers
  PROVE  /\ ready[b] \in Seq(Numbers) /\ queue[b] \in Seq(Numbers) /\ taken[b] \in Seq(Numbers)
         /\ Len(ready[b]) \in Nat /\ Len(queue[b]) \in Nat /\ Len(taken[b]) \in Nat
         /\ ticks \in Seq(Streams) /\ Len(ticks) \in Nat
<1>1. /\ ready[b] \in Seq(Numbers) /\ queue[b] \in Seq(Numbers) /\ taken[b] \in Seq(Numbers)
      /\ ticks \in Seq(Streams)
  BY DEF TypeOK
<1>. QED BY <1>1, LenProperties

\* A tick that comes is the next number of each broker that is fed.
LEMMA BrokersArrive ==
  ASSUME TypeOK, BrokersInv, NEW s \in Streams, OnTick(s) \/ Replay(s)
  PROVE  BrokersInv'
<1>. SUFFICES ASSUME NEW b \in Brokers \ crowded PROVE Consecutive(b)'
  BY DEF BrokersInv, OnTick, Replay
<1>1. /\ ticks' = Append(ticks, s) /\ Publishes(Len(ticks) + 1)
      /\ UNCHANGED << settings, putters, queue, taken, crowded, workerVars >>
      /\ Len(ticks) < MaxTicks
  BY DEF OnTick, Replay
<1>2. Consecutive(b) /\ Feeds' = Feeds
  BY <1>1 DEF BrokersInv, Feeds, Realtime, settings
<1>. DEFINE R == ready[b]  T == Len(taken[b])  Q == Len(queue[b])  N == Len(ticks)
<1>3. /\ R \in Seq(Numbers) /\ Len(R) \in Nat /\ Q \in Nat /\ T \in Nat /\ N \in Nat
      /\ Len(ticks') = N + 1
  BY <1>1, Lengths, AppendProperties
<1>4. N + 1 \in Numbers
  BY <1>1, <1>3, FanoutAssumption DEF Numbers, FanoutAssumption
<1>5. CASE b \in Feeds
  <2>1. ready'[b] = Append(R, N + 1)
    BY <1>1, <1>5 DEF Publishes
  <2>2. T + Q + Len(R) = N /\ Run(R, T + Q)
    BY <1>2, <1>5 DEF Consecutive, Published
  <2>3. T + Q \in Nat /\ N + 1 = (T + Q) + Len(R) + 1
    <3>. HIDE DEF R, T, Q, N
    <3>. QED BY <1>3, <2>2
  <2>4. Run(ready'[b], T + Q) /\ Len(ready'[b]) = Len(R) + 1
    <3>. HIDE DEF R, T, Q, N
    <3>. QED BY <1>3, <1>4, <2>1, <2>2, <2>3, RunAppend
  <2>5. T + Q + Len(ready'[b]) = N + 1
    <3>. HIDE DEF R, T, Q, N
    <3>. QED BY <1>3, <2>2, <2>4
  <2>. QED BY <1>1, <1>2, <1>3, <1>5, <2>4, <2>5 DEF Consecutive, Published
<1>6. CASE b \notin Feeds
  <2>1. ready'[b] = ready[b]
    BY <1>1, <1>6 DEF Publishes
  <2>. QED BY <1>1, <1>2, <1>6, <2>1 DEF Consecutive, Published
<1>. QED BY <1>5, <1>6

\* A put that finds room appends the next number; one that does not makes the broker
\* crowded.
LEMMA BrokersPut ==
  ASSUME TypeOK, BrokersInv, NEW b \in Brokers, Put(b)
  PROVE  BrokersInv'
<1>. SUFFICES ASSUME NEW c \in Brokers \ crowded' PROVE Consecutive(c)'
  BY DEF BrokersInv
<1>1. /\ ready[b] # << >> /\ ready' = [ready EXCEPT ![b] = Tail(@)]
      /\ UNCHANGED << settings, ticks, taken, workerVars >>
  BY DEF Put
<1>2. /\ ready \in [Brokers -> Seq(Numbers)] /\ putters \in [Brokers -> Seq(Numbers)]
      /\ queue \in [Brokers -> Seq(Numbers)]
  BY DEF TypeOK
<1>3. c \notin crowded /\ Consecutive(c)
  BY DEF Put, BrokersInv
<1>4. CASE c # b
  BY <1>1, <1>2, <1>3, <1>4, BrokerFrame DEF Put
<1>5. CASE c = b
  <2>. DEFINE R == ready[b]  T == Len(taken[b])  S == queue[b]
  <2>1. queue' = [queue EXCEPT ![b] = Append(@, Head(ready[b]))] /\ UNCHANGED putters
    BY <1>5 DEF Put
  <2>2. /\ R \in Seq(Numbers) /\ Len(R) \in Nat /\ S \in Seq(Numbers) /\ Len(S) \in Nat /\ T \in Nat
        /\ R # << >>
    BY <1>1, Lengths
  <2>3. Run(R, T + Len(S)) /\ Run(S, T) /\ T + Len(S) + Len(R) = Published(b) /\ putters[b] = << >>
        /\ Run(taken[b], 0)
    BY <1>3, <1>5 DEF Consecutive
  <2>4. queue'[b] = Append(S, Head(R)) /\ ready'[b] = Tail(R)
    BY <1>1, <1>2, <2>1
  <2>5. /\ Head(R) = T + Len(S) + 1 /\ Head(R) \in Numbers
        /\ Run(Tail(R), T + Len(S) + 1) /\ Len(Tail(R)) + 1 = Len(R) /\ Len(Tail(R)) \in Nat
    <3>. HIDE DEF R, T, S
    <3>1. T + Len(S) \in Nat
      BY <2>2
    <3>2. Tail(R) \in Seq(Numbers)
      BY <2>2, <2>3, <3>1, RunTail
    <3>. QED BY <2>2, <2>3, <3>1, <3>2, RunTail, LenProperties
  <2>6. Run(queue'[b], T) /\ Len(queue'[b]) = Len(S) + 1
    <3>. HIDE DEF R, T, S
    <3>. QED BY <2>2, <2>3, <2>4, <2>5, RunAppend
  <2>7. T + Len(queue'[b]) = T + Len(S) + 1 /\ T + Len(queue'[b]) + Len(ready'[b]) = Published(b)
    <3>. HIDE DEF R, T, S
    <3>. QED BY <2>2, <2>3, <2>4, <2>5, <2>6
  <2>8. Published(b)' = Published(b)
    BY <1>1 DEF Published, Feeds, Realtime, settings
  <2>9. taken'[b] = taken[b] /\ putters'[b] = << >>
    BY <1>1, <2>1, <2>3
  <2>. QED BY <1>5, <2>3, <2>4, <2>5, <2>6, <2>7, <2>8, <2>9 DEF Consecutive
<1>. QED BY <1>4, <1>5

\* A get takes the next number, and wakes no put where none waits.
LEMMA BrokersGet ==
  ASSUME TypeOK, BrokersInv, NEW b \in Brokers, Get(b), UNCHANGED << settings, ticks >>
  PROVE  /\ BrokersInv'
         /\ b \notin crowded => /\ Len(taken'[b]) = Len(taken[b]) + 1
                                /\ taken'[b][Len(taken'[b])] = Len(taken[b]) + 1
<1>1. /\ queue[b] # << >> /\ queue' = [queue EXCEPT ![b] = Tail(@)]
      /\ taken' = [taken EXCEPT ![b] = Append(@, Head(queue[b]))]
      /\ Wake(b) /\ UNCHANGED crowded
  BY DEF Get
<1>2. /\ ready \in [Brokers -> Seq(Numbers)] /\ putters \in [Brokers -> Seq(Numbers)]
      /\ queue \in [Brokers -> Seq(Numbers)] /\ taken \in [Brokers -> Seq(Numbers)]
  BY DEF TypeOK
<1>3. ASSUME b \notin crowded
      PROVE  /\ Consecutive(b)' /\ Len(taken'[b]) = Len(taken[b]) + 1
             /\ Head(queue[b]) = Len(taken[b]) + 1
  <2>. DEFINE T == taken[b]  S == queue[b]
  <2>1. /\ T \in Seq(Numbers) /\ Len(T) \in Nat /\ S \in Seq(Numbers) /\ Len(S) \in Nat
        /\ Len(ready[b]) \in Nat /\ S # << >>
    BY <1>1, Lengths
  <2>2. /\ Run(T, 0) /\ Run(S, Len(T)) /\ Run(ready[b], Len(T) + Len(S)) /\ putters[b] = << >>
        /\ Len(T) + Len(S) + Len(ready[b]) = Published(b)
    BY <1>3 DEF BrokersInv, Consecutive
  <2>3. UNCHANGED << putters, ready >>
    BY <1>1, <2>2 DEF Wake
  <2>4. queue'[b] = Tail(S) /\ taken'[b] = Append(T, Head(S))
    BY <1>1, <1>2
  <2>5. /\ Head(S) = Len(T) + 1 /\ Head(S) \in Numbers
        /\ Run(Tail(S), Len(T) + 1) /\ Len(Tail(S)) + 1 = Len(S) /\ Len(Tail(S)) \in Nat
    <3>. HIDE DEF T, S
    <3>1. Tail(S) \in Seq(Numbers)
      BY <2>1, <2>2, RunTail
    <3>. QED BY <2>1, <2>2, <3>1, RunTail, LenProperties
  <2>6. Run(taken'[b], 0) /\ Len(taken'[b]) = Len(T) + 1
    <3>. HIDE DEF T, S
    <3>. QED BY <2>1, <2>2, <2>4, <2>5, RunAppend
  <2>7. Len(taken'[b]) + Len(queue'[b]) = Len(T) + Len(S)
    <3>. HIDE DEF T, S
    <3>. QED BY <2>1, <2>4, <2>5, <2>6
  <2>8. Published(b)' = Published(b)
    BY DEF Published, Feeds, Realtime, settings
  <2>. QED BY <2>2, <2>3, <2>4, <2>5, <2>6, <2>7, <2>8 DEF Consecutive
<1>4. ASSUME NEW c \in Brokers \ crowded, c # b
      PROVE  Consecutive(c)'
  <2>1. Consecutive(c)
    BY <1>4 DEF BrokersInv
  <2>2. ready'[c] = ready[c] /\ putters'[c] = putters[c]
    BY <1>1, <1>2, <1>4 DEF Wake
  <2>3. queue'[c] = queue[c] /\ taken'[c] = taken[c]
    BY <1>1, <1>2, <1>4
  <2>. QED BY <2>1, <2>2, <2>3, BrokerFrame
<1>5. BrokersInv'
  BY <1>1, <1>3, <1>4 DEF BrokersInv
<1>6. taken'[b][Len(taken'[b])] = Head(queue[b])
  BY GetType
<1>. QED BY <1>3, <1>5, <1>6

\* Every step keeps the brokers that were never full consecutive.
LEMMA BrokersStep == TypeOK /\ BrokersInv /\ [Next]_vars => BrokersInv'
<1>. SUFFICES ASSUME TypeOK, BrokersInv, [Next]_vars PROVE BrokersInv'
  OBVIOUS
<1>1. ASSUME NEW s \in Streams, OnTick(s) \/ Replay(s)
      PROVE  BrokersInv'
  BY <1>1, BrokersArrive
<1>2. ASSUME NEW b \in Brokers, Put(b)
      PROVE  BrokersInv'
  BY <1>2, BrokersPut
<1>3. CASE PipelineTakes
  BY <1>3, BrokersGet, RealtimeIsBroker DEF PipelineTakes
<1>4. ASSUME NEW w \in Streams, WorkerTakes(w)
      PROVE  BrokersInv'
  BY <1>4, BrokersGet, RealtimeIsBroker DEF WorkerTakes
<1>5. ASSUME UNCHANGED << settings, ticks, brokerVars >>
      PROVE  BrokersInv'
  BY <1>5, BrokerFrame DEF BrokersInv, brokerVars
<1>6. ASSUME NEW w \in Streams, WorkerSets(w) \/ WorkerEnqueues(w)
      PROVE  BrokersInv'
  BY <1>5, <1>6 DEF WorkerSets, WorkerEnqueues
<1>7. CASE Flush \/ Connect \/ RuntimeFails \/ UNCHANGED vars
  BY <1>5, <1>7 DEF Flush, Connect, RuntimeFails, vars
<1>. QED BY <1>1, <1>2, <1>3, <1>4, <1>6, <1>7 DEF Next

\* What is taken from the first broker did come, as long as it was never full.
LEMMA TakenArrived ==
  ASSUME TypeOK, BrokersInv, "broker" \notin crowded
  PROVE  /\ Len(taken["broker"]) \in Nat /\ Len(ticks) \in Nat
         /\ Len(taken["broker"]) <= Len(ticks)
<1>. DEFINE R == ready["broker"]  T == taken["broker"]  S == queue["broker"]
<1>1. /\ Len(R) \in Nat /\ Len(S) \in Nat /\ Len(T) \in Nat /\ Len(ticks) \in Nat
  BY Lengths, RealtimeIsBroker
<1>2. Len(T) + Len(S) + Len(R) = Len(ticks)
  BY RealtimeIsBroker DEF BrokersInv, Consecutive, Published, Feeds
<1>3. Len(T) <= Len(ticks)
  <2>. HIDE DEF R, T, S
  <2>. QED BY <1>1, <1>2
<1>. QED BY <1>1, <1>3

\* A step that at most takes from the broker, and touches no worker, keeps what is
\* known of the workers.
LEMMA WorkersFrame ==
  ASSUME TypeOK, WorkersInv, UNCHANGED << ticks, hand, at, latest, written >>,
         crowded \subseteq crowded',
         Len(taken["broker"]) \in Nat, Len(taken'["broker"]) \in Nat,
         Len(taken'["broker"]) >= Len(taken["broker"])
  PROVE  WorkersInv'
<1>. DEFINE T == Len(taken["broker"])  U == Len(taken'["broker"])
<1>. SUFFICES ASSUME "broker" \notin crowded PROVE WrittenInv' /\ \A w \in Streams : HandInv(w)'
  BY DEF WorkersInv
<1>1. WrittenInv /\ \A w \in Streams : HandInv(w)
  BY DEF WorkersInv
<1>2. T \in Nat /\ U \in Nat /\ T <= U /\ 1..T \subseteq 1..U
  <2>1. T \in Nat /\ U \in Nat /\ T <= U
    OBVIOUS
  <2>. HIDE DEF T, U
  <2>. QED BY <2>1
<1>3. WrittenInv'
  BY <1>1, <1>2 DEF WrittenInv
<1>4. ASSUME NEW w \in Streams
      PROVE  HandInv(w)'
  <2>1. latest[w] <= U
    <3>1. latest[w] \in Nat /\ latest[w] <= T
      BY <1>1, FanoutAssumption DEF TypeOK, Numbers, HandInv, FanoutAssumption
    <3>. HIDE DEF T, U
    <3>. QED BY <1>2, <3>1
  <2>. QED BY <1>1, <1>2, <2>1 DEF HandInv
<1>. QED BY <1>3, <1>4

\* A tick that comes leaves the streams of the earlier ones as they are.
LEMMA WorkersArrive ==
  ASSUME TypeOK, BrokersInv, WorkersInv, NEW s \in Streams, OnTick(s) \/ Replay(s)
  PROVE  WorkersInv'
<1>1. /\ ticks' = Append(ticks, s)
      /\ UNCHANGED << crowded, taken, hand, at, latest, written >>
  BY DEF OnTick, Replay, workerVars
<1>. SUFFICES ASSUME "broker" \notin crowded PROVE WrittenInv' /\ \A w \in Streams : HandInv(w)'
  BY <1>1 DEF WorkersInv
<1>2. WrittenInv /\ \A w \in Streams : HandInv(w)
  BY DEF WorkersInv
<1>3. \A n \in 1..Len(taken["broker"]) : ticks'[n] = ticks[n]
  <2>1. \A n \in 1..Len(ticks) : ticks'[n] = ticks[n]
    BY <1>1, AppendProperties DEF TypeOK
  <2>. DEFINE T == Len(taken["broker"])
  <2>2. T \in Nat /\ T <= Len(ticks) /\ Len(ticks) \in Nat
    BY TakenArrived
  <2>. HIDE DEF T
  <2>3. 1..T \subseteq 1..Len(ticks)
    BY <2>2
  <2>. QED BY <2>1, <2>3 DEF T
<1>4. WrittenInv'
  <2>1. \A i \in 1..Len(written) : ticks'[written[i]] = ticks[written[i]]
    BY <1>2, <1>3 DEF WrittenInv
  <2>2. written' = written /\ taken' = taken /\ latest' = latest
    BY <1>1
  <2>. QED BY <1>2, <2>1, <2>2 DEF WrittenInv
<1>5. \A w \in Streams : HandInv(w)'
  BY <1>1, <1>2, <1>3 DEF HandInv, WrittenInv
<1>. QED BY <1>4, <1>5

\* A worker takes a tick that is newer than all that was taken.
LEMMA WorkersTake ==
  ASSUME TypeOK, BrokersInv, WorkersInv, NEW w \in Streams, WorkerTakes(w)
  PROVE  WorkersInv'
<1>1. /\ Get("broker") /\ UNCHANGED << settings, ticks, latest, written, crowded >>
      /\ hand[w] = 0 /\ at' = [at EXCEPT ![w] = "hset"]
  BY DEF WorkerTakes, Get
<1>. SUFFICES ASSUME "broker" \notin crowded PROVE WrittenInv' /\ \A v \in Streams : HandInv(v)'
  BY <1>1 DEF WorkersInv
<1>2. WrittenInv /\ \A v \in Streams : HandInv(v)
  BY DEF WorkersInv
<1>. DEFINE T == Len(taken["broker"])  U == Len(taken'["broker"])
<1>3. /\ T \in Nat /\ U = T + 1 /\ taken'["broker"][U] = T + 1
  BY <1>1, BrokersGet, RealtimeIsBroker, TakenArrived
<1>4. U \in Nat /\ 1..T \subseteq 1..U /\ T + 1 \in 1..U /\ T + 1 # 0 /\ U = T + 1
      /\ \A n \in 1..T : n < T + 1
      /\ \A m \in Nat : m <= T => m < T + 1 /\ m <= U
  <2>. HIDE DEF T, U
  <2>. QED BY <1>3
<1>5. hand' = [hand EXCEPT ![w] = IF ticks[T + 1] = w THEN T + 1 ELSE 0]
  BY <1>3 DEF WorkerTakes
<1>6. WrittenInv'
  BY <1>1, <1>2, <1>4 DEF WrittenInv
<1>7. ASSUME NEW v \in Streams
      PROVE  HandInv(v)'
  <2>1. latest[v] \in Nat /\ latest[v] <= T
    BY <1>2, FanoutAssumption DEF TypeOK, Numbers, HandInv, FanoutAssumption
  <2>2. latest[v] < T + 1 /\ latest[v] <= U
    BY <1>4, <2>1
  <2>3. CASE v # w
    <3>1. hand'[v] = hand[v] /\ at'[v] = at[v]
      BY <1>1, <1>5, <2>3 DEF TypeOK
    <3>. QED BY <1>1, <1>2, <1>4, <2>2, <3>1 DEF HandInv
  <2>4. CASE v = w
    <3>1. at'[w] = "hset" /\ hand'[w] = IF ticks[T + 1] = w THEN T + 1 ELSE 0
      BY <1>1, <1>5 DEF TypeOK
    <3>2. \A i \in 1..Len(written) : written[i] < T + 1
      BY <1>2, <1>4 DEF WrittenInv
    <3>. HIDE DEF T, U
    <3>3. CASE hand'[w] = 0
      BY <1>1, <2>2, <2>4, <3>3 DEF HandInv, U
    <3>4. CASE hand'[w] = T + 1 /\ ticks[T + 1] = w
      BY <1>1, <1>4, <2>2, <2>4, <3>1, <3>2, <3>4 DEF HandInv, U
    <3>. QED BY <3>1, <3>3, <3>4
  <2>. QED BY <2>3, <2>4
<1>. QED BY <1>6, <1>7

\* The store is given a newer tick, or the tick is dropped.
LEMMA WorkersSet ==
  ASSUME TypeOK, BrokersInv, WorkersInv, NEW w \in Streams, WorkerSets(w)
  PROVE  WorkersInv'
<1>1. /\ UNCHANGED << ticks, written, crowded, taken >> /\ hand[w] # 0 /\ at[w] = "hset"
  BY DEF WorkerSets, brokerVars
<1>. SUFFICES ASSUME "broker" \notin crowded PROVE WrittenInv' /\ \A v \in Streams : HandInv(v)'
  BY <1>1 DEF WorkersInv
<1>2. WrittenInv /\ \A v \in Streams : HandInv(v)
  BY DEF WorkersInv
<1>3. CASE hand' = [hand EXCEPT ![w] = 0] /\ UNCHANGED << latest, at >>
  <2>1. \A v \in Streams : hand'[v] = 0 \/ hand'[v] = hand[v]
    BY <1>3 DEF TypeOK
  <2>. QED BY <1>1, <1>2, <1>3, <2>1 DEF WrittenInv, HandInv
<1>4. CASE /\ latest' = [latest EXCEPT ![w] = hand[w]]
           /\ at' = [at EXCEPT ![w] = "enqueue"] /\ UNCHANGED hand
  <2>1. /\ \A v \in Streams : v # w => latest'[v] = latest[v] /\ at'[v] = at[v]
        /\ latest'[w] = hand[w] /\ at'[w] = "enqueue"
    BY <1>4 DEF TypeOK
  <2>2. /\ hand[w] \in 1..Len(taken["broker"]) /\ ticks[hand[w]] = w
        /\ \A i \in 1..Len(written) : ticks[written[i]] = w => written[i] < hand[w]
    BY <1>1, <1>2 DEF HandInv
  <2>3. WrittenInv'
    <3>1. ASSUME NEW i \in 1..Len(written)
          PROVE  /\ written[i] \in 1..Len(taken["broker"])
                 /\ written[i] <= latest'[ticks[written[i]]]
      <4>1. written[i] \in 1..Len(taken["broker"]) /\ written[i] <= latest[ticks[written[i]]]
        BY <1>2 DEF WrittenInv
      <4>2. ticks[written[i]] \in Streams
        <5>1. \A n \in 1..Len(ticks) : ticks[n] \in Streams
          BY ElementOfSeq DEF TypeOK
        <5>. DEFINE T == Len(taken["broker"])
        <5>2. T \in Nat /\ T <= Len(ticks) /\ Len(ticks) \in Nat
          BY TakenArrived
        <5>. HIDE DEF T
        <5>3. 1..T \subseteq 1..Len(ticks)
          BY <5>2
        <5>. QED BY <4>1, <5>1, <5>3 DEF T
      <4>3. CASE ticks[written[i]] = w
        BY <2>1, <2>2, <4>1, <4>3
      <4>4. CASE ticks[written[i]] # w
        BY <2>1, <4>1, <4>2, <4>4
      <4>. QED BY <4>1, <4>3, <4>4
    <3>. QED BY <1>1, <1>2, <3>1 DEF WrittenInv
  <2>4. ASSUME NEW v \in Streams
        PROVE  HandInv(v)'
    <3>1. CASE v # w
      BY <1>1, <1>2, <1>4, <2>1, <3>1 DEF HandInv
    <3>2. CASE v = w
      BY <1>1, <1>4, <2>1, <2>2, <3>2 DEF HandInv
    <3>. QED BY <3>1, <3>2
  <2>. QED BY <2>3, <2>4
<1>. QED BY <1>3, <1>4 DEF WorkerSets

\* The database is given the tick the store has.
LEMMA WorkersEnqueue ==
  ASSUME TypeOK, BrokersInv, WorkersInv, NEW w \in Streams, WorkerEnqueues(w)
  PROVE  WorkersInv'
<1>1. /\ UNCHANGED << ticks, at, latest, crowded, taken >> /\ hand[w] # 0 /\ at[w] = "enqueue"
      /\ written' = Append(written, hand[w]) /\ hand' = [hand EXCEPT ![w] = 0]
  BY DEF WorkerEnqueues, brokerVars
<1>. SUFFICES ASSUME "broker" \notin crowded PROVE WrittenInv' /\ \A v \in Streams : HandInv(v)'
  BY <1>1 DEF WorkersInv
<1>2. WrittenInv /\ \A v \in Streams : HandInv(v)
  BY DEF WorkersInv
<1>. DEFINE h == hand[w]  L == Len(written)
<1>3. /\ h \in 1..Len(taken["broker"]) /\ ticks[h] = w /\ latest[w] = h
      /\ \A i \in 1..Len(written) : ticks[written[i]] = w => written[i] < h
  BY <1>1, <1>2 DEF HandInv
<1>4. /\ Len(written') = L + 1 /\ L \in Nat /\ written'[L + 1] = h
      /\ \A i \in 1..L : written'[i] = written[i]
  BY <1>1, AppendProperties, LenProperties DEF TypeOK
<1>5. \A i \in 1..(L + 1) : i \in 1..L \/ i = L + 1
  BY <1>4
<1>6. h \in Nat /\ h <= h
  BY <1>3
<1>7. WrittenInv'
  <2>1. \A i \in 1..Len(written') : /\ written'[i] \in 1..Len(taken["broker"])
                                    /\ written'[i] <= latest[ticks[written'[i]]]
    BY <1>2, <1>3, <1>4, <1>5, <1>6 DEF WrittenInv
  <2>2. ASSUME NEW i \in 1..Len(written'), NEW j \in 1..Len(written'),
               i < j, ticks[written'[i]] = ticks[written'[j]]
        PROVE  written'[i] < written'[j]
    <3>1. i \in 1..L
      BY <1>4, <2>2
    <3>2. CASE j \in 1..L
      BY <1>2, <1>4, <2>2, <3>1, <3>2 DEF WrittenInv
    <3>3. CASE j = L + 1
      BY <1>3, <1>4, <2>2, <3>1, <3>3
    <3>. QED BY <1>4, <1>5, <3>2, <3>3
  <2>. QED BY <1>1, <2>1, <2>2 DEF WrittenInv
<1>8. ASSUME NEW v \in Streams
      PROVE  HandInv(v)'
  <2>1. CASE v = w
    <3>1. hand'[w] = 0
      BY <1>1 DEF TypeOK
    <3>. QED BY <1>1, <1>2, <2>1, <3>1 DEF HandInv
  <2>2. CASE v # w
    <3>1. hand'[v] = hand[v]
      BY <1>1, <2>2 DEF TypeOK
    <3>2. ASSUME NEW i \in 1..Len(written'), ticks[written'[i]] = v, hand[v] # 0
          PROVE  written'[i] < hand[v]
      <4>1. i \in 1..L
        BY <1>3, <1>4, <1>5, <2>2, <3>2
      <4>. QED BY <1>2, <1>4, <3>2, <4>1 DEF HandInv
    <3>. QED BY <1>1, <1>2, <3>1, <3>2 DEF HandInv
  <2>. QED BY <2>1, <2>2
<1>. QED BY <1>7, <1>8

\* Every step keeps what is known of the workers.
LEMMA WorkersStep == TypeOK /\ BrokersInv /\ WorkersInv /\ [Next]_vars => WorkersInv'
<1>. SUFFICES ASSUME TypeOK, BrokersInv, WorkersInv, [Next]_vars PROVE WorkersInv'
  OBVIOUS
<1>1. Len(taken["broker"]) \in Nat /\ Len(taken["broker"]) >= Len(taken["broker"])
  <2>. DEFINE T == Len(taken["broker"])
  <2>1. T \in Nat
    BY Lengths, RealtimeIsBroker
  <2>. HIDE DEF T
  <2>2. T >= T
    BY <2>1
  <2>. QED BY <2>1, <2>2 DEF T
<1>2. ASSUME NEW s \in Streams, OnTick(s) \/ Replay(s)
      PROVE  WorkersInv'
  BY <1>2, WorkersArrive
<1>3. ASSUME NEW b \in Brokers, Put(b)
      PROVE  WorkersInv'
  BY <1>1, <1>3, WorkersFrame DEF Put, workerVars
<1>4. CASE PipelineTakes
  <2>1. CASE "broker" \in crowded
    BY <1>4, <2>1 DEF PipelineTakes, Get, WorkersInv
  <2>2. CASE "broker" \notin crowded
    <3>. DEFINE T == Len(taken["broker"])  U == Len(taken'["broker"])
    <3>1. U = T \/ U = T + 1
      <4>1. CASE Realtime = "broker"
        BY <1>4, <2>2, <4>1, BrokersGet, RealtimeIsBroker DEF PipelineTakes
      <4>2. CASE Realtime # "broker"
        BY <1>4, <4>2, RealtimeIsBroker DEF PipelineTakes, Get, TypeOK
      <4>. QED BY <4>1, <4>2
    <3>2. T \in Nat
      BY <1>1
    <3>3. U \in Nat /\ U >= T
      <4>. HIDE DEF T, U
      <4>. QED BY <3>1, <3>2
    <3>. QED BY <1>4, <3>2, <3>3, WorkersFrame DEF PipelineTakes, Get, workerVars
  <2>. QED BY <2>1, <2>2
<1>5. ASSUME NEW w \in Streams, WorkerTakes(w) \/ WorkerSets(w) \/ WorkerEnqueues(w)
      PROVE  WorkersInv'
  BY <1>5, WorkersTake, WorkersSet, WorkersEnqueue
<1>6. CASE Flush \/ Connect \/ UNCHANGED vars
  BY <1>1, <1>6, WorkersFrame DEF Flush, Connect, vars, brokerVars, workerVars
<1>7. CASE RuntimeFails
  <2>1. /\ UNCHANGED << ticks, crowded, taken, at, latest, written >>
        /\ \A w \in Streams : hand'[w] = 0
    BY <1>7 DEF RuntimeFails, brokerVars
  <2>. QED BY <2>1 DEF WorkersInv, WrittenInv, HandInv
<1>. QED BY <1>2, <1>3, <1>4, <1>5, <1>6, <1>7 DEF Next

\* The initial state has the inductive invariant.
LEMMA InvInit == Init => IInv
<1>. SUFFICES ASSUME Init PROVE IInv
  OBVIOUS
<1>1. BrokersInv
  BY DEF Init, BrokersInv, Consecutive, Run, Published
<1>2. WorkersInv
  BY DEF Init, WorkersInv, WrittenInv, HandInv, Brokers
<1>. QED BY <1>1, <1>2, TypeInit DEF IInv

\* The inductive invariant says what InOrder says.
LEMMA InvImplies == IInv => InOrder
<1>. SUFFICES ASSUME IInv PROVE InOrder
  OBVIOUS
<1>1. ASSUME NEW b \in Brokers \ crowded, NEW i \in 1..Len(taken[b])
      PROVE  taken[b][i] = i
  <2>1. Run(taken[b], 0)
    BY <1>1 DEF IInv, BrokersInv, Consecutive
  <2>2. i \in Nat
    BY <1>1
  <2>. QED BY <1>1, <2>1, <2>2 DEF Run
<1>2. ASSUME "broker" \notin crowded
      PROVE  WrittenInv
  BY <1>2 DEF IInv, WorkersInv
<1>3. ASSUME "broker" \notin crowded, NEW i \in 1..Len(written)
      PROVE  latest[ticks[written[i]]] >= written[i]
  BY <1>2, <1>3 DEF WrittenInv
<1>. QED BY <1>1, <1>2, <1>3 DEF InOrder, WrittenInv

\* The inductive invariant holds in every state.
LEMMA Invariant == Spec => []IInv
<1>1. IInv /\ [Next]_vars => IInv'
  BY TypeStep, BrokersStep, WorkersStep DEF IInv
<1>. QED BY <1>1, InvInit, PTL DEF Spec

\* However the publish tasks, the puts and the gets interleave, a broker whose queue was
\* never full hands its readers every tick in the order of arrival, and five workers
\* that share a queue still write the ticks of a stream in order.
THEOREM Ordered == Spec => []InOrder
BY Invariant, InvImplies, PTL

(***************************************************************************)
(* Nothing lost, nothing twice.                                            *)
(***************************************************************************)

\* A sequence holds a tick.
Holds(s, n) == \E i \in 1..Len(s) : s[i] = n

\* Broker b has as many ticks, in its four sequences, as came, and all those that came:
\* by counting, each of them once.
Complete(b) ==
  /\ Len(ready[b]) + Len(putters[b]) + Len(queue[b]) + Len(taken[b]) = Len(ticks)
  /\ \A n \in Arrived : \/ Holds(ready[b], n) \/ Holds(putters[b], n)
                        \/ Holds(queue[b], n) \/ Holds(taken[b], n)

AllComplete == \A b \in Feeds : Complete(b)

\* Append adds its tick, and only that.
LEMMA HoldsAppend ==
  ASSUME NEW s \in Seq(Numbers), NEW e \in Numbers, NEW n
  PROVE  (Holds(s, n) \/ n = e) => Holds(Append(s, e), n)
<1>1. /\ Len(Append(s, e)) = Len(s) + 1 /\ Len(s) \in Nat
      /\ \A i \in 1..Len(s) : Append(s, e)[i] = s[i]
      /\ Append(s, e)[Len(s) + 1] = e
  BY AppendProperties, LenProperties
<1>2. ASSUME NEW i \in 1..Len(s), s[i] = n
      PROVE  Holds(Append(s, e), n)
  <2>1. i \in 1..(Len(s) + 1)
    BY <1>1
  <2>. QED BY <1>1, <1>2, <2>1 DEF Holds
<1>3. CASE n = e
  <2>1. Len(s) + 1 \in 1..(Len(s) + 1)
    BY <1>1
  <2>. QED BY <1>1, <1>3, <2>1 DEF Holds
<1>. QED BY <1>2, <1>3 DEF Holds

\* What is not the head of a sequence is in its tail.
LEMMA HoldsTail ==
  ASSUME NEW s \in Seq(Numbers), s # << >>, NEW n, Holds(s, n)
  PROVE  n = Head(s) \/ Holds(Tail(s), n)
<1>1. PICK i \in 1..Len(s) : s[i] = n
  BY DEF Holds
<1>2. /\ Len(s) \in Nat /\ Head(s) = s[1] /\ Len(Tail(s)) = Len(s) - 1
      /\ \A j \in 1..Len(Tail(s)) : Tail(s)[j] = s[j + 1]
  BY LenProperties, HeadTailProperties
<1>3. CASE i = 1
  BY <1>1, <1>2, <1>3
<1>4. CASE i # 1
  <2>1. i - 1 \in 1..Len(Tail(s)) /\ (i - 1) + 1 = i
    BY <1>2, <1>4
  <2>2. Tail(s)[i - 1] = n
    BY <1>1, <1>2, <2>1
  <2>. QED BY <2>1, <2>2 DEF Holds
<1>. QED BY <1>3, <1>4

\* A concatenation is as long as its parts together and holds what they hold.
LEMMA HoldsConcat ==
  ASSUME NEW s \in Seq(Numbers), NEW t \in Seq(Numbers)
  PROVE  /\ s \o t \in Seq(Numbers) /\ Len(s \o t) = Len(s) + Len(t)
         /\ \A n : Holds(s, n) \/ Holds(t, n) => Holds(s \o t, n)
<1>1. /\ s \o t \in Seq(Numbers) /\ Len(s \o t) = Len(s) + Len(t)
      /\ \A i \in 1..(Len(s) + Len(t)) :
           (s \o t)[i] = IF i <= Len(s) THEN s[i] ELSE t[i - Len(s)]
      /\ Len(s) \in Nat /\ Len(t) \in Nat
  BY ConcatProperties, LenProperties
<1>2. ASSUME NEW n, NEW i \in 1..Len(s), s[i] = n
      PROVE  Holds(s \o t, n)
  <2>1. i \in 1..(Len(s) + Len(t)) /\ i <= Len(s)
    BY <1>1
  <2>. QED BY <1>1, <1>2, <2>1 DEF Holds
<1>3. ASSUME NEW n, NEW i \in 1..Len(t), t[i] = n
      PROVE  Holds(s \o t, n)
  <2>1. /\ Len(s) + i \in 1..(Len(s) + Len(t)) /\ ~(Len(s) + i <= Len(s))
        /\ (Len(s) + i) - Len(s) = i
    BY <1>1
  <2>2. (s \o t)[Len(s) + i] = n
    BY <1>1, <1>3, <2>1
  <2>. QED BY <1>1, <2>1, <2>2 DEF Holds
<1>. QED BY <1>1, <1>2, <1>3 DEF Holds

\* The four sequences of a broker, and how many ticks there are.
LEMMA BrokerSeqs ==
  ASSUME TypeOK, NEW b \in Brokers
  PROVE  /\ ready[b] \in Seq(Numbers) /\ putters[b] \in Seq(Numbers)
         /\ queue[b] \in Seq(Numbers) /\ taken[b] \in Seq(Numbers)
         /\ Len(ready[b]) \in Nat /\ Len(putters[b]) \in Nat
         /\ Len(queue[b]) \in Nat /\ Len(taken[b]) \in Nat
         /\ Len(ticks) \in Nat
<1>1. /\ ready[b] \in Seq(Numbers) /\ putters[b] \in Seq(Numbers)
      /\ queue[b] \in Seq(Numbers) /\ taken[b] \in Seq(Numbers)
      /\ ticks \in Seq(Streams)
  BY DEF TypeOK
<1>. QED BY <1>1, LenProperties

\* The brokers that are fed are known ones, and the same in every step.
LEMMA FeedsAreBrokers == Feeds \subseteq Brokers /\ (UNCHANGED settings => Feeds' = Feeds)
BY DEF Feeds, Realtime, Brokers, settings

\* A broker that a step leaves alone stays complete.
LEMMA CompleteFrame ==
  ASSUME NEW b \in Brokers, Complete(b), UNCHANGED ticks,
         ready'[b] = ready[b], putters'[b] = putters[b],
         queue'[b] = queue[b], taken'[b] = taken[b]
  PROVE  Complete(b)'
BY DEF Complete, Arrived

\* A tick that comes is published to every broker that is fed.
LEMMA CompleteArrive ==
  ASSUME TypeOK, AllComplete, NEW s \in Streams, OnTick(s) \/ Replay(s)
  PROVE  AllComplete'
<1>1. /\ ticks' = Append(ticks, s) /\ Publishes(Len(ticks) + 1) /\ Len(ticks) < MaxTicks
      /\ UNCHANGED << settings, putters, queue, taken >>
  BY DEF OnTick, Replay
<1>2. Feeds' = Feeds
  BY <1>1, FeedsAreBrokers
<1>. SUFFICES ASSUME NEW b \in Feeds PROVE Complete(b)'
  BY <1>2 DEF AllComplete
<1>3. b \in Brokers /\ Complete(b)
  BY FeedsAreBrokers DEF AllComplete
<1>. DEFINE R == ready[b]  N == Len(ticks)
<1>4. /\ R \in Seq(Numbers) /\ Len(R) \in Nat /\ N \in Nat /\ Len(putters[b]) \in Nat
      /\ Len(queue[b]) \in Nat /\ Len(taken[b]) \in Nat
  BY <1>3, BrokerSeqs
<1>5. Len(ticks') = N + 1
  BY <1>1, AppendProperties DEF TypeOK
<1>6. N + 1 \in Numbers
  BY <1>1, <1>4, FanoutAssumption DEF Numbers, FanoutAssumption
<1>7. ready'[b] = Append(R, N + 1) /\ UNCHANGED << putters, queue, taken >>
  BY <1>1, <1>3 DEF Publishes
<1>8. /\ Len(ready'[b]) = Len(R) + 1
      /\ \A n : (Holds(R, n) \/ n = N + 1) => Holds(ready'[b], n)
  <2>. HIDE DEF R, N
  <2>. QED BY <1>4, <1>6, <1>7, AppendProperties, HoldsAppend
<1>9. ASSUME NEW n \in 1..(N + 1)
      PROVE  n \in 1..N \/ n = N + 1
  BY <1>4
<1>10. Len(ready'[b]) + Len(putters[b]) + Len(queue[b]) + Len(taken[b]) = N + 1
  <2>. DEFINE l == Len(R)  l1 == Len(ready'[b])  p == Len(putters[b])  q == Len(queue[b])
              t == Len(taken[b])
  <2>1. l + p + q + t = N /\ l1 = l + 1
    BY <1>3, <1>8 DEF Complete
  <2>2. l \in Nat /\ p \in Nat /\ q \in Nat /\ t \in Nat
    BY <1>4
  <2>3. l1 + p + q + t = N + 1
    <3>. HIDE DEF l, l1, p, q, t, N
    <3>. QED BY <2>1, <2>2
  <2>. QED BY <2>3
<1>11. \A n \in 1..(N + 1) : \/ Holds(ready'[b], n) \/ Holds(putters[b], n)
                             \/ Holds(queue[b], n) \/ Holds(taken[b], n)
  BY <1>3, <1>8, <1>9 DEF Complete, Arrived
<1>. QED BY <1>5, <1>7, <1>10, <1>11 DEF Complete, Arrived

\* A put moves the tick to the queue, or to the end of those that wait.
LEMMA CompletePut ==
  ASSUME TypeOK, NEW b \in Brokers, Complete(b), Put(b)
  PROVE  Complete(b)'
<1>. DEFINE R == ready[b]  P == putters[b]  Q == queue[b]
<1>1. /\ R \in Seq(Numbers) /\ P \in Seq(Numbers) /\ Q \in Seq(Numbers)
      /\ Len(R) \in Nat /\ Len(P) \in Nat /\ Len(Q) \in Nat /\ Len(taken[b]) \in Nat
  BY BrokerSeqs
<1>2. R # << >> /\ ready'[b] = Tail(R) /\ UNCHANGED << ticks, taken >>
  BY DEF Put, TypeOK
<1>3. Head(R) \in Numbers /\ Len(Tail(R)) + 1 = Len(R)
  <2>. HIDE DEF R
  <2>. QED BY <1>1, <1>2, HeadTailProperties
<1>4. \A n : Holds(R, n) => n = Head(R) \/ Holds(Tail(R), n)
  <2>. HIDE DEF R
  <2>. QED BY <1>1, <1>2, HoldsTail
<1>5. /\ Len(R) + Len(P) + Len(Q) + Len(taken[b]) = Len(ticks)
      /\ \A n \in Arrived : Holds(R, n) \/ Holds(P, n) \/ Holds(Q, n) \/ Holds(taken[b], n)
  BY DEF Complete
<1>6. CASE queue'[b] = Append(Q, Head(R)) /\ UNCHANGED putters
  <2>1. /\ Len(queue'[b]) = Len(Q) + 1
        /\ \A n : (Holds(Q, n) \/ n = Head(R)) => Holds(queue'[b], n)
    <3>. HIDE DEF R, Q
    <3>. QED BY <1>1, <1>3, <1>6, AppendProperties, HoldsAppend
  <2>2. Len(ready'[b]) + Len(putters'[b]) + Len(queue'[b]) + Len(taken'[b]) = Len(ticks')
    <3>1. Len(Tail(R)) \in Nat
      BY <1>1, <1>2, HeadTailProperties, LenProperties
    <3>2. putters'[b] = P /\ taken'[b] = taken[b] /\ ticks' = ticks /\ ready'[b] = Tail(R)
      BY <1>2, <1>6
    <3>. DEFINE r == Len(R)  r1 == Len(Tail(R))  v == Len(Q)  v1 == Len(queue'[b])
                o == Len(P)  t == Len(taken[b])  N == Len(ticks)
    <3>3. /\ r \in Nat /\ r1 \in Nat /\ v \in Nat /\ o \in Nat /\ t \in Nat
          /\ r1 + 1 = r /\ v1 = v + 1 /\ r + o + v + t = N
      BY <1>1, <1>3, <1>5, <2>1, <3>1
    <3>4. r1 + o + v1 + t = N
      <4>. HIDE DEF r, r1, v, v1, o, t, N
      <4>. QED BY <3>3
    <3>. QED BY <3>2, <3>4
  <2>3. ASSUME NEW n \in Arrived
        PROVE  \/ Holds(ready'[b], n) \/ Holds(putters'[b], n)
               \/ Holds(queue'[b], n) \/ Holds(taken'[b], n)
    BY <1>2, <1>4, <1>5, <1>6, <2>1
  <2>. QED BY <1>2, <2>2, <2>3 DEF Complete, Arrived
<1>7. CASE putters'[b] = Append(P, Head(R)) /\ UNCHANGED queue
  <2>1. /\ Len(putters'[b]) = Len(P) + 1
        /\ \A n : (Holds(P, n) \/ n = Head(R)) => Holds(putters'[b], n)
    <3>. HIDE DEF R, P
    <3>. QED BY <1>1, <1>3, <1>7, AppendProperties, HoldsAppend
  <2>2. Len(ready'[b]) + Len(putters'[b]) + Len(queue'[b]) + Len(taken'[b]) = Len(ticks')
    <3>1. Len(Tail(R)) \in Nat
      BY <1>1, <1>2, HeadTailProperties, LenProperties
    <3>2. queue'[b] = Q /\ taken'[b] = taken[b] /\ ticks' = ticks /\ ready'[b] = Tail(R)
      BY <1>2, <1>7
    <3>. DEFINE r == Len(R)  r1 == Len(Tail(R))  v == Len(P)  v1 == Len(putters'[b])
                o == Len(Q)  t == Len(taken[b])  N == Len(ticks)
    <3>3. /\ r \in Nat /\ r1 \in Nat /\ v \in Nat /\ o \in Nat /\ t \in Nat
          /\ r1 + 1 = r /\ v1 = v + 1 /\ r + v + o + t = N
      BY <1>1, <1>3, <1>5, <2>1, <3>1
    <3>4. r1 + v1 + o + t = N
      <4>. HIDE DEF r, r1, v, v1, o, t, N
      <4>. QED BY <3>3
    <3>. QED BY <3>2, <3>4
  <2>3. ASSUME NEW n \in Arrived
        PROVE  \/ Holds(ready'[b], n) \/ Holds(putters'[b], n)
               \/ Holds(queue'[b], n) \/ Holds(taken'[b], n)
    BY <1>2, <1>4, <1>5, <1>7, <2>1
  <2>. QED BY <1>2, <2>2, <2>3 DEF Complete, Arrived
<1>. QED BY <1>6, <1>7 DEF Put, TypeOK

\* The put that is woken goes back to the tasks that are ready.
LEMMA WakeKeeps ==
  ASSUME TypeOK, NEW b \in Brokers, Wake(b)
  PROVE  /\ Len(ready'[b]) \in Nat /\ Len(putters'[b]) \in Nat
         /\ Len(ready'[b]) + Len(putters'[b]) = Len(ready[b]) + Len(putters[b])
         /\ \A n : Holds(ready[b], n) \/ Holds(putters[b], n)
                     => Holds(ready'[b], n) \/ Holds(putters'[b], n)
<1>. DEFINE R == ready[b]  P == putters[b]
<1>1. /\ R \in Seq(Numbers) /\ P \in Seq(Numbers) /\ Len(R) \in Nat /\ Len(P) \in Nat
  BY BrokerSeqs
<1>2. CASE UNCHANGED << putters, ready >>
  BY <1>1, <1>2
<1>3. CASE P # << >> /\ ready'[b] = Append(R, Head(P)) /\ putters'[b] = Tail(P)
  <2>. HIDE DEF R, P
  <2>1. Head(P) \in Numbers /\ Len(Tail(P)) + 1 = Len(P) /\ Tail(P) \in Seq(Numbers)
    BY <1>1, <1>3, HeadTailProperties
  <2>2. Len(Tail(P)) \in Nat
    BY <2>1, LenProperties
  <2>3. Len(Append(R, Head(P))) = Len(R) + 1
    BY <1>1, <2>1, AppendProperties
  <2>4. /\ \A n : Holds(P, n) => n = Head(P) \/ Holds(Tail(P), n)
        /\ \A n : (Holds(R, n) \/ n = Head(P)) => Holds(Append(R, Head(P)), n)
    BY <1>1, <1>3, <2>1, HoldsTail, HoldsAppend
  <2>5. \A n : Holds(R, n) \/ Holds(P, n) => Holds(Append(R, Head(P)), n) \/ Holds(Tail(P), n)
    BY <2>4
  <2>6. Len(Append(R, Head(P))) + Len(Tail(P)) = Len(R) + Len(P) /\ Len(R) + 1 \in Nat
    BY <1>1, <2>1, <2>2, <2>3
  <2>. QED BY <1>3, <2>2, <2>3, <2>5, <2>6 DEF R, P
<1>. QED BY <1>2, <1>3 DEF Wake, TypeOK

\* A get moves the tick to those taken.
LEMMA CompleteGet ==
  ASSUME TypeOK, NEW b \in Brokers, Complete(b), Get(b), UNCHANGED ticks
  PROVE  Complete(b)'
<1>. DEFINE T == taken[b]  Q == queue[b]
<1>1. /\ T \in Seq(Numbers) /\ Q \in Seq(Numbers) /\ Len(ready[b]) \in Nat
      /\ Len(putters[b]) \in Nat /\ Len(T) \in Nat /\ Len(Q) \in Nat
  BY BrokerSeqs
<1>2. Q # << >> /\ queue'[b] = Tail(Q) /\ taken'[b] = Append(T, Head(Q)) /\ Wake(b)
  BY DEF Get, TypeOK
<1>3. /\ Head(Q) \in Numbers /\ Len(Tail(Q)) + 1 = Len(Q) /\ Tail(Q) \in Seq(Numbers)
      /\ Len(Tail(Q)) \in Nat /\ Len(Append(T, Head(Q))) = Len(T) + 1
  <2>. HIDE DEF T, Q
  <2>1. Head(Q) \in Numbers /\ Len(Tail(Q)) + 1 = Len(Q) /\ Tail(Q) \in Seq(Numbers)
    BY <1>1, <1>2, HeadTailProperties
  <2>. QED BY <1>1, <2>1, LenProperties, AppendProperties
<1>4. /\ \A n : Holds(Q, n) => n = Head(Q) \/ Holds(Tail(Q), n)
      /\ \A n : (Holds(T, n) \/ n = Head(Q)) => Holds(Append(T, Head(Q)), n)
  <2>. HIDE DEF T, Q
  <2>. QED BY <1>1, <1>2, <1>3, HoldsTail, HoldsAppend
<1>5. /\ Len(ready[b]) + Len(putters[b]) + Len(Q) + Len(T) = Len(ticks)
      /\ \A n \in Arrived : \/ Holds(ready[b], n) \/ Holds(putters[b], n)
                            \/ Holds(Q, n) \/ Holds(T, n)
  BY DEF Complete
<1>6. Len(ready'[b]) + Len(putters'[b]) + Len(queue'[b]) + Len(taken'[b]) = Len(ticks)
  <2>. DEFINE R1 == ready'[b]  P1 == putters'[b]  Q1 == queue'[b]  T1 == taken'[b]
  <2>1. /\ Len(R1) \in Nat /\ Len(P1) \in Nat
        /\ Len(R1) + Len(P1) = Len(ready[b]) + Len(putters[b])
    BY <1>2, WakeKeeps
  <2>2. Len(Q1) + 1 = Len(Q) /\ Len(T1) = Len(T) + 1 /\ Len(Q1) \in Nat /\ Len(T1) \in Nat
    <3>. HIDE DEF T, Q
    <3>. QED BY <1>1, <1>2, <1>3
  <2>3. Len(R1) + Len(P1) + Len(Q1) + Len(T1) = Len(ready[b]) + Len(putters[b]) + Len(Q) + Len(T)
    <3>. DEFINE r == Len(ready[b])  p == Len(putters[b])  q == Len(Q)  u == Len(T)
                r1 == Len(R1)  p1 == Len(P1)  q1 == Len(Q1)  u1 == Len(T1)
    <3>1. /\ r \in Nat /\ p \in Nat /\ q \in Nat /\ u \in Nat /\ r1 \in Nat /\ p1 \in Nat
          /\ q1 \in Nat /\ u1 \in Nat /\ r1 + p1 = r + p /\ q1 + 1 = q /\ u1 = u + 1
      BY <1>1, <2>1, <2>2
    <3>2. r1 + p1 + q1 + u1 = r + p + q + u
      <4>. HIDE DEF r, p, q, u, r1, p1, q1, u1
      <4>. QED BY <3>1
    <3>. QED BY <3>2
  <2>. QED BY <1>5, <2>3
<1>7. ASSUME NEW n \in Arrived
      PROVE  \/ Holds(ready'[b], n) \/ Holds(putters'[b], n)
             \/ Holds(queue'[b], n) \/ Holds(taken'[b], n)
  <2>1. Holds(ready[b], n) \/ Holds(putters[b], n) => Holds(ready'[b], n) \/ Holds(putters'[b], n)
    BY <1>2, WakeKeeps
  <2>. QED BY <1>2, <1>4, <1>5, <1>7, <2>1
<1>. QED BY <1>6, <1>7 DEF Complete, Arrived

\* A get of one broker leaves the sequences of the others alone.
LEMMA GetFrame ==
  ASSUME TypeOK, NEW b \in Brokers, Get(b), NEW c \in Brokers, c # b
  PROVE  /\ ready'[c] = ready[c] /\ putters'[c] = putters[c]
         /\ queue'[c] = queue[c] /\ taken'[c] = taken[c]
BY DEF Get, Wake, TypeOK

\* Every step keeps the brokers that are fed complete.
LEMMA CompleteStep == TypeOK /\ AllComplete /\ [Next]_vars => AllComplete'
<1>. SUFFICES ASSUME TypeOK, AllComplete, [Next]_vars PROVE AllComplete'
  OBVIOUS
<1>1. ASSUME NEW s \in Streams, OnTick(s) \/ Replay(s)
      PROVE  AllComplete'
  BY <1>1, CompleteArrive
<1>2. ASSUME NEW b \in Brokers, Put(b)
      PROVE  AllComplete'
  <2>1. Feeds' = Feeds /\ UNCHANGED ticks
    BY <1>2, FeedsAreBrokers DEF Put
  <2>2. ASSUME NEW c \in Feeds, c # b
        PROVE  Complete(c)'
    <3>1. c \in Brokers /\ Complete(c)
      BY FeedsAreBrokers DEF AllComplete
    <3>2. /\ ready'[c] = ready[c] /\ putters'[c] = putters[c]
          /\ queue'[c] = queue[c] /\ taken'[c] = taken[c]
      BY <1>2, <2>2, <3>1 DEF Put, TypeOK
    <3>. QED BY <2>1, <3>1, <3>2, CompleteFrame
  <2>. QED BY <1>2, <2>1, <2>2, CompletePut DEF AllComplete
<1>3. ASSUME NEW b \in Brokers, Get(b), UNCHANGED << settings, ticks >>
      PROVE  AllComplete'
  <2>1. Feeds' = Feeds
    BY <1>3, FeedsAreBrokers
  <2>2. ASSUME NEW c \in Feeds, c # b
        PROVE  Complete(c)'
    <3>1. c \in Brokers /\ Complete(c)
      BY FeedsAreBrokers DEF AllComplete
    <3>. QED BY <1>3, <2>2, <3>1, GetFrame, CompleteFrame
  <2>. QED BY <1>3, <2>1, <2>2, CompleteGet DEF AllComplete
<1>4. CASE PipelineTakes
  BY <1>3, <1>4, RealtimeIsBroker DEF PipelineTakes
<1>5. ASSUME NEW w \in Streams, WorkerTakes(w)
      PROVE  AllComplete'
  BY <1>3, <1>5, RealtimeIsBroker DEF WorkerTakes
<1>6. ASSUME UNCHANGED << settings, ticks, brokerVars >>
      PROVE  AllComplete'
  BY <1>6, FeedsAreBrokers DEF AllComplete, Complete, Arrived, brokerVars
<1>7. ASSUME NEW w \in Streams, WorkerSets(w) \/ WorkerEnqueues(w)
      PROVE  AllComplete'
  BY <1>6, <1>7 DEF WorkerSets, WorkerEnqueues
<1>8. CASE Flush \/ Connect \/ RuntimeFails
  BY <1>6, <1>8 DEF Flush, Connect, RuntimeFails
<1>9. CASE UNCHANGED vars
  BY <1>6, <1>9 DEF vars
<1>. QED BY <1>1, <1>2, <1>4, <1>5, <1>7, <1>8, <1>9 DEF Next

\* Nothing has come in the initial state.
LEMMA CompleteInit == Init => AllComplete
<1>. SUFFICES ASSUME Init, NEW b \in Feeds PROVE Complete(b)
  BY DEF AllComplete
<1>1. b \in Brokers
  BY FeedsAreBrokers
<1>2. /\ ready[b] = << >> /\ putters[b] = << >> /\ queue[b] = << >> /\ taken[b] = << >>
      /\ ticks = << >>
  BY <1>1 DEF Init
<1>. QED BY <1>2 DEF Complete, Arrived

\* A complete broker has every tick somewhere in its places.
LEMMA CompleteImplies == TypeOK /\ AllComplete => EachOnce
<1>. SUFFICES ASSUME TypeOK, AllComplete, NEW b \in Feeds
              PROVE  /\ Len(Places(b)) = Len(ticks)
                     /\ Arrived \subseteq {Places(b)[i] : i \in 1..Len(Places(b))}
  BY DEF EachOnce
<1>1. b \in Brokers /\ Complete(b)
  BY FeedsAreBrokers DEF AllComplete
<1>. DEFINE R == ready[b]  P == putters[b]  Q == queue[b]  T == taken[b]
<1>2. /\ R \in Seq(Numbers) /\ P \in Seq(Numbers) /\ Q \in Seq(Numbers) /\ T \in Seq(Numbers)
      /\ Len(R) \in Nat /\ Len(P) \in Nat /\ Len(Q) \in Nat /\ Len(T) \in Nat
  BY <1>1, BrokerSeqs
<1>3. /\ Len(R) + Len(P) + Len(Q) + Len(T) = Len(ticks)
      /\ \A n \in Arrived : Holds(R, n) \/ Holds(P, n) \/ Holds(Q, n) \/ Holds(T, n)
  BY <1>1 DEF Complete
<1>4. Places(b) = ((R \o P) \o Q) \o T
  BY DEF Places
<1>. HIDE DEF R, P, Q, T
<1>5. /\ R \o P \in Seq(Numbers) /\ Len(R \o P) = Len(R) + Len(P)
      /\ \A n : Holds(R, n) \/ Holds(P, n) => Holds(R \o P, n)
  BY <1>2, HoldsConcat
<1>6. /\ (R \o P) \o Q \in Seq(Numbers) /\ Len((R \o P) \o Q) = Len(R \o P) + Len(Q)
      /\ \A n : Holds(R \o P, n) \/ Holds(Q, n) => Holds((R \o P) \o Q, n)
  BY <1>2, <1>5, HoldsConcat
<1>7. /\ Len(((R \o P) \o Q) \o T) = Len((R \o P) \o Q) + Len(T)
      /\ \A n : Holds((R \o P) \o Q, n) \/ Holds(T, n) => Holds(((R \o P) \o Q) \o T, n)
  BY <1>2, <1>6, HoldsConcat
<1>8. Len(Places(b)) = Len(ticks)
  BY <1>2, <1>3, <1>4, <1>5, <1>6, <1>7
<1>9. ASSUME NEW n \in Arrived
      PROVE  Holds(Places(b), n)
  BY <1>3, <1>4, <1>5, <1>6, <1>7
<1>. QED BY <1>8, <1>9 DEF Holds

\* Whether queues are full, the workers are dead or the pipeline is behind, each broker
\* that is fed has every tick that came exactly once, from its publish task to the reader
\* that took it: no put that waits is forgotten and none is served twice.
THEOREM NothingLost == Spec => []EachOnce
<1>1. TypeOK /\ AllComplete /\ [Next]_vars => (TypeOK /\ AllComplete)'
  BY TypeStep, CompleteStep
<1>2. Init => TypeOK /\ AllComplete
  BY TypeInit, CompleteInit
<1>. QED BY <1>1, <1>2, CompleteImplies, PTL DEF Spec

=============================================================================
