-------------------------- MODULE AuthSessionProofs --------------------------
(***************************************************************************)
(* Proofs about AuthSession, for any number of callers, attempts and       *)
(* sessions: its types, that cache and shelve agree, that a login keeps    *)
(* the device, and that a session costs one login.                         *)
(***************************************************************************)
EXTENDS AuthSession, TLAPS

\* The thread that holds the lock is the one inside, and nobody asks for a client
\* before the boot has one.
OneInside ==
  /\ \A c \in Threads : pc[c] \in Inside <=> holder = c
  /\ \A c \in Threads : pc[c] = "seeding" => c = "boot"
  /\ pc["boot"] # "up" => (cached = 0 /\ \A c \in Threads \ {"boot"} : pc[c] = "off")

EnvComplete == env.device /\ env.auth /\ env.sess = 1

\* How far the write in progress is.
SeedingWrites ==
  /\ disk.sess = 0
  /\ todo \in {<< "dev", "auth" >>, << "auth" >>, << "dev" >>}

BootstrapWrites ==
  \/ todo = << "dev" >> /\ disk = Empty /\ ~Valid(1)
  \/ EnvComplete /\ todo = << "auth", "dev", "sess" >>
  \/ EnvComplete /\ todo = << "dev", "sess" >> /\ disk.auth
  \/ EnvComplete /\ todo = << "sess" >> /\ disk.auth /\ disk.dev = "enrolled"

PersistWrites ==
  \/ todo = << "auth", "sess", "dev" >>
  \/ todo = << "sess", "dev" >> /\ disk.auth
  \/ todo = << "dev" >> /\ disk.auth /\ disk.sess = built

WriteState ==
  \A c \in Threads :
    /\ pc[c] = "seeding" => SeedingWrites
    /\ pc[c] = "bootstrap" => BootstrapWrites
    /\ pc[c] = "persist" => PersistWrites

\* What a thread on its way through get_authenticated_client knows.
Knows ==
  \A c \in Threads :
    /\ pc[c] \in {"check", "persist"} => built = issued
    /\ pc[c] = "refdata" => (Valid(built) => Usable(disk) /\ disk.sess = built)
    /\ pc[c] \in {"prune", "unauth", "login"} => ~Usable(disk)

CacheHolds == Valid(cached) => (holder = "none" /\ Usable(disk) /\ disk.sess = cached)

Quiet == \A c \in Threads : pc[c] \notin Writing

\* A shelve that lost nothing has the device, and an auth_token only with a session.
DeviceHolds ==
  (lost = {} /\ Quiet) =>
     /\ disk.dev = "enrolled"
     /\ disk.auth => (disk.sess # 0 \/ \E c \in Threads : pc[c] = "unauth")

\* A shelve that did not lose the session has the last one issued, if it is valid.
NewestHolds ==
  ("session" \notin lost /\ Quiet /\ \A c \in Threads : pc[c] # "check") =>
     (Valid(issued) => Usable(disk) /\ disk.sess = issued)

\* With a complete environment nobody logs in before its session has expired.
EnvironmentFirst ==
  EnvComplete =>
    /\ Valid(1) => issued = 1
    /\ \A c \in Threads : pc[c] \in {"prune", "unauth", "login"} => ~Valid(1)
    /\ \A c \in Threads : pc[c] = "fast" => (Valid(1) => Usable(disk))

IInv == /\ OneInside /\ WriteState /\ Knows /\ CacheHolds /\ DeviceHolds
        /\ NewestHolds /\ EnvironmentFirst /\ LoginKeepsDevice

USE ConstantsAssumption DEF ConstantsAssumption, Threads

\* The shelves that the code writes, and its lists of keys, have the right types.
LEMMA WrittenTypes ==
  /\ Empty \in Shelves
  /\ \A s \in 0..MaxSessions : Full(s) \in Shelves
  /\ \A keys \in {<< >>, << "dev" >>, << "auth" >>, << "sess" >>, << "dev", "auth" >>,
                  << "dev", "sess" >>, << "sess", "dev" >>,
                  << "auth", "dev", "sess" >>, << "auth", "sess", "dev" >>} :
       keys \in Seq({"dev", "auth", "sess"})
BY DEF Empty, Full, Shelves

\* While one thread is inside or seeding, no other is.
LEMMA Alone ==
  ASSUME TypeOK, OneInside, NEW c \in Threads, pc[c] \in Inside \union {"seeding"}
  PROVE  \A d \in Threads \ {c} : pc[d] \notin Inside \union {"seeding"}
<1>1. CASE pc[c] \in Inside
  <2>1. \A d \in Threads \ {c} : pc[d] \notin Inside
    BY <1>1 DEF OneInside
  <2>2. \A d \in Threads \ {c} : pc[d] # "seeding"
    BY <1>1 DEF OneInside, Inside
  <2>. QED BY <2>1, <2>2
<1>2. CASE pc[c] = "seeding"
  BY <1>2 DEF OneInside, Inside
<1>. QED BY <1>1, <1>2

\* When the lock is free, and when nothing but the asking changes, ...
LEMMA NobodyInside ==
  ASSUME TypeOK, OneInside, holder = "none"
  PROVE  \A d \in Threads : pc[d] \notin Inside
BY DEF OneInside

\* The process starts with nothing in its memory: only the disk can break the invariant.
LEMMA StartedKeeps ==
  ASSUME TypeOK, IInv, Started, UNCHANGED << env, issued, expired >>,
         disk' \in Shelves,
         lost' \subseteq {"device", "session"},
         lost' = {} => (disk'.dev = "enrolled" /\ (disk'.auth => disk'.sess # 0)),
         "session" \notin lost' => (Valid(issued) => Usable(disk') /\ disk'.sess = issued)
  PROVE  (TypeOK /\ IInv)'
<1>. USE DEF Started
<1>1. TypeOK'
  <2>1. pc' \in [Threads -> Places] /\ force' \in [Threads -> BOOLEAN]
    BY DEF Places
  <2>2. todo' \in Seq({"dev", "auth", "sess"})
    OBVIOUS
  <2>3. /\ env' \in [device : BOOLEAN, auth : BOOLEAN, sess : {0, 1}]
        /\ issued' \in 1..MaxSessions /\ expired' \in 0..issued'
    BY DEF TypeOK
  <2>4. cached' \in 0..MaxSessions /\ built' \in 0..MaxSessions /\ attempt' \in 1..MaxAttempts
    BY DEF TypeOK
  <2>5. refdata' \in BOOLEAN /\ holder' \in Threads \union {"none"}
    OBVIOUS
  <2>. QED BY <2>1, <2>2, <2>3, <2>4, <2>5 DEF TypeOK
<1>2. OneInside'
  BY DEF OneInside, Inside
<1>3. WriteState' /\ Knows' /\ LoginKeepsDevice'
  BY DEF WriteState, Knows, LoginKeepsDevice
<1>4. CacheHolds'
  BY DEF CacheHolds, Valid, TypeOK
<1>5. DeviceHolds'
  BY DEF DeviceHolds
<1>6. NewestHolds'
  BY DEF NewestHolds, Valid, Usable
<1>7. EnvironmentFirst'
  BY DEF IInv, EnvironmentFirst, EnvComplete, Valid
<1>. QED BY <1>1, <1>2, <1>3, <1>4, <1>5, <1>6, <1>7 DEF IInv

LEMMA InitHolds == Init => TypeOK /\ IInv
<1>. SUFFICES ASSUME Init PROVE TypeOK /\ IInv
  OBVIOUS
<1>1. TypeOK
  <2>. USE DEF Init
  <2>1. pc \in [Threads -> Places] /\ force \in [Threads -> BOOLEAN]
    BY DEF Places
  <2>2. todo \in Seq({"dev", "auth", "sess"})
    OBVIOUS
  <2>3. disk \in Shelves
    BY WrittenTypes
  <2>4. lost \subseteq {"device", "session"}
    OBVIOUS
  <2>5. /\ issued \in 1..MaxSessions /\ attempt \in 1..MaxAttempts
        /\ expired \in 0..issued /\ cached \in 0..MaxSessions /\ built \in 0..MaxSessions
    OBVIOUS
  <2>6. /\ env \in [device : BOOLEAN, auth : BOOLEAN, sess : {0, 1}]
        /\ refdata \in BOOLEAN /\ holder \in Threads \union {"none"}
    OBVIOUS
  <2>. QED BY <2>1, <2>2, <2>3, <2>4, <2>5, <2>6 DEF TypeOK
<1>. USE DEF Init
<1>2. OneInside /\ WriteState /\ Knows /\ LoginKeepsDevice
  BY DEF OneInside, Inside, WriteState, Knows, LoginKeepsDevice
<1>3. CacheHolds /\ EnvironmentFirst
  BY DEF CacheHolds, Valid, EnvironmentFirst
<1>4. DeviceHolds /\ NewestHolds
  BY DEF DeviceHolds, NewestHolds, Valid, Usable, Empty, Full
<1>. QED BY <1>1, <1>2, <1>3, <1>4 DEF IInv

(***************************************************************************)
(* One lemma per action.                                                   *)
(***************************************************************************)

LEMMA SeedKeeps == ASSUME TypeOK, IInv, Seed PROVE (TypeOK /\ IInv)'
<1>. USE DEF Seed, Truncate, IInv
<1>1. TypeOK'
  <2>1. pc' \in [Threads -> Places]
    BY DEF TypeOK, Places
  <2>2. disk' \in Shelves
    BY WrittenTypes DEF TypeOK
  <2>3. todo' \in Seq({"dev", "auth", "sess"})
    BY WrittenTypes DEF TypeOK
  <2>. QED BY <2>1, <2>2, <2>3 DEF TypeOK
<1>2. OneInside'
  BY DEF OneInside, Inside, TypeOK
<1>3. WriteState'
  BY DEF WriteState, SeedingWrites, OneInside, Inside, Empty, TypeOK
<1>4. Knows' /\ LoginKeepsDevice'
  BY DEF Knows, LoginKeepsDevice, OneInside, TypeOK
<1>5. CacheHolds'
  BY DEF CacheHolds, OneInside, Valid, TypeOK
<1>6. DeviceHolds'
  BY DEF DeviceHolds, Quiet, Writing, TypeOK
<1>7. NewestHolds'
  BY DEF NewestHolds, Quiet, Writing, Valid, Usable, TypeOK
<1>8. EnvironmentFirst'
  BY DEF EnvironmentFirst, EnvComplete, Valid, OneInside, TypeOK
<1>. QED BY <1>1, <1>2, <1>3, <1>4, <1>5, <1>6, <1>7, <1>8 DEF IInv

\* A step that only moves thread c between places where it does not hold the lock.
LEMMA OutsideKeeps ==
  ASSUME TypeOK, IInv, NEW c \in Threads, NEW place \in {"ready", "idle", "call"},
         pc[c] \in {"ready", "idle", "call", "off"}, pc["boot"] = "up" \/ c = "boot",
         pc' = [pc EXCEPT ![c] = place], force' \in [Threads -> BOOLEAN],
         UNCHANGED << env, disk, issued, expired, cached, refdata, holder, attempt, built, todo, lost >>
  PROVE  (TypeOK /\ IInv)'
<1>. USE DEF IInv
<1>1. TypeOK'
  <2>1. pc' \in [Threads -> Places]
    BY DEF TypeOK, Places
  <2>. QED BY <2>1 DEF TypeOK
<1>2. OneInside'
  BY DEF OneInside, Inside, TypeOK
<1>3. WriteState'
  BY DEF WriteState, SeedingWrites, BootstrapWrites, PersistWrites, EnvComplete, Valid, TypeOK
<1>4. Knows' /\ LoginKeepsDevice'
  BY DEF Knows, LoginKeepsDevice, Valid, Usable, TypeOK
<1>5. CacheHolds'
  BY DEF CacheHolds, Valid, Usable
<1>6. DeviceHolds'
  BY DEF DeviceHolds, Quiet, Writing, TypeOK
<1>7. NewestHolds'
  BY DEF NewestHolds, Quiet, Writing, Valid, Usable, TypeOK
<1>8. EnvironmentFirst'
  BY DEF EnvironmentFirst, EnvComplete, Valid, Usable, TypeOK
<1>. QED BY <1>1, <1>2, <1>3, <1>4, <1>5, <1>6, <1>7, <1>8 DEF IInv

LEMMA AskingKeeps ==
  ASSUME TypeOK, IInv,
         Attempt \/ LoopStarts \/ LoopWakes \/ (\E c \in Callers, f \in BOOLEAN : Ask(c, f))
  PROVE  (TypeOK /\ IInv)'
<1>1. CASE Attempt
  <2>1. force' \in [Threads -> BOOLEAN]
    BY <1>1 DEF Attempt, TypeOK
  <2>. QED BY <1>1, <2>1, OutsideKeeps DEF Attempt
<1>2. CASE LoopStarts
  BY <1>2, OutsideKeeps DEF LoopStarts, TypeOK
<1>3. ASSUME NEW c \in Threads \ {"boot"}, NEW f \in BOOLEAN, Ask(c, f)
      PROVE  (TypeOK /\ IInv)'
  <2>1. force' \in [Threads -> BOOLEAN] /\ pc["boot"] = "up"
    BY <1>3 DEF Ask, TypeOK, IInv, OneInside
  <2>. QED BY <1>3, <2>1, OutsideKeeps DEF Ask
<1>. QED BY <1>1, <1>2, <1>3 DEF LoopWakes

LEMMA FastPathKeeps == ASSUME TypeOK, IInv, NEW c \in Threads, FastPath(c) PROVE (TypeOK /\ IInv)'
<1>. USE DEF FastPath, IInv
<1>0. \A d \in Threads \ {c} : pc[d] \notin Inside \union {"seeding"}
  BY Alone DEF Inside
<1>1. TypeOK'
  <2>1. pc' \in [Threads -> Places]
    BY DEF TypeOK, Places, Inside
  <2>. QED BY <2>1 DEF TypeOK, Shelves

<1>2. OneInside'
  BY <1>0 DEF OneInside, Inside, TypeOK
<1>3. WriteState'
  BY <1>0 DEF WriteState, Inside, TypeOK
<1>4. Knows' /\ LoginKeepsDevice'
  BY <1>0 DEF Knows, LoginKeepsDevice, Inside, Valid, Usable, TypeOK
<1>5. CacheHolds'
  BY <1>0 DEF CacheHolds, OneInside, Inside, Valid, Usable, TypeOK
<1>6. DeviceHolds'
  BY <1>0 DEF DeviceHolds, Quiet, Writing, Inside, TypeOK
<1>7. NewestHolds'
  BY <1>0 DEF NewestHolds, Quiet, Writing, Inside, Valid, Usable, TypeOK
<1>8. EnvironmentFirst'
  BY <1>0 DEF EnvironmentFirst, EnvComplete, Inside, Valid, Usable, TypeOK
<1>. QED BY <1>1, <1>2, <1>3, <1>4, <1>5, <1>6, <1>7, <1>8 DEF IInv

LEMMA PruneKeeps == ASSUME TypeOK, IInv, NEW c \in Threads, Prune(c) PROVE (TypeOK /\ IInv)'
<1>. USE DEF Prune, IInv
<1>0. \A d \in Threads \ {c} : pc[d] \notin Inside \union {"seeding"}
  BY Alone DEF Inside
<1>1. TypeOK'
  <2>1. pc' \in [Threads -> Places]
    BY DEF TypeOK, Places, Inside
  <2>2. disk' \in Shelves
    BY DEF TypeOK, Shelves
  <2>. QED BY <2>1, <2>2 DEF TypeOK

<1>2. OneInside'
  BY <1>0 DEF OneInside, Inside, TypeOK
<1>3. WriteState'
  BY <1>0 DEF WriteState, Inside, TypeOK
<1>4. Knows'
  BY <1>0 DEF Knows, Inside, Valid, Usable, TypeOK, Shelves
<1>9. LoginKeepsDevice'
  <2>1. CASE pc'[c] = "login" /\ lost = {}
    <3>1. Quiet /\ \A d \in Threads : pc[d] # "unauth"
      BY <1>0 DEF Quiet, Writing, Inside
    <3>2. disk.dev = "enrolled" /\ ~disk.auth
      BY <2>1, <3>1 DEF DeviceHolds, Knows, Usable, Valid, TypeOK
    <3>. QED BY <1>0, <2>1, <3>2 DEF LoginKeepsDevice, Inside, TypeOK
  <2>2. CASE pc'[c] # "login" \/ lost # {}
    BY <1>0, <2>2 DEF LoginKeepsDevice, Inside, TypeOK
  <2>. QED BY <2>1, <2>2
<1>5. CacheHolds'
  BY <1>0 DEF CacheHolds, OneInside, Inside, Valid, Usable, TypeOK
<1>6. DeviceHolds'
  <2>1. Quiet /\ \A d \in Threads : pc[d] # "unauth"
    BY <1>0 DEF Quiet, Writing, Inside
  <2>2. CASE disk.sess # 0 /\ ~Valid(disk.sess)
    BY <2>1, <2>2 DEF DeviceHolds, TypeOK, Shelves
  <2>3. CASE ~(disk.sess # 0 /\ ~Valid(disk.sess))
    BY <2>1, <2>3 DEF DeviceHolds, TypeOK
  <2>. QED BY <2>2, <2>3
<1>7. NewestHolds'
  BY <1>0 DEF NewestHolds, Quiet, Writing, Inside, Valid, Usable, TypeOK
<1>8. EnvironmentFirst'
  BY <1>0 DEF EnvironmentFirst, EnvComplete, Inside, Valid, Usable, TypeOK
<1>. QED BY <1>1, <1>2, <1>3, <1>4, <1>5, <1>6, <1>7, <1>8, <1>9 DEF IInv

LEMMA PruneAuthKeeps == ASSUME TypeOK, IInv, NEW c \in Threads, PruneAuth(c) PROVE (TypeOK /\ IInv)'
<1>. USE DEF PruneAuth, IInv
<1>0. \A d \in Threads \ {c} : pc[d] \notin Inside \union {"seeding"}
  BY Alone DEF Inside
<1>1. TypeOK'
  <2>1. pc' \in [Threads -> Places]
    BY DEF TypeOK, Places, Inside
  <2>2. disk' \in Shelves
    BY DEF TypeOK, Shelves
  <2>. QED BY <2>1, <2>2 DEF TypeOK

<1>2. OneInside'
  BY <1>0 DEF OneInside, Inside, TypeOK
<1>3. WriteState'
  BY <1>0 DEF WriteState, Inside, TypeOK
<1>4. Knows' /\ LoginKeepsDevice'
  <2>1. Quiet
    BY <1>0 DEF Quiet, Writing, Inside
  <2>2. lost = {} => disk'.dev = "enrolled"
    BY <2>1 DEF DeviceHolds, TypeOK, Shelves
  <2>3. ~disk'.auth
    BY DEF TypeOK, Shelves
  <2>4. LoginKeepsDevice'
    BY <1>0, <2>2, <2>3 DEF LoginKeepsDevice, Inside, TypeOK
  <2>5. Knows'
    BY <1>0, <2>3 DEF Knows, Inside, Valid, Usable, TypeOK
  <2>. QED BY <2>4, <2>5
<1>5. CacheHolds'
  BY <1>0 DEF CacheHolds, OneInside, Inside, Valid, Usable, TypeOK
<1>6. DeviceHolds'
  BY <1>0 DEF DeviceHolds, Quiet, Writing, Inside, TypeOK
<1>7. NewestHolds'
  BY <1>0 DEF NewestHolds, Knows, Quiet, Writing, Inside, Valid, Usable, TypeOK
<1>8. EnvironmentFirst'
  BY <1>0 DEF EnvironmentFirst, EnvComplete, Inside, Valid, Usable, TypeOK
<1>. QED BY <1>1, <1>2, <1>3, <1>4, <1>5, <1>6, <1>7, <1>8 DEF IInv

LEMMA LoginSucceedsKeeps == ASSUME TypeOK, IInv, NEW c \in Threads, LoginSucceeds(c) PROVE (TypeOK /\ IInv)'
<1>. USE DEF LoginSucceeds, IInv
<1>0. \A d \in Threads \ {c} : pc[d] \notin Inside \union {"seeding"}
  BY Alone DEF Inside
<1>1. TypeOK'
  <2>1. pc' \in [Threads -> Places]
    BY DEF TypeOK, Places, Inside
  <2>2. issued' \in 1..MaxSessions /\ built' \in 0..MaxSessions /\ expired' \in 0..issued'
    BY DEF TypeOK
  <2>3. disk' \in Shelves
    BY <2>2, WrittenTypes DEF TypeOK
  <2>. QED BY <2>1, <2>2, <2>3 DEF TypeOK

<1>2. OneInside'
  BY <1>0 DEF OneInside, Inside, TypeOK
<1>3. WriteState'
  BY <1>0 DEF WriteState, Inside, TypeOK
<1>4. Knows' /\ LoginKeepsDevice'
  BY <1>0 DEF Knows, LoginKeepsDevice, Inside, Valid, Usable, TypeOK
<1>5. CacheHolds'
  BY <1>0 DEF CacheHolds, OneInside, Inside, Valid, Usable, TypeOK
<1>6. DeviceHolds'
  BY <1>0 DEF DeviceHolds, LoginKeepsDevice, Quiet, Writing, Inside, Full, TypeOK
<1>7. NewestHolds'
  BY <1>0 DEF NewestHolds, Quiet, Writing, Inside, Valid, Usable, TypeOK
<1>8. EnvironmentFirst'
  BY <1>0 DEF EnvironmentFirst, EnvComplete, Inside, Valid, Usable, TypeOK
<1>. QED BY <1>1, <1>2, <1>3, <1>4, <1>5, <1>6, <1>7, <1>8 DEF IInv

LEMMA LoginFailsKeeps == ASSUME TypeOK, IInv, NEW c \in Threads, LoginFails(c) PROVE (TypeOK /\ IInv)'
<1>. USE DEF LoginFails, IInv, Raise, PcRaised
<1>0. \A d \in Threads \ {c} : pc[d] \notin Inside \union {"seeding"}
  BY Alone DEF Inside
<1>1. TypeOK'
  <2>1. pc' \in [Threads -> Places]
    BY DEF TypeOK, Places, Inside
  <2>. QED BY <2>1 DEF TypeOK

<1>2. OneInside'
  BY <1>0 DEF OneInside, Inside, TypeOK
<1>3. WriteState'
  BY <1>0 DEF WriteState, Inside, TypeOK
<1>4. Knows' /\ LoginKeepsDevice'
  BY <1>0 DEF Knows, LoginKeepsDevice, Inside, Valid, Usable, TypeOK
<1>5. CacheHolds'
  BY <1>0 DEF CacheHolds, OneInside, Inside, Valid, Usable, TypeOK
<1>6. DeviceHolds'
  BY <1>0 DEF DeviceHolds, Quiet, Writing, Inside, TypeOK
<1>7. NewestHolds'
  BY <1>0 DEF NewestHolds, Quiet, Writing, Inside, Valid, Usable, TypeOK
<1>8. EnvironmentFirst'
  BY <1>0 DEF EnvironmentFirst, EnvComplete, Inside, Valid, Usable, TypeOK
<1>. QED BY <1>1, <1>2, <1>3, <1>4, <1>5, <1>6, <1>7, <1>8 DEF IInv

LEMMA ReturnCachedKeeps == ASSUME TypeOK, IInv, NEW c \in Threads, ReturnCached(c) PROVE (TypeOK /\ IInv)'
<1>. USE DEF ReturnCached, IInv, PcReturned
<1>0. \A d \in Threads \ {c} : pc[d] \notin Inside \union {"seeding"}
  BY NobodyInside DEF OneInside
<1>1. TypeOK'
  <2>1. pc' \in [Threads -> Places]
    BY DEF TypeOK, Places, Inside
  <2>. QED BY <2>1 DEF TypeOK

<1>2. OneInside'
  BY <1>0 DEF OneInside, Inside, TypeOK
<1>3. WriteState'
  BY <1>0 DEF WriteState, Inside, TypeOK
<1>4. Knows' /\ LoginKeepsDevice'
  BY <1>0 DEF Knows, LoginKeepsDevice, Inside, Valid, Usable, TypeOK
<1>5. CacheHolds'
  BY <1>0 DEF CacheHolds, OneInside, Inside, Valid, Usable, TypeOK
<1>6. DeviceHolds'
  BY <1>0 DEF DeviceHolds, Quiet, Writing, Inside, TypeOK
<1>7. NewestHolds'
  BY <1>0 DEF NewestHolds, Quiet, Writing, Inside, Valid, Usable, TypeOK
<1>8. EnvironmentFirst'
  BY <1>0 DEF EnvironmentFirst, EnvComplete, Inside, Valid, Usable, TypeOK
<1>. QED BY <1>1, <1>2, <1>3, <1>4, <1>5, <1>6, <1>7, <1>8 DEF IInv

LEMMA ClientReadyKeeps == ASSUME TypeOK, IInv, NEW c \in Threads, ClientReady(c) PROVE (TypeOK /\ IInv)'
<1>. USE DEF ClientReady, IInv, PcReturned
<1>0. \A d \in Threads \ {c} : pc[d] \notin Inside \union {"seeding"}
  BY Alone DEF Inside
<1>1. TypeOK'
  <2>1. pc' \in [Threads -> Places]
    BY DEF TypeOK, Places, Inside
  <2>2. cached' \in 0..MaxSessions /\ built' \in 0..MaxSessions
    BY DEF TypeOK
  <2>3. refdata' = TRUE \/ refdata' = refdata
    OBVIOUS
  <2>4. refdata' \in BOOLEAN
    BY <2>3 DEF TypeOK
  <2>. QED BY <2>1, <2>2, <2>4 DEF TypeOK

<1>2. OneInside'
  BY <1>0 DEF OneInside, Inside, TypeOK
<1>3. WriteState'
  BY <1>0 DEF WriteState, Inside, TypeOK
<1>4. Knows' /\ LoginKeepsDevice'
  BY <1>0 DEF Knows, LoginKeepsDevice, Inside, Valid, Usable, TypeOK
<1>5. CacheHolds'
  BY <1>0 DEF CacheHolds, Knows, OneInside, Inside, Valid, Usable, TypeOK
<1>6. DeviceHolds'
  BY <1>0 DEF DeviceHolds, Quiet, Writing, Inside, TypeOK
<1>7. NewestHolds'
  BY <1>0 DEF NewestHolds, Quiet, Writing, Inside, Valid, Usable, TypeOK
<1>8. EnvironmentFirst'
  BY <1>0 DEF EnvironmentFirst, EnvComplete, Inside, Valid, Usable, TypeOK
<1>. QED BY <1>1, <1>2, <1>3, <1>4, <1>5, <1>6, <1>7, <1>8 DEF IInv

LEMMA RefdataFailsKeeps == ASSUME TypeOK, IInv, NEW c \in Threads, RefdataFails(c) PROVE (TypeOK /\ IInv)'
<1>. USE DEF RefdataFails, IInv, Raise, PcRaised
<1>0. \A d \in Threads \ {c} : pc[d] \notin Inside \union {"seeding"}
  BY Alone DEF Inside
<1>1. TypeOK'
  <2>1. pc' \in [Threads -> Places]
    BY DEF TypeOK, Places, Inside
  <2>. QED BY <2>1 DEF TypeOK

<1>2. OneInside'
  BY <1>0 DEF OneInside, Inside, TypeOK
<1>3. WriteState'
  BY <1>0 DEF WriteState, Inside, TypeOK
<1>4. Knows' /\ LoginKeepsDevice'
  BY <1>0 DEF Knows, LoginKeepsDevice, Inside, Valid, Usable, TypeOK
<1>5. CacheHolds'
  BY <1>0 DEF CacheHolds, OneInside, Inside, Valid, Usable, TypeOK
<1>6. DeviceHolds'
  BY <1>0 DEF DeviceHolds, Quiet, Writing, Inside, TypeOK
<1>7. NewestHolds'
  BY <1>0 DEF NewestHolds, Quiet, Writing, Inside, Valid, Usable, TypeOK
<1>8. EnvironmentFirst'
  BY <1>0 DEF EnvironmentFirst, EnvComplete, Inside, Valid, Usable, TypeOK
<1>. QED BY <1>1, <1>2, <1>3, <1>4, <1>5, <1>6, <1>7, <1>8 DEF IInv

\* What bootstrap_session_from_env finds to write.
LEMMA KeysFromEnvCases ==
  ASSUME TypeOK
  PROVE  /\ KeysFromEnv \in {<< >>, << "dev" >>, << "auth", "dev", "sess" >>}
         /\ KeysFromEnv = << "dev" >> => ~Valid(1)
         /\ KeysFromEnv = << "auth", "dev", "sess" >> => EnvComplete
         /\ (KeysFromEnv = << >> /\ EnvComplete /\ Valid(1)) => Usable(disk)
<1>0. env.sess \in {0, 1} /\ env.device \in BOOLEAN /\ env.auth \in BOOLEAN
  BY DEF TypeOK
<1>1. CASE env.sess = 0
  BY <1>1 DEF KeysFromEnv, EnvComplete
<1>2. CASE env.sess = 1 /\ ~Valid(1)
  BY <1>2 DEF KeysFromEnv
<1>3. CASE env.sess = 1 /\ Valid(1)
  BY <1>3 DEF KeysFromEnv, EnvComplete
<1>. QED BY <1>0, <1>1, <1>2, <1>3

LEMMA EnterKeeps == ASSUME TypeOK, IInv, NEW c \in Threads, Enter(c) PROVE (TypeOK /\ IInv)'
<1>. USE DEF Enter, Truncate, IInv
<1>0. \A d \in Threads : pc[d] \notin Inside \union {"seeding"}
  BY NobodyInside DEF OneInside
<1>1. TypeOK'
  <2>1. pc' \in [Threads -> Places]
    <3>1. pc' = [pc EXCEPT ![c] = "fast"] \/ pc' = [pc EXCEPT ![c] = "bootstrap"]
      OBVIOUS
    <3>. QED BY <3>1 DEF TypeOK, Places, Inside
  <2>2. disk' \in Shelves /\ cached' \in 0..MaxSessions
    BY WrittenTypes DEF TypeOK
  <2>3. todo' \in Seq({"dev", "auth", "sess"})
    BY WrittenTypes, KeysFromEnvCases DEF TypeOK
  <2>. QED BY <2>1, <2>2, <2>3 DEF TypeOK
<1>2. OneInside'
  BY <1>0 DEF OneInside, Inside, TypeOK
<1>3. WriteState'
  <2>1. pc'[c] # "seeding" /\ pc'[c] # "persist" /\ \A d \in Threads \ {c} : pc'[d] \notin Writing
    BY <1>0 DEF Inside, Writing, TypeOK
  <2>2. CASE KeysFromEnv = << "dev" >>
    BY <2>1, <2>2, KeysFromEnvCases DEF WriteState, BootstrapWrites, Writing, Valid
  <2>3. CASE KeysFromEnv = << "auth", "dev", "sess" >>
    BY <2>1, <2>3, KeysFromEnvCases DEF WriteState, BootstrapWrites, Writing, EnvComplete
  <2>4. CASE KeysFromEnv = << >>
    BY <2>1, <2>4 DEF WriteState, Writing, TypeOK
  <2>. QED BY <2>2, <2>3, <2>4, KeysFromEnvCases
<1>4. Knows' /\ LoginKeepsDevice'
  BY <1>0 DEF Knows, LoginKeepsDevice, Inside, TypeOK
<1>5. CacheHolds'
  BY DEF CacheHolds, Valid, TypeOK
<1>6. DeviceHolds'
  BY <1>0 DEF DeviceHolds, Quiet, Writing, Inside, TypeOK
<1>7. NewestHolds'
  BY <1>0 DEF NewestHolds, Quiet, Writing, Inside, Valid, Usable, TypeOK
<1>8. EnvironmentFirst'
  <2>1. EnvComplete => (Valid(1) => issued = 1)
    BY DEF EnvironmentFirst
  <2>2. (EnvComplete /\ pc'[c] = "fast") => (Valid(1) => Usable(disk) /\ disk' = disk)
    BY KeysFromEnvCases DEF TypeOK
  <2>. QED BY <1>0, <2>1, <2>2 DEF EnvironmentFirst, EnvComplete, Inside, Valid, Usable, TypeOK
<1>. QED BY <1>1, <1>2, <1>3, <1>4, <1>5, <1>6, <1>7, <1>8 DEF IInv

\* The last key of a list.
LEMMA LastKey ==
  ASSUME NEW c \in Threads, WriteKey(c), NEW k \in {"dev", "auth", "sess"}, todo = << k >>
  PROVE  /\ disk' = [disk EXCEPT ![k] = Values(c)[k]]
         /\ todo' = << >>
         /\ pc' = [pc EXCEPT ![c] = AfterWrite[@]] /\ lost' = LostAfter(disk')
<1>1. Head(todo) = k /\ Tail(todo) = << >> /\ Len(todo) = 1
  OBVIOUS
<1>. QED BY <1>1 DEF WriteKey

\* A key that others follow.
LEMMA EarlierKey ==
  ASSUME NEW c \in Threads, WriteKey(c), NEW k \in {"dev", "auth", "sess"},
         NEW l \in {"dev", "auth", "sess"}, NEW m \in {"dev", "auth", "sess"},
         todo = << k, l >> \/ todo = << k, l, m >>
  PROVE  /\ disk' = [disk EXCEPT ![k] = Values(c)[k]]
         /\ todo = << k, l >> => todo' = << l >>
         /\ todo = << k, l, m >> => todo' = << l, m >>
         /\ pc' = pc /\ lost' = lost
<1>1. Head(todo) = k /\ Len(todo) # 1
  <2>1. CASE todo = << k, l >>
    BY <2>1
  <2>2. CASE todo = << k, l, m >>
    BY <2>2
  <2>. QED BY <2>1, <2>2
<1>2. disk' = [disk EXCEPT ![k] = Values(c)[k]] /\ pc' = pc /\ lost' = lost /\ todo' = Tail(todo)
  BY <1>1 DEF WriteKey
<1>3. todo = << k, l >> => Tail(todo) = << l >>
  OBVIOUS
<1>4. todo = << k, l, m >> => Tail(todo) = << l, m >>
  OBVIOUS
<1>. QED BY <1>2, <1>3, <1>4

\* What writing a key does: the write goes on, or it is over and the shelve is what
\* was to be written.
LEMMA WriteKeyEffect ==
  ASSUME TypeOK, IInv, NEW c \in Threads, WriteKey(c)
  PROVE  /\ disk' \in Shelves /\ todo' \in Seq({"dev", "auth", "sess"})
         /\ \/ /\ pc' = pc /\ lost' = lost
               /\ pc[c] = "seeding" => SeedingWrites'
               /\ pc[c] = "bootstrap" => BootstrapWrites'
               /\ pc[c] = "persist" => PersistWrites'
            \/ /\ pc[c] = "seeding" /\ pc' = [pc EXCEPT ![c] = "ready"]
               /\ disk'.sess = 0 /\ lost' = LostAfter(disk')
            \/ /\ pc[c] = "bootstrap" /\ pc' = [pc EXCEPT ![c] = "fast"]
               /\ (~Valid(1) /\ disk'.sess = 0) \/ (EnvComplete /\ disk' = Full(1))
               /\ lost' = LostAfter(disk')
            \/ /\ pc[c] = "persist" /\ pc' = [pc EXCEPT ![c] = "refdata"]
               /\ disk' = Full(built) /\ lost' = LostAfter(disk')
<1>. USE DEF Values, Full, AfterWrite
<1>0. /\ disk \in Shelves /\ built \in 0..MaxSessions /\ env.sess \in {0, 1}
      /\ pc \in [Threads -> Places] /\ pc[c] \in Writing /\ UNCHANGED << env, built, expired >>
  BY DEF TypeOK, WriteKey
<1>1. CASE pc[c] = "seeding"
  <2>1. SeedingWrites
    BY <1>1 DEF IInv, WriteState
  <2>2. CASE todo = << "dev", "auth" >>
    <3>1. disk' = [disk EXCEPT !["dev"] = "enrolled"] /\ todo' = << "auth" >> /\ pc' = pc /\ lost' = lost
      BY <1>0, <1>1, <2>1, <2>2, EarlierKey
    <3>2. SeedingWrites'
      BY <1>0, <1>1, <2>1, <2>2, <3>1 DEF SeedingWrites, Shelves
    <3>3. disk' \in Shelves
      BY <1>0, <3>1, WrittenTypes DEF Shelves
    <3>. QED BY <1>0, <1>1, <2>1, <3>1, <3>2, <3>3, WrittenTypes
  <2>3. CASE todo = << "auth" >>
    <3>1. disk' = [disk EXCEPT !["auth"] = TRUE] /\ todo' = << >> /\ lost' = LostAfter(disk')
      BY <1>0, <1>1, <2>1, <2>3, LastKey
    <3>2. pc' = [pc EXCEPT ![c] = "ready"]
      BY <1>0, <1>1, <2>1, <2>3, LastKey
    <3>3. disk'.sess = 0
      BY <1>0, <1>1, <2>1, <2>3, <3>1 DEF SeedingWrites, Shelves
    <3>4. disk' \in Shelves
      BY <1>0, <3>1, WrittenTypes DEF Shelves
    <3>. QED BY <1>0, <1>1, <2>1, <2>3, <3>1, <3>2, <3>3, <3>4, WrittenTypes
  <2>4. CASE todo = << "dev" >>
    <3>1. disk' = [disk EXCEPT !["dev"] = "enrolled"] /\ todo' = << >> /\ lost' = LostAfter(disk')
      BY <1>0, <1>1, <2>1, <2>4, LastKey
    <3>2. pc' = [pc EXCEPT ![c] = "ready"]
      BY <1>0, <1>1, <2>1, <2>4, LastKey
    <3>3. disk'.sess = 0
      BY <1>0, <1>1, <2>1, <2>4, <3>1 DEF SeedingWrites, Shelves
    <3>4. disk' \in Shelves
      BY <1>0, <3>1, WrittenTypes DEF Shelves
    <3>. QED BY <1>0, <1>1, <2>1, <2>4, <3>1, <3>2, <3>3, <3>4, WrittenTypes
  <2>. QED BY <2>1, <2>2, <2>3, <2>4 DEF SeedingWrites
<1>2. CASE pc[c] = "bootstrap"
  <2>1. BootstrapWrites
    BY <1>2 DEF IInv, WriteState
  <2>2. CASE todo = << "dev" >> /\ disk = Empty /\ ~Valid(1)
    <3>1. disk' = [disk EXCEPT !["dev"] = "enrolled"] /\ todo' = << >> /\ lost' = LostAfter(disk')
      BY <1>0, <1>2, <2>2, LastKey
    <3>2. pc' = [pc EXCEPT ![c] = "fast"]
      BY <1>0, <1>2, <2>2, LastKey
    <3>3. ~Valid(1) /\ disk'.sess = 0
      BY <1>0, <1>2, <2>2, <3>1 DEF Empty, Shelves
    <3>4. disk' \in Shelves
      BY <1>0, <3>1, WrittenTypes DEF Shelves
    <3>. QED BY <1>0, <1>2, <2>2, <3>1, <3>2, <3>3, <3>4, WrittenTypes
  <2>3. CASE EnvComplete /\ todo = << "auth", "dev", "sess" >>
    <3>1. disk' = [disk EXCEPT !["auth"] = TRUE] /\ todo' = << "dev", "sess" >> /\ pc' = pc /\ lost' = lost
      BY <1>0, <1>2, <2>3, EarlierKey
    <3>2. BootstrapWrites'
      BY <1>0, <1>2, <2>3, <3>1 DEF BootstrapWrites, EnvComplete, Shelves
    <3>3. disk' \in Shelves
      BY <1>0, <3>1, WrittenTypes DEF Shelves
    <3>. QED BY <1>0, <1>2, <3>1, <3>2, <3>3, WrittenTypes
  <2>4. CASE EnvComplete /\ todo = << "dev", "sess" >> /\ disk.auth
    <3>1. disk' = [disk EXCEPT !["dev"] = "enrolled"] /\ todo' = << "sess" >> /\ pc' = pc /\ lost' = lost
      BY <1>0, <1>2, <2>4, EarlierKey
    <3>2. BootstrapWrites'
      BY <1>0, <1>2, <2>4, <3>1 DEF BootstrapWrites, EnvComplete, Shelves
    <3>3. disk' \in Shelves
      BY <1>0, <3>1, WrittenTypes DEF Shelves
    <3>. QED BY <1>0, <1>2, <3>1, <3>2, <3>3, WrittenTypes
  <2>5. CASE EnvComplete /\ todo = << "sess" >> /\ disk.auth /\ disk.dev = "enrolled"
    <3>1. disk' = [disk EXCEPT !["sess"] = 1] /\ todo' = << >> /\ lost' = LostAfter(disk')
      BY <1>0, <1>2, <2>5, LastKey DEF EnvComplete
    <3>2. pc' = [pc EXCEPT ![c] = "fast"]
      BY <1>0, <1>2, <2>5, LastKey
    <3>3. EnvComplete /\ disk' = Full(1)
      BY <1>0, <1>2, <2>5, <3>1 DEF EnvComplete, Shelves
    <3>4. disk' \in Shelves
      BY <1>0, <3>1, WrittenTypes DEF Shelves
    <3>. QED BY <1>0, <1>2, <2>5, <3>1, <3>2, <3>3, <3>4, WrittenTypes
  <2>. QED BY <2>1, <2>2, <2>3, <2>4, <2>5 DEF BootstrapWrites
<1>3. CASE pc[c] = "persist"
  <2>1. PersistWrites
    BY <1>3 DEF IInv, WriteState
  <2>2. CASE todo = << "auth", "sess", "dev" >>
    <3>1. disk' = [disk EXCEPT !["auth"] = TRUE] /\ todo' = << "sess", "dev" >> /\ pc' = pc /\ lost' = lost
      BY <1>0, <1>3, <2>2, EarlierKey
    <3>2. PersistWrites'
      BY <1>0, <1>3, <2>2, <3>1 DEF PersistWrites, Shelves
    <3>3. disk' \in Shelves
      BY <1>0, <3>1, WrittenTypes DEF Shelves
    <3>. QED BY <1>0, <1>3, <3>1, <3>2, <3>3, WrittenTypes
  <2>3. CASE todo = << "sess", "dev" >> /\ disk.auth
    <3>1. disk' = [disk EXCEPT !["sess"] = built] /\ todo' = << "dev" >> /\ pc' = pc /\ lost' = lost
      BY <1>0, <1>3, <2>3, EarlierKey
    <3>2. PersistWrites'
      BY <1>0, <1>3, <2>3, <3>1 DEF PersistWrites, Shelves
    <3>3. disk' \in Shelves
      BY <1>0, <3>1, WrittenTypes DEF Shelves
    <3>. QED BY <1>0, <1>3, <3>1, <3>2, <3>3, WrittenTypes
  <2>4. CASE todo = << "dev" >> /\ disk.auth /\ disk.sess = built
    <3>1. disk' = [disk EXCEPT !["dev"] = "enrolled"] /\ todo' = << >> /\ lost' = LostAfter(disk')
      BY <1>0, <1>3, <2>4, LastKey
    <3>2. pc' = [pc EXCEPT ![c] = "refdata"]
      BY <1>0, <1>3, <2>4, LastKey
    <3>3. disk' = Full(built)
      BY <1>0, <1>3, <2>4, <3>1 DEF Shelves
    <3>4. disk' \in Shelves
      BY <1>0, <3>1, WrittenTypes DEF Shelves
    <3>. QED BY <1>0, <1>3, <2>4, <3>1, <3>2, <3>3, <3>4, WrittenTypes
  <2>. QED BY <2>1, <2>2, <2>3, <2>4 DEF PersistWrites
<1>. QED BY <1>0, <1>1, <1>2, <1>3 DEF Writing

LEMMA WriteKeyKeeps == ASSUME TypeOK, IInv, NEW c \in Threads, WriteKey(c) PROVE (TypeOK /\ IInv)'
<1>. USE DEF IInv
<1>0. /\ \A d \in Threads \ {c} : pc[d] \notin Inside \union {"seeding"}
      /\ pc \in [Threads -> Places] /\ pc[c] \in Writing
      /\ UNCHANGED << env, issued, expired, cached, refdata, holder, force, attempt, built >>
  BY Alone DEF WriteKey, Writing, Inside, TypeOK
<1>1. TypeOK'
  <2>1. pc' \in [Threads -> Places]
    BY <1>0, WriteKeyEffect DEF Places, Inside
  <2>2. lost' \subseteq {"device", "session"}
    BY WriteKeyEffect DEF LostAfter, TypeOK
  <2>3. disk' \in Shelves /\ todo' \in Seq({"dev", "auth", "sess"})
    BY WriteKeyEffect
  <2>. QED BY <1>0, <2>1, <2>2, <2>3 DEF TypeOK
<1>2. OneInside'
  BY <1>0, WriteKeyEffect DEF OneInside, Inside
<1>3. WriteState'
  <2>1. CASE pc' = pc
    <3>1. \A d \in Threads \ {c} : pc'[d] \notin Writing
      BY <1>0, <2>1 DEF Inside, Writing
    <3>2. \A p \in {"ready", "fast", "refdata"} : pc # [pc EXCEPT ![c] = p]
      BY <1>0 DEF Writing
    <3>3. /\ pc'[c] = "seeding" => SeedingWrites'
          /\ pc'[c] = "bootstrap" => BootstrapWrites'
          /\ pc'[c] = "persist" => PersistWrites'
      BY <2>1, <3>2, WriteKeyEffect
    <3>. QED BY <3>1, <3>3 DEF WriteState, Writing
  <2>2. CASE pc' # pc
    BY <1>0, <2>2, WriteKeyEffect DEF WriteState, Inside
  <2>. QED BY <2>1, <2>2
<1>4. Knows' /\ LoginKeepsDevice'
  <2>1. LoginKeepsDevice'
    BY <1>0, WriteKeyEffect DEF LoginKeepsDevice, Inside, Writing
  <2>2. \A d \in Threads \ {c} : pc'[d] \notin Inside
    BY <1>0, WriteKeyEffect
  <2>3. pc'[c] \notin {"check", "prune", "unauth", "login"}
    BY <1>0, WriteKeyEffect DEF Writing
  <2>4. pc'[c] = "persist" => built' = issued'
    BY <1>0, WriteKeyEffect DEF Knows, Writing
  <2>5. pc'[c] = "refdata" => (Valid(built)' => Usable(disk)' /\ disk'.sess = built')
    BY <1>0, WriteKeyEffect DEF Writing, Full, Usable, Valid
  <2>6. Knows'
    BY <2>2, <2>3, <2>4, <2>5 DEF Knows, Inside
  <2>. QED BY <2>1, <2>6
<1>5. CacheHolds'
  BY <1>0 DEF CacheHolds, OneInside, Inside, Writing, Valid, TypeOK
<1>6. DeviceHolds'
  <2>1. CASE ~Quiet'
    BY <2>1 DEF DeviceHolds
  <2>2. CASE Quiet'
    <3>1. pc'[c] \notin Writing
      BY <2>2 DEF Quiet
    <3>2. lost' = LostAfter(disk')
      BY <1>0, <3>1, WriteKeyEffect
    <3>3. disk'.sess = 0 \/ disk'.dev = "enrolled"
      BY <1>0, <3>1, WriteKeyEffect DEF Full
    <3>4. lost' = {} => disk'.sess # 0
      <4>1. disk'.sess = 0 => ~Usable(disk')
        BY DEF Usable, Valid, TypeOK
      <4>2. "session" \in {"session"}
        OBVIOUS
      <4>. QED BY <3>2, <4>1, <4>2 DEF LostAfter
    <3>. QED BY <3>3, <3>4 DEF DeviceHolds
  <2>. QED BY <2>1, <2>2
<1>7. NewestHolds'
  <2>1. CASE ~Quiet'
    BY <2>1 DEF NewestHolds
  <2>2. CASE Quiet'
    <3>1. pc'[c] \notin Writing
      BY <2>2 DEF Quiet
    <3>2. lost' = LostAfter(disk')
      BY <1>0, <3>1, WriteKeyEffect
    <3>3. "session" \notin lost' => Usable(disk')
      BY <3>2 DEF LostAfter
    <3>4. Usable(disk') /\ Valid(issued) => disk'.sess = issued
      BY <1>0, <3>1, WriteKeyEffect DEF Usable, Valid, Full, Knows, EnvironmentFirst, Writing, TypeOK
    <3>. QED BY <1>0, <3>3, <3>4 DEF NewestHolds, Usable, Valid
  <2>. QED BY <2>1, <2>2
<1>8. EnvironmentFirst'
  <2>1. \A d \in Threads \ {c} : pc'[d] \notin Inside
    BY <1>0, WriteKeyEffect
  <2>2. pc'[c] \notin {"prune", "unauth", "login"}
    BY <1>0, WriteKeyEffect DEF Writing
  <2>3. pc'[c] = "fast" => (Valid(1) => Usable(disk'))
    BY <1>0, WriteKeyEffect DEF Writing, Usable, Full
  <2>. QED BY <1>0, <2>1, <2>2, <2>3 DEF EnvironmentFirst, EnvComplete, Inside, Usable, Valid
<1>. QED BY <1>1, <1>2, <1>3, <1>4, <1>5, <1>6, <1>7, <1>8 DEF IInv

LEMMA CheckSessionKeeps ==
  ASSUME TypeOK, IInv, NEW c \in Threads, CheckSession(c) PROVE (TypeOK /\ IInv)'
<1>. USE DEF CheckSession, Truncate, Raise, PcRaised, IInv
<1>0. \A d \in Threads \ {c} : pc[d] \notin Inside \union {"seeding"}
  BY Alone DEF Inside
<1>1. TypeOK'
  <2>1. pc' \in [Threads -> Places]
    BY DEF TypeOK, Places, Inside
  <2>2. disk' \in Shelves /\ todo' \in Seq({"dev", "auth", "sess"})
    BY WrittenTypes DEF TypeOK
  <2>. QED BY <2>1, <2>2 DEF TypeOK
<1>2. OneInside'
  BY <1>0 DEF OneInside, Inside, TypeOK
<1>3. WriteState'
  BY <1>0 DEF WriteState, PersistWrites, Inside, TypeOK
<1>4. Knows' /\ LoginKeepsDevice'
  BY <1>0 DEF Knows, LoginKeepsDevice, Inside, Valid, Usable, TypeOK
<1>5. CacheHolds'
  BY <1>0 DEF CacheHolds, OneInside, Inside, Valid, Usable, TypeOK
<1>6. DeviceHolds'
  BY <1>0 DEF DeviceHolds, Quiet, Writing, Inside, TypeOK
<1>7. NewestHolds'
  BY <1>0 DEF NewestHolds, Knows, Quiet, Writing, Inside, Valid, Usable, TypeOK
<1>8. EnvironmentFirst'
  BY <1>0 DEF EnvironmentFirst, EnvComplete, Inside, Valid, Usable, TypeOK
<1>. QED BY <1>1, <1>2, <1>3, <1>4, <1>5, <1>6, <1>7, <1>8 DEF IInv

\* What the SDK leaves of the shelve is a shelve.
LEMMA RefusedType == ASSUME TypeOK, NEW c \in Threads, Refused(c) PROVE disk' \in Shelves
<1>1. PICK kept \in {Empty, disk}, dev \in {"none", "enrolled", "fresh"} :
        disk' = [kept EXCEPT !.dev = dev]
  BY WrittenTypes DEF Refused, TypeOK, Shelves
<1>. QED BY <1>1, WrittenTypes DEF TypeOK, Shelves

LEMMA LoginRefusedKeeps ==
  ASSUME TypeOK, IInv, NEW c \in Threads, LoginRefused(c) PROVE (TypeOK /\ IInv)'
<1>1. disk' \in Shelves /\ lost' = {"device", "session"}
  BY RefusedType DEF LoginRefused, Refused
<1>2. CASE c = "boot"
  BY <1>1, <1>2, StartedKeeps DEF LoginRefused
<1>3. CASE c # "boot"
  <2>. USE <1>1, <1>3 DEF LoginRefused, Refused, Raise, PcRaised, IInv
  <2>0. \A d \in Threads \ {c} : pc[d] \notin Inside \union {"seeding"}
    BY Alone DEF Inside
  <2>1. TypeOK'
    <3>1. pc' \in [Threads -> Places]
      BY DEF TypeOK, Places, Inside
    <3>. QED BY <3>1 DEF TypeOK
  <2>2. OneInside'
    BY <2>0 DEF OneInside, Inside, TypeOK
  <2>3. WriteState'
    BY <2>0 DEF WriteState, Inside, TypeOK
  <2>4. Knows' /\ LoginKeepsDevice'
    BY <2>0 DEF Knows, LoginKeepsDevice, Inside, TypeOK
  <2>5. CacheHolds'
    BY DEF CacheHolds, OneInside, Inside, Valid, TypeOK
  <2>6. DeviceHolds' /\ NewestHolds'
    BY DEF DeviceHolds, NewestHolds
  <2>7. EnvironmentFirst'
    BY <2>0 DEF EnvironmentFirst, EnvComplete, Inside, Valid, TypeOK
  <2>. QED BY <2>1, <2>2, <2>3, <2>4, <2>5, <2>6, <2>7
<1>. QED BY <1>2, <1>3

LEMMA ExpireKeeps == ASSUME TypeOK, IInv, Expire PROVE (TypeOK /\ IInv)'
<1>. USE DEF Expire, process, IInv
<1>0. \A s \in Nat : Valid(s)' => Valid(s)
  BY DEF Valid, TypeOK
<1>1. TypeOK'
  BY DEF TypeOK
<1>2. OneInside' /\ LoginKeepsDevice'
  BY DEF OneInside, LoginKeepsDevice
<1>3. WriteState'
  BY <1>0 DEF WriteState, SeedingWrites, BootstrapWrites, PersistWrites, EnvComplete
<1>4. Knows'
  BY DEF Knows, Usable, Valid, TypeOK, Shelves
<1>5. CacheHolds'
  BY DEF CacheHolds, Usable, Valid, TypeOK
<1>6. DeviceHolds'
  BY DEF DeviceHolds, Quiet
<1>7. NewestHolds'
  BY DEF NewestHolds, Quiet, Usable, Valid, TypeOK
<1>8. EnvironmentFirst'
  <2>1. EnvComplete' => EnvComplete /\ (Valid(1)' => issued' = 1)
    BY <1>0 DEF EnvironmentFirst, EnvComplete
  <2>2. EnvComplete => \A d \in Threads : pc[d] \in {"prune", "unauth", "login"} => ~Valid(1)'
    BY <1>0 DEF EnvironmentFirst
  <2>3. EnvComplete => \A d \in Threads : pc[d] = "fast" => (Valid(1)' => Usable(disk)')
    BY DEF EnvironmentFirst, Usable, Valid, TypeOK
  <2>. QED BY <2>1, <2>2, <2>3 DEF EnvironmentFirst, EnvComplete
<1>. QED BY <1>1, <1>2, <1>3, <1>4, <1>5, <1>6, <1>7, <1>8 DEF IInv

LEMMA RestartKeeps == ASSUME TypeOK, IInv, Restart PROVE (TypeOK /\ IInv)'
<1>1. CASE disk' = Empty /\ lost' = {"device", "session"}
  BY <1>1, StartedKeeps, WrittenTypes DEF Restart
<1>2. CASE UNCHANGED disk /\ lost' = lost \union Torn
  <2>1. Torn \subseteq {"device", "session"}
    BY DEF Torn
  <2>2. (\E c \in Threads : pc[c] \in Writing \union {"unauth", "check"}) => "session" \in Torn
    BY DEF Torn
  <2>3. lost' = {} => (disk'.dev = "enrolled" /\ (disk'.auth => disk'.sess # 0))
    BY <1>2, <2>2 DEF IInv, DeviceHolds, Quiet
  <2>4. "session" \notin lost' => (Valid(issued) => Usable(disk') /\ disk'.sess = issued)
    BY <1>2, <2>2 DEF IInv, NewestHolds, Quiet
  <2>5. disk' \in Shelves /\ lost' \subseteq {"device", "session"}
    BY <1>2, <2>1 DEF TypeOK
  <2>. QED BY <2>3, <2>4, <2>5, StartedKeeps DEF Restart
<1>. QED BY <1>1, <1>2 DEF Restart

(***************************************************************************)
(* The theorems.                                                           *)
(***************************************************************************)

\* Every step keeps the types and the inductive invariant.
LEMMA NextKeeps == TypeOK /\ IInv /\ [Next]_vars => (TypeOK /\ IInv)'
<1>. SUFFICES ASSUME TypeOK, IInv, [Next]_vars
              PROVE  (TypeOK /\ IInv)'
  OBVIOUS
<1>1. CASE Seed
  BY <1>1, SeedKeeps
<1>2. CASE Attempt \/ LoopStarts \/ LoopWakes \/ (\E c \in Callers, f \in BOOLEAN : Ask(c, f))
  BY <1>2, AskingKeeps
<1>3. ASSUME NEW c \in Threads, Proceed(c) PROVE (TypeOK /\ IInv)'
  BY <1>3, ReturnCachedKeeps, EnterKeeps, WriteKeyKeeps, FastPathKeeps, PruneKeeps, PruneAuthKeeps,
     LoginSucceedsKeeps, LoginFailsKeeps, LoginRefusedKeeps, CheckSessionKeeps, ClientReadyKeeps,
     RefdataFailsKeeps DEF Proceed
<1>4. CASE Expire
  BY <1>4, ExpireKeeps
<1>5. CASE Restart
  BY <1>5, RestartKeeps
<1>6. CASE UNCHANGED vars
  <2>. USE <1>6 DEF vars, process
  <2>1. TypeOK'
    BY DEF TypeOK
  <2>2. OneInside' /\ WriteState' /\ Knows' /\ CacheHolds'
    BY DEF IInv, OneInside, WriteState, SeedingWrites, BootstrapWrites, PersistWrites, EnvComplete,
           Knows, CacheHolds, Usable, Valid
  <2>3. DeviceHolds' /\ NewestHolds' /\ EnvironmentFirst' /\ LoginKeepsDevice'
    BY DEF IInv, DeviceHolds, NewestHolds, EnvironmentFirst, EnvComplete, LoginKeepsDevice, Quiet,
           Usable, Valid
  <2>. QED BY <2>1, <2>2, <2>3 DEF IInv
<1>. QED BY <1>1, <1>2, <1>3, <1>4, <1>5, <1>6 DEF Next

\* Types and the inductive invariant hold in every state of every behaviour.
THEOREM SessionInvariant == Spec => [](TypeOK /\ IInv)
BY InitHolds, NextKeeps, PTL DEF Spec

\* The variables keep their types.
THEOREM SessionTypes == Spec => []TypeOK
BY SessionInvariant, PTL

\* A login of a process whose shelve was complete presents the enrolled device, and
\* no auth_token that would make the SDK verify an old session: _prune_stale_bearers
\* and the order of the writes see to it.
THEOREM LoginsKeepTheDevice == Spec => []LoginKeepsDevice
<1>1. IInv => LoginKeepsDevice
  BY DEF IInv
<1>. QED BY <1>1, SessionInvariant, PTL

\* While nobody is inside get_authenticated_client, a valid cached client is the
\* session of the shelve: the refresh loop may look at the shelve alone.
THEOREM CacheAndShelveAgree == Spec => []CacheAgreesWithDisk
<1>1. IInv => CacheAgreesWithDisk
  BY DEF IInv, CacheHolds, CacheAgreesWithDisk
<1>. QED BY <1>1, SessionInvariant, PTL

\* A login, which is the only step that gets a session, is never sent while the last
\* session is valid and the shelve has not lost it.
LEMMA LoginNeedsExpiry ==
  ASSUME TypeOK, IInv, [Next]_vars, issued' > issued
  PROVE  ~Valid(issued) \/ "session" \in lost
<1>1. PICK c \in Threads : LoginSucceeds(c)
  <2>1. issued' # issued
    BY DEF TypeOK
  <2>. QED
    BY <2>1 DEF Next, Seed, Attempt, LoopStarts, LoopWakes, Ask, Proceed, ReturnCached, Enter, WriteKey,
                FastPath, Prune, PruneAuth, LoginFails, LoginRefused, CheckSession, ClientReady,
                RefdataFails, Expire, Restart, vars
<1>2. \A d \in Threads \ {c} : pc[d] \notin Inside \union {"seeding"}
  BY <1>1, Alone DEF LoginSucceeds, Inside, IInv
<1>3. Quiet /\ \A d \in Threads : pc[d] # "check"
  BY <1>1, <1>2 DEF LoginSucceeds, Quiet, Writing, Inside
<1>. QED BY <1>1, <1>3 DEF LoginSucceeds, IInv, NewestHolds, Knows

\* Threads that find a session expired at the same time, forced refreshes, failed
\* attempts and restarts send one login between them.
THEOREM OneLoginForASession == Spec => OneLoginPerSession
<1>1. TypeOK /\ IInv /\ [Next]_vars => [issued' > issued => (~Valid(issued) \/ "session" \in lost)]_vars
  BY LoginNeedsExpiry
<1>. QED BY <1>1, SessionInvariant, PTL DEF Spec, OneLoginPerSession
=============================================================================
