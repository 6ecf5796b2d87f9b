----------------------------- MODULE AuthSession -----------------------------
(***************************************************************************)
(* The authentication session of the process: the shelve auth_data.db that *)
(* outlives it, the client cached in it, and the threads that ask for a    *)
(* client (app/ingestion/auth_client.py, auth_service.py):                 *)
(*   "boot"     bootstrap_auth of main.py, that is AuthService.authenticate; *)
(*   "loop"     run_session_refresh_loop;                                  *)
(*   a caller   the threads in which WebSocketManager, the instrument      *)
(*              fetcher and the historical client call                     *)
(*              get_authenticated_client.                                  *)
(* Sessions are numbered in the order the server issued them and expire in *)
(* that order.  The shelve is written key by key, in the order of the      *)
(* code, so that a process may be killed between any two.  Errors of the   *)
(* local disk are left out.                                                *)
(***************************************************************************)
EXTENDS Naturals, Sequences

CONSTANTS
  Callers,      \* threads that ask for a client once the process is up
  MaxAttempts,  \* max_attempts of AuthService
  MaxSessions   \* how many sessions the server issues (a bound)

ASSUME ConstantsAssumption ==
  /\ {"boot", "loop", "none"} \intersect Callers = {}
  /\ MaxAttempts \in Nat \ {0} /\ MaxSessions \in Nat \ {0}

VARIABLES
  env,      \* what NUBRA_X_DEVICE_ID, NUBRA_AUTH_TOKEN, NUBRA_SESSION_TOKEN hold
  disk,     \* the keys of the shelve
  issued,   \* the last session issued; the first is setup_totp.py's
  expired,  \* sessions up to this one have expired
  cached,   \* the session of _cached_client, 0 for None
  refdata,  \* is the SDK's instrument master loaded?
  holder,   \* who holds _client_lock
  pc,       \* where each thread stands
  force,    \* its argument force_refresh
  attempt,  \* of AuthService.authenticate
  built,    \* the session of the holder's local client
  todo,     \* keys that the current _write_auth_shelve has still to write
  lost      \* history: what may be missing from the shelve, "device" or
            \* "session", since a kill, a reset by the SDK, or the seeding

process == << cached, refdata, holder, pc, force, attempt, built, todo >>
vars == << env, disk, issued, expired, lost, process >>

Threads == {"boot", "loop"} \union Callers
Writing == {"seeding", "bootstrap", "persist"}
Inside  == {"bootstrap", "fast", "prune", "unauth", "login", "check", "persist", "refdata"}
Places  == Inside \union {"off", "seeding", "ready", "idle", "call", "up", "failed"}

Empty     == [dev |-> "none", auth |-> FALSE, sess |-> 0]
Full(s)   == [dev |-> "enrolled", auth |-> TRUE, sess |-> s]
Shelves   == [dev : {"none", "enrolled", "fresh"}, auth : BOOLEAN, sess : 0..MaxSessions]
Valid(s)  == s > expired
\* What session_is_expired and the fast path ask of the shelve.
Usable(d) == d.dev # "none" /\ d.auth /\ Valid(d.sess)

TypeOK ==
  /\ env \in [device : BOOLEAN, auth : BOOLEAN, sess : {0, 1}]
  /\ disk \in Shelves
  /\ issued \in 1..MaxSessions /\ expired \in 0..issued
  /\ cached \in 0..MaxSessions /\ built \in 0..MaxSessions
  /\ refdata \in BOOLEAN
  /\ holder \in Threads \union {"none"}
  /\ pc \in [Threads -> Places]
  /\ force \in [Threads -> BOOLEAN]
  /\ attempt \in 1..MaxAttempts
  /\ todo \in Seq({"dev", "auth", "sess"})
  /\ lost \subseteq {"device", "session"}

Started ==
  /\ cached' = 0 /\ refdata' = FALSE /\ holder' = "none" /\ attempt' = 1 /\ built' = 0
  /\ pc' = [c \in Threads |-> "off"]
  /\ force' = [c \in Threads |-> FALSE]
  /\ todo' = << >>

\* A first start on an empty disk or on what setup_totp.py left there.
Init ==
  /\ env \in [device : BOOLEAN, auth : BOOLEAN, sess : {0, 1}]
  /\ disk \in {Empty, Full(1)}
  /\ lost = IF disk = Empty THEN {"device", "session"} ELSE {}
  /\ issued = 1 /\ expired = 0
  /\ cached = 0 /\ refdata = FALSE /\ holder = "none" /\ attempt = 1 /\ built = 0
  /\ pc = [c \in Threads |-> "off"]
  /\ force = [c \in Threads |-> FALSE]
  /\ todo = << >>

(***************************************************************************)
(* _write_auth_shelve: the file is truncated, then each key is written.    *)
(***************************************************************************)

\* The value thread c writes for each key.
Values(c) == Full(IF pc[c] = "bootstrap" THEN env.sess ELSE built)

AfterWrite == [seeding |-> "ready", bootstrap |-> "fast", persist |-> "refdata"]

\* With all three keys nothing is missing any more; the seeding restores the device
\* and drops the session.
LostAfter(d) == IF Usable(d) THEN {} ELSE {"session"}

Truncate(c, place, keys) ==
  /\ disk' = Empty
  /\ todo' = keys
  /\ pc' = [pc EXCEPT ![c] = place]

WriteKey(c) ==
  /\ pc[c] \in Writing
  /\ disk' = [disk EXCEPT ![Head(todo)] = Values(c)[Head(todo)]]
  /\ todo' = Tail(todo)
  /\ IF Len(todo) = 1
       THEN pc' = [pc EXCEPT ![c] = AfterWrite[@]] /\ lost' = LostAfter(disk')
       ELSE UNCHANGED << pc, lost >>
  /\ UNCHANGED << env, issued, expired, cached, refdata, holder, force, attempt, built >>

(***************************************************************************)
(* AuthService.authenticate, and the threads that ask for a client.        *)
(***************************************************************************)

\* _seed_device_id_always: the shelve is rewritten whatever it holds.
Seed ==
  /\ pc["boot"] = "off"
  /\ IF env.device
       THEN Truncate("boot", "seeding", IF env.auth THEN << "dev", "auth" >> ELSE << "dev" >>)
       ELSE pc' = [pc EXCEPT !["boot"] = "ready"] /\ UNCHANGED << disk, todo >>
  /\ UNCHANGED << env, issued, expired, cached, refdata, holder, force, attempt, built, lost >>

\* The first attempt takes what there is; the others force a refresh.
Attempt ==
  /\ pc["boot"] = "ready"
  /\ pc' = [pc EXCEPT !["boot"] = "call"]
  /\ force' = [force EXCEPT !["boot"] = attempt > 1]
  /\ UNCHANGED << env, disk, issued, expired, cached, refdata, holder, attempt, built, todo, lost >>

\* After ingestion.start(), should it succeed.
LoopStarts ==
  /\ pc["boot"] = "up" /\ pc["loop"] = "off"
  /\ pc' = [pc EXCEPT !["loop"] = "idle"]
  /\ UNCHANGED << env, disk, issued, expired, cached, refdata, holder, force, attempt, built, todo, lost >>

\* Any other caller, with or without force_refresh.
Ask(c, f) ==
  /\ pc[c] = "idle"
  /\ pc' = [pc EXCEPT ![c] = "call"]
  /\ force' = [force EXCEPT ![c] = f]
  /\ UNCHANGED << env, disk, issued, expired, cached, refdata, holder, attempt, built, todo, lost >>

\* Mutant of LoopWakes: it looks at the cached client instead of the shelve.
LoopWakesOnCache ==
  /\ cached # 0 /\ ~Valid(cached)
  /\ Ask("loop", TRUE)

\* An iteration of the refresh loop; the shelve is read without the lock.
LoopWakes == ~Usable(disk) /\ Ask("loop", TRUE)

(***************************************************************************)
(* get_authenticated_client, under _client_lock.                           *)
(***************************************************************************)

\* The call returns: to the boot, which lets the others run, or to the caller.
PcReturned(c) ==
  IF c = "boot" THEN [t \in Threads |-> CASE t = "boot" -> "up" [] t = "loop" -> "off" [] OTHER -> "idle"]
                ELSE [pc EXCEPT ![c] = "idle"]

\* The cached client is still good and no refresh is forced.
ReturnCached(c) ==
  /\ pc[c] = "call" /\ holder = "none"
  /\ ~force[c] /\ cached # 0 /\ Valid(cached)
  /\ pc' = PcReturned(c)
  /\ UNCHANGED << env, disk, issued, expired, cached, refdata, holder, force, attempt, built, todo, lost >>

\* What bootstrap_session_from_env writes: nothing over a valid session or a known
\* device when the session of the environment has expired, everything when the
\* environment is complete and the shelve is not.
KeysFromEnv ==
  CASE env.sess # 0 /\ ~Valid(env.sess) ->
         IF Valid(disk.sess) \/ disk.dev # "none" \/ ~env.device THEN << >> ELSE << "dev" >>
    [] env.sess # 0 /\ Valid(env.sess) /\ env.device /\ env.auth ->
         IF Usable(disk) THEN << >> ELSE << "auth", "dev", "sess" >>
    [] OTHER -> << >>

Enter(c) ==
  /\ pc[c] = "call" /\ holder = "none"
  /\ force[c] \/ cached = 0 \/ ~Valid(cached)
  /\ holder' = c
  /\ cached' = IF force[c] THEN 0 ELSE cached
  /\ IF KeysFromEnv = << >>
       THEN pc' = [pc EXCEPT ![c] = "fast"] /\ UNCHANGED << disk, todo >>
       ELSE Truncate(c, "bootstrap", KeysFromEnv)
  /\ UNCHANGED << env, issued, expired, refdata, force, attempt, built, lost >>

\* Mutant of FastPath: a forced refresh does not take the session of the shelve.
FastPathUnforced(c) ==
  /\ pc[c] = "fast"
  /\ IF Usable(disk) /\ ~force[c]
       THEN built' = disk.sess /\ pc' = [pc EXCEPT ![c] = "refdata"]
       ELSE UNCHANGED built /\ pc' = [pc EXCEPT ![c] = "prune"]
  /\ UNCHANGED << env, disk, issued, expired, cached, refdata, holder, force, attempt, todo, lost >>

\* _try_build_session_only_client: no network if the shelve is complete and valid.
FastPath(c) ==
  /\ pc[c] = "fast"
  /\ IF Usable(disk)
       THEN built' = disk.sess /\ pc' = [pc EXCEPT ![c] = "refdata"]
       ELSE UNCHANGED built /\ pc' = [pc EXCEPT ![c] = "prune"]
  /\ UNCHANGED << env, disk, issued, expired, cached, refdata, holder, force, attempt, todo, lost >>

\* _prune_stale_bearers: an expired session_token is deleted, then auth_token.
Prune(c) ==
  /\ pc[c] = "prune"
  /\ IF disk.sess # 0 /\ ~Valid(disk.sess)
       THEN disk' = [disk EXCEPT !.sess = 0] /\ pc' = [pc EXCEPT ![c] = "unauth"]
       ELSE UNCHANGED disk /\ pc' = [pc EXCEPT ![c] = "login"]
  /\ UNCHANGED << env, issued, expired, cached, refdata, holder, force, attempt, built, todo, lost >>

\* Mutant of PruneAuth: the auth_token stays, and the SDK verifies with it.
PruneAuthKeeping(c) ==
  /\ pc[c] = "unauth"
  /\ pc' = [pc EXCEPT ![c] = "login"]
  /\ UNCHANGED << env, disk, issued, expired, cached, refdata, holder, force, attempt, built, todo, lost >>

PruneAuth(c) ==
  /\ pc[c] = "unauth"
  /\ disk' = [disk EXCEPT !.auth = FALSE]
  /\ pc' = [pc EXCEPT ![c] = "login"]
  /\ UNCHANGED << env, issued, expired, cached, refdata, holder, force, attempt, built, todo, lost >>

\* An exception leaves the lock: AuthService tries again until its attempts are used
\* up, the refresh loop and the callers go on without a client.
PcRaised(c) ==
  [pc EXCEPT ![c] = IF c # "boot" THEN "idle" ELSE IF attempt < MaxAttempts THEN "ready" ELSE "failed"]

\* Mutant of Raise: the attempts are counted past the last.
RaiseUncapped(c) ==
  /\ holder' = "none"
  /\ pc' = PcRaised(c)
  /\ attempt' = IF c = "boot" THEN attempt + 1 ELSE attempt
  /\ built' = 0

Raise(c) ==
  /\ holder' = "none"
  /\ pc' = PcRaised(c)
  /\ attempt' = IF c = "boot" /\ attempt < MaxAttempts THEN attempt + 1 ELSE attempt
  /\ built' = 0

\* The SDK's login (external), in the directory of the shelve: with an auth_token there
\* it verifies the old session, else it sends one TOTP.  The server knows only the
\* enrolled device.  The SDK may store the new keys itself.
LoginSucceeds(c) ==
  /\ pc[c] = "login"
  /\ disk.dev = "enrolled" /\ issued < MaxSessions
  /\ issued' = issued + 1
  /\ built' = issued'
  /\ disk' \in {disk, Full(issued')}
  /\ pc' = [pc EXCEPT ![c] = "check"]
  /\ UNCHANGED << env, lost, expired, cached, refdata, holder, force, attempt, todo >>

\* The network fails, or the code is refused: the input patch breaks the SDK's loop.
LoginFails(c) ==
  /\ pc[c] = "login"
  /\ Raise(c)
  /\ UNCHANGED << env, disk, issued, expired, cached, refdata, force, todo, lost >>

\* A verification answered with 401 makes the SDK forget every key, the device too; a
\* login from a device the server does not know is refused.  The SDK may or may not
\* have stored the device it made up.
Refused(c) ==
  /\ pc[c] = "login"
  /\ disk.auth \/ disk.dev # "enrolled"
  /\ \E kept \in {IF disk.auth THEN Empty ELSE disk} : \E dev \in {kept.dev, "fresh"} :
       disk' = [kept EXCEPT !.dev = dev]
  /\ lost' = {"device", "session"}

\* "TOTP is not enabled" makes AuthService exit, so that the process is restarted (so
\* does a refused code, which leaves the shelve as it is: a case of Restart).  To any
\* other caller it is raised.
LoginRefused(c) ==
  /\ Refused(c)
  /\ IF c = "boot"
       THEN Started
       ELSE Raise(c) /\ UNCHANGED << cached, refdata, force, todo >>
  /\ UNCHANGED << env, issued, expired >>

\* Mutant of CheckSession: the tokens are not stored.
CheckSessionUnsaved(c) ==
  /\ pc[c] = "check"
  /\ \/ Valid(built) /\ pc' = [pc EXCEPT ![c] = "refdata"] /\ UNCHANGED << holder, attempt, built >>
     \/ ~Valid(built) /\ Raise(c)
  /\ UNCHANGED << env, disk, todo, issued, expired, cached, refdata, force, lost >>

\* The session is looked at again before it is stored (_persist_client_tokens).
CheckSession(c) ==
  /\ pc[c] = "check"
  /\ \/ Valid(built) /\ Truncate(c, "persist", << "auth", "sess", "dev" >>) /\ UNCHANGED << holder, attempt, built >>
     \/ ~Valid(built) /\ Raise(c) /\ UNCHANGED << disk, todo >>
  /\ UNCHANGED << env, issued, expired, cached, refdata, force, lost >>

\* The instrument master is there, or is loaded, or the caller does without it
\* (skip_refdata), and the client is cached; ...
ClientReady(c) ==
  /\ pc[c] = "refdata"
  /\ refdata' \in {TRUE, refdata}
  /\ cached' = built
  /\ built' = 0
  /\ holder' = "none"
  /\ pc' = PcReturned(c)
  /\ UNCHANGED << env, disk, issued, expired, force, attempt, todo, lost >>

\* ... or it cannot be loaded.
RefdataFails(c) ==
  /\ pc[c] = "refdata" /\ ~refdata
  /\ Raise(c)
  /\ UNCHANGED << env, disk, issued, expired, cached, refdata, force, todo, lost >>

(***************************************************************************)
(* Time, and the end of the process.                                       *)
(***************************************************************************)

Expire ==
  /\ expired < issued
  /\ expired' = expired + 1
  /\ UNCHANGED << env, disk, issued, lost, process >>

\* What a kill between two writes leaves behind.
Torn ==
  UNION {IF disk.dev = "enrolled" THEN {"session"} ELSE {"session", "device"} :
           c \in {d \in Threads : pc[d] \in Writing \union {"unauth", "check"}}}

\* The process is killed and started again, on the same disk or on an empty one.
Restart ==
  /\ pc["boot"] # "off"
  /\ Started
  /\ \/ UNCHANGED disk /\ lost' = lost \union Torn
     \/ disk' = Empty /\ lost' = {"device", "session"}
  /\ UNCHANGED << env, issued, expired >>

Proceed(c) ==
  \/ ReturnCached(c)
  \/ Enter(c)
  \/ WriteKey(c)
  \/ FastPath(c)
  \/ Prune(c)
  \/ PruneAuth(c)
  \/ LoginSucceeds(c)
  \/ LoginFails(c)
  \/ LoginRefused(c)
  \/ CheckSession(c)
  \/ ClientReady(c)
  \/ RefdataFails(c)

Next ==
  \/ Seed
  \/ Attempt
  \/ LoopStarts
  \/ LoopWakes
  \/ \E c \in Callers, f \in BOOLEAN : Ask(c, f)
  \/ \E c \in Threads : Proceed(c)
  \/ Expire
  \/ Restart

Spec == Init /\ [][Next]_vars

\* The refresh loop's sleep ends, and a thread that may go on does: the SDK never waits
\* for input, which is patched, and its requests end.
Fairness == WF_vars(LoopWakes) /\ \A c \in Threads : WF_vars(Proceed(c))

FairSpec == Spec /\ Fairness

(***************************************************************************)
(* Properties.                                                             *)
(***************************************************************************)

\* Once the shelve was complete, every login of the process presents the enrolled device
\* and leaves the SDK no old session to verify, which could make it forget the device.
\* A kill in the middle of a write, and the boot's own seeding, are outside of this.
LoginKeepsDevice ==
  \A c \in Threads :
    (pc[c] = "login" /\ lost = {}) => (disk.dev = "enrolled" /\ ~disk.auth)

\* As long as the shelve has not lost a session, nobody logs in while the last one
\* issued is valid: the threads that find a session expired, or that are forced to
\* refresh, share one login, and so do attempts that fail later or are started again.
OneLoginPerSession ==
  [][issued' > issued => (~Valid(issued) \/ "session" \in lost)]_vars

\* The refresh loop reads the shelve and all others the cached client: while nobody is
\* inside, a cached session that is valid is the one in the shelve.
CacheAgreesWithDisk ==
  (holder = "none" /\ cached # 0 /\ Valid(cached)) => (Usable(disk) /\ disk.sess = cached)

\* A session that has expired or is missing is not left alone: as long as the refresh
\* loop runs, a login is tried or somebody brings a session.
ExpiredSessionRefreshed ==
  (pc["loop"] # "off" /\ ~Usable(disk))
    ~> (pc["loop"] = "off" \/ Usable(disk) \/ \E c \in Threads : pc[c] = "login")

=============================================================================
