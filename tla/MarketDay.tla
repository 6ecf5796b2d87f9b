------------------------------ MODULE MarketDay ------------------------------
(***************************************************************************)
(* A day of the service: the jobs that Cloud Scheduler starts (jobs/       *)
(* auth_refresh.py, market_start.py, market_stop.py), the life of the      *)
(* application's process (the lifespan of app/main.py, POST                *)
(* /admin/shutdown of app/api/routes.py), and the database writer in it    *)
(* (DbWriter, whose actions happen here only while the process is there).  *)
(*                                                                         *)
(* The jobs run one after the other and each in a process of its own; any  *)
(* call to the cloud may fail, and a job or the application may be killed. *)
(* Of a session token the jobs see how long it lives on: "good", "ending"  *)
(* within the 300 s of the job's leeway, "expired" within the 30 s of      *)
(* everybody else's.  The device id is left out: it does not change        *)
(* (AuthSession).                                                          *)
(***************************************************************************)
EXTENDS DbWriter

CONSTANTS
  MaxLaunches,   \* how many jobs are started (a bound)
  MaxProcesses,  \* how many processes of the application (a bound)
  MaxProduced    \* how many items are enqueued (a bound)

ASSUME DayAssumption ==
  MaxLaunches \in Nat /\ MaxProcesses \in Nat \ {0} /\ MaxProduced \in Nat

VARIABLES
  token,      \* the age of the token in nubra-session-token
  together,   \* does nubra-auth-token belong to the same session?
  job,        \* the step of the job that runs, "none" between two
  got,        \* the age of new_session_token in the refresh job, or "none"
  renewed,    \* is it of a new session?
  has_auth,   \* has the new session an auth_token (new_auth_token)?
  all_ok,     \* the local all_ok of the refresh job
  exit,       \* the exit code of the last job, 1 when it was killed
  last,       \* the job started last
  launches,   \* how many jobs were started
  minimum,    \* min_instance_count of the service
  instance,   \* its instance: "absent", "serving" or "draining"
  processes,  \* how many there were
  ingestion,  \* ingestion_status["state"]
  handler     \* where admin_shutdown is: "none", "stopping" the ingestion, or "done"

secretVars  == << token, together, got, renewed, has_auth, all_ok >>
serviceVars == << minimum, instance, processes, ingestion, handler >>
jobVars     == << job, exit, last, launches >>
dayVars     == << secretVars, serviceVars, jobVars, vars >>

RefreshSteps == {"read", "login", "session", "auth", "verify"}
StartSteps   == {"scale_up", "poll"}
StopSteps    == {"signal", "scale_down"}
FirstStep    == [refresh |-> "read", start |-> "scale_up", stop |-> "signal"]
Ages         == {"good", "ending", "expired"}
Following    == [refresh |-> "start", start |-> "stop", stop |-> "refresh"]

\* Are the background tasks, but for DatabaseRuntime, neither cancelled nor gone?
Alive == instance # "absent" /\ handler # "done"

DayTypeOK ==
  /\ TypeOK
  /\ token \in Ages /\ got \in Ages \union {"none"}
  /\ together \in BOOLEAN /\ renewed \in BOOLEAN /\ has_auth \in BOOLEAN /\ all_ok \in BOOLEAN
  /\ job \in RefreshSteps \union StartSteps \union StopSteps \union {"none"}
  /\ exit \in {0, 1} /\ last \in DOMAIN FirstStep /\ launches \in 0..MaxLaunches
  /\ minimum \in {0, 1} /\ instance \in {"absent", "serving", "draining"}
  /\ processes \in 1..MaxProcesses
  /\ ingestion \in {"scheduled", "starting", "ready", "error", "auth_error"}
  /\ handler \in {"none", "stopping", "done"}

\* The service is deployed and scaled to zero; setup_secrets.sh has filled the secrets.
DayInit ==
  /\ Init
  /\ token = "good" /\ together = TRUE
  /\ got = "none" /\ renewed = FALSE /\ has_auth = FALSE /\ all_ok = TRUE
  /\ job = "none" /\ exit = 0 /\ last \in {"stop", "refresh"} /\ launches = 0
  /\ minimum = 0 /\ instance = "absent" /\ processes = 1
  /\ ingestion = "scheduled" /\ handler = "none"

(***************************************************************************)
(* Cloud Scheduler: the jobs of a day follow one another; one that failed  *)
(* is tried again.  The refresh job and the service share nothing while    *)
(* they run, so that it need only run while no instance is there.          *)
(***************************************************************************)

Launch(j) ==
  /\ job = "none" /\ launches < MaxLaunches
  /\ j = Following[last] \/ (j = last /\ exit # 0)
  /\ j = "refresh" => instance = "absent"
  /\ job' = FirstStep[j] /\ last' = j
  /\ launches' = launches + 1
  /\ UNCHANGED << exit, secretVars, serviceVars, vars >>

Goto(step_) == job' = step_ /\ UNCHANGED << exit, last, launches >>
Finish(code) == job' = "none" /\ exit' = code /\ UNCHANGED << last, launches >>

\* The locals of the refresh job go with it.
Forget == got' = "none" /\ renewed' = FALSE /\ has_auth' = FALSE /\ all_ok' = TRUE

\* Its task timeout, or the cloud, ends the job between two steps.
JobKilled ==
  /\ job # "none"
  /\ Finish(1)
  /\ Forget
  /\ UNCHANGED << token, together, serviceVars, vars >>

(***************************************************************************)
(* jobs/auth_refresh.py.                                                   *)
(***************************************************************************)

\* Steps 1 and 2: a session that outlives the leeway needs no refresh.  A read that
\* fails changes nothing: the deployment puts the secrets in the environment as well.
ReadSecrets ==
  /\ job = "read"
  /\ IF token = "good" THEN Finish(0) ELSE Goto("login")
  /\ UNCHANGED << secretVars, serviceVars, vars >>

\* Steps 3 and 4: AuthService.authenticate takes the session of the secrets as it is
\* when it outlives its own, shorter leeway; otherwise it logs in, or raises.  A login
\* must bring a session_token; it may bring no auth_token.
Authenticate ==
  /\ job = "login"
  /\ \/ /\ token # "expired"
        /\ got' = token /\ UNCHANGED << renewed, has_auth >>
        /\ Goto("session")
     \/ /\ token = "expired"
        /\ got' = "good" /\ renewed' = TRUE /\ has_auth' \in BOOLEAN
        /\ Goto("session")
     \/ token = "expired" /\ UNCHANGED << got, renewed, has_auth >> /\ Finish(1)
  /\ UNCHANGED << token, together, all_ok, serviceVars, vars >>

\* Step 5: one secret after the other; a failure does not keep the next from being
\* written.  The tokens of a session that was not renewed are there already.
WriteSession ==
  /\ job = "session"
  /\ \/ token' = got /\ together' = (together /\ ~renewed) /\ UNCHANGED all_ok
     \/ all_ok' = FALSE /\ UNCHANGED << token, together >>
  /\ Goto("auth")
  /\ UNCHANGED << got, renewed, has_auth, serviceVars, vars >>

\* An empty auth_token is passed over, which leaves the secret with the one of an
\* older session, and all_ok as it is.
WriteAuth ==
  /\ job = "auth"
  /\ \/ renewed /\ ~has_auth /\ UNCHANGED << together, all_ok >>
     \/ renewed /\ has_auth /\ together' = all_ok /\ UNCHANGED all_ok
     \/ ~renewed /\ UNCHANGED << together, all_ok >>
     \/ (renewed => has_auth) /\ all_ok' = FALSE /\ UNCHANGED together
  /\ Goto("verify")
  /\ UNCHANGED << token, got, renewed, has_auth, serviceVars, vars >>

\* Mutant of Verify: all_ok is not looked at.
VerifyTokenOnly ==
  /\ job = "verify"
  /\ Finish(IF got = "good" THEN 0 ELSE 1)
  /\ Forget
  /\ UNCHANGED << token, together, serviceVars, vars >>

\* Step 6: the new token is looked at again, in the environment.
Verify ==
  /\ job = "verify"
  /\ Finish(IF got = "good" /\ all_ok THEN 0 ELSE 1)
  /\ Forget
  /\ UNCHANGED << token, together, serviceVars, vars >>

\* Time passes for the tokens.  Only the refresh job looks at them, so that it need
\* not pass at any other time; a token in the secret that differs from the job's has
\* expired.
Older == [good |-> "ending", ending |-> "expired", expired |-> "expired", none |-> "none"]

Expire ==
  /\ job \in RefreshSteps
  /\ \/ token # "expired" /\ token' = Older[token] /\ got' = Older[got]
     \/ token = "expired" /\ got' = Older[got] /\ UNCHANGED token
  /\ UNCHANGED << together, renewed, has_auth, all_ok, serviceVars, jobVars, vars >>

(***************************************************************************)
(* The process of the application.                                         *)
(***************************************************************************)

\* Startup of the lifespan.  Cloud Run starts an instance to keep the minimum, and
\* for a request.
InstanceStarts ==
  /\ instance = "absent" /\ job \notin RefreshSteps
  /\ minimum = 1 \/ job \in {"signal", "poll"}
  /\ instance' = "serving"
  /\ ingestion' = "scheduled" /\ handler' = "none"
  /\ UNCHANGED << minimum, processes, secretVars, jobVars, vars >>

\* _boot_ingestion and _start_nubra_background: bootstrap_auth, then ingestion.start().
IngestionBoots ==
  /\ Alive
  /\ \/ ingestion = "scheduled" /\ ingestion' \in {"starting", "auth_error"}
     \/ ingestion = "starting"  /\ ingestion' \in {"ready", "error"}
  /\ UNCHANGED << minimum, instance, processes, handler, secretVars, jobVars, vars >>

\* admin_shutdown up to the end of ingestion.stop().
ShutdownBegins ==
  /\ job = "signal" /\ instance = "serving" /\ handler = "none"
  /\ handler' = "stopping"
  /\ UNCHANGED << minimum, instance, processes, ingestion, secretVars, jobVars, vars >>

\* The rest of it: DBWriter has no flush(), so that nothing is flushed, and every task
\* is cancelled.
ShutdownCancels ==
  /\ handler = "stopping" /\ instance # "absent"
  /\ handler' = "done"
  /\ RuntimeCancelled
  /\ UNCHANGED << minimum, instance, processes, ingestion, secretVars, jobVars >>

\* SIGTERM: the lifespan's shutdown first awaits ingestion.stop().
InstanceDrains ==
  /\ instance = "serving" /\ minimum = 0
  /\ instance' = "draining"
  /\ UNCHANGED << minimum, processes, ingestion, handler, secretVars, jobVars, vars >>

\* Then it cancels the tasks and closes the pool; or the process is killed before.
InstanceEnds ==
  /\ instance # "absent" /\ processes < MaxProcesses
  /\ instance' = "absent"
  /\ processes' = processes + 1
  /\ handler' = "none" /\ ingestion' = "scheduled"
  /\ ProcessReplaced
  /\ UNCHANGED << minimum, secretVars, jobVars >>

\* DbWriter in the process: DatabaseRuntime runs while there is one, its producers
\* until they are cancelled.
InProcess(step_) == instance # "absent" /\ step_ /\ UNCHANGED << secretVars, serviceVars, jobVars >>

Produce ==
  /\ Alive /\ Cardinality(Enqueued) < MaxProduced
  /\ \E k \in Topics : \E payload \in Payloads[k] : Enqueue(k, payload)

(***************************************************************************)
(* jobs/market_start.py and market_stop.py.                                *)
(***************************************************************************)

ScaleUp ==
  /\ job = "scale_up"
  /\ \/ minimum' = 1 /\ Goto("poll")
     \/ UNCHANGED minimum /\ Finish(1)
  /\ UNCHANGED << instance, processes, ingestion, handler, secretVars, vars >>

\* _wait_for_health: until /health/ready says "ready", or for 120 s; the exit code is
\* 0 in either case.
Poll ==
  /\ job = "poll"
  /\ Finish(0)
  /\ UNCHANGED << secretVars, serviceVars, vars >>

\* The request is answered, fails, or times out while admin_shutdown goes on; main()
\* ignores which, and, after a sleep, what /health/ws says.
Signalled ==
  /\ job = "signal"
  /\ Goto("scale_down")
  /\ UNCHANGED << secretVars, serviceVars, vars >>

ScaleDown ==
  /\ job = "scale_down"
  /\ \/ minimum' = 0 /\ Finish(0)
     \/ UNCHANGED minimum /\ Finish(1)
  /\ UNCHANGED << instance, processes, ingestion, handler, secretVars, vars >>

DayNext ==
  \/ \E j \in DOMAIN FirstStep : Launch(j)
  \/ JobKilled
  \/ ReadSecrets \/ Authenticate \/ Verify \/ Expire
  \/ WriteSession \/ WriteAuth
  \/ InstanceStarts \/ IngestionBoots \/ ShutdownBegins \/ ShutdownCancels
  \/ InstanceDrains \/ InstanceEnds
  \/ ScaleUp \/ Poll \/ Signalled \/ ScaleDown
  \/ InProcess(Produce) \/ InProcess(Connect)
  \/ InProcess(FlushStart) \/ InProcess(Insert) \/ InProcess(FlushEnd)
  \/ InProcess(FlushFails) \/ InProcess(RuntimeFails)

DaySpec == DayInit /\ [][DayNext]_dayVars

\* The connection attempt is limited in time, and the loop sleeps for a bounded time
\* between two flushes.  An insert is not limited.
Fairness == WF_dayVars(InProcess(Connect)) /\ WF_dayVars(InProcess(FlushStart))

FairDaySpec == DaySpec /\ Fairness

(***************************************************************************)
(* Properties.                                                             *)
(***************************************************************************)

\* When the refresh job exits with 0, the secret holds a session that is good for at
\* least five minutes more, and after a login that brought both tokens the two secrets
\* are of one session, whatever earlier runs left there.  It does not say so of a login
\* without an auth_token, nor of a run that found a good session token: these exit with
\* 0 on the secrets of two sessions.
ExitZeroIsHonest ==
  [][ (job \in RefreshSteps /\ job' = "none" /\ exit' = 0) =>
        /\ token = "good"
        /\ (renewed /\ has_auth) => together ]_dayVars

\* What the docstring of admin_shutdown says, "disconnect WS, flush DB", and what
\* market_stop.py waits for.  Nothing is flushed: what is queued when the tasks are
\* cancelled is never written.
ShutdownFlushes ==
  (handler = "done" /\ runtime # "error") => \A i \in Enqueued : Stored(i) \/ i \in lost
=============================================================================
