----------------------------- MODULE Instruments -----------------------------
(***************************************************************************)
(* The instrument master: where a process gets it from (the three-level    *)
(* cache of app/storage/instrument_cache.py, the SDK's class-level frame,  *)
(* the 24-hour cache of InstrumentManager), the indices InstrumentManager  *)
(* builds from it, and the gate that starts the interval scheduler once    *)
(* they are complete.                                                      *)
(*                                                                         *)
(* A master is the day Nubra listed it and which of its rows are there:    *)
(* what a killed process or a full disk left of a CSV has only some.       *)
(* Every day from the day of listing up to Horizon days later is an expiry *)
(* of everything that expires.  Strikes are numbers, as on the wire: in    *)
(* rupees, or in paise (wire_scale 100).                                   *)
(***************************************************************************)
EXTENDS Integers, Sequences, FiniteSets, SequencesExt

CONSTANTS
  Horizon,     \* how far ahead contracts are listed
  Radius,      \* strike_radius
  Strikes,     \* the listed strikes, in rupees
  Cuts,        \* what a truncated master may have: the strikes, and the stocks it lacks
  MinTokens,   \* the number of tokens below which get_subscription_tokens raises
  Prices,      \* the prices of NIFTY, in rupees
  Assets,      \* the names of the master's stocks, in their order
  Nifty50,     \* nifty50_symbols
  AliasOf,     \* NIFTY50_MASTER_ASSET_ALIASES
  PoolSize,    \* max_workers of the thread pool
  MaxAttempts, \* max_retries of the SDK download
  MaxDays, MaxBoots, MaxTries  \* bounds: days, processes, tries of a process to get a client

ASSUME InstrumentsAssumption ==
  /\ {Horizon, Radius, MinTokens, MaxDays, MaxBoots, MaxTries} \subseteq Nat
  /\ Strikes \subseteq Nat /\ Prices \subseteq Nat
  /\ Cuts \subseteq [strikes : SUBSET Strikes, lost : SUBSET {Assets[i] : i \in 1..Len(Assets)}]
  /\ PoolSize \in Nat \ {0} /\ MaxAttempts \in Nat \ {0}
  /\ \A s \in Strikes : s % 50 = 0
  /\ DOMAIN AliasOf \subseteq Nifty50

VARIABLES
  wire_scale, \* how Nubra writes prices
  listed,     \* the stocks Nubra lists
  today,
  gcs,        \* the cache in Cloud Storage
  local,      \* instrument_master_cache.csv: what it holds and the day it was written
  sdk,        \* InitNubraSdk.DF_REF_DATA_NSE
  pool,       \* the jobs of the thread pool: the first PoolSize run, the others wait
  pc,         \* where the boot is
  attempt,    \* of download_from_nubra_sdk
  tries,      \* how often this process has tried to get a client
  df,         \* InstrumentManager.df
  built,      \* the day the indices were built
  scheduler,  \* has the gate started it?
  boots,      \* how many processes there were
  missed      \* history: Cloud Storage had a master that this process did not get to read

settings == << wire_scale, listed >>
caches == << gcs, local, sdk, pool >>
manager == << df, built, scheduler >>
vars == << settings, today, caches, pc, attempt, tries, manager, boots, missed >>

Whole      == [strikes |-> Strikes, lost |-> {}]
Edition(d) == [edition |-> d, rows |-> Whole]
None       == Edition(0)
Good(m)    == [is |-> "good", master |-> m, written |-> today]
Image      == [is |-> "good", master |-> Edition(1), written |-> 1]

AllAssets == {Assets[i] : i \in 1..Len(Assets)}
Names(s)  == {s} \union {AliasOf[t] : t \in {s} \intersect DOMAIN AliasOf}

(***************************************************************************)
(* InstrumentManager._prepare_indices, of a master m on day d.             *)
(***************************************************************************)

Max2(a, b) == IF a > b THEN a ELSE b

Expiries(m) == m.edition..(m.edition + Horizon)

\* What has not expired; or, when all has, what there is.
Candidates(m, d) ==
  LET live == {x \in Expiries(m) : x >= d} IN IF live = {} THEN Expiries(m) ELSE live

\* current, next, far
NiftyFutures(m, d) ==
  {x \in Candidates(m, d) : Cardinality({y \in Candidates(m, d) : y < x}) < 3}

InMaster(m) == listed \ m.rows.lost

\* Mutant of StockFutures: only the symbols themselves are looked for.
StockFuturesUnaliased(m) == InMaster(m) \intersect Nifty50

\* The names of NIFTY50 symbols, in the order of the assets and no more of them than
\* there are symbols.
StockFutures(m) ==
  LET found == {i \in 1..Len(Assets) :
                  Assets[i] \in InMaster(m) /\ \E s \in Nifty50 : Assets[i] \in Names(s)}
      first == {i \in found : Cardinality({j \in found : j < i}) < Cardinality(Nifty50)}
  IN  {Assets[i] : i \in first}

StockFutureAssets(m) == {s \in Nifty50 : Names(s) \intersect StockFutures(m) # {}}

\* _option_map: the strikes, as on the wire.
WireStrikes(m) == {s * wire_scale : s \in m.rows.strikes}

\* _strike_step and _strike_scale are found out from the strikes.
StrikeGaps(m) == {b - a : a, b \in WireStrikes(m)} \intersect (Nat \ {0})

StrikeStep(m) ==
  LET gaps == StrikeGaps(m)
  IN  IF gaps = {} THEN 50 ELSE CHOOSE x \in gaps : \A y \in gaps : x <= y

StrikeScale(m) == Max2(1, StrikeStep(m) \div 50)

\* round(): halves go to the even neighbour.
Nearest50(price) ==
  LET n == price \div 50
      r == price % 50
  IN  50 * (IF r < 25 THEN n ELSE IF r > 25 THEN n + 1 ELSE n + (n % 2))

\* The strikes around a price.
Window(m, price) ==
  LET atm  == Nearest50(price) * StrikeScale(m)
      step == StrikeStep(m)
  IN  {atm + i * step : i \in (-Radius)..Radius} \intersect WireStrikes(m)

Sides == {"CE", "PE"}

\* get_option_tokens
OptionTokens(m, price) == Window(m, price) \X Sides

\* Mutant of OptionByRef: the window is not put on the wire's scale.
OptionByRefInRupees(m, price) ==
  [t \in (({Nearest50(price) + i * StrikeStep(m) : i \in (-Radius)..Radius}
            \intersect WireStrikes(m)) \X Sides) |-> << t[1] \div StrikeScale(m), t[2] >>]

\* get_ref_maps: the strike of a token in rupees, and its side.
OptionByRef(m, price) ==
  LET scale == StrikeScale(m) IN [t \in Window(m, price) \X Sides |-> << t[1] \div scale, t[2] >>]

\* reference_map_status, as the gate reads it.
MapsComplete(m, d) ==
  /\ \A price \in Prices : OptionByRef(m, price) # << >>
  /\ NiftyFutures(m, d) # {} /\ StockFutures(m) # {}
  /\ Cardinality(StockFutures(m)) = Cardinality(Nifty50)
  /\ StockFutureAssets(m) = Nifty50

(***************************************************************************)
(* A process.                                                              *)
(***************************************************************************)

\* Of a stock with two names Nubra lists the one, the other, or, for a while, both.
Init ==
  /\ wire_scale \in {1, 100}
  /\ listed \in {AllAssets \ names : names \in
                   {{}} \union {{n} : n \in UNION {Names(s) : s \in DOMAIN AliasOf}}}
  /\ today = 1
  /\ gcs \in {None, Image.master}
  /\ local = Image /\ sdk = None /\ pool = << >>
  /\ pc = "client" /\ attempt = 1 /\ tries = 1
  /\ df = None /\ built = 0 /\ scheduler = "waiting"
  /\ boots = 1 /\ missed = FALSE

\* Mutant of GetClient: the file is read before Cloud Storage.
GetClientLocalFirst ==
  /\ pc = "client"
  /\ sdk' \in {sdk, Edition(today)}
  /\ pc' = IF sdk' = None THEN "local" ELSE "manager"
  /\ attempt' = 1
  /\ UNCHANGED << settings, today, gcs, local, pool, tries, manager, boots, missed >>

\* get_authenticated_client: the SDK's login loads the frame, or finds it empty, or fails;
\* the session of the shelve does not load it.
GetClient ==
  /\ pc = "client"
  /\ sdk' \in {sdk, Edition(today)}
  /\ pc' \in {"failed", IF sdk' = None THEN "gcs" ELSE "manager"}
  /\ attempt' = 1
  /\ UNCHANGED << settings, today, gcs, local, pool, tries, manager, boots, missed >>

\* Level 1.  (The frame is handed to the SDK after the save; nobody reads it before.)
DownloadGcs ==
  /\ pc = "gcs"
  /\ \/ gcs # None /\ sdk' = gcs /\ pc' = "save" /\ missed' = FALSE
     \/ UNCHANGED sdk /\ pc' = "local" /\ missed' = (gcs # None)
  /\ UNCHANGED << settings, today, gcs, local, pool, attempt, tries, manager, boots >>

Submit(job) == pool' = Append(pool, job)
Download(n) == [job |-> "download", attempt |-> << tries, n >>, master |-> None]
Upload(m)   == [job |-> "upload", attempt |-> << 0, 0 >>, master |-> m]

\* Level 2, whatever its age; or the first attempt of level 3.
ReadLocal ==
  /\ pc = "local"
  /\ \/ /\ local.is = "good"
        /\ sdk' = local.master /\ Submit(Upload(local.master)) /\ pc' = "manager"
     \/ /\ local.is # "good"
        /\ UNCHANGED sdk /\ Submit(Download(1)) /\ pc' = "sdk"
  /\ UNCHANGED << settings, today, gcs, local, attempt, tries, manager, boots, missed >>

\* What to_csv leaves when it fails or is killed: nothing that can be read, or some rows.
Truncated ==
  {[is |-> "broken", master |-> None, written |-> today]} \union
  {Good([edition |-> sdk.edition, rows |-> cut]) : cut \in Cuts}

\* to_csv, whose failure is ignored; what came from the SDK is uploaded as well.
Save ==
  /\ pc \in {"save", "save_and_upload"}
  /\ local' \in {local, Good(sdk)} \union Truncated
  /\ IF pc = "save" THEN UNCHANGED pool ELSE Submit(Upload(sdk))
  /\ pc' = "manager"
  /\ UNCHANGED << settings, today, gcs, sdk, attempt, tries, manager, boots, missed >>

\* After an attempt that gave nothing, with these jobs left.
NextAttempt(jobs) ==
  \/ /\ attempt < MaxAttempts
     /\ attempt' = attempt + 1
     /\ pool' = Append(jobs, Download(attempt + 1))
     /\ UNCHANGED pc
  \/ attempt = MaxAttempts /\ pc' = "failed" /\ pool' = jobs /\ UNCHANGED attempt

Running == 1..(IF Len(pool) < PoolSize THEN Len(pool) ELSE PoolSize)

\* A download comes back, with a master or without.  The attempt that waits for it looks
\* at the frame, which one that was given up may have filled; so does no other.
DownloadReturns(j) ==
  /\ pool[j].job = "download"
  /\ sdk' \in {sdk, Edition(today)}
  /\ \/ /\ pc = "sdk" /\ pool[j] = Download(attempt)
        /\ \/ sdk' # None /\ pc' = "save_and_upload" /\ pool' = RemoveAt(pool, j) /\ UNCHANGED attempt
           \/ sdk' = None /\ NextAttempt(RemoveAt(pool, j))
     \/ /\ ~(pc = "sdk" /\ pool[j] = Download(attempt))
        /\ pool' = RemoveAt(pool, j) /\ UNCHANGED << pc, attempt >>
  /\ UNCHANGED << settings, today, gcs, local, tries, manager, boots, missed >>

UploadEnds(j) ==
  /\ pool[j].job = "upload"
  /\ gcs' \in {gcs, pool[j].master}
  /\ pool' = RemoveAt(pool, j)
  /\ UNCHANGED << settings, today, local, sdk, pc, attempt, tries, manager, boots, missed >>

\* Mutant of AttemptTimesOut: an attempt that has not begun is waited for.
AttemptTimesOutRunning ==
  /\ pc = "sdk"
  /\ \E j \in Running : pool[j] = Download(attempt)
  /\ NextAttempt(pool)
  /\ UNCHANGED << settings, today, gcs, local, sdk, tries, manager, boots, missed >>

\* future.result(timeout): a thread cannot be cancelled; a job that waits for one can.
AttemptTimesOut ==
  /\ pc = "sdk"
  /\ \E j \in 1..Len(pool) :
       /\ pool[j] = Download(attempt)
       /\ NextAttempt(IF j \in Running THEN pool ELSE RemoveAt(pool, j))
  /\ UNCHANGED << settings, today, gcs, local, sdk, tries, manager, boots, missed >>

\* AuthService.authenticate tries again.
TryAgain ==
  /\ pc = "failed" /\ tries < MaxTries
  /\ tries' = tries + 1
  /\ pc' = "client"
  /\ UNCHANGED << settings, today, caches, attempt, manager, boots, missed >>

\* _cache_is_stale: older than 24 hours.
MayBeStale == today > local.written

\* get_subscription_tokens, at the initial price.
Subscribes(m) ==
  IF \E price \in Prices : Cardinality(OptionTokens(m, price)) < MinTokens THEN "error" ELSE "ready"

\* A manager is there; the connection and the subscription that follow may fail.
BuiltFrom(m) == df' = m /\ built' = today /\ pc' \in {"error", Subscribes(m)}

\* The constructor of InstrumentManager (_load_instruments and _prepare_indices): the
\* file, of any age if it cannot be deleted; or, when it is stale (and deleted) or
\* unreadable, the frame of the SDK, written to the file, which may fail.
BuildManager ==
  /\ pc = "manager"
  /\ \/ local.is = "good" /\ BuiltFrom(local.master) /\ UNCHANGED local
     \/ /\ local.is # "good" \/ MayBeStale
        /\ \/ BuiltFrom(sdk) /\ local' = Good(sdk)
           \/ local' \in Truncated /\ pc' = "error" /\ UNCHANGED << df, built >>
  /\ UNCHANGED << settings, today, gcs, sdk, pool, attempt, tries, scheduler, boots, missed >>

\* _gated_interval_scheduler: it asks for the manager and its maps, not for the state
\* of the ingestion.
GateOpens ==
  /\ scheduler = "waiting" /\ built > 0
  /\ MapsComplete(df, built)
  /\ scheduler' = "started"
  /\ UNCHANGED << settings, today, caches, pc, attempt, tries, df, built, boots, missed >>

(***************************************************************************)
(* Days and processes.                                                     *)
(***************************************************************************)

NextDay ==
  /\ pc \in {"ready", "error", "failed"} /\ today < MaxDays
  /\ today' = today + 1
  /\ UNCHANGED << settings, caches, pc, attempt, tries, manager, boots, missed >>

\* The process is killed or ends; the next one is on a new file system, that of the
\* image, or on the same.
Restart ==
  /\ boots < MaxBoots
  /\ boots' = boots + 1
  /\ \/ local' = Image
     \/ UNCHANGED local
     \/ pc \in {"save", "save_and_upload", "manager"} /\ local' \in Truncated
  /\ sdk' = None /\ pool' = << >>
  /\ pc' = "client" /\ attempt' = 1 /\ tries' = 1
  /\ df' = None /\ built' = 0 /\ scheduler' = "waiting" /\ missed' = FALSE
  /\ UNCHANGED << settings, today, gcs >>

Next ==
  \/ GetClient \/ DownloadGcs \/ ReadLocal \/ Save
  \/ \E j \in Running : DownloadReturns(j) \/ UploadEnds(j)
  \/ AttemptTimesOut \/ TryAgain
  \/ BuildManager \/ GateOpens
  \/ NextDay \/ Restart

Spec == Init /\ [][Next]_vars

\* The client of Cloud Storage limits its calls, and the wait for the SDK is limited; the
\* gate looks every two seconds.  Nothing limits a login, in GetClient or in BuildManager, or
\* makes a download or an upload return.
Fairness ==
  /\ WF_vars(DownloadGcs) /\ WF_vars(ReadLocal) /\ WF_vars(Save) /\ WF_vars(AttemptTimesOut)
  /\ WF_vars(GateOpens)

FairSpec == Spec /\ Fairness

(***************************************************************************)
(* Properties.                                                             *)
(***************************************************************************)

\* The master in Cloud Storage, which every process reads first, is only ever replaced by a
\* process that did not get to read it: however late an upload ends, beside downloads that
\* hang, and however often its process tried before.
OnlyUnreadIsReplaced == [][(gcs # None /\ gcs' # gcs) => missed]_vars

\* The tokens that are subscribed around a price are those the pipeline can resolve at
\* that price, in whatever unit the wire is; and what it resolves them to is the strike
\* in rupees, within the radius.  So it is with a truncated master that has two strikes
\* 50 rupees apart, from which the step is found out.
RefMapsFollowTokens ==
  (built > 0 /\ \E a, b \in df.rows.strikes : b = a + 50) =>
    \A price \in Prices :
      LET map == OptionByRef(df, price)
      IN  /\ DOMAIN map = OptionTokens(df, price)
          /\ \A t \in OptionTokens(df, price) :
               /\ map[t][1] \in df.rows.strikes
               /\ map[t][1] - Nearest50(price) \in (-50 * Radius)..(50 * Radius)

\* However often the downloads hang, and with them the threads of the pool,
\* load_instrument_master comes to an end.
Loading == {"gcs", "local", "sdk", "save", "save_and_upload"}

LoadEnds == pc \in Loading ~> pc \notin Loading

\* A service that is ready on a whole master starts its scheduler, unless Nubra lists a
\* stock under both its names: then one symbol too many is found and the last is cut off.
EachOnce == \A s \in DOMAIN AliasOf : Cardinality(Names(s) \intersect listed) = 1

GateOpensOnWhole ==
  (pc = "ready" /\ df.rows = Whole /\ EachOnce) ~> (scheduler = "started" \/ pc # "ready")

=============================================================================
