--------------------------- MODULE InstrumentsProofs ---------------------------
(***************************************************************************)
(* Proofs about Instruments, for any days, processes, attempts and threads *)
(* and any stocks, strikes and cuts: the tokens around a price resolve to  *)
(* the strikes they were subscribed for (RefMapsFollowTokens), and the     *)
(* master in Cloud Storage is replaced only by a process that did not get  *)
(* to read it (OnlyUnreadIsReplaced).                                      *)
(***************************************************************************)
EXTENDS Instruments, FiniteSetTheorems, SequenceTheorems, TLAPS

(***************************************************************************)
(* The inductive invariant.                                                *)
(***************************************************************************)

Masters == [edition : Nat, rows : [strikes : SUBSET Strikes, lost : SUBSET AllAssets]]
Files   == [is : {"good", "broken"}, master : Masters, written : Nat]
Jobs    == [job : {"download", "upload"}, attempt : Nat \X Nat, master : Masters]

Types ==
  /\ wire_scale \in {1, 100} /\ listed \subseteq AllAssets
  /\ today \in Nat \ {0}
  /\ gcs \in Masters /\ local \in Files /\ sdk \in Masters /\ pool \in Seq(Jobs)
  /\ pc \in Loading \union {"client", "manager", "ready", "error", "failed"}
  /\ attempt \in Nat /\ tries \in Nat /\ boots \in Nat
  /\ df \in Masters /\ built \in Nat /\ scheduler \in {"waiting", "started"}
  /\ missed \in BOOLEAN

\* A master that Nubra has listed by now.
Listed(m) == 1 <= m.edition /\ m.edition <= today

\* Wherever a master is, Nubra has listed it; whoever is to read one finds one.
MastersInv ==
  /\ gcs = None \/ Listed(gcs)
  /\ sdk = None \/ Listed(sdk)
  /\ local.is = "good" => Listed(local.master)
  /\ \A j \in DOMAIN pool : pool[j].job = "upload" => Listed(pool[j].master)
  /\ pc \in {"save", "save_and_upload", "manager"} => sdk # None

\* A manager is there once the boot has passed it; a service is ready when it has enough
\* tokens, and its scheduler started when the maps were complete.
GateInv ==
  /\ built > 0 => pc \in {"ready", "error"} /\ Listed(df)
  /\ pc = "ready" => built > 0 /\ Subscribes(df) = "ready"
  /\ scheduler = "started" => built > 0 /\ MapsComplete(df, built)

NoUploads(q) == \A i \in DOMAIN q : q[i].job # "upload"
OneUpload(q) == \A i, k \in DOMAIN q : q[i].job = "upload" /\ q[k].job = "upload" => i = k

\* Cloud Storage has no master, or one that this process did not get to read.
Unread == gcs = None \/ missed

\* A process uploads once, when it has what it looked for, and only what it looked for
\* elsewhere because Cloud Storage did not bring it.
UploadInv ==
  /\ OneUpload(pool)
  /\ pc \in Loading \union {"client", "failed"} => NoUploads(pool)
  /\ pc \in {"local", "sdk", "save_and_upload"} \/ ~NoUploads(pool) => Unread

IInv == Types /\ MastersInv /\ GateInv /\ UploadInv

(***************************************************************************)
(* The masters.                                                            *)
(***************************************************************************)

\* What remains of the pool when a job leaves it was there before.
LEMMA JobLeaves ==
  ASSUME NEW q \in Seq(Jobs), NEW j \in 1..Len(q)
  PROVE  /\ RemoveAt(q, j) \in Seq(Jobs)
         /\ \A i \in DOMAIN RemoveAt(q, j) :
              LET k == IF i < j THEN i ELSE i + 1
              IN  i \in Nat /\ k \in DOMAIN q /\ RemoveAt(q, j)[i] = q[k]
<1>. DEFINE n == Len(q)  a == SubSeq(q, 1, j - 1)  b == SubSeq(q, j + 1, n)
<1>1. n \in Nat /\ j \in 1..n /\ DOMAIN q = 1..n /\ \A i \in 1..n : q[i] \in Jobs
  BY LenProperties, ElementOfSeq
<1>. HIDE DEF n
<1>2. /\ j - 1 \in Int /\ j + 1 \in Int /\ n \in Int
      /\ \A i \in 1..(j - 1) : q[i] \in Jobs
      /\ \A i \in (j + 1)..n : q[i] \in Jobs
  BY <1>1 DEF n
<1>3. /\ a \in Seq(Jobs) /\ Len(a) = IF 1 <= j - 1 THEN j - 1 - 1 + 1 ELSE 0
      /\ \A i \in 1..(j - 1 - 1 + 1) : a[i] = q[1 + i - 1]
  BY <1>2, SubSeqProperties
<1>4. /\ b \in Seq(Jobs) /\ Len(b) = IF j + 1 <= n THEN n - (j + 1) + 1 ELSE 0
      /\ \A i \in 1..(n - (j + 1) + 1) : b[i] = q[j + 1 + i - 1]
  BY <1>2, SubSeqProperties
<1>5. RemoveAt(q, j) = a \o b
  BY DEF RemoveAt, n
<1>. HIDE DEF a, b
<1>6. /\ a \o b \in Seq(Jobs) /\ Len(a \o b) = Len(a) + Len(b)
      /\ \A i \in 1..(Len(a) + Len(b)) :
           (a \o b)[i] = IF i <= Len(a) THEN a[i] ELSE b[i - Len(a)]
  BY <1>3, <1>4, ConcatProperties
<1>7. DOMAIN (a \o b) = 1..(Len(a) + Len(b)) /\ Len(a) = j - 1 /\ Len(b) = n - j
  <2>1. Len(a) = j - 1
    BY <1>1, <1>3
  <2>2. Len(b) = n - j
    BY <1>1, <1>4
  <2>3. DOMAIN (a \o b) = 1..(Len(a) + Len(b))
    BY <1>6, LenProperties
  <2>. QED BY <2>1, <2>2, <2>3
<1>8. ASSUME NEW i \in DOMAIN (a \o b)
      PROVE  LET k == IF i < j THEN i ELSE i + 1
             IN  i \in Nat /\ k \in DOMAIN q /\ (a \o b)[i] = q[k]
  <2>1. CASE i < j
    <3>1. (a \o b)[i] = q[i] /\ i \in DOMAIN q /\ i \in Nat
      BY <1>1, <1>3, <1>6, <1>7, <1>8, <2>1
    <3>. QED BY <2>1, <3>1
  <2>2. CASE ~(i < j)
    <3>1. i \in Nat /\ i - (j - 1) \in 1..(n - (j + 1) + 1)
      BY <1>1, <1>7, <1>8, <2>2
    <3>2. (a \o b)[i] = b[i - (j - 1)]
      BY <1>6, <1>7, <1>8, <2>2
    <3>3. b[i - (j - 1)] = q[j + 1 + (i - (j - 1)) - 1]
      BY <1>4, <3>1
    <3>4. j + 1 + (i - (j - 1)) - 1 = i + 1 /\ i + 1 \in 1..n
      BY <1>1, <1>7, <1>8, <3>1
    <3>. QED BY <1>1, <2>2, <3>1, <3>2, <3>3, <3>4
  <2>. QED BY <2>1, <2>2
<1>. QED BY <1>5, <1>6, <1>8

\* A pool of jobs, at most one of which uploads, and what Nubra has listed.
PoolInv(q) ==
  /\ q \in Seq(Jobs) /\ OneUpload(q)
  /\ \A j \in DOMAIN q : q[j].job = "upload" => Listed(q[j].master)

LEMMA JobDone ==
  ASSUME NEW q, PoolInv(q), NEW j \in 1..Len(q)
  PROVE  /\ PoolInv(RemoveAt(q, j)) /\ q[j] \in Jobs
         /\ NoUploads(q) \/ q[j].job = "upload" => NoUploads(RemoveAt(q, j))
<1>. DEFINE p == RemoveAt(q, j)  from(i) == IF i < j THEN i ELSE i + 1
<1>1. q[j] \in Jobs /\ j \in DOMAIN q /\ j \in Nat
  BY LenProperties, ElementOfSeq DEF PoolInv
<1>2. p \in Seq(Jobs) /\ \A i \in DOMAIN p : i \in Nat /\ from(i) \in DOMAIN q /\ p[i] = q[from(i)]
  BY JobLeaves DEF PoolInv
<1>. HIDE DEF p
<1>3. \A i \in Nat : from(i) # j
  BY <1>1
<1>4. \A i, k \in Nat : from(i) = from(k) => i = k
  BY <1>1
<1>. HIDE DEF from
<1>5. OneUpload(p)
  BY <1>2, <1>4 DEF PoolInv, OneUpload
<1>6. PoolInv(p)
  BY <1>2, <1>5 DEF PoolInv
<1>7. NoUploads(q) \/ q[j].job = "upload" => NoUploads(p)
  BY <1>1, <1>2, <1>3 DEF PoolInv, OneUpload, NoUploads
<1>. QED BY <1>1, <1>6, <1>7 DEF p

LEMMA JobSubmitted ==
  ASSUME NEW q, PoolInv(q), NEW job \in Jobs,
         job.job = "upload" => Listed(job.master) /\ NoUploads(q)
  PROVE  /\ PoolInv(Append(q, job))
         /\ NoUploads(q) /\ job.job # "upload" => NoUploads(Append(q, job))
<1>. DEFINE p == Append(q, job)
<1>1. /\ p \in Seq(Jobs) /\ Len(p) = Len(q) + 1 /\ Len(q) \in Nat /\ DOMAIN q = 1..Len(q)
      /\ \A j \in 1..Len(q) : p[j] = q[j]
      /\ p[Len(q) + 1] = job
  BY AppendProperties, LenProperties DEF PoolInv
<1>2. DOMAIN p = 1..(Len(q) + 1)
  BY <1>1, LenProperties
<1>. HIDE DEF p
<1>3. \A i \in DOMAIN p : (i = Len(q) + 1 /\ p[i] = job) \/ (i \in DOMAIN q /\ p[i] = q[i])
  BY <1>1, <1>2
<1>4. OneUpload(p)
  BY <1>3 DEF PoolInv, OneUpload, NoUploads
<1>5. PoolInv(p)
  BY <1>1, <1>3, <1>4 DEF PoolInv
<1>6. NoUploads(q) /\ job.job # "upload" => NoUploads(p)
  BY <1>3 DEF NoUploads
<1>. QED BY <1>5, <1>6 DEF p

LEMMA MasterTypes ==
  ASSUME IInv
  PROVE  /\ None \in Masters /\ ~Listed(None)
         /\ Edition(today) \in Masters /\ Listed(Edition(today)) /\ Edition(today) # None
         /\ PoolInv(pool)
         /\ \A m \in Masters : Good(m) \in Files /\ Good(m).is = "good" /\ Good(m).master = m
         /\ \A m \in Masters : Upload(m) \in Jobs /\ Upload(m).master = m
         /\ \A n \in Nat : Download(n) \in Jobs /\ Download(n).job = "download"
<1>1. today \in Nat \ {0} /\ tries \in Nat
  BY DEF IInv, Types
<1>2. PoolInv(pool)
  BY DEF IInv, Types, MastersInv, UploadInv, PoolInv
<1>3. \A d \in Nat : Edition(d) \in Masters /\ Edition(d).edition = d
  BY DEF Edition, Whole, Masters
<1>4. None = Edition(0)
  BY DEF None
<1>. HIDE DEF Masters
<1>. QED BY <1>1, <1>2, <1>3, <1>4 DEF Listed, Good, Files, Jobs, Upload, Download

\* What a failing to_csv leaves of the frame is a file of what Nubra has listed, or none.
LEMMA CutFiles ==
  ASSUME IInv, sdk # None, NEW f \in Truncated
  PROVE  f \in Files /\ (f.is = "good" => Listed(f.master))
<1>1. sdk \in Masters /\ Listed(sdk) /\ today \in Nat
  BY DEF IInv, Types, MastersInv
<1>2. CASE f = [is |-> "broken", master |-> None, written |-> today]
  BY <1>1, <1>2, MasterTypes DEF Files
<1>3. ASSUME NEW cut \in Cuts, f = Good([edition |-> sdk.edition, rows |-> cut])
      PROVE  f \in Files /\ Listed(f.master)
  <2>. DEFINE m == [edition |-> sdk.edition, rows |-> cut]
  <2>1. cut \in [strikes : SUBSET Strikes, lost : SUBSET AllAssets]
    BY InstrumentsAssumption DEF InstrumentsAssumption, AllAssets
  <2>2. m \in Masters /\ Listed(m)
    BY <1>1, <2>1 DEF Masters, Listed
  <2>. QED BY <1>3, <2>2, MasterTypes
<1>. QED BY <1>2, <1>3 DEF Truncated

(***************************************************************************)
(* The steps.                                                              *)
(***************************************************************************)

\* While a process boots, neither guard has been passed.
LEMMA BootKeepsGates ==
  ASSUME IInv, pc \notin {"ready", "error"}, pc' # "ready", UNCHANGED manager
  PROVE  GateInv'
<1>1. built = 0 /\ scheduler # "started"
  BY DEF IInv, Types, GateInv
<1>. QED BY <1>1 DEF GateInv, manager

LEMMA GetClientKeeps == ASSUME IInv, GetClient PROVE IInv'
<1>1. /\ pc = "client" /\ sdk' \in {sdk, Edition(today)}
      /\ pc' \in {"failed", IF sdk' = None THEN "gcs" ELSE "manager"} /\ attempt' = 1
      /\ UNCHANGED << settings, today, gcs, local, pool, tries, manager, boots, missed >>
  BY DEF GetClient
<1>2. sdk' \in Masters /\ (sdk' = None \/ Listed(sdk'))
  BY <1>1, MasterTypes DEF IInv, Types, MastersInv
<1>3. Types'
  BY <1>1, <1>2 DEF IInv, Types, settings, manager, Loading
<1>4. MastersInv'
  BY <1>1, <1>2 DEF IInv, MastersInv, Listed
<1>5. GateInv'
  BY <1>1, BootKeepsGates
<1>6. UploadInv'
  BY <1>1 DEF IInv, UploadInv, Unread, Loading
<1>. QED BY <1>3, <1>4, <1>5, <1>6 DEF IInv

LEMMA DownloadGcsKeeps == ASSUME IInv, DownloadGcs PROVE IInv'
<1>1. /\ pc = "gcs"
      /\ \/ gcs # None /\ sdk' = gcs /\ pc' = "save" /\ missed' = FALSE
         \/ UNCHANGED sdk /\ pc' = "local" /\ missed' = (gcs # None)
      /\ UNCHANGED << settings, today, gcs, local, pool, attempt, tries, manager, boots >>
  BY DEF DownloadGcs
<1>2. Types'
  BY <1>1 DEF IInv, Types, settings, manager, Loading
<1>3. MastersInv'
  BY <1>1 DEF IInv, MastersInv, Listed
<1>4. GateInv'
  BY <1>1, BootKeepsGates
<1>5. UploadInv'
  <2>1. NoUploads(pool) /\ OneUpload(pool)
    BY <1>1 DEF IInv, UploadInv, Loading
  <2>. QED BY <1>1, <2>1 DEF UploadInv, Unread
<1>. QED BY <1>2, <1>3, <1>4, <1>5 DEF IInv

\* The pool after a step in which no day passes.
LEMMA PoolStays ==
  ASSUME UNCHANGED today, PoolInv(pool')
  PROVE  PoolInv(pool)'
BY DEF PoolInv, Listed

\* The uploads after a step that leaves Cloud Storage alone.
LEMMA UploadsStay ==
  ASSUME UNCHANGED << gcs, missed >>, PoolInv(pool'),
         pc' \in Loading \union {"client", "failed"} => NoUploads(pool'),
         pc' \in {"local", "sdk", "save_and_upload"} \/ ~NoUploads(pool') => Unread
  PROVE  UploadInv'
<1>1. OneUpload(pool)' /\ (NoUploads(pool)' <=> NoUploads(pool')) /\ (Unread' <=> Unread)
  BY DEF PoolInv, OneUpload, NoUploads, Unread
<1>2. pc' \in Loading' \union {"client", "failed"} => NoUploads(pool')
  BY DEF Loading
<1>. QED BY <1>1, <1>2 DEF UploadInv

LEMMA ReadLocalKeeps == ASSUME IInv, ReadLocal PROVE IInv'
<1>1. /\ pc = "local"
      /\ \/ /\ local.is = "good" /\ sdk' = local.master
            /\ pool' = Append(pool, Upload(local.master)) /\ pc' = "manager"
         \/ /\ local.is # "good" /\ UNCHANGED sdk
            /\ pool' = Append(pool, Download(1)) /\ pc' = "sdk"
      /\ UNCHANGED << settings, today, gcs, local, attempt, tries, manager, boots, missed >>
  BY DEF ReadLocal, Submit
<1>2. /\ local.master \in Masters /\ (local.is = "good" => Listed(local.master))
      /\ local \in Files /\ NoUploads(pool) /\ Unread
  BY <1>1 DEF IInv, Types, Files, MastersInv, UploadInv, Loading
<1>3. PoolInv(pool') /\ (pc' = "sdk" => NoUploads(pool'))
  <2>1. CASE local.is = "good" /\ pool' = Append(pool, Upload(local.master))
    BY <1>1, <1>2, <2>1, MasterTypes, JobSubmitted
  <2>2. CASE pool' = Append(pool, Download(1))
    BY <1>2, <2>2, MasterTypes, JobSubmitted
  <2>. QED BY <1>1, <2>1, <2>2
<1>4. PoolInv(pool)'
  BY <1>1, <1>3, PoolStays
<1>5. Types'
  BY <1>1, <1>2, <1>4 DEF IInv, Types, PoolInv, settings, manager, Loading
<1>6. sdk' = None \/ Listed(sdk')
  BY <1>1, <1>2 DEF IInv, MastersInv
<1>7. pc' = "manager" => sdk' # None
  BY <1>1, <1>2, MasterTypes
<1>8. MastersInv'
  BY <1>1, <1>4, <1>6, <1>7 DEF IInv, MastersInv, PoolInv, Listed
<1>9. GateInv'
  BY <1>1, BootKeepsGates
<1>10. UploadInv'
  BY <1>1, <1>2, <1>3, UploadsStay DEF Loading
<1>. QED BY <1>5, <1>8, <1>9, <1>10 DEF IInv

LEMMA SaveKeeps == ASSUME IInv, Save PROVE IInv'
<1>1. /\ pc \in {"save", "save_and_upload"}
      /\ local' \in {local, Good(sdk)} \union Truncated
      /\ (pc = "save" /\ pool' = pool)
           \/ (pc = "save_and_upload" /\ pool' = Append(pool, Upload(sdk)))
      /\ pc' = "manager"
      /\ UNCHANGED << settings, today, gcs, sdk, attempt, tries, manager, boots, missed >>
  BY DEF Save, Submit
<1>2. /\ sdk \in Masters /\ sdk # None /\ Listed(sdk) /\ today \in Nat
      /\ local \in Files /\ (local.is = "good" => Listed(local.master))
      /\ NoUploads(pool) /\ (pc = "save_and_upload" => Unread)
  BY <1>1 DEF IInv, Types, MastersInv, UploadInv, Loading
<1>3. PoolInv(pool') /\ (pc = "save" => NoUploads(pool'))
  BY <1>1, <1>2, MasterTypes, JobSubmitted
<1>4. PoolInv(pool)'
  BY <1>1, <1>3, PoolStays
<1>5. local' \in Files /\ (local'.is = "good" => Listed(local'.master))
  BY <1>1, <1>2, MasterTypes, CutFiles
<1>6. Types'
  BY <1>1, <1>4, <1>5 DEF IInv, Types, PoolInv, settings, manager, Loading
<1>7. MastersInv'
  BY <1>1, <1>2, <1>4, <1>5 DEF IInv, MastersInv, PoolInv, Listed
<1>8. GateInv'
  BY <1>1, BootKeepsGates
<1>9. UploadInv'
  BY <1>1, <1>2, <1>3, UploadsStay DEF Loading
<1>. QED BY <1>6, <1>7, <1>8, <1>9 DEF IInv

LEMMA NextAttemptEffect ==
  ASSUME IInv, NEW jobs, PoolInv(jobs), NoUploads(jobs), NextAttempt(jobs), pc = "sdk"
  PROVE  PoolInv(pool') /\ NoUploads(pool') /\ pc' \in {"sdk", "failed"} /\ attempt' \in Nat
<1>1. attempt \in Nat /\ attempt + 1 \in Nat
  BY DEF IInv, Types
<1>2. Download(attempt + 1) \in Jobs /\ Download(attempt + 1).job = "download"
  BY <1>1, MasterTypes
<1>3. PoolInv(Append(jobs, Download(attempt + 1))) /\ NoUploads(Append(jobs, Download(attempt + 1)))
  BY <1>2, JobSubmitted
<1>. QED BY <1>1, <1>3 DEF NextAttempt

\* The two guards read nothing but the master, the day and how Nubra writes.
LEMMA GuardsRead ==
  ASSUME UNCHANGED settings
  PROVE  /\ MapsComplete(df, built)' <=> MapsComplete(df', built')
         /\ Subscribes(df)' = Subscribes(df')
BY DEF settings, MapsComplete, Subscribes, OptionTokens, OptionByRef, Window, WireStrikes,
       StrikeGaps, StrikeStep, StrikeScale, NiftyFutures, Candidates, Expiries, StockFutures,
       StockFutureAssets, InMaster, Names, Nearest50, Max2, Sides

\* What was passed stays passed while the master and the boot stay where they are.
LEMMA GatesStay ==
  ASSUME IInv, UNCHANGED << settings, manager, pc >>, today' \in {today, today + 1}
  PROVE  GateInv'
<1>1. df' = df /\ built' = built /\ scheduler' = scheduler /\ pc' = pc /\ UNCHANGED settings
  BY DEF manager
<1>2. MapsComplete(df, built)' <=> MapsComplete(df, built)
  BY <1>1, GuardsRead
<1>3. Subscribes(df)' = Subscribes(df)
  BY <1>1, GuardsRead
<1>4. df \in Masters /\ today \in Nat
  BY DEF IInv, Types
<1>5. Listed(df) => Listed(df)'
  BY <1>1, <1>4 DEF Listed, Masters
<1>. QED BY <1>1, <1>2, <1>3, <1>5 DEF IInv, GateInv

LEMMA RunningJob ==
  ASSUME IInv, NEW j \in Running
  PROVE  j \in 1..Len(pool) /\ j \in DOMAIN pool
<1>1. Len(pool) \in Nat /\ PoolSize \in Nat /\ DOMAIN pool = 1..Len(pool)
  BY LenProperties, InstrumentsAssumption DEF IInv, Types, InstrumentsAssumption
<1>. QED BY <1>1 DEF Running

LEMMA DownloadReturnsKeeps ==
  ASSUME IInv, NEW j \in Running, DownloadReturns(j)
  PROVE  IInv'
<1>. DEFINE rest == RemoveAt(pool, j)
<1>1. /\ sdk' \in {sdk, Edition(today)}
      /\ UNCHANGED << settings, today, gcs, local, tries, manager, boots, missed >>
      /\ \/ pc = "sdk" /\ sdk' # None /\ pc' = "save_and_upload" /\ pool' = rest /\ UNCHANGED attempt
         \/ pc = "sdk" /\ sdk' = None /\ NextAttempt(rest)
         \/ pc' = pc /\ pool' = rest /\ UNCHANGED attempt
  BY DEF DownloadReturns
<1>2. PoolInv(rest) /\ (NoUploads(pool) => NoUploads(rest))
  BY RunningJob, MasterTypes, JobDone
<1>. HIDE DEF rest
<1>3. sdk' \in Masters /\ (sdk' = None \/ Listed(sdk')) /\ (sdk # None => sdk' # None)
  BY <1>1, MasterTypes DEF IInv, Types, MastersInv
<1>4. /\ PoolInv(pool') /\ attempt' \in Nat /\ (NoUploads(pool) => NoUploads(pool'))
      /\ pc' = pc \/ (pc = "sdk" /\ pc' \in {"sdk", "failed"})
                  \/ (pc = "sdk" /\ pc' = "save_and_upload" /\ sdk' # None)
  <2>1. attempt \in Nat
    BY DEF IInv, Types
  <2>2. CASE pc = "sdk" /\ NextAttempt(rest)
    <3>1. NoUploads(pool)
      BY <2>2 DEF IInv, UploadInv, Loading
    <3>. QED BY <1>2, <2>2, <3>1, NextAttemptEffect
  <2>. QED BY <1>1, <1>2, <2>1, <2>2
<1>5. PoolInv(pool)'
  BY <1>1, <1>4, PoolStays
<1>6. Types'
  BY <1>1, <1>3, <1>4, <1>5 DEF IInv, Types, PoolInv, settings, manager, Loading
<1>7. MastersInv'
  BY <1>1, <1>3, <1>4, <1>5 DEF IInv, MastersInv, PoolInv, Listed
<1>8. GateInv'
  <2>1. CASE pc' = pc
    BY <1>1, <2>1, GatesStay
  <2>2. CASE pc' # pc
    BY <1>1, <1>4, <2>2, BootKeepsGates
  <2>. QED BY <2>1, <2>2
<1>9. UploadInv'
  BY <1>1, <1>4, UploadsStay DEF IInv, UploadInv, Loading
<1>. QED BY <1>6, <1>7, <1>8, <1>9 DEF IInv

LEMMA UploadEndsKeeps ==
  ASSUME IInv, NEW j \in Running, UploadEnds(j)
  PROVE  IInv'
<1>1. /\ pool[j].job = "upload" /\ gcs' \in {gcs, pool[j].master} /\ pool' = RemoveAt(pool, j)
      /\ UNCHANGED << settings, today, local, sdk, pc, attempt, tries, manager, boots, missed >>
  BY DEF UploadEnds
<1>2. j \in 1..Len(pool) /\ j \in DOMAIN pool
  BY RunningJob
<1>3. PoolInv(RemoveAt(pool, j)) /\ pool[j] \in Jobs /\ NoUploads(RemoveAt(pool, j))
  BY <1>1, <1>2, MasterTypes, JobDone
<1>4. pool[j].master \in Masters /\ Listed(pool[j].master)
  BY <1>1, <1>2, <1>3 DEF Jobs, IInv, MastersInv
<1>5. gcs' \in Masters /\ (gcs' = None \/ Listed(gcs'))
  BY <1>1, <1>4 DEF IInv, Types, MastersInv
<1>6. PoolInv(pool)'
  BY <1>1, <1>3, PoolStays
<1>7. Types'
  BY <1>1, <1>5, <1>6 DEF IInv, Types, PoolInv, settings, manager
<1>8. MastersInv'
  BY <1>1, <1>5, <1>6 DEF IInv, MastersInv, PoolInv, Listed
<1>9. GateInv'
  BY <1>1, GatesStay
<1>10. UploadInv'
  <2>1. pc \notin Loading \union {"client", "failed"}
    BY <1>1, <1>2 DEF IInv, UploadInv, NoUploads
  <2>2. OneUpload(pool)' /\ NoUploads(pool)'
    BY <1>1, <1>3 DEF PoolInv, OneUpload, NoUploads
  <2>. QED BY <1>1, <2>1, <2>2 DEF UploadInv, Loading
<1>. QED BY <1>7, <1>8, <1>9, <1>10 DEF IInv

LEMMA AttemptTimesOutKeeps == ASSUME IInv, AttemptTimesOut PROVE IInv'
<1>1. PICK j \in 1..Len(pool) :
        pool[j] = Download(attempt) /\ NextAttempt(IF j \in Running THEN pool ELSE RemoveAt(pool, j))
  BY DEF AttemptTimesOut
<1>2. pc = "sdk" /\ UNCHANGED << settings, today, gcs, local, sdk, tries, manager, boots, missed >>
  BY DEF AttemptTimesOut
<1>3. NoUploads(pool) /\ Unread
  BY <1>2 DEF IInv, UploadInv, Loading
<1>4. /\ PoolInv(IF j \in Running THEN pool ELSE RemoveAt(pool, j))
      /\ NoUploads(IF j \in Running THEN pool ELSE RemoveAt(pool, j))
  BY <1>3, MasterTypes, JobDone
<1>5. PoolInv(pool') /\ NoUploads(pool') /\ pc' \in {"sdk", "failed"} /\ attempt' \in Nat
  BY <1>1, <1>2, <1>4, NextAttemptEffect
<1>6. PoolInv(pool)'
  BY <1>2, <1>5, PoolStays
<1>7. Types'
  BY <1>2, <1>5, <1>6 DEF IInv, Types, PoolInv, settings, manager, Loading
<1>8. MastersInv'
  BY <1>2, <1>5, <1>6 DEF IInv, MastersInv, PoolInv, Listed
<1>9. GateInv'
  BY <1>2, <1>5, BootKeepsGates
<1>10. UploadInv'
  BY <1>2, <1>3, <1>5, UploadsStay
<1>. QED BY <1>7, <1>8, <1>9, <1>10 DEF IInv

LEMMA TryAgainKeeps == ASSUME IInv, TryAgain PROVE IInv'
<1>1. /\ pc = "failed" /\ tries' = tries + 1 /\ pc' = "client"
      /\ UNCHANGED << settings, today, caches, attempt, manager, boots, missed >>
  BY DEF TryAgain
<1>2. Types' /\ MastersInv'
  BY <1>1 DEF IInv, Types, MastersInv, Listed, settings, caches, manager, Loading
<1>3. GateInv'
  BY <1>1, BootKeepsGates
<1>4. UploadInv'
  BY <1>1 DEF IInv, UploadInv, Unread, OneUpload, NoUploads, Loading, caches
<1>. QED BY <1>2, <1>3, <1>4 DEF IInv

LEMMA BuildManagerKeeps == ASSUME IInv, BuildManager PROVE IInv'
<1>1. /\ pc = "manager"
      /\ \/ local.is = "good" /\ BuiltFrom(local.master) /\ UNCHANGED local
         \/ BuiltFrom(sdk) /\ local' = Good(sdk)
         \/ local' \in Truncated /\ pc' = "error" /\ UNCHANGED << df, built >>
      /\ UNCHANGED << settings, today, gcs, sdk, pool, attempt, tries, scheduler, boots, missed >>
  BY DEF BuildManager
<1>2. /\ sdk \in Masters /\ sdk # None /\ Listed(sdk) /\ today \in Nat \ {0}
      /\ local \in Files /\ (local.is = "good" => Listed(local.master))
      /\ built = 0 /\ scheduler # "started" /\ df \in Masters
  BY <1>1 DEF IInv, Types, MastersInv, GateInv
<1>3. local' \in Files /\ (local'.is = "good" => Listed(local'.master))
  BY <1>1, <1>2, MasterTypes, CutFiles
<1>4. \/ /\ df' \in Masters /\ Listed(df') /\ built' = today
         /\ pc' \in {"error", "ready"} /\ (pc' = "ready" => Subscribes(df') = "ready")
      \/ df' = df /\ built' = 0 /\ pc' = "error"
  <2>1. ASSUME NEW m \in Masters, Listed(m), BuiltFrom(m)
        PROVE  /\ df' = m /\ built' = today
               /\ pc' \in {"error", "ready"} /\ (pc' = "ready" => Subscribes(df') = "ready")
    BY <2>1 DEF BuiltFrom, Subscribes
  <2>2. local.master \in Masters
    BY <1>2 DEF Files
  <2>. QED BY <1>1, <1>2, <2>1, <2>2
<1>5. Types'
  BY <1>1, <1>2, <1>3, <1>4 DEF IInv, Types, settings
<1>6. MastersInv'
  BY <1>1, <1>3, <1>4 DEF IInv, MastersInv, Listed
<1>7. GateInv'
  <2>1. Subscribes(df)' = Subscribes(df')
    BY <1>1, GuardsRead
  <2>. QED BY <1>1, <1>2, <1>4, <2>1 DEF GateInv, Listed
<1>8. UploadInv'
  BY <1>1, <1>4 DEF IInv, UploadInv, Unread, OneUpload, NoUploads, Loading
<1>. QED BY <1>5, <1>6, <1>7, <1>8 DEF IInv

LEMMA GateOpensKeeps == ASSUME IInv, GateOpens PROVE IInv'
<1>1. /\ built > 0 /\ MapsComplete(df, built) /\ scheduler' = "started"
      /\ UNCHANGED << settings, today, caches, pc, attempt, tries, df, built, boots, missed >>
  BY DEF GateOpens
<1>2. Types' /\ MastersInv'
  BY <1>1 DEF IInv, Types, MastersInv, Listed, settings, caches, Loading
<1>3. MapsComplete(df, built)' /\ Subscribes(df)' = Subscribes(df)
  BY <1>1, GuardsRead
<1>4. GateInv'
  BY <1>1, <1>3 DEF IInv, GateInv, Listed
<1>5. UploadInv'
  BY <1>1 DEF IInv, UploadInv, Unread, OneUpload, NoUploads, Loading, caches
<1>. QED BY <1>2, <1>4, <1>5 DEF IInv

LEMMA NextDayKeeps == ASSUME IInv, NextDay PROVE IInv'
<1>1. /\ today' = today + 1
      /\ UNCHANGED << settings, caches, pc, attempt, tries, manager, boots, missed >>
  BY DEF NextDay
<1>2. today \in Nat \ {0}
  BY DEF IInv, Types
<1>3. \A m \in Masters : Listed(m) => 1 <= m.edition /\ m.edition <= today + 1
  BY <1>2 DEF Listed, Masters
<1>4. Types'
  BY <1>1, <1>2 DEF IInv, Types, settings, caches, manager
<1>5. MastersInv'
  <2>1. ASSUME NEW j \in DOMAIN pool, pool[j].job = "upload"
        PROVE  1 <= pool[j].master.edition /\ pool[j].master.edition <= today + 1
    <3>1. pool[j] \in Jobs /\ Listed(pool[j].master)
      BY <2>1, LenProperties, ElementOfSeq DEF IInv, Types, MastersInv
    <3>. QED BY <1>3, <3>1 DEF Jobs
  <2>2. gcs \in Masters /\ sdk \in Masters /\ local.master \in Masters
    BY DEF IInv, Types, Files
  <2>. QED BY <1>1, <1>3, <2>1, <2>2 DEF IInv, MastersInv, Listed, caches
<1>6. GateInv'
  BY <1>1, GatesStay
<1>7. UploadInv'
  BY <1>1 DEF IInv, UploadInv, Unread, OneUpload, NoUploads, Loading, caches
<1>. QED BY <1>4, <1>5, <1>6, <1>7 DEF IInv

LEMMA RestartKeeps == ASSUME IInv, Restart PROVE IInv'
<1>1. /\ boots' = boots + 1 /\ sdk' = None /\ pool' = << >>
      /\ local' = Image \/ UNCHANGED local
           \/ (pc \in {"save", "save_and_upload", "manager"} /\ local' \in Truncated)
      /\ pc' = "client" /\ attempt' = 1 /\ tries' = 1
      /\ df' = None /\ built' = 0 /\ scheduler' = "waiting" /\ missed' = FALSE
      /\ UNCHANGED << settings, today, gcs >>
  BY DEF Restart
<1>2. today \in Nat \ {0}
  BY DEF IInv, Types
<1>3. local' \in Files /\ (local'.is = "good" => Listed(local'.master))
  <2>1. Image \in Files /\ Listed(Image.master)
    BY <1>2 DEF Image, Edition, Whole, Files, Masters, Listed
  <2>2. pc \in {"save", "save_and_upload", "manager"} => sdk # None
    BY DEF IInv, MastersInv
  <2>. QED BY <1>1, <2>1, <2>2, CutFiles DEF IInv, Types, MastersInv
<1>4. << >> \in Seq(Jobs) /\ DOMAIN << >> = {}
  OBVIOUS
<1>5. Types'
  <2>1. missed' \in BOOLEAN
    BY <1>1
  <2>. QED BY <1>1, <1>3, <1>4, <2>1, MasterTypes DEF IInv, Types, settings, Loading
<1>6. MastersInv'
  BY <1>1, <1>3, <1>4 DEF IInv, MastersInv, Listed
<1>7. GateInv'
  BY <1>1 DEF GateInv
<1>8. UploadInv'
  BY <1>1, <1>4 DEF UploadInv, OneUpload, NoUploads
<1>. QED BY <1>5, <1>6, <1>7, <1>8 DEF IInv

LEMMA InitHolds == Init => IInv
<1>. SUFFICES ASSUME Init PROVE IInv
  OBVIOUS
<1>1. /\ << >> \in Seq(Jobs) /\ DOMAIN << >> = {}
      /\ None \in Masters /\ Image \in Files /\ Image.master \in Masters
      /\ Image.master.edition = 1
  BY DEF None, Image, Edition, Whole, Masters, Files
<1>2. Types
  <2>1. missed \in BOOLEAN
    BY DEF Init
  <2>. QED BY <1>1, <2>1 DEF Init, Types, Loading
<1>3. MastersInv
  BY <1>1 DEF Init, MastersInv, Listed
<1>4. GateInv
  BY DEF Init, GateInv
<1>5. UploadInv
  BY <1>1 DEF Init, UploadInv, OneUpload, NoUploads
<1>. QED BY <1>2, <1>3, <1>4, <1>5 DEF IInv

LEMMA NextKeeps == IInv /\ [Next]_vars => IInv'
<1>. SUFFICES ASSUME IInv, [Next]_vars PROVE IInv'
  OBVIOUS
<1>1. CASE UNCHANGED vars
  <2>1. Types' /\ MastersInv'
    BY <1>1 DEF IInv, Types, MastersInv, Listed, vars, settings, caches, manager, Loading
  <2>2. GateInv'
    BY <1>1, GatesStay DEF vars
  <2>3. UploadInv'
    BY <1>1 DEF IInv, UploadInv, Unread, OneUpload, NoUploads, Loading, vars, caches
  <2>. QED BY <2>1, <2>2, <2>3 DEF IInv
<1>2. ASSUME NEW j \in Running, DownloadReturns(j) \/ UploadEnds(j) PROVE IInv'
  BY <1>2, DownloadReturnsKeeps, UploadEndsKeeps
<1>. QED BY <1>1, <1>2, GetClientKeeps, DownloadGcsKeeps, ReadLocalKeeps, SaveKeeps,
            AttemptTimesOutKeeps, TryAgainKeeps, BuildManagerKeeps, GateOpensKeeps,
            NextDayKeeps, RestartKeeps DEF Next

\* A master is where it is only after Nubra has listed it; a service that is ready has
\* passed the minimum of tokens, one whose scheduler has started the gate; and what a process
\* is about to upload it looked for because Cloud Storage did not bring a master.
THEOREM InstrumentsInvariant == Spec => []IInv
BY InitHolds, NextKeeps, PTL DEF Spec

\* The master in Cloud Storage is only ever replaced by a process that did not get to read
\* it, whatever the number of threads, attempts and tries and however late an upload ends.
THEOREM CloudMasterStays == Spec => OnlyUnreadIsReplaced
<1>1. IInv /\ [Next]_vars => [(gcs # None /\ gcs' # gcs) => missed]_vars
  <2>. SUFFICES ASSUME IInv, Next, gcs # None, gcs' # gcs PROVE missed
    OBVIOUS
  <2>1. PICK j \in Running : UploadEnds(j)
    BY DEF Next, GetClient, DownloadGcs, ReadLocal, Save, DownloadReturns, AttemptTimesOut,
           TryAgain, BuildManager, GateOpens, NextDay, Restart, caches
  <2>2. pool[j].job = "upload" /\ j \in DOMAIN pool
    BY <2>1, RunningJob DEF UploadEnds
  <2>. QED BY <2>2 DEF IInv, UploadInv, NoUploads, Unread
<1>. QED BY <1>1, InstrumentsInvariant, PTL DEF Spec, OnlyUnreadIsReplaced

(***************************************************************************)
(* The strikes.                                                            *)
(***************************************************************************)

\* Where two of its strikes are 50 rupees apart, the step of a master and the scale are
\* found out right, in whatever unit the wire is.
LEMMA StepFound ==
  ASSUME NEW m, m.rows.strikes \subseteq Strikes, wire_scale \in {1, 100},
         \E a, b \in m.rows.strikes : b = a + 50
  PROVE  StrikeStep(m) = 50 * wire_scale /\ StrikeScale(m) = wire_scale
<1>. DEFINE apart == StrikeGaps(m)
<1>1. Strikes \subseteq Nat /\ \A s \in Strikes : s % 50 = 0
  BY InstrumentsAssumption DEF InstrumentsAssumption
<1>2. WireStrikes(m) = {s * wire_scale : s \in m.rows.strikes}
  BY DEF WireStrikes
<1>3. 50 * wire_scale \in apart
  <2>1. PICK s, t \in m.rows.strikes : t = s + 50
    OBVIOUS
  <2>2. s * wire_scale \in WireStrikes(m) /\ t * wire_scale \in WireStrikes(m)
    BY <1>2
  <2>3. t * wire_scale - s * wire_scale = 50 * wire_scale /\ 50 * wire_scale \in Nat \ {0}
    <3>1. s \in Nat /\ t \in Nat
      BY <1>1
    <3>. QED BY <2>1, <3>1
  <2>. QED BY <2>2, <2>3 DEF StrikeGaps
<1>4. ASSUME NEW y \in apart PROVE y \in Nat /\ 50 * wire_scale <= y
  <2>1. PICK a, b \in WireStrikes(m) : y = b - a
    BY <1>4 DEF StrikeGaps
  <2>2. PICK s \in m.rows.strikes : a = s * wire_scale
    BY <1>2
  <2>3. PICK t \in m.rows.strikes : b = t * wire_scale
    BY <1>2
  <2>4. s \in Nat /\ t \in Nat /\ s % 50 = 0 /\ t % 50 = 0
    BY <1>1
  <2>5. y \in Nat /\ y > 0 /\ (y = t - s \/ y = 100 * t - 100 * s)
    BY <1>4, <2>1, <2>2, <2>3, <2>4 DEF StrikeGaps
  <2>6. t - s >= 50
    BY <2>4, <2>5
  <2>. QED BY <2>1, <2>2, <2>3, <2>4, <2>5, <2>6
<1>5. StrikeStep(m) = IF apart = {} THEN 50 ELSE CHOOSE x \in apart : \A y \in apart : x <= y
  BY Zenon DEF StrikeStep
<1>. HIDE DEF apart
<1>6. StrikeStep(m) \in apart /\ \A y \in apart : StrikeStep(m) <= y
  <2>1. \E x \in apart : \A y \in apart : x <= y
    BY <1>3, <1>4
  <2>2. StrikeStep(m) = CHOOSE x \in apart : \A y \in apart : x <= y
    BY <1>3, <1>5
  <2>. QED BY <2>1, <2>2, Zenon
<1>7. StrikeStep(m) = 50 * wire_scale
  <2>1. StrikeStep(m) <= 50 * wire_scale /\ 50 * wire_scale <= StrikeStep(m)
        /\ StrikeStep(m) \in Nat
    BY <1>3, <1>4, <1>6
  <2>. QED BY <2>1
<1>8. StrikeScale(m) = wire_scale
  BY <1>7 DEF StrikeScale, Max2
<1>. QED BY <1>7, <1>8

\* The tokens around a price resolve to the strikes they were subscribed for, in rupees and
\* within the radius, whatever the strikes and the cuts, if two strikes that are left are 50
\* rupees apart.
THEOREM TokensResolve == Spec => []RefMapsFollowTokens
<1>1. IInv => RefMapsFollowTokens
  <2>. SUFFICES ASSUME IInv, \E a, b \in df.rows.strikes : b = a + 50, NEW price \in Prices
                PROVE  /\ DOMAIN OptionByRef(df, price) = OptionTokens(df, price)
                       /\ \A t \in OptionTokens(df, price) :
                            /\ OptionByRef(df, price)[t][1] \in df.rows.strikes
                            /\ OptionByRef(df, price)[t][1] - Nearest50(price)
                                 \in (-50 * Radius)..(50 * Radius)
    BY Zenon DEF RefMapsFollowTokens
  <2>. DEFINE near == Nearest50(price)  left == df.rows.strikes
  <2>1. wire_scale \in {1, 100} /\ left \subseteq Strikes
    BY DEF IInv, Types, Masters
  <2>2. StrikeStep(df) = 50 * wire_scale /\ StrikeScale(df) = wire_scale
    BY <2>1, StepFound
  <2>3. Radius \in Nat /\ Strikes \subseteq Nat /\ price \in Nat
    BY InstrumentsAssumption DEF InstrumentsAssumption
  <2>4. near \in Int
    BY <2>3 DEF Nearest50
  <2>. HIDE DEF near, left
  <2>5. DOMAIN OptionByRef(df, price) = OptionTokens(df, price)
    BY DEF OptionByRef, OptionTokens
  <2>6. ASSUME NEW t \in OptionTokens(df, price)
        PROVE  /\ OptionByRef(df, price)[t][1] \in left
               /\ OptionByRef(df, price)[t][1] - near \in (-50 * Radius)..(50 * Radius)
    <3>1. t \in Window(df, price) \X Sides
      BY <2>6 DEF OptionTokens
    <3>2. OptionByRef(df, price)[t][1] = t[1] \div wire_scale
      BY <2>2, <3>1 DEF OptionByRef
    <3>3. /\ t[1] \in {near * wire_scale + i * (50 * wire_scale) : i \in (-Radius)..Radius}
          /\ t[1] \in {s * wire_scale : s \in left}
      BY <2>2, <3>1 DEF Window, WireStrikes, near, left
    <3>4. PICK s \in left : t[1] = s * wire_scale
      BY <3>3
    <3>5. PICK i \in (-Radius)..Radius : t[1] = near * wire_scale + i * (50 * wire_scale)
      BY <3>3
    <3>6. s = near + 50 * i /\ t[1] \div wire_scale = s
      <4>1. s \in Nat /\ i \in Int
        BY <2>1, <2>3
      <4>. QED BY <2>1, <2>4, <3>4, <3>5, <4>1
    <3>7. s - near \in (-50 * Radius)..(50 * Radius)
      BY <2>3, <2>4, <3>5, <3>6
    <3>. QED BY <3>2, <3>4, <3>6, <3>7
  <2>. QED BY <2>5, <2>6 DEF near, left
<1>. QED BY <1>1, InstrumentsInvariant, PTL

=============================================================================
