-------------------------- MODULE ProcessingProofs --------------------------
(***************************************************************************)
(* Theorems about the processing jobs and what they do to a project's      *)
(* recordings (SourceProcessing), for any workers, jobs and recordings.    *)
(***************************************************************************)
EXTENDS SourceProcessing, TLAPS

-----------------------------------------------------------------------------
(* The table of jobs.  A job that was claimed once is never handed out     *)
(* again, so whatever a worker holds or has read as stale was claimed, no  *)
(* two workers hold one job, and a job that was silent stays silent.       *)
Taken(j) == status[j] \notin {"none", "pending"}

HolderIsSound(w) ==
  /\ worker[w].at \in {"run", "complete"} => worker[w].job \in JobId
  /\ worker[w].at \notin {"run", "complete"} => worker[w].job = NoJobId
  /\ worker[w].job # NoJobId => Taken(worker[w].job)
  /\ \A j \in worker[w].stale : Taken(j) /\ ~Beats(j)

OneHolder == \A v, w \in Worker : v # w /\ worker[v].job = worker[w].job
                                    => worker[v].job = NoJobId

JobsInv ==
  /\ JobsTypeOK
  /\ \A w \in Worker : HolderIsSound(w)
  /\ OneHolder

-----------------------------------------------------------------------------
(* A prepared recording is unborn until the row of it is inserted: its job *)
(* is not claimed, or is at work on it.  Nobody knows of one.              *)
Working(w) == worker[w].at = "run"

Unborn(x) ==
  \/ ~Taken(x[1])
  \/ \E w \in Worker : /\ Working(w) /\ Job(w) = x[1]
                       /\ body[w].at = "none" \/ x[2] \in body[w].todo \ body[w].made

Known == rec \cup scan.rec \cup {task[j].rec : j \in JobId}

UnbornAreUnknown == \A x \in Prepared \cap Known : ~Unborn(x)

Preparing == {"write", "parent", "insert", "copy", "saveCopy", "activate",
              "undoRows", "undoFiles"}
Reading   == {"asr", "saveText", "force", "saveWords"}

(* What a copy has read names raw recordings' files, which are there       *)
(* unless the deletion looked what is still named in the meantime.         *)
ReadIsWhole(w) ==
  LET row == body[w].read
  IN  /\ row \in Artifact
      /\ row.text \in {NoRec} \cup Raw /\ row.words \in {NoRec} \cup Raw
      /\ <<Job(w), body[w].now>> \notin crossed =>
           /\ project # "kept"
           /\ row.text \in text \cup {NoRec} /\ row.words \in words \cup {NoRec}

(* The work of w, at each step.                                            *)
WorkIsSound(w) ==
  LET b == body[w]
      OwnRow(r) == <<Job(w), r>> \in rec
  IN  /\ ~Working(w) \/ b.at = "none" => b = NoBody
      /\ b.at \in Preparing =>
           /\ task[Job(w)].kind = "prepare"
           /\ \A r \in Raw : OwnRow(r) => r \in b.made
           /\ planned[Job(w)] \subseteq b.todo \cup b.made
      /\ b.at \in Preparing \ {"undoRows", "undoFiles"} /\ HasBatch =>
           \A r \in b.made : OwnRow(r)
      /\ b.at \in {"write", "parent", "insert"} => b.todo \cap b.made = {}
      /\ b.at \in {"parent", "insert"} => b.now \in b.todo /\ <<Job(w), b.now>> \in audio
      /\ b.at \in {"copy", "saveCopy"} => b.now \in b.made /\ b.todo \cap b.made \subseteq {b.now}
      /\ b.at = "saveCopy" => ReadIsWhole(w)
      /\ b.at = "activate" => b.todo = {}
      /\ b.at = "undoFiles" => \A r \in Raw : ~OwnRow(r)
      /\ b.at \in Reading => task[Job(w)].kind # "prepare" /\ Target(w) \in Recording
      /\ b.at = "saveText" /\ Target(w) \in rec => Target(w) \in text
      /\ b.at = "saveWords" /\ Target(w) \in rec => Target(w) \in words

(* A recording has an artifact, and what that names lies with it, or with  *)
(* a raw one.                                                              *)
NamesAreNear ==
  /\ \A x \in rec : /\ art[x] # NoArtifact
                    /\ art[x].text \in {NoRec, x} \cup Raw /\ art[x].words \in {NoRec, x} \cup Raw
  /\ \A row \in scan.art :
       row.text \in {NoRec} \cup scan.rec \cup Raw /\ row.words \in {NoRec} \cup scan.rec \cup Raw
  /\ scan.text \subseteq scan.rec \cup Raw /\ scan.words \subseteq scan.rec \cup Raw

(* What is to be unlinked is named by no row but one whose copy crossed.   *)
DoomedAreUnnamed ==
  project = "kept" => \A x \in rec \ crossed : art[x] # NoArtifact =>
    art[x].text \notin scan.text /\ art[x].words \notin scan.words

(* What delete_project read covers the raw recordings there are.           *)
ScanCovers ==
  /\ \A j \in scan.jobs : status[j] # "none"
  /\ project = "scanned" => rec \cap Raw \subseteq scan.rec
  /\ project \in {"cleared", "kept"} => rec \cap (Raw \cup scan.rec) = {}
  /\ project \in {"live", "scanned", "cleared"} => crossed = {}

(* The preparation that made group g has nothing left to do but to say so. *)
Settled(g) == Taken(g) /\ \A w \in Worker : Working(w) /\ Job(w) = g => body[w].at = "done"

GroupsAreSettled ==
  /\ active # NoJobId => Settled(active)
  /\ \A j \in JobId : task[j].checked =>
       status[j] # "none" /\ task[j].rec \in Prepared /\ Settled(task[j].rec[1])

Shapes == TypeOK /\ body \in [Worker -> Body] /\ scan \in Scan

IInv ==
  /\ Shapes /\ JobsInv
  /\ UnbornAreUnknown
  /\ \A w \in Worker : WorkIsSound(w)
  /\ NamesAreNear /\ DoomedAreUnnamed /\ ScanCovers /\ GroupsAreSettled
  /\ NamedFilesExist /\ ActiveGroupIsWhole /\ CheckedAlignmentHasText

-----------------------------------------------------------------------------
(* How the table of jobs moves in a step, whatever else the step does.     *)
DeleteJobs(S) ==
  /\ S \subseteq JobId /\ \A j \in S : status[j] # "none"
  /\ SetStatus(S, "deleted")
  /\ UNCHANGED <<claimedBy, worker>>

JobAction ==
  \/ \E w \in Worker : Poll(w) \/ Raises(w) \/ ReadDone(w) \/ Dies(w)
  \/ \E n : Enqueue(n)
  \/ \E S \in SUBSET JobId : DeleteJobs(S)
  \/ UNCHANGED jobVars

(* A worker keeps its job or gives it up, and believes no more than before *)
(* but what is so.                                                         *)
Loosens(w) ==
  /\ worker'[w].job \in {worker[w].job, NoJobId}
  /\ worker'[w].beating => worker[w].beating /\ worker'[w].job = worker[w].job
  /\ worker'[w].at \in {"run", "complete"} =>
       /\ worker[w].at \in {"run", "complete"}
       /\ worker'[w].job = worker[w].job
       /\ worker'[w].at = "run" => worker[w].at = "run"
  /\ worker'[w].at \notin {"run", "complete"} => worker'[w].job = NoJobId
  /\ \A j \in worker'[w].stale : Taken(j) /\ ~Beats(j)

(* A job that was handed out is never anything less again.                 *)
TakenStay == \A j \in JobId :
  /\ Taken(j) => Taken(j)'
  /\ status[j] # "none" => status'[j] # "none"
  /\ status'[j] \in {"pending", "running"} => status[j] \in {"none", "pending", "running"}

LEMMA IdleIsLocal == Idle \in Local
BY JobsAssumption DEF Idle, Local, WorkerAt, NoJobId

LEMMA LooseningKeepsJobs ==
  ASSUME JobsInv, JobsTypeOK', TakenStay, \A w \in Worker : Loosens(w)
  PROVE  JobsInv'
<1>1. \A j \in JobId : Beats(j)' => Beats(j)
  BY DEF Beats, Loosens
<1>2. ASSUME NEW w \in Worker PROVE HolderIsSound(w)'
  <2>1. worker[w] \in Local /\ worker'[w] \in Local
    BY DEF JobsInv, JobsTypeOK
  <2>2. worker'[w].stale \subseteq JobId
    BY <2>1 DEF Local
  <2>3. worker'[w].job # NoJobId => worker'[w].job \in JobId
    BY <2>1, JobsAssumption DEF Local, NoJobId, JobId
  <2>4. worker'[w].job # NoJobId => Taken(worker'[w].job)
    BY DEF Loosens, JobsInv, HolderIsSound
  <2>5. worker'[w].job # NoJobId => Taken(worker[w].job)' /\ worker'[w].job = worker[w].job
    BY <2>3, <2>4 DEF TakenStay, Loosens
  <2>6. \A j \in worker'[w].stale : Taken(j)' /\ ~Beats(j)'
    BY <1>1, <2>2 DEF TakenStay, Loosens
  <2>7. worker'[w].at \in {"run", "complete"} => worker'[w].job \in JobId
    BY DEF Loosens, JobsInv, HolderIsSound
  <2>8. worker'[w].at \notin {"run", "complete"} => worker'[w].job = NoJobId
    BY DEF Loosens
  <2>9. worker'[w].job # NoJobId => Taken(worker[w].job)'
    BY <2>5
  <2>. QED  BY <2>5, <2>6, <2>7, <2>8 DEF HolderIsSound, Taken
<1>3. OneHolder'
  BY DEF OneHolder, JobsInv, Loosens
<1>. QED  BY <1>2, <1>3 DEF JobsInv

(* A worker nobody touches believes what it did.                           *)
LEMMA OthersLoosen ==
  ASSUME JobsInv, NEW w \in Worker, NEW l, worker' = [worker EXCEPT ![w] = l],
         l = Idle \/ Loosens(w)
  PROVE  \A v \in Worker : Loosens(v)
<1>1. ASSUME NEW v \in Worker, worker'[v] = worker[v] PROVE Loosens(v)
  BY <1>1 DEF Loosens, JobsInv, HolderIsSound
<1>2. CASE l = Idle
  <2>1. worker'[w] = Idle
    BY <1>2 DEF JobsInv, JobsTypeOK
  <2>2. Loosens(w)
    BY <2>1 DEF Loosens, Idle
  <2>. QED  BY <1>1, <2>2 DEF JobsInv, JobsTypeOK
<1>3. CASE Loosens(w)
  BY <1>1, <1>3 DEF JobsInv, JobsTypeOK
<1>. QED  BY <1>2, <1>3

(* Rows take a status that is that of a job handed out.                    *)
LEMMA StatusMoves ==
  ASSUME JobsTypeOK, NEW S, NEW s \in Status, SetStatus(S, s)
  PROVE  /\ status' \in [JobId -> Status]
         /\ s \in Terminal \cup {"deleted"} => TakenStay
BY DEF Terminal, SetStatus, JobsTypeOK, TakenStay, Taken

LEMMA FailJobStep ==
  ASSUME JobsInv, NEW w \in Worker, FailJob(w)
  PROVE  JobsInv' /\ TakenStay /\ \A v \in Worker : Loosens(v)
<1>1. status' \in [JobId -> Status] /\ TakenStay
  BY StatusMoves DEF FailJob, JobsInv, Status, Terminal
<1>2. \A v \in Worker : Loosens(v)
  BY OthersLoosen DEF FailJob
<1>3. JobsTypeOK'
  BY <1>1, IdleIsLocal DEF FailJob, JobsInv, JobsTypeOK
<1>. QED  BY <1>1, <1>2, <1>3, LooseningKeepsJobs

LEMMA ReadStaleStep ==
  ASSUME JobsInv, NEW w \in Worker, ReadStale(w)
  PROVE  JobsInv' /\ TakenStay /\ \A v \in Worker : Loosens(v)
<1>1. PICK S \in SUBSET {j \in In("running") : ~Beats(j)} :
        worker' = [worker EXCEPT ![w].at = "sweep", ![w].stale = S]
  BY DEF ReadStale, ReadOverdue
<1>. DEFINE l == [worker[w] EXCEPT !.at = "sweep", !.stale = S]
<1>2. worker[w] \in Local /\ S \subseteq JobId /\ worker[w].at = "idle"
  BY DEF JobsInv, JobsTypeOK, In, ReadStale, ReadOverdue
<1>3. worker' = [worker EXCEPT ![w] = l] /\ l \in Local
  BY <1>1, <1>2 DEF JobsInv, JobsTypeOK, Local, WorkerAt
<1>4. worker[w].job = NoJobId
  BY <1>2 DEF JobsInv, HolderIsSound
<1>5. \A j \in S : Taken(j) /\ ~Beats(j)
  BY DEF In, Taken
<1>6. worker'[w] = l
  BY <1>3 DEF JobsInv, JobsTypeOK
<1>7. l.at = "sweep" /\ l.job = NoJobId /\ l.stale = S /\ l.beating = worker[w].beating
  BY <1>2, <1>4 DEF Local
<1>. HIDE DEF l
<1>8. Loosens(w)
  BY <1>4, <1>5, <1>6, <1>7 DEF Loosens
<1>9. \A v \in Worker : Loosens(v)
  BY <1>3, <1>8, OthersLoosen
<1>10. JobsTypeOK' /\ TakenStay
  BY <1>3 DEF ReadStale, ReadOverdue, JobsInv, JobsTypeOK, TakenStay, Taken
<1>. QED  BY <1>9, <1>10, LooseningKeepsJobs

LEMMA FailStaleStep ==
  ASSUME JobsInv, NEW w \in Worker, FailStale(w)
  PROVE  JobsInv' /\ TakenStay /\ \A v \in Worker : Loosens(v)
<1>1. CASE SetStatus(worker[w].stale, "failed")
             /\ worker' = [worker EXCEPT ![w].at = "claim", ![w].stale = {}]
  <2>. DEFINE l == [worker[w] EXCEPT !.at = "claim", !.stale = {}]
  <2>1. worker[w] \in Local /\ worker[w].at = "sweep"
    BY DEF JobsInv, JobsTypeOK, FailStale
  <2>2. worker' = [worker EXCEPT ![w] = l] /\ l \in Local
    BY <1>1, <2>1 DEF JobsInv, JobsTypeOK, Local, WorkerAt
  <2>3. worker[w].job = NoJobId
    BY <2>1 DEF JobsInv, HolderIsSound
  <2>4. worker'[w] = l
    BY <2>2 DEF JobsInv, JobsTypeOK
  <2>5. l.at = "claim" /\ l.job = NoJobId /\ l.stale = {} /\ l.beating = worker[w].beating
    BY <2>1, <2>3 DEF Local
  <2>. HIDE DEF l
  <2>6. \A v \in Worker : Loosens(v)
    BY <2>2, <2>3, <2>4, <2>5, OthersLoosen DEF Loosens
  <2>7. status' \in [JobId -> Status] /\ TakenStay
    BY <1>1, StatusMoves DEF JobsInv, Status, Terminal
  <2>8. JobsTypeOK'
    BY <2>2, <2>7 DEF FailStale, JobsInv, JobsTypeOK
  <2>. QED  BY <2>6, <2>7, <2>8, LooseningKeepsJobs
<1>2. CASE worker' = [worker EXCEPT ![w] = Idle] /\ UNCHANGED status
  <2>1. JobsTypeOK' /\ TakenStay
    BY <1>2, IdleIsLocal DEF FailStale, JobsInv, JobsTypeOK, TakenStay, Taken
  <2>. QED  BY <1>2, <2>1, OthersLoosen, LooseningKeepsJobs
<1>. QED  BY <1>1, <1>2 DEF FailStale

LEMMA HeartbeatStep ==
  ASSUME JobsInv, NEW w \in Worker, HeartbeatEnds(w)
  PROVE  JobsInv' /\ TakenStay /\ \A v \in Worker : Loosens(v)
<1>. DEFINE l == [worker[w] EXCEPT !.beating = FALSE]
<1>1. worker[w] \in Local /\ HolderIsSound(w)
  BY DEF JobsInv, JobsTypeOK
<1>2. worker' = [worker EXCEPT ![w] = l] /\ l \in Local
  BY <1>1 DEF HeartbeatEnds, JobsInv, JobsTypeOK, Local
<1>3. worker'[w] = l
  BY <1>2 DEF JobsInv, JobsTypeOK
<1>4. l.at = worker[w].at /\ l.job = worker[w].job /\ l.stale = worker[w].stale /\ l.beating = FALSE
  BY <1>1 DEF Local
<1>. HIDE DEF l
<1>5. \A v \in Worker : Loosens(v)
  BY <1>1, <1>2, <1>3, <1>4, OthersLoosen DEF Loosens, HolderIsSound
<1>6. JobsTypeOK' /\ TakenStay
  BY <1>2 DEF HeartbeatEnds, JobsInv, JobsTypeOK, TakenStay, Taken
<1>. QED  BY <1>5, <1>6, LooseningKeepsJobs

LEMMA CompleteStep ==
  ASSUME JobsInv, NEW w \in Worker, Complete(w)
  PROVE  JobsInv' /\ TakenStay /\ \A v \in Worker : Loosens(v)
<1>1. CASE FailJob(w)
  BY <1>1, FailJobStep
<1>2. CASE /\ SetStatus({worker[w].job}, "completed")
           /\ worker' = [worker EXCEPT ![w] = Idle]
           /\ UNCHANGED claimedBy
  <2>1. status' \in [JobId -> Status] /\ TakenStay
    BY <1>2, StatusMoves DEF JobsInv, Status, Terminal
  <2>2. JobsTypeOK'
    BY <1>2, <2>1, IdleIsLocal DEF JobsInv, JobsTypeOK
  <2>. QED  BY <1>2, <2>1, <2>2, OthersLoosen, LooseningKeepsJobs
<1>. QED  BY <1>1, <1>2 DEF Complete

LEMMA ReadDoneStep ==
  ASSUME JobsInv, NEW w \in Worker, ReadDone(w)
  PROVE  JobsInv' /\ TakenStay /\ \A v \in Worker : Loosens(v)
<1>1. CASE FailJob(w)
  BY <1>1, FailJobStep
<1>2. CASE worker' = [worker EXCEPT ![w].at = "complete"] /\ UNCHANGED <<status, claimedBy>>
  <2>. DEFINE l == [worker[w] EXCEPT !.at = "complete"]
  <2>1. worker[w] \in Local /\ HolderIsSound(w) /\ worker[w].at = "run"
    BY DEF JobsInv, JobsTypeOK, ReadDone
  <2>2. worker' = [worker EXCEPT ![w] = l] /\ l \in Local
    BY <1>2, <2>1 DEF JobsInv, JobsTypeOK, Local, WorkerAt
  <2>3. worker'[w] = l
    BY <2>2 DEF JobsInv, JobsTypeOK
  <2>4. /\ l.at = "complete" /\ l.job = worker[w].job
        /\ l.stale = worker[w].stale /\ l.beating = worker[w].beating
    BY <2>1 DEF Local
  <2>. HIDE DEF l
  <2>5. \A v \in Worker : Loosens(v)
    BY <2>1, <2>2, <2>3, <2>4, OthersLoosen DEF Loosens, HolderIsSound
  <2>6. JobsTypeOK' /\ TakenStay
    BY <1>2, <2>2 DEF JobsInv, JobsTypeOK, TakenStay, Taken
  <2>. QED  BY <2>5, <2>6, LooseningKeepsJobs
<1>. QED  BY <1>1, <1>2 DEF ReadDone

LEMMA DiesStep ==
  ASSUME JobsInv, NEW w \in Worker, Dies(w)
  PROVE  JobsInv' /\ TakenStay /\ \A v \in Worker : Loosens(v)
<1>1. JobsTypeOK' /\ TakenStay
  BY IdleIsLocal DEF Dies, JobsInv, JobsTypeOK, TakenStay, Taken
<1>. QED  BY <1>1, OthersLoosen, LooseningKeepsJobs DEF Dies

(* Only the rows change: new jobs, or jobs that are deleted.               *)
LEMMA RowsStep ==
  ASSUME JobsInv, UNCHANGED <<claimedBy, worker>>, status' \in [JobId -> Status], TakenStay
  PROVE  JobsInv' /\ \A v \in Worker : Loosens(v)
<1>1. \A v \in Worker : Loosens(v)
  BY DEF Loosens, JobsInv, HolderIsSound
<1>2. JobsTypeOK'
  BY DEF JobsInv, JobsTypeOK
<1>. QED  BY <1>1, <1>2, LooseningKeepsJobs

LEMMA EnqueueStep ==
  ASSUME JobsInv, NEW n, Enqueue(n)
  PROVE  JobsInv' /\ TakenStay /\ \A v \in Worker : Loosens(v)
<1>1. status' \in [JobId -> Status]
  BY StatusMoves DEF Enqueue, JobsInv, Status
<1>2. TakenStay
  BY DEF Enqueue, SetStatus, NextIds, In, TakenStay, Taken, JobsInv, JobsTypeOK
<1>. QED  BY <1>1, <1>2, RowsStep DEF Enqueue

LEMMA DeleteStep ==
  ASSUME JobsInv, NEW S, DeleteJobs(S)
  PROVE  JobsInv' /\ TakenStay /\ \A v \in Worker : Loosens(v)
<1>1. status' \in [JobId -> Status] /\ TakenStay
  BY StatusMoves DEF DeleteJobs, JobsInv, Status
<1>. QED  BY <1>1, RowsStep DEF DeleteJobs

-----------------------------------------------------------------------------
(* The claim: the job was nobody's, so that nobody else holds it and       *)
(* nobody has read it as stale.                                            *)
Claims(w, j) ==
  /\ j \in JobId /\ status[j] = "pending"
  /\ worker[w].at \in {"idle", "claim"}
  /\ SetStatus({j}, "running")
  /\ claimedBy' = [claimedBy EXCEPT ![j] = w]
  /\ worker' = [worker EXCEPT ![w] = [Idle EXCEPT !.at = "run", !.job = j, !.beating = TRUE]]

LEMMA ClaimsStep ==
  ASSUME JobsInv, NEW w \in Worker, NEW j, Claims(w, j)
  PROVE  JobsInv' /\ TakenStay
<1>. DEFINE l == [Idle EXCEPT !.at = "run", !.job = j, !.beating = TRUE]
<1>1. /\ l \in Local /\ l.at = "run" /\ l.job = j /\ l.stale = {} /\ l.beating = TRUE
      /\ j \in JobId /\ j # NoJobId /\ ~Taken(j)
  <2>1. j \in JobId /\ j # NoJobId /\ ~Taken(j) /\ j \in 0..MaxJobs
    BY JobsAssumption DEF Claims, JobId, NoJobId, Taken
  <2>2. l \in Local
    BY <2>1, IdleIsLocal DEF Local, WorkerAt
  <2>3. l.at = "run" /\ l.job = j /\ l.stale = {} /\ l.beating = TRUE
    BY <2>1, IdleIsLocal DEF Local, Idle
  <2>. QED  BY <2>1, <2>2, <2>3
<1>2. worker' = [worker EXCEPT ![w] = l]
  BY DEF Claims
<1>. HIDE DEF l
<1>3. worker'[w] = l /\ \A v \in Worker \ {w} : worker'[v] = worker[v]
  BY <1>2 DEF JobsInv, JobsTypeOK
<1>4. status' \in [JobId -> Status] /\ TakenStay /\ Taken(j)'
  <2>1. status' \in [JobId -> Status] /\ TakenStay
    BY StatusMoves DEF Claims, JobsInv, Status, SetStatus, TakenStay, Taken
  <2>2. Taken(j)'
    BY <1>1 DEF Claims, SetStatus, Taken
  <2>. QED  BY <2>1, <2>2
<1>5. JobsTypeOK'
  BY <1>1, <1>2, <1>4 DEF Claims, JobsInv, JobsTypeOK
<1>6. \A v \in Worker : worker[v].job # j /\ j \notin worker[v].stale
  BY <1>1 DEF JobsInv, HolderIsSound
<1>7. \A k \in JobId \ {j} : Beats(k)' => Beats(k)
  BY <1>1, <1>3 DEF Beats
<1>8. ASSUME NEW v \in Worker PROVE HolderIsSound(v)'
  <2>1. CASE v = w
    BY <1>1, <1>3, <1>4, <2>1 DEF HolderIsSound, Taken
  <2>2. CASE v # w
    <3>1. worker'[v] = worker[v] /\ HolderIsSound(v) /\ worker[v] \in Local
      BY <1>3, <2>2 DEF JobsInv, JobsTypeOK
    <3>2. worker[v].stale \subseteq JobId \ {j}
      BY <1>6, <3>1 DEF Local
    <3>3. \A k \in worker[v].stale : Taken(k)' /\ ~Beats(k)'
      BY <1>4, <1>7, <3>1, <3>2 DEF HolderIsSound, TakenStay
    <3>4. worker[v].job # NoJobId => Taken(worker[v].job)'
      <4>1. worker[v].job # NoJobId => worker[v].job \in JobId /\ Taken(worker[v].job)
        BY <3>1, JobsAssumption DEF HolderIsSound, Local, JobId, NoJobId
      <4>2. worker[v].job # NoJobId => status'[worker[v].job] \notin {"none", "pending"}
        BY <1>4, <4>1 DEF TakenStay, Taken
      <4>. QED  BY <3>1, <4>2 DEF Taken
    <3>. QED  BY <3>1, <3>3, <3>4 DEF HolderIsSound, Taken
  <2>. QED  BY <2>1, <2>2
<1>9. OneHolder'
  BY <1>1, <1>3, <1>6 DEF JobsInv, OneHolder
<1>. QED  BY <1>4, <1>5, <1>8, <1>9 DEF JobsInv

LEMMA ClaimStep ==
  ASSUME JobsInv, NEW w \in Worker, Claim(w)
  PROVE  \/ \E j \in JobId : Claims(w, j)
         \/ JobsInv' /\ TakenStay /\ (\A v \in Worker : Loosens(v)) /\ UNCHANGED <<status, claimedBy>>
<1>1. CASE worker' = [worker EXCEPT ![w] = Idle] /\ UNCHANGED <<status, claimedBy>>
  <2>1. JobsTypeOK' /\ TakenStay
    BY <1>1, IdleIsLocal DEF JobsInv, JobsTypeOK, TakenStay, Taken
  <2>. QED  BY <1>1, <2>1, OthersLoosen, LooseningKeepsJobs
<1>2. ASSUME NEW j \in Oldest(In("pending")),
             /\ SetStatus({j}, "running")
             /\ claimedBy' = [claimedBy EXCEPT ![j] = w]
             /\ worker' = [worker EXCEPT ![w] =
                  [Idle EXCEPT !.at = "run", !.job = j, !.beating = TRUE]]
      PROVE  j \in JobId /\ Claims(w, j)
  BY <1>2 DEF Claim, Claims, Oldest, In
<1>. QED  BY <1>1, <1>2 DEF Claim, ClaimFrom

(* However the jobs move, what holds of them still does; who works on a    *)
(* job worked on it before, or has just claimed it.                        *)
LEMMA JobActionKeeps ==
  ASSUME JobsInv, JobAction
  PROVE  /\ JobsInv' /\ TakenStay
         /\ \/ \E w \in Worker, j \in JobId : Claims(w, j)
            \/ \A w \in Worker : Loosens(w)
<1>1. ASSUME NEW w \in Worker, Poll(w) PROVE
         /\ JobsInv' /\ TakenStay
         /\ \/ \E j \in JobId : Claims(w, j)
            \/ \A v \in Worker : Loosens(v)
  BY <1>1, ReadStaleStep, FailStaleStep, ClaimStep, ClaimsStep, HeartbeatStep, CompleteStep DEF Poll
<1>2. CASE UNCHANGED jobVars
  <2>1. TakenStay /\ status' \in [JobId -> Status]
    BY <1>2 DEF jobVars, JobsInv, JobsTypeOK, TakenStay, Taken
  <2>. QED  BY <1>2, <2>1, RowsStep DEF jobVars
<1>. QED  BY <1>1, <1>2, FailJobStep, ReadDoneStep, DiesStep, EnqueueStep, DeleteStep DEF JobAction, Raises

-----------------------------------------------------------------------------
(* Every move of the table is one that JobLifecycle has: the verdict of a  *)
(* job, whoever gives it, is given to a job that was handed out.           *)
LifeStep == [Lifecycle!Next]_<<status, claimedBy>>

LEMMA SettleStep ==
  ASSUME JobsTypeOK, NEW S \in SUBSET JobId, NEW v \in Terminal,
         \A j \in S : status[j] \in Terminal \cup {"running"},
         SetStatus(S, v), UNCHANGED claimedBy
  PROVE  LifeStep
<1>1. Lifecycle!Settle(S, v)
  BY DEF Lifecycle!Settle, Lifecycle!Move, Lifecycle!Terminal, Lifecycle!JobId, SetStatus, Terminal, JobId
<1>2. S \in SUBSET Lifecycle!JobId /\ v \in Lifecycle!Terminal
  BY DEF Lifecycle!JobId, Lifecycle!Terminal, JobId, Terminal
<1>. QED  BY <1>1, <1>2 DEF LifeStep, Lifecycle!Next

LEMMA SettleTaken ==
  ASSUME JobsTypeOK, NEW S \in SUBSET JobId, NEW v \in Terminal,
         \A j \in S : Taken(j) /\ Exists(j),
         SetStatus(S, v), UNCHANGED claimedBy
  PROVE  LifeStep
<1>1. \A j \in S : status[j] \in Terminal \cup {"running"}
  BY DEF Taken, Exists, JobsTypeOK, Status
<1>. QED  BY <1>1, SettleStep

LEMMA HeldIsTaken ==
  ASSUME JobsInv, NEW w \in Worker, worker[w].at \in {"run", "complete"}
  PROVE  worker[w].job \in JobId /\ Taken(worker[w].job)
BY JobsAssumption DEF JobsInv, HolderIsSound, JobId, NoJobId

LEMMA FailJobLife ==
  ASSUME JobsInv, NEW w \in Worker, worker[w].at \in {"run", "complete"}, FailJob(w)
  PROVE  LifeStep
<1>. DEFINE S == {j \in {worker[w].job} : Exists(j)}
<1>1. S \in SUBSET JobId /\ \A j \in S : Taken(j) /\ Exists(j)
  BY HeldIsTaken
<1>. QED  BY <1>1, SettleTaken DEF FailJob, JobsInv, Terminal

LEMMA PollLife ==
  ASSUME JobsInv, NEW w \in Worker, Poll(w)
  PROVE  LifeStep
<1>1. CASE FailStale(w)
  <2>1. worker[w].stale \in SUBSET JobId /\ \A j \in worker[w].stale : Taken(j)
    BY DEF JobsInv, JobsTypeOK, Local, HolderIsSound
  <2>2. CASE SetStatus(worker[w].stale, "failed") /\ \A j \in worker[w].stale : Exists(j)
    BY <1>1, <2>1, <2>2, SettleTaken DEF FailStale, JobsInv, Terminal
  <2>3. CASE UNCHANGED status
    BY <1>1, <2>3 DEF FailStale, LifeStep
  <2>. QED  BY <1>1, <2>2, <2>3 DEF FailStale
<1>2. CASE Complete(w)
  <2>1. worker[w].job \in JobId /\ Taken(worker[w].job)
    BY <1>2, HeldIsTaken DEF Complete
  <2>2. CASE FailJob(w)
    BY <1>2, <2>2, FailJobLife DEF Complete
  <2>3. CASE Exists(worker[w].job) /\ SetStatus({worker[w].job}, "completed") /\ UNCHANGED claimedBy
    BY <2>1, <2>3, SettleTaken DEF JobsInv, Terminal
  <2>. QED  BY <1>2, <2>2, <2>3 DEF Complete
<1>3. ASSUME NEW j \in JobId, Claims(w, j) PROVE LifeStep
  <2>1. Lifecycle!Claim(j, w) /\ j \in Lifecycle!JobId
    BY <1>3 DEF Claims, SetStatus, Lifecycle!Claim, Lifecycle!Move, Lifecycle!JobId, JobId
  <2>. QED  BY <2>1 DEF LifeStep, Lifecycle!Next
<1>4. CASE UNCHANGED <<status, claimedBy>>
  BY <1>4 DEF LifeStep
<1>. QED  BY <1>1, <1>2, <1>3, <1>4, ClaimStep DEF Poll, ReadStale, ReadOverdue, HeartbeatEnds

LEMMA JobActionLife ==
  ASSUME JobsInv, JobAction
  PROVE  LifeStep
<1>1. ASSUME NEW w \in Worker, ReadDone(w) PROVE LifeStep
  BY <1>1, FailJobLife DEF ReadDone, LifeStep
<1>2. ASSUME NEW n, Enqueue(n) PROVE LifeStep
  <2>1. NextIds(n) \in SUBSET JobId /\ \A j \in NextIds(n) : status[j] = "none"
    BY DEF NextIds, In
  <2>2. Lifecycle!Enqueue(NextIds(n)) /\ NextIds(n) \in SUBSET Lifecycle!JobId
    BY <1>2, <2>1 DEF Enqueue, SetStatus, Lifecycle!Enqueue, Lifecycle!Move, Lifecycle!JobId, JobId
  <2>. QED  BY <2>2 DEF LifeStep, Lifecycle!Next
<1>3. ASSUME NEW S \in SUBSET JobId, DeleteJobs(S) PROVE LifeStep
  <2>1. Lifecycle!Delete(S) /\ S \in SUBSET Lifecycle!JobId
    BY <1>3 DEF DeleteJobs, SetStatus, Lifecycle!Delete, Lifecycle!Move, Lifecycle!JobId, JobId
  <2>. QED  BY <2>1 DEF LifeStep, Lifecycle!Next
<1>4. ASSUME NEW w \in Worker, Poll(w) \/ Raises(w) \/ Dies(w) PROVE LifeStep
  BY <1>4, PollLife, FailJobLife DEF Raises, Dies, LifeStep
<1>5. CASE UNCHANGED jobVars
  BY <1>5 DEF jobVars, LifeStep
<1>. QED  BY <1>1, <1>2, <1>3, <1>4, <1>5 DEF JobAction

-----------------------------------------------------------------------------
(* Only a sweep that has read a job as silent, or the worker of the job,   *)
(* fails it.                                                               *)
NotSwept == \A w \in Worker, j \in JobId :
  worker[w].job = j /\ worker[w].beating /\ status[j] = "running"
    /\ status'[j] = "failed" => worker'[w].job # j

LEMMA NotSweptStep ==
  ASSUME JobsInv, JobAction
  PROVE  NotSwept
<1>. SUFFICES ASSUME NEW w \in Worker, NEW j \in JobId, worker[w].job = j, worker[w].beating,
                     status[j] = "running", status'[j] = "failed"
              PROVE  worker'[w].job # j
  BY DEF NotSwept
<1>1. j # NoJobId
  BY JobsAssumption DEF JobId, NoJobId
<1>2. ASSUME NEW v \in Worker, FailJob(v) PROVE worker'[w].job # j
  <2>1. worker[v].job = j
    BY <1>2 DEF FailJob, SetStatus
  <2>2. v = w
    BY <1>1, <2>1 DEF JobsInv, OneHolder
  <2>3. worker'[w] = Idle
    BY <1>2, <2>2 DEF FailJob, JobsInv, JobsTypeOK
  <2>. QED  BY <1>1, <2>3 DEF Idle
<1>3. ASSUME NEW v \in Worker, FailStale(v) PROVE FALSE
  <2>1. j \in worker[v].stale
    BY <1>3 DEF FailStale, SetStatus
  <2>. QED  BY <2>1 DEF JobsInv, HolderIsSound, Beats
<1>4. ASSUME NEW v \in Worker, Complete(v) PROVE worker'[w].job # j
  <2>1. CASE SetStatus({worker[v].job}, "completed")
    BY <2>1 DEF SetStatus
  <2>. QED  BY <1>2, <1>4, <2>1 DEF Complete
<1>5. ASSUME NEW v \in Worker, NEW k, Claims(v, k) PROVE FALSE
  BY <1>5 DEF Claims, SetStatus
<1>6. ASSUME NEW n, Enqueue(n) PROVE FALSE
  BY <1>6 DEF Enqueue, SetStatus
<1>7. ASSUME NEW S, DeleteJobs(S) PROVE FALSE
  BY <1>7 DEF DeleteJobs, SetStatus
<1>8. ~UNCHANGED status
  OBVIOUS
<1>9. ASSUME NEW v \in Worker, Poll(v) PROVE worker'[w].job # j
  BY <1>3, <1>4, <1>5, <1>8, <1>9, ClaimStep DEF Poll, ReadStale, ReadOverdue, HeartbeatEnds
<1>. QED  BY <1>2, <1>6, <1>7, <1>8, <1>9 DEF JobAction, jobVars, Raises, ReadDone, Dies

-----------------------------------------------------------------------------
(* What a step may do to the work of v that is not its own.                *)
BodyMoves(v) ==
  Working(v)' =>
    \/ /\ Working(v) /\ worker'[v].job = worker[v].job
       /\ body[v].at = "done" => body'[v].at = "done"
       /\ body[v].at # "none" =>
            /\ body'[v].at # "none"
            /\ body'[v].todo \ body'[v].made \subseteq body[v].todo \ body[v].made
    \/ worker'[v].job \in JobId /\ ~Taken(worker'[v].job)

LEMMA UnbornStays ==
  ASSUME TakenStay, \A v \in Worker : BodyMoves(v), NEW x \in Prepared, Unborn(x)'
  PROVE  Unborn(x)
<1>1. x[1] \in JobId
  BY DEF Prepared
<1>2. CASE ~Taken(x[1])'
  BY <1>1, <1>2 DEF TakenStay, Unborn, Taken
<1>3. ASSUME NEW v \in Worker, Working(v)', worker'[v].job = x[1],
             body'[v].at = "none" \/ x[2] \in body'[v].todo \ body'[v].made
      PROVE  Unborn(x)
  BY <1>3 DEF BodyMoves, Unborn, Job
<1>. QED  BY <1>2, <1>3 DEF Unborn, Job

LEMMA UnknownStays ==
  ASSUME UnbornAreUnknown, TakenStay, \A v \in Worker : BodyMoves(v),
         \A x \in Prepared \cap Known' : x \in Known \/ ~Unborn(x)'
  PROVE  UnbornAreUnknown'
BY UnbornStays DEF UnbornAreUnknown, Prepared

LEMMA SettledStays ==
  ASSUME TakenStay, \A v \in Worker : BodyMoves(v), NEW g \in JobId, Settled(g)
  PROVE  Settled(g)'
<1>1. Taken(g)'
  BY DEF Settled, TakenStay
<1>2. ASSUME NEW v \in Worker, Working(v)', worker'[v].job = g PROVE body'[v].at = "done"
  BY <1>2 DEF Settled, BodyMoves, Job
<1>. QED  BY <1>1, <1>2 DEF Settled, Job, Taken

LEMMA GroupsStaySettled ==
  ASSUME Shapes, GroupsAreSettled, TakenStay, \A v \in Worker : BodyMoves(v),
         active' \in {active, NoJobId}, UNCHANGED task
  PROVE  GroupsAreSettled'
<1>1. active' # NoJobId => Settled(active)'
  <2>1. CASE active' = active /\ active # NoJobId
    <3>1. active \in JobId /\ Settled(active)
      BY <2>1 DEF Shapes, TypeOK, GroupsAreSettled
    <3>2. PICK g \in JobId : g = active
      BY <3>1
    <3>3. Settled(g)'
      BY <3>1, <3>2, SettledStays
    <3>. QED  BY <2>1, <3>2, <3>3 DEF Settled, Taken, Job, Working
  <2>. QED  BY <2>1
<1>2. ASSUME NEW j \in JobId, task'[j].checked
      PROVE  status'[j] # "none" /\ task'[j].rec \in Prepared /\ Settled(task[j].rec[1])'
  <2>1. status[j] # "none" /\ task[j].rec \in Prepared /\ Settled(task[j].rec[1])
    BY <1>2 DEF GroupsAreSettled
  <2>2. PICK g \in JobId : g = task[j].rec[1]
    BY <2>1 DEF Prepared
  <2>3. Settled(g)'
    BY <2>1, <2>2, SettledStays
  <2>. QED  BY <2>1, <2>2, <2>3 DEF TakenStay, Settled, Taken, Job, Working
<1>. QED  BY <1>1, <1>2 DEF GroupsAreSettled, Settled, Taken, Job, Working

(* What v relies on is left to it.                                         *)
Spares(v) ==
  /\ HasBatch' => HasBatch
  /\ \A r \in Raw : <<Job(v), r>> \in rec' => <<Job(v), r>> \in rec
  /\ HasBatch' => \A r \in Raw : <<Job(v), r>> \in rec => <<Job(v), r>> \in rec'
  /\ body[v].at \in {"parent", "insert"} =>
       (<<Job(v), body[v].now>> \in audio => <<Job(v), body[v].now>> \in audio')
  /\ body[v].at = "saveCopy" /\ <<Job(v), body[v].now>> \notin crossed' =>
       /\ <<Job(v), body[v].now>> \notin crossed /\ (project # "kept" => project' # "kept")
       /\ text \subseteq text' /\ words \subseteq words'
  /\ body[v].at = "saveText" /\ Target(v) \in rec' =>
       Target(v) \in rec /\ (Target(v) \in text => Target(v) \in text')
  /\ body[v].at = "saveWords" /\ Target(v) \in rec' =>
       Target(v) \in rec /\ (Target(v) \in words => Target(v) \in words')
  /\ task'[Job(v)] = task[Job(v)] /\ planned'[Job(v)] = planned[Job(v)]

LEMMA SparedWork ==
  ASSUME Shapes, NEW v \in Worker, WorkIsSound(v), Working(v), Working(v)',
         worker'[v].job = worker[v].job, worker[v].job \in JobId, body'[v] = body[v], Spares(v)
  PROVE  WorkIsSound(v)'
<1>. DEFINE b == body[v]
            j == worker[v].job
<1>1. b \in Body
  BY DEF Shapes, TypeOK
<1>2. /\ task'[j] = task[j] /\ planned'[j] = planned[j]
      /\ HasBatch' => HasBatch
      /\ \A r \in Raw : <<j, r>> \in rec' => <<j, r>> \in rec
      /\ HasBatch' => \A r \in Raw : <<j, r>> \in rec => <<j, r>> \in rec'
  BY DEF Spares, Job
<1>3. b.made \subseteq Raw
  BY <1>1 DEF Body
<1>4. b.at \in Preparing =>
           /\ task'[j].kind = "prepare"
           /\ \A r \in Raw : <<j, r>> \in rec' => r \in b.made
           /\ planned'[j] \subseteq b.todo \cup b.made
  BY <1>2 DEF WorkIsSound, Job
<1>5. b.at \in Preparing \ {"undoRows", "undoFiles"} /\ HasBatch' => \A r \in b.made : <<j, r>> \in rec'
  BY <1>2, <1>3 DEF WorkIsSound, Job
<1>6. /\ b.at \in {"write", "parent", "insert"} => b.todo \cap b.made = {}
      /\ b.at \in {"parent", "insert"} => b.now \in b.todo /\ <<j, b.now>> \in audio'
      /\ b.at \in {"copy", "saveCopy"} => b.now \in b.made /\ b.todo \cap b.made \subseteq {b.now}
      /\ b.at = "activate" => b.todo = {}
  BY DEF WorkIsSound, Spares, Job
<1>7. b.at = "undoFiles" => \A r \in Raw : <<j, r>> \notin rec'
  BY <1>2 DEF WorkIsSound, Job
<1>8. /\ b.at \in Reading => task'[j].kind # "prepare" /\ task'[j].rec \in Recording
      /\ b.at = "saveText" /\ task'[j].rec \in rec' => task'[j].rec \in text'
      /\ b.at = "saveWords" /\ task'[j].rec \in rec' => task'[j].rec \in words'
  BY <1>2 DEF WorkIsSound, Spares, Target, Job
<1>9. Working(v)' /\ body'[v] = b /\ worker'[v].job = j /\ (b.at = "none" => b = NoBody)
  BY DEF WorkIsSound
<1>10. b.at = "saveCopy" => ReadIsWhole(v)'
  BY DEF WorkIsSound, ReadIsWhole, Spares, Job
<1>. HIDE DEF b, j
<1>. QED  BY <1>4, <1>5, <1>6, <1>7, <1>8, <1>9, <1>10 DEF WorkIsSound, Target, Job

(* A worker that does not work has nothing in hand.                        *)
LEMMA RestingIsSound ==
  ASSUME NEW v \in Worker, body'[v] = NoBody
  PROVE  WorkIsSound(v)'
BY DEF WorkIsSound, NoBody, Preparing, Reading

-----------------------------------------------------------------------------
(* Every step of the project is a move of the jobs.                        *)
LEMMA NextMovesJobs ==
  ASSUME IInv, Next
  PROVE  JobAction
<1>1. ASSUME NEW S, NEW kind, NEW checked, EnqueueFor(S, kind, checked) PROVE JobAction
  BY <1>1 DEF EnqueueFor, JobAction
<1>2. CASE DeleteRows
  <2>1. DeleteJobs(scan.jobs) /\ scan.jobs \in SUBSET JobId
    BY <1>2 DEF DeleteRows, DeleteJobs, IInv, ScanCovers, Shapes, Scan
  <2>. QED  BY <2>1 DEF JobAction
<1>3. ASSUME NEW w \in Worker, UndoRows(w) PROVE JobAction
  <2>. DEFINE dead == OfJob(w, body[w].made) \cap rec
              S == {j \in JobId : Exists(j) /\ task[j].rec \in dead}
  <2>1. SetStatus(S, "deleted") /\ UNCHANGED <<claimedBy, worker>>
    BY <1>3 DEF UndoRows
  <2>2. S \in SUBSET JobId /\ \A j \in S : status[j] # "none"
    BY DEF Exists
  <2>. HIDE DEF S
  <2>. QED  BY <2>1, <2>2 DEF JobAction, DeleteJobs
<1>4. ASSUME NEW w \in Worker, Polls(w) \/ Done(w) \/ Throws(w) \/ Crashes(w) PROVE JobAction
  BY <1>4 DEF Polls, Done, Throws, Crashes, JobAction
<1>5. ASSUME NEW w \in Worker, Refused(w) \/ UndoFiles(w) \/ SaveText(w) PROVE JobAction
  BY <1>5 DEF Refused, UndoFiles, SaveText, JobAction
<1>6. ASSUME NEW w \in Worker,
             \/ Begins(w) \/ WriteWav(w) \/ ReadParent(w) \/ InsertRow(w)
             \/ ReadArtifact(w) \/ SaveCopy(w) \/ Activate(w)
             \/ WriteText(w) \/ WriteWords(w) \/ SaveWords(w)
      PROVE  JobAction
  BY <1>6 DEF Begins, WriteWav, ReadParent, InsertRow, ReadArtifact, SaveCopy, Activate, WriteText, WriteWords,
              SaveWords, JobAction
<1>7. CASE ReadProject \/ KeepNamed \/ DeleteFiles
  BY <1>7 DEF ReadProject, KeepNamed, DeleteFiles, JobAction
<1>. QED  BY <1>1, <1>2, <1>3, <1>4, <1>5, <1>6, <1>7
          DEF Next, Client, Work, EnqueuePreparation, EnqueueTranscription, EnqueueAlignment, EnqueueOne

(* A worker at work keeps its job, has just claimed one, or has given it   *)
(* up; none of the jobs but one is at work in two places.                  *)
LEMMA WhoWorks ==
  ASSUME JobsInv, JobAction, NEW v \in Worker, Working(v)'
  PROVE  \/ Working(v) /\ worker'[v].job = worker[v].job /\ worker[v].job \in JobId
         \/ ~Working(v) /\ worker'[v].job \in JobId /\ ~Taken(worker'[v].job)
<1>1. CASE \A w \in Worker : Loosens(w)
  BY <1>1 DEF Loosens, Working, JobsInv, HolderIsSound
<1>2. ASSUME NEW w \in Worker, NEW j \in JobId, Claims(w, j)
      PROVE  \/ Working(v) /\ worker'[v].job = worker[v].job /\ worker[v].job \in JobId
             \/ ~Working(v) /\ worker'[v].job \in JobId /\ ~Taken(worker'[v].job)
  <2>1. CASE v # w
    <3>1. worker'[v] = worker[v]
      BY <1>2, <2>1 DEF Claims, JobsInv, JobsTypeOK
    <3>. QED  BY <3>1 DEF Working, JobsInv, HolderIsSound
  <2>2. CASE v = w
    <3>1. worker'[v] = [Idle EXCEPT !.at = "run", !.job = j, !.beating = TRUE]
      BY <1>2, <2>2 DEF Claims, JobsInv, JobsTypeOK
    <3>2. worker'[v].job = j
      BY <3>1 DEF Idle
    <3>. QED  BY <1>2, <2>2, <3>2 DEF Claims, Taken, Working
  <2>. QED  BY <2>1, <2>2
<1>. QED  BY <1>1, <1>2, JobActionKeeps

LEMMA OthersHoldOthers ==
  ASSUME JobsInv, NEW v \in Worker, NEW w \in Worker, v # w, Working(v), Working(w)
  PROVE  worker[v].job # worker[w].job
BY JobsAssumption DEF JobsInv, OneHolder, HolderIsSound, Working, JobId, NoJobId

-----------------------------------------------------------------------------
(* A step of the jobs alone.                                               *)
LEMMA JobsOnlyStep ==
  ASSUME IInv, JobAction, UNCHANGED <<dataVars, task, planned>>, body' \in [Worker -> Body],
         \A v \in Worker : body'[v] = IF Working(v)' THEN body[v] ELSE NoBody,
         \A j \in JobId : status[j] = "none" => status'[j] = "none"
  PROVE  IInv'
<1>1. JobsInv' /\ TakenStay
  BY JobActionKeeps DEF IInv
<1>2. ASSUME NEW v \in Worker PROVE BodyMoves(v)
  BY WhoWorks DEF IInv, BodyMoves
<1>3. Shapes'
  BY <1>1 DEF IInv, Shapes, TypeOK, JobsInv, dataVars
<1>4. UnbornAreUnknown'
  BY <1>1, <1>2, UnknownStays DEF IInv, Known, dataVars
<1>5. ASSUME NEW v \in Worker PROVE WorkIsSound(v)'
  <2>1. CASE Working(v) /\ Working(v)'
    <3>1. worker'[v].job = worker[v].job /\ worker[v].job \in JobId /\ body'[v] = body[v]
      BY <2>1, WhoWorks DEF IInv
    <3>2. Spares(v)
      BY DEF Spares, dataVars, HasBatch, Target, Job
    <3>. QED  BY <2>1, <3>1, <3>2, SparedWork DEF IInv
  <2>2. CASE ~(Working(v) /\ Working(v)')
    <3>1. body'[v] = NoBody
      BY <2>2 DEF IInv, WorkIsSound
    <3>. QED  BY <3>1, RestingIsSound
  <2>. QED  BY <2>1, <2>2
<1>6. NamesAreNear' /\ DoomedAreUnnamed' /\ NamedFilesExist' /\ ActiveGroupIsWhole'
  BY DEF IInv, dataVars, NamesAreNear, DoomedAreUnnamed, NamedFilesExist, ActiveGroupIsWhole, HasBatch
<1>7. ScanCovers'
  BY <1>1 DEF IInv, dataVars, ScanCovers, TakenStay, Shapes, Scan
<1>8. GroupsAreSettled'
  BY <1>1, <1>2, GroupsStaySettled DEF IInv, dataVars
<1>9. CheckedAlignmentHasText'
  BY <1>1 DEF IInv, dataVars, CheckedAlignmentHasText, In, TakenStay, HasBatch, HasText
<1>. QED  BY <1>1, <1>3, <1>4, <1>5, <1>6, <1>7, <1>8, <1>9 DEF IInv

LEMMA NoBodyIsBody == NoBody \in Body
BY DEF NoBody, Body, Step, Row

LEMMA PollsStep == ASSUME IInv, NEW w \in Worker, Polls(w) PROVE IInv'
<1>1. JobAction
  BY DEF Polls, JobAction
<1>2. \A j \in JobId : status[j] = "none" => status'[j] = "none"
  <2>1. ASSUME NEW S, NEW s, SetStatus(S, s), \A j \in S : status[j] # "none",
               NEW j \in JobId, status[j] = "none"
        PROVE  status'[j] = "none"
    BY <2>1 DEF SetStatus
  <2>2. \A j \in worker[w].stale : status[j] # "none"
    BY DEF IInv, JobsInv, HolderIsSound, Taken
  <2>3. CASE FailStale(w)
    BY <2>1, <2>2, <2>3 DEF FailStale
  <2>4. CASE Complete(w)
    <3>1. ASSUME FailJob(w), NEW j \in JobId, status[j] = "none" PROVE status'[j] = "none"
      BY <2>1, <3>1 DEF FailJob, Exists
    <3>. QED  BY <2>1, <2>4, <3>1 DEF Complete, Exists
  <2>5. ASSUME NEW k \in JobId, Claims(w, k), NEW j \in JobId, status[j] = "none"
        PROVE  status'[j] = "none"
    BY <2>5 DEF Claims, SetStatus
  <2>. QED  BY <2>3, <2>4, <2>5, ClaimStep DEF Polls, Poll, ReadStale, ReadOverdue, HeartbeatEnds, IInv
<1>3. ASSUME NEW v \in Worker, Working(v) PROVE Working(v)'
  <2>1. CASE v # w
    BY <1>3, <2>1 DEF Polls, Poll, ReadStale, ReadOverdue, FailStale, Claim, ClaimFrom, HeartbeatEnds,
                      Complete, FailJob, Working, IInv, JobsInv, JobsTypeOK
  <2>2. CASE v = w
    <3>1. worker[w].at = "run" /\ worker[w] \in Local
      BY <1>3, <2>2 DEF Working, IInv, JobsInv, JobsTypeOK
    <3>2. HeartbeatEnds(w)
      BY <3>1 DEF Polls, Poll, ReadStale, ReadOverdue, FailStale, Claim, Complete
    <3>3. worker'[w] = [worker[w] EXCEPT !.beating = FALSE]
      BY <3>2 DEF HeartbeatEnds, IInv, JobsInv, JobsTypeOK
    <3>. QED  BY <2>2, <3>1, <3>3 DEF Working, Local
  <2>. QED  BY <2>1, <2>2
<1>4. \A v \in Worker : body'[v] = IF Working(v)' THEN body[v] ELSE NoBody
  BY <1>3 DEF Polls, IInv, WorkIsSound
<1>. QED  BY <1>1, <1>2, <1>4, JobsOnlyStep DEF Polls, IInv, Shapes

(* A worker ends its work: it raises, is done, dies.                       *)
LEMMA ReleaseStep ==
  ASSUME IInv, NEW w \in Worker, JobAction, UNCHANGED <<dataVars, task, planned>>,
         body' = [body EXCEPT ![w] = NoBody],
         \A v \in Worker \ {w} : worker'[v] = worker[v], worker'[w].at # "run",
         \A j \in JobId : status[j] = "none" => status'[j] = "none"
  PROVE  IInv'
<1>1. body' \in [Worker -> Body]
  BY NoBodyIsBody DEF IInv, Shapes
<1>2. ASSUME NEW v \in Worker PROVE body'[v] = IF Working(v)' THEN body[v] ELSE NoBody
  <2>1. CASE v = w
    BY <2>1 DEF IInv, Shapes, Working
  <2>2. CASE v # w
    BY <2>2 DEF IInv, Shapes, Working, WorkIsSound
  <2>. QED  BY <2>1, <2>2
<1>. QED  BY <1>1, <1>2, JobsOnlyStep

LEMMA RaisesMoves ==
  ASSUME JobsInv, NEW w \in Worker, FailJob(w)
  PROVE  /\ \A v \in Worker \ {w} : worker'[v] = worker[v]
         /\ worker'[w] = Idle /\ worker'[w].at # "run"
         /\ \A j \in JobId : status[j] = "none" => status'[j] = "none"
<1>1. worker'[w] = Idle /\ \A v \in Worker \ {w} : worker'[v] = worker[v]
  BY DEF FailJob, JobsInv, JobsTypeOK
<1>2. \A j \in JobId : status[j] = "none" => status'[j] = "none"
  BY DEF FailJob, SetStatus, Exists
<1>. QED  BY <1>1, <1>2 DEF Idle

LEMMA RefusedStep == ASSUME IInv, NEW w \in Worker, Refused(w) PROVE IInv'
<1>1. JobAction /\ body[w].at = "none" /\ Working(w)
  BY DEF Refused, JobAction, At, Working
<1>2. /\ \A v \in Worker \ {w} : worker'[v] = worker[v]
      /\ worker'[w].at # "run"
      /\ \A j \in JobId : status[j] = "none" => status'[j] = "none"
  BY RaisesMoves DEF Refused, Raises, IInv
<1>3. body' = [body EXCEPT ![w] = NoBody]
  BY <1>1 DEF Refused, IInv, WorkIsSound, Shapes
<1>. QED  BY <1>1, <1>2, <1>3, ReleaseStep DEF Refused

-----------------------------------------------------------------------------
(* What a step of w's work leaves as it was, and what it must see to: rows *)
(* appear only as w makes them, files only appear, and every row that is   *)
(* written names files that are there.                                     *)
RowIsWhole(x) ==
  /\ art[x] # NoArtifact
  /\ art[x].text \in {NoRec, x} \cup Raw /\ art[x].words \in {NoRec, x} \cup Raw
  /\ x \notin crossed =>
       /\ art[x].text  \in text  \cup {NoRec} /\ ~(project = "kept" /\ art[x].text \in scan.text)
       /\ art[x].words \in words \cup {NoRec} /\ ~(project = "kept" /\ art[x].words \in scan.words)

OwnRows(w) == {x \in Prepared : x[1] = Job(w)}

AddsOwn(w, b) ==
  /\ rec \subseteq rec'
  /\ \A x \in rec' \ rec : x \in OwnRows(w) /\ Unborn(x) /\ x[2] \in b.made
  /\ rec' \subseteq audio' /\ audio \subseteq audio' /\ audio' \subseteq Recording
  /\ text \subseteq text' /\ text' \subseteq Recording
  /\ words \subseteq words' /\ words' \subseteq Recording
  /\ \A j \in JobId \ {Job(w)} : planned'[j] = planned[j]
  /\ planned' \in [JobId -> SUBSET Raw]

WritesRows(w) ==
  /\ art' \in [Recording -> Row]
  /\ \A x \in rec' : (x \in rec /\ art'[x] = art[x]) \/ RowIsWhole(x)'
  /\ \A x \in Recording \ OwnRows(w) : HasText(x) => HasText(x)'

LEMMA WholeRows ==
  ASSUME IInv, NEW x \in rec
  PROVE  RowIsWhole(x)
BY DEF IInv, NamesAreNear, DoomedAreUnnamed, NamedFilesExist, RowIsWhole

LEMMA KnownIsBorn ==
  ASSUME IInv, NEW j \in JobId, NEW x \in Prepared, Unborn(x)
  PROVE  task[j].rec # x
BY DEF IInv, UnbornAreUnknown, Known

LEMMA StepOfWork ==
  ASSUME IInv, NEW w \in Worker, NEW b \in Body,
         Working(w), body[w].at # "done", b.at # "none",
         body[w].at = "none" \/ b.todo \ b.made \subseteq body[w].todo \ body[w].made,
         body' = [body EXCEPT ![w] = b],
         UNCHANGED <<jobVars, project, scan, crossed, task>>,
         active' \in JobId \cup {NoJobId},
         active' = active \/ (GroupsAreSettled' /\ ActiveGroupIsWhole'),
         AddsOwn(w, b), WritesRows(w), WorkIsSound(w)'
  PROVE  IInv'
<1>. USE DEF Job
<1>1. JobsInv' /\ TakenStay
  BY DEF IInv, JobsInv, jobVars, JobsTypeOK, HolderIsSound, Taken, Beats, OneHolder, TakenStay
<1>2. /\ body'[w] = b /\ \A v \in Worker \ {w} : body'[v] = body[v]
      /\ \A v \in Worker : Working(v)' = Working(v) /\ worker'[v] = worker[v]
  BY DEF IInv, Shapes, jobVars, Working
<1>j. /\ Job(w) \in JobId /\ Taken(Job(w))
      /\ \A v \in Worker \ {w} : Working(v) => worker[v].job # worker[w].job
      /\ \A v \in Worker : Working(v) => worker[v].job \in JobId
  BY JobsAssumption DEF IInv, JobsInv, HolderIsSound, OneHolder, Working, JobId, NoJobId
<1>3. ASSUME NEW v \in Worker PROVE BodyMoves(v)
  BY <1>2 DEF BodyMoves
<1>4. Shapes'
  <2>1. body' \in [Worker -> Body] /\ \A v \in Worker : body'[v] \in Body
    BY DEF IInv, Shapes
  <2>2. rec' \subseteq Recording
    BY DEF AddsOwn
  <2>3. JobsTypeOK'
    BY <1>1 DEF JobsInv
  <2>. QED  BY <2>1, <2>2, <2>3 DEF IInv, Shapes, TypeOK, AddsOwn, WritesRows
<1>5. UnbornAreUnknown'
  <2>1. ASSUME NEW x \in rec' \ rec PROVE ~Unborn(x)'
    <3>1. x \in Prepared /\ x[1] = Job(w) /\ x[2] \in b.made
      BY DEF AddsOwn, OwnRows
    <3>2. Taken(x[1])'
      BY <1>1, <1>j, <3>1 DEF TakenStay
    <3>. QED  BY <1>2, <1>j, <3>1, <3>2 DEF Unborn, Taken
  <2>2. \A x \in Prepared \cap Known' : x \in Known \/ x \in rec' \ rec
    BY DEF Known
  <2>. QED  BY <1>1, <1>3, <2>1, <2>2, UnknownStays DEF IInv
<1>6. ASSUME NEW v \in Worker PROVE WorkIsSound(v)'
  <2>1. CASE v # w /\ Working(v)
    <3>1. /\ worker'[v] = worker[v] /\ body'[v] = body[v] /\ Working(v)'
          /\ worker[v].job \in JobId /\ worker[v].job # worker[w].job
      BY <1>2, <1>j, <2>1
    <3>2. \A x \in rec' \ rec : x \in Prepared /\ x[1] = worker[w].job /\ Unborn(x)
      BY DEF AddsOwn, OwnRows
    <3>3. \A r \in Raw : <<worker[v].job, r>> \in rec' => <<worker[v].job, r>> \in rec
      BY <3>1, <3>2
    <3>4. Target(v) \in rec' => Target(v) \in rec
      BY <3>1, <3>2, KnownIsBorn DEF Target
    <3>5. Spares(v)
      BY <3>1, <3>3, <3>4 DEF Spares, AddsOwn, HasBatch
    <3>. QED  BY <2>1, <3>1, <3>5, SparedWork DEF IInv
  <2>2. CASE v # w /\ ~Working(v)
    BY <1>2, <2>2, RestingIsSound DEF IInv, WorkIsSound
  <2>. QED  BY <2>1, <2>2
<1>7. \A x \in rec' : RowIsWhole(x)'
  <2>1. ASSUME NEW x \in rec', x \in rec, art'[x] = art[x] PROVE RowIsWhole(x)'
    BY <2>1, WholeRows DEF RowIsWhole, AddsOwn
  <2>. QED  BY <2>1 DEF WritesRows
<1>8. NamesAreNear' /\ DoomedAreUnnamed' /\ NamedFilesExist'
  BY <1>7 DEF NamesAreNear, DoomedAreUnnamed, NamedFilesExist, RowIsWhole, IInv, AddsOwn
<1>9. ScanCovers'
  <2>1. rec' \cap Raw = rec \cap Raw
    BY RecordingsAssumption DEF AddsOwn, OwnRows, Prepared
  <2>2. \A x \in rec' \ rec : x \notin scan.rec
    BY DEF AddsOwn, OwnRows, IInv, UnbornAreUnknown, Known
  <2>. QED  BY <2>1, <2>2 DEF IInv, ScanCovers, jobVars, AddsOwn
<1>10. GroupsAreSettled'
  BY <1>1, <1>3, GroupsStaySettled DEF IInv
<1>u. ~Settled(Job(w))
  BY DEF Settled
<1>11. ActiveGroupIsWhole'
  <2>. SUFFICES ASSUME active' = active, active # NoJobId, HasBatch
                PROVE  \A r \in planned'[active] : <<active, r>> \in rec'
    BY DEF ActiveGroupIsWhole, HasBatch
  <2>1. active \in JobId \ {Job(w)}
    BY <1>u DEF IInv, GroupsAreSettled, Shapes, TypeOK
  <2>. QED  BY <2>1 DEF AddsOwn, IInv, ActiveGroupIsWhole
<1>12. CheckedAlignmentHasText'
  <2>. SUFFICES ASSUME NEW j \in JobId, status[j] \in {"pending", "running"}, task[j].checked, HasBatch
                PROVE  HasText(task[j].rec)'
    BY DEF CheckedAlignmentHasText, In, HasBatch, jobVars
  <2>1. HasText(task[j].rec)
    BY DEF IInv, CheckedAlignmentHasText, In
  <2>2. task[j].rec \in Recording \ OwnRows(w)
    BY <1>u DEF IInv, GroupsAreSettled, OwnRows, Recording
  <2>3. PICK x \in Recording \ OwnRows(w) : x = task[j].rec
    BY <2>2
  <2>4. HasText(x)'
    BY <2>1, <2>3 DEF WritesRows
  <2>. QED  BY <2>3, <2>4 DEF HasText
<1>. QED  BY <1>1, <1>4, <1>5, <1>6, <1>8, <1>9, <1>10, <1>11, <1>12 DEF IInv

-----------------------------------------------------------------------------
(* The steps of the work.  First what they share: the artifacts stay, or   *)
(* nothing of the project is touched at all.                               *)
LEMMA ArtStays ==
  ASSUME IInv, NEW w \in Worker, UNCHANGED art, rec' = rec
  PROVE  WritesRows(w)
BY DEF WritesRows, IInv, Shapes, TypeOK, HasText

LEMMA NothingAdded ==
  ASSUME IInv, NEW w \in Worker, NEW b, UNCHANGED <<rec, audio, text, words, planned>>
  PROVE  AddsOwn(w, b)
BY DEF AddsOwn, IInv, Shapes, TypeOK, NamedFilesExist

LEMMA WorkerAtWork ==
  ASSUME IInv, NEW w \in Worker, Working(w)
  PROVE  /\ Job(w) \in JobId /\ body[w] \in Body /\ task[Job(w)] \in Task
         /\ WorkIsSound(w) /\ planned[Job(w)] \subseteq Raw
BY DEF IInv, JobsInv, HolderIsSound, Shapes, TypeOK, Working, Job

LEMMA ActiveIsTyped == ASSUME IInv, UNCHANGED active PROVE active' \in JobId \cup {NoJobId}
BY DEF IInv, Shapes, TypeOK

LEMMA BeginsStep == ASSUME IInv, NEW w \in Worker, Begins(w) PROVE IInv'
<1>1. /\ Working(w) /\ body[w].at = "none" /\ body[w] = NoBody
      /\ Job(w) \in JobId /\ Taken(Job(w)) /\ task[Job(w)] \in Task
  BY WorkerAtWork, HeldIsTaken DEF Begins, At, IInv, WorkIsSound, Working, Job
<1>2. \A r \in Raw : <<Job(w), r>> \notin rec
  <2>1. ASSUME NEW r \in Raw PROVE Unborn(<<Job(w), r>>)
    BY <1>1 DEF Unborn
  <2>. QED  BY <1>1, <2>1 DEF IInv, UnbornAreUnknown, Known, Prepared
<1>3. CASE /\ task[Job(w)].kind = "prepare" /\ HasBatch /\ rec \cap Raw # {}
           /\ body' = [body EXCEPT ![w] = [NoBody EXCEPT !.at = "write", !.todo = rec \cap Raw]]
           /\ planned' = [planned EXCEPT ![Job(w)] = rec \cap Raw]
  <2>. DEFINE b == [NoBody EXCEPT !.at = "write", !.todo = rec \cap Raw]
  <2>1. b \in Body /\ b.at = "write" /\ b.todo = rec \cap Raw /\ b.made = {}
    BY NoBodyIsBody DEF Body, Step, NoBody
  <2>2. body' = [body EXCEPT ![w] = b]
    BY <1>3
  <2>. HIDE DEF b
  <2>3. WritesRows(w)
    BY ArtStays DEF Begins, dataVars
  <2>4. AddsOwn(w, b)
    BY <1>3 DEF AddsOwn, Begins, dataVars, IInv, Shapes, TypeOK, NamedFilesExist
  <2>5. body'[w] = b /\ planned'[Job(w)] = rec \cap Raw
    BY <1>1, <1>3, <2>2 DEF IInv, Shapes, TypeOK
  <2>6. WorkIsSound(w)'
    BY <1>1, <1>2, <1>3, <2>1, <2>5 DEF WorkIsSound, Begins, jobVars, dataVars, Job, Working, Preparing, Reading
  <2>. QED  BY <1>1, <2>1, <2>2, <2>3, <2>4, <2>6, StepOfWork, ActiveIsTyped DEF Begins, dataVars
<1>4. CASE /\ task[Job(w)].kind = "transcribe" /\ Target(w) \in rec
           /\ To(w, "asr") /\ UNCHANGED planned
  <2>. DEFINE b == [NoBody EXCEPT !.at = "asr"]
  <2>1. b \in Body /\ b.at = "asr" /\ b.todo = {} /\ b.made = {}
    BY NoBodyIsBody DEF Body, Step, NoBody
  <2>2. body' = [body EXCEPT ![w] = b]
    BY <1>1, <1>4 DEF To, IInv, Shapes
  <2>. HIDE DEF b
  <2>3. WritesRows(w) /\ AddsOwn(w, b)
    BY <1>4, ArtStays, NothingAdded DEF Begins, dataVars
  <2>4. body'[w] = b
    BY <2>2 DEF IInv, Shapes
  <2>5. WorkIsSound(w)'
    BY <1>1, <1>4, <2>1, <2>4 DEF WorkIsSound, Begins, jobVars, dataVars, Job, Target, Working, Preparing,
                                  Reading, IInv, Shapes, TypeOK
  <2>. QED  BY <1>1, <2>1, <2>2, <2>3, <2>5, StepOfWork, ActiveIsTyped DEF Begins, dataVars
<1>5. CASE /\ task[Job(w)].kind = "align" /\ Target(w) \in rec
           /\ body' = [body EXCEPT ![w].at = "force", ![w].read = art[Target(w)]]
           /\ UNCHANGED planned
  <2>. DEFINE b == [NoBody EXCEPT !.at = "force", !.read = art[Target(w)]]
  <2>1. art[Target(w)] \in Row
    BY <1>5 DEF IInv, Shapes, TypeOK
  <2>2. b \in Body /\ b.at = "force" /\ b.todo = {} /\ b.made = {}
    BY <2>1, NoBodyIsBody DEF Body, Step, NoBody
  <2>3. body' = [body EXCEPT ![w] = b]
    BY <1>1, <1>5 DEF IInv, Shapes
  <2>. HIDE DEF b
  <2>4. WritesRows(w) /\ AddsOwn(w, b)
    BY <1>5, ArtStays, NothingAdded DEF Begins, dataVars
  <2>5. body'[w] = b
    BY <2>3 DEF IInv, Shapes
  <2>6. WorkIsSound(w)'
    BY <1>1, <1>5, <2>2, <2>5 DEF WorkIsSound, Begins, jobVars, dataVars, Job, Target, Working, Preparing,
                                  Reading, IInv, Shapes, TypeOK
  <2>. QED  BY <1>1, <2>2, <2>3, <2>4, <2>6, StepOfWork, ActiveIsTyped DEF Begins, dataVars
<1>. QED  BY <1>3, <1>4, <1>5 DEF Begins

LEMMA ThrowsStep == ASSUME IInv, NEW w \in Worker, Throws(w) PROVE IInv'
<1>1. Working(w) /\ body[w].at \notin {"undoRows", "undoFiles", "done"} /\ WorkIsSound(w)
      /\ body[w] \in Body /\ Job(w) \in JobId
  BY WorkerAtWork DEF Throws, Working
<1>2. CASE /\ task[Job(w)].kind = "prepare" /\ body[w].at # "none"
           /\ To(w, "undoRows") /\ UNCHANGED jobVars
  <2>. DEFINE b == [body[w] EXCEPT !.at = "undoRows"]
  <2>1. /\ b \in Body /\ b.at = "undoRows" /\ b.todo = body[w].todo /\ b.made = body[w].made
    BY <1>1 DEF Body, Step
  <2>2. body' = [body EXCEPT ![w] = b]
    BY <1>2 DEF To, IInv, Shapes
  <2>. HIDE DEF b
  <2>3. WritesRows(w) /\ AddsOwn(w, b)
    BY ArtStays, NothingAdded DEF Throws, dataVars
  <2>4. body'[w] = b /\ body[w].at \in Preparing
    BY <1>1, <1>2, <2>2 DEF IInv, Shapes, WorkIsSound, Body, Step, Preparing, Reading
  <2>5. WorkIsSound(w)'
    BY <1>1, <1>2, <2>1, <2>4 DEF WorkIsSound, Throws, jobVars, dataVars, Job, Working, Preparing, Reading
  <2>. QED  BY <1>1, <1>2, <2>1, <2>2, <2>3, <2>5, StepOfWork, ActiveIsTyped DEF Throws, dataVars
<1>3. CASE Raises(w) /\ body' = [body EXCEPT ![w] = NoBody]
  <2>1. JobAction
    BY <1>3 DEF JobAction
  <2>. QED  BY <1>3, <2>1, RaisesMoves, ReleaseStep DEF Throws, Raises, IInv
<1>. QED  BY <1>2, <1>3 DEF Throws

LEMMA WriteWavStep == ASSUME IInv, NEW w \in Worker, WriteWav(w) PROVE IInv'
<1>1. Working(w) /\ body[w].at = "write" /\ WorkIsSound(w) /\ body[w] \in Body /\ Job(w) \in JobId
  BY WorkerAtWork DEF WriteWav, At, Working
<1>2. PICK r \in body[w].todo \cap audio :
        Take(w, r) /\ audio' = audio \cup {<<Job(w), r>>}
  BY DEF WriteWav
<1>3. r \in Raw
  BY <1>1 DEF Body
<1>. DEFINE b == [body[w] EXCEPT !.at = "parent", !.now = r, !.wrote = @ \cup {r}]
<1>4. b \in Body /\ b.at = "parent" /\ b.todo = body[w].todo /\ b.made = body[w].made /\ b.now = r
  BY <1>1, <1>3 DEF Body, Step
<1>5. body' = [body EXCEPT ![w] = b]
  BY <1>1, <1>2 DEF Take, IInv, Shapes, Body
<1>. HIDE DEF b
<1>6. WritesRows(w)
  BY ArtStays DEF WriteWav
<1>7. AddsOwn(w, b)
  BY <1>1, <1>2, <1>3 DEF AddsOwn, WriteWav, IInv, Shapes, TypeOK, NamedFilesExist, Recording, Prepared
<1>8. body'[w] = b
  BY <1>5 DEF IInv, Shapes
<1>9. WorkIsSound(w)'
  BY <1>1, <1>2, <1>4, <1>8 DEF WorkIsSound, WriteWav, jobVars, Job, Working, Preparing, Reading, HasBatch
<1>. QED  BY <1>1, <1>4, <1>5, <1>6, <1>7, <1>9, StepOfWork, ActiveIsTyped DEF WriteWav

LEMMA ReadParentStep == ASSUME IInv, NEW w \in Worker, ReadParent(w) PROVE IInv'
<1>1. Working(w) /\ body[w].at = "parent" /\ WorkIsSound(w) /\ body[w] \in Body /\ Job(w) \in JobId
  BY WorkerAtWork DEF ReadParent, At, Working
<1>. DEFINE b == [body[w] EXCEPT !.at = "insert"]
<1>2. b \in Body /\ b.at = "insert" /\ b.todo = body[w].todo /\ b.made = body[w].made /\ b.now = body[w].now
  BY <1>1 DEF Body, Step
<1>3. body' = [body EXCEPT ![w] = b]
  BY DEF ReadParent, To, IInv, Shapes
<1>. HIDE DEF b
<1>4. WritesRows(w) /\ AddsOwn(w, b)
  BY ArtStays, NothingAdded DEF ReadParent, dataVars
<1>5. body'[w] = b
  BY <1>3 DEF IInv, Shapes
<1>6. WorkIsSound(w)'
  BY <1>1, <1>2, <1>5 DEF WorkIsSound, ReadParent, jobVars, dataVars, Job, Working, Preparing, Reading, HasBatch
<1>. QED  BY <1>1, <1>2, <1>3, <1>4, <1>6, StepOfWork, ActiveIsTyped DEF ReadParent, dataVars

LEMMA InsertRowStep == ASSUME IInv, NEW w \in Worker, InsertRow(w) PROVE IInv'
<1>1. /\ Working(w) /\ body[w].at = "insert" /\ WorkIsSound(w) /\ body[w] \in Body /\ Job(w) \in JobId
      /\ Now(w) \in Raw
  BY WorkerAtWork DEF InsertRow, At, Working, WorkIsSound, Body, Now
<1>. DEFINE b == [body[w] EXCEPT !.at = "copy", !.made = @ \cup {Now(w)}]
<1>x. PICK x \in Prepared : x = Made(w)
  BY <1>1 DEF Made, Prepared
<1>2. b \in Body /\ b.at = "copy" /\ b.todo = body[w].todo /\ b.made = body[w].made \cup {Now(w)}
      /\ b.now = Now(w)
  BY <1>1 DEF Body, Step, Now
<1>3. body' = [body EXCEPT ![w] = b]
  BY <1>1 DEF InsertRow, IInv, Shapes, Body
<1>. HIDE DEF b
<1>4. /\ x \in OwnRows(w) /\ x \in Recording /\ x[2] = Now(w)
      /\ x \in audio /\ Now(w) \in body[w].todo \ body[w].made
  BY <1>1, <1>x DEF Made, OwnRows, Prepared, Recording, WorkIsSound, Now
<1>5. Unborn(x)
  BY <1>1, <1>4, <1>x DEF Unborn, Made
<1>6. rec' = rec \cup {x} /\ art' = [art EXCEPT ![x] = Blank]
  BY <1>x DEF InsertRow
<1>7. AddsOwn(w, b)
  BY <1>2, <1>4, <1>5, <1>6 DEF AddsOwn, InsertRow, IInv, Shapes, TypeOK, NamedFilesExist
<1>8. WritesRows(w)
  <2>1. Blank \in Row /\ Blank # NoArtifact /\ Blank.text = NoRec /\ Blank.words = NoRec
    BY DEF Blank, Row, Artifact, NoArtifact
  <2>2. RowIsWhole(x)'
    <3>1. NoRec \notin scan.text \cup scan.words
      BY RecordingsAssumption DEF IInv, Shapes, TypeOK, Recording, Prepared
    <3>. QED  BY <1>4, <1>6, <2>1, <3>1 DEF RowIsWhole, IInv, Shapes, TypeOK, InsertRow
  <2>3. art' \in [Recording -> Row] /\ \A y \in Recording \ {x} : art'[y] = art[y]
    BY <1>6, <2>1 DEF IInv, Shapes, TypeOK
  <2>4. \A y \in rec \ {x} : y \in rec /\ art'[y] = art[y]
    BY <2>3 DEF IInv, Shapes, TypeOK
  <2>5. \A y \in Recording \ OwnRows(w) : HasText(y) => HasText(y)'
    BY <1>4, <2>3 DEF HasText
  <2>. QED  BY <1>6, <2>2, <2>3, <2>4, <2>5 DEF WritesRows
<1>9. body'[w] = b
  BY <1>3 DEF IInv, Shapes
<1>10. WorkIsSound(w)'
  <2>1. /\ \A r \in Raw : <<Job(w), r>> \in rec' => r \in b.made
        /\ HasBatch => \A r \in b.made : <<Job(w), r>> \in rec'
    <3>1. x = <<Job(w), Now(w)>>
      BY <1>x DEF Made
    <3>. HIDE DEF HasBatch
    <3>2. \A r \in Raw : <<Job(w), r>> \in rec => r \in body[w].made
      BY <1>1 DEF WorkIsSound, Preparing
    <3>3. HasBatch => \A r \in body[w].made : <<Job(w), r>> \in rec
      BY <1>1 DEF WorkIsSound, Preparing
    <3>. QED  BY <1>2, <1>6, <3>1, <3>2, <3>3
  <2>2. task[Job(w)].kind = "prepare" /\ planned[Job(w)] \subseteq b.todo \cup b.made
    BY <1>1, <1>2 DEF WorkIsSound, Preparing
  <2>3. b.now \in b.made /\ b.todo \cap b.made \subseteq {b.now}
    BY <1>1, <1>2 DEF WorkIsSound
  <2>4. Job(w)' = Job(w) /\ Working(w)' /\ HasBatch' = HasBatch /\ UNCHANGED <<task, planned>>
    BY <1>1 DEF InsertRow, jobVars, Job, Working, HasBatch
  <2>. QED  BY <1>2, <1>9, <2>1, <2>2, <2>3, <2>4 DEF WorkIsSound, Preparing, Reading
<1>. QED  BY <1>1, <1>2, <1>3, <1>7, <1>8, <1>10, StepOfWork, ActiveIsTyped DEF InsertRow

(* The rows are read: the raw recording is there, so nothing of its files  *)
(* is to be deleted yet.                                                   *)
LEMMA ReadArtifactStep == ASSUME IInv, NEW w \in Worker, ReadArtifact(w) PROVE IInv'
<1>1. /\ Working(w) /\ body[w].at = "copy" /\ WorkIsSound(w) /\ body[w] \in Body /\ Job(w) \in JobId
      /\ Now(w) \in Raw
  BY WorkerAtWork DEF ReadArtifact, At, Working, WorkIsSound, Body, Now
<1>n. PICK n \in Raw : n = Now(w)
  BY <1>1
<1>x. PICK x \in Prepared : x = Made(w)
  BY <1>1 DEF Made, Prepared
<1>. DEFINE b == [body[w] EXCEPT !.at = "saveCopy", !.read = art[n], !.own = art[x]]
<1>2. /\ art[n] \in Row /\ art[x] \in Row /\ n \in rec /\ x \in rec
      /\ b \in Body /\ b.at = "saveCopy" /\ b.todo = body[w].todo /\ b.made = body[w].made
      /\ b.now = body[w].now /\ b.read = art[n]
  <2>1. art[n] \in Row /\ art[x] \in Row /\ n \in rec /\ x \in rec
    BY <1>n, <1>x DEF ReadArtifact, IInv, Shapes, TypeOK
  <2>. QED  BY <1>1, <2>1 DEF Body, Step
<1>3. body' = [body EXCEPT ![w] = b]
  BY <1>n, <1>x DEF ReadArtifact, IInv, Shapes
<1>. HIDE DEF b
<1>4. WritesRows(w) /\ AddsOwn(w, b)
  BY ArtStays, NothingAdded DEF ReadArtifact, dataVars
<1>5. body'[w] = b
  BY <1>3 DEF IInv, Shapes
<1>6. ReadIsWhole(w)'
  <2>1. RowIsWhole(n) /\ n \notin crossed
    BY <1>2, WholeRows, RecordingsAssumption DEF IInv, Shapes, TypeOK, Prepared
  <2>2. project # "kept"
    BY <1>2 DEF IInv, ScanCovers
  <2>3. art[n] \in Artifact /\ art[n] # NoArtifact
    BY <1>2, <2>1 DEF Row, RowIsWhole
  <2>. QED  BY <1>2, <1>5, <2>1, <2>2, <2>3 DEF ReadIsWhole, RowIsWhole, ReadArtifact, dataVars
<1>7. WorkIsSound(w)'
  BY <1>1, <1>2, <1>5, <1>6
     DEF WorkIsSound, ReadArtifact, jobVars, dataVars, Job, Working, Preparing, Reading, HasBatch
<1>. QED  BY <1>1, <1>2, <1>3, <1>4, <1>7, StepOfWork, ActiveIsTyped DEF ReadArtifact, dataVars

LEMMA SaveCopyStep == ASSUME IInv, NEW w \in Worker, SaveCopy(w) PROVE IInv'
<1>1. /\ Working(w) /\ body[w].at = "saveCopy" /\ WorkIsSound(w) /\ body[w] \in Body /\ Job(w) \in JobId
      /\ Now(w) \in Raw /\ ReadIsWhole(w)
  BY WorkerAtWork DEF SaveCopy, At, Working, WorkIsSound, Body, Now
<1>. DEFINE at == IF body[w].todo = {Now(w)} THEN "activate" ELSE "write"
            b  == [body[w] EXCEPT !.todo = @ \ {Now(w)}, !.at = at, !.read = NoArtifact, !.own = NoArtifact]
<1>x. PICK x \in Prepared : x = Made(w)
  BY <1>1 DEF Made, Prepared
<1>. DEFINE row == Update(art[x], body[w].own, body[w].read)
<1>2. /\ b \in Body /\ b.at \in {"activate", "write"} /\ b.at = at
      /\ b.todo = body[w].todo \ {Now(w)} /\ b.made = body[w].made
  BY <1>1 DEF Body, Step, Row
<1>3. body' = [body EXCEPT ![w] = b]
  BY <1>1 DEF SaveCopy, Copied, IInv, Shapes, Body
<1>. HIDE DEF b
<1>4. /\ x \in OwnRows(w) /\ x \in Recording /\ art[x] \in Artifact
      /\ art' = [art EXCEPT ![x] = row]
  <2>1. art[x] \in Row /\ art[x] # NoArtifact
    BY <1>x DEF SaveCopy, Copied, IInv, Shapes, TypeOK, Recording
  <2>. QED  BY <1>1, <1>x, <2>1 DEF Made, OwnRows, Prepared, Recording, SaveCopy, Copied, Row
<1>r. /\ row \in Artifact
      /\ row.text \in {art[x].text, body[w].read.text}
      /\ row.words \in {art[x].words, body[w].read.words}
  BY <1>1, <1>4 DEF Update, ReadIsWhole, Artifact
<1>. HIDE DEF row
<1>5. AddsOwn(w, b)
  BY NothingAdded DEF SaveCopy
<1>. HIDE DEF at
<1>6. WritesRows(w)
  <2>1. art'[x] = row /\ \A y \in Recording \ {x} : art'[y] = art[y]
    BY <1>4 DEF IInv, Shapes, TypeOK
  <2>2. ASSUME x \in rec PROVE RowIsWhole(x)'
    <3>1. RowIsWhole(x) /\ art[x] # NoArtifact
      BY <1>4, <2>2, WholeRows DEF Artifact, NoArtifact
    <3>2. x = <<Job(w), body[w].now>>
      BY <1>x DEF Made, Now
    <3>3. project = "kept" => x \in crossed
      BY <1>1, <3>2 DEF ReadIsWhole
    <3>4. row # NoArtifact
      BY <1>r DEF Artifact, NoArtifact
    <3>5. row.text \in {NoRec, x} \cup Raw /\ row.words \in {NoRec, x} \cup Raw
      BY <1>1, <1>r, <3>1 DEF RowIsWhole, ReadIsWhole
    <3>6. x \notin crossed => row.text \in text \cup {NoRec} /\ row.words \in words \cup {NoRec}
      BY <1>1, <1>r, <3>1, <3>2 DEF RowIsWhole, ReadIsWhole
    <3>. QED  BY <2>1, <3>3, <3>4, <3>5, <3>6 DEF RowIsWhole, SaveCopy
  <2>3. art' \in [Recording -> Row]
    BY <1>4, <1>r DEF IInv, Shapes, TypeOK, Row
  <2>4. \A y \in rec' : (y \in rec /\ art'[y] = art[y]) \/ RowIsWhole(y)'
    BY <2>1, <2>2 DEF SaveCopy, IInv, Shapes, TypeOK
  <2>5. \A y \in Recording \ OwnRows(w) : HasText(y) => HasText(y)'
    BY <1>4, <2>1 DEF HasText
  <2>. QED  BY <2>3, <2>4, <2>5 DEF WritesRows
<1>7. body'[w] = b
  BY <1>3 DEF IInv, Shapes
<1>8. WorkIsSound(w)'
  <2>1. Now(w) \in body[w].made /\ body[w].todo \cap body[w].made \subseteq {Now(w)}
    BY <1>1 DEF WorkIsSound, Now
  <2>2. /\ b.todo \cap b.made = {} /\ planned[Job(w)] \subseteq b.todo \cup b.made
        /\ b.at = "activate" => b.todo = {}
    <3>1. planned[Job(w)] \subseteq body[w].todo \cup body[w].made
      BY <1>1 DEF WorkIsSound, Preparing
    <3>. QED  BY <1>2, <2>1, <3>1 DEF at
  <2>3. Job(w)' = Job(w) /\ Working(w)' /\ HasBatch' = HasBatch /\ UNCHANGED <<task, planned, rec>>
    BY <1>1 DEF SaveCopy, jobVars, Job, Working, HasBatch
  <2>4. /\ task[Job(w)].kind = "prepare"
        /\ \A r \in Raw : <<Job(w), r>> \in rec => r \in b.made
        /\ HasBatch => \A r \in b.made : <<Job(w), r>> \in rec
    BY <1>1, <1>2 DEF WorkIsSound, Preparing
  <2>. QED  BY <1>2, <1>7, <2>2, <2>3, <2>4 DEF WorkIsSound, Preparing, Reading
<1>. QED  BY <1>1, <1>2, <1>3, <1>5, <1>6, <1>8, StepOfWork, ActiveIsTyped DEF SaveCopy

(* The group becomes active once every raw recording of it has its row,    *)
(* and from then on its worker has only to say that it is done.            *)
LEMMA ActivateStep == ASSUME IInv, NEW w \in Worker, Activate(w) PROVE IInv'
<1>1. /\ Working(w) /\ body[w].at = "activate" /\ WorkIsSound(w) /\ body[w] \in Body /\ Job(w) \in JobId
      /\ HasBatch /\ planned[Job(w)] \subseteq Raw
  BY WorkerAtWork DEF Activate, At, Working
<1>. DEFINE b == [body[w] EXCEPT !.at = "done"]
<1>2. b \in Body /\ b.at = "done" /\ b.todo = body[w].todo /\ b.made = body[w].made
  BY <1>1 DEF Body, Step
<1>3. body' = [body EXCEPT ![w] = b]
  BY DEF Activate, To, IInv, Shapes
<1>. HIDE DEF b
<1>4. WritesRows(w) /\ AddsOwn(w, b)
  BY ArtStays, NothingAdded DEF Activate
<1>5. body'[w] = b /\ \A v \in Worker \ {w} : body'[v] = body[v]
  BY <1>3 DEF IInv, Shapes
<1>6. WorkIsSound(w)'
  BY <1>1, <1>2, <1>5 DEF WorkIsSound, Activate, jobVars, Working, Preparing, Reading
<1>7. TakenStay /\ \A v \in Worker : BodyMoves(v)
  BY <1>1, <1>2, <1>5 DEF Activate, jobVars, TakenStay, Taken, BodyMoves, Working
<1>8. GroupsAreSettled'
  <2>1. Settled(Job(w))'
    <3>1. Taken(Job(w)) /\ \A v \in Worker : Working(v) /\ Job(v) = Job(w) => v = w
      BY <1>1, HeldIsTaken, OthersHoldOthers DEF Working, Job, IInv
    <3>. QED  BY <1>2, <1>5, <3>1 DEF Settled, Activate, jobVars, Taken, Working, Job
  <2>2. ASSUME NEW j \in JobId, task[j].checked
        PROVE  status[j] # "none" /\ task[j].rec \in Prepared /\ Settled(task[j].rec[1])'
    <3>1. status[j] # "none" /\ task[j].rec \in Prepared /\ Settled(task[j].rec[1])
      BY <2>2 DEF IInv, GroupsAreSettled
    <3>2. PICK g \in JobId : g = task[j].rec[1]
      BY <3>1 DEF Prepared
    <3>3. Settled(g)'
      BY <1>7, <3>1, <3>2, SettledStays
    <3>. QED  BY <3>1, <3>2, <3>3 DEF Settled, Taken, Job, Working, Activate
  <2>. QED  BY <2>1, <2>2 DEF GroupsAreSettled, Activate, jobVars, Settled, Taken, Job, Working
<1>9. ActiveGroupIsWhole'
  <2>1. \A r \in planned[Job(w)] : <<Job(w), r>> \in rec
    BY <1>1 DEF WorkIsSound, Preparing
  <2>. QED  BY <2>1 DEF Activate, ActiveGroupIsWhole
<1>10. active' \in JobId \cup {NoJobId}
  BY <1>1 DEF Activate
<1>. QED  BY <1>1, <1>2, <1>3, <1>4, <1>6, <1>8, <1>9, <1>10, StepOfWork DEF Activate

LEMMA WriteTextStep == ASSUME IInv, NEW w \in Worker, WriteText(w) PROVE IInv'
<1>1. /\ Working(w) /\ body[w].at = "asr" /\ WorkIsSound(w) /\ body[w] \in Body /\ Job(w) \in JobId
      /\ Target(w) \in Recording
  BY WorkerAtWork DEF WriteText, At, Working, WorkIsSound, Reading
<1>. DEFINE b == [body[w] EXCEPT !.at = "saveText"]
<1>2. b \in Body /\ b.at = "saveText" /\ b.todo = body[w].todo /\ b.made = body[w].made
  BY <1>1 DEF Body, Step
<1>3. body' = [body EXCEPT ![w] = b]
  BY DEF WriteText, To, IInv, Shapes
<1>. HIDE DEF b
<1>4. WritesRows(w)
  BY ArtStays DEF WriteText
<1>5. AddsOwn(w, b)
  BY <1>1 DEF WriteText, AddsOwn, IInv, Shapes, TypeOK, NamedFilesExist
<1>6. body'[w] = b
  BY <1>3 DEF IInv, Shapes
<1>7. WorkIsSound(w)'
  BY <1>1, <1>2, <1>6 DEF WorkIsSound, WriteText, jobVars, Working, Preparing, Reading, Target, Job
<1>. QED  BY <1>1, <1>2, <1>3, <1>4, <1>5, <1>7, StepOfWork, ActiveIsTyped DEF WriteText

LEMMA WriteWordsStep == ASSUME IInv, NEW w \in Worker, WriteWords(w) PROVE IInv'
<1>1. /\ Working(w) /\ body[w].at = "force" /\ WorkIsSound(w) /\ body[w] \in Body /\ Job(w) \in JobId
      /\ Target(w) \in Recording
  BY WorkerAtWork DEF WriteWords, At, Working, WorkIsSound, Reading
<1>. DEFINE b == [body[w] EXCEPT !.at = "saveWords"]
<1>2. b \in Body /\ b.at = "saveWords" /\ b.todo = body[w].todo /\ b.made = body[w].made
  BY <1>1 DEF Body, Step
<1>3. body' = [body EXCEPT ![w] = b]
  BY DEF WriteWords, To, IInv, Shapes
<1>. HIDE DEF b
<1>4. WritesRows(w)
  BY ArtStays DEF WriteWords
<1>5. AddsOwn(w, b)
  BY <1>1 DEF WriteWords, AddsOwn, IInv, Shapes, TypeOK, NamedFilesExist
<1>6. body'[w] = b
  BY <1>3 DEF IInv, Shapes
<1>7. WorkIsSound(w)'
  BY <1>1, <1>2, <1>6 DEF WorkIsSound, WriteWords, jobVars, Working, Preparing, Reading, Target, Job
<1>. QED  BY <1>1, <1>2, <1>3, <1>4, <1>5, <1>7, StepOfWork, ActiveIsTyped DEF WriteWords

(* Saving one row that names files that are there.                         *)
LEMMA SavesRow ==
  ASSUME IInv, NEW w \in Worker, NEW x \in Recording, NEW row \in Artifact,
         art' = [art EXCEPT ![x] = row], UNCHANGED <<rec, text, words>>,
         UNCHANGED <<project, scan, crossed>>,
         HasText(x) => row.text # NoRec,
         x \in rec => /\ (row.text = x /\ x \in text) \/ row.text = art[x].text
                      /\ (row.words = x /\ x \in words) \/ row.words = art[x].words
  PROVE  WritesRows(w)
<1>1. row # NoArtifact
  BY DEF Artifact, NoArtifact
<1>2. art'[x] = row /\ \A y \in Recording \ {x} : art'[y] = art[y]
  BY DEF IInv, Shapes, TypeOK
<1>3. art' \in [Recording -> Row]
  BY DEF IInv, Shapes, TypeOK, Row
<1>4. \A y \in rec' : (y \in rec /\ art'[y] = art[y]) \/ RowIsWhole(y)'
  <2>1. ASSUME x \in rec PROVE RowIsWhole(x)'
    <3>1. RowIsWhole(x)
      BY <2>1, WholeRows
    <3>2. project = "kept" => x \notin scan.text \cup scan.words
      BY <2>1 DEF IInv, ScanCovers, NamesAreNear
    <3>3. NoRec \notin scan.text \cup scan.words
      BY RecordingsAssumption DEF IInv, Shapes, TypeOK, Recording, Prepared
    <3>. QED  BY <1>1, <1>2, <2>1, <3>1, <3>2, <3>3 DEF RowIsWhole
  <2>. QED  BY <1>2, <2>1 DEF IInv, Shapes, TypeOK
<1>5. \A y \in Recording \ OwnRows(w) : HasText(y) => HasText(y)'
  BY <1>1, <1>2 DEF HasText
<1>. QED  BY <1>3, <1>4, <1>5 DEF WritesRows

LEMMA SavedText ==
  ASSUME IInv, NEW w \in Worker, SaveText(w)
  PROVE  WritesRows(w)
<1>1. /\ Working(w) /\ body[w].at = "saveText" /\ WorkIsSound(w) /\ Target(w) \in Recording
      /\ Target(w) \in rec => Target(w) \in text
  BY WorkerAtWork DEF SaveText, At, Working, WorkIsSound, Reading
<1>x. PICK x \in Recording : x = Target(w)
  BY <1>1
<1>2. RowOf(x) \in Artifact
  BY DEF RowOf, Row, Blank, Artifact, IInv, Shapes, TypeOK
<1>. DEFINE row == [RowOf(x) EXCEPT !.text = x,
                      !.alignment = IF art[x].words # NoRec THEN "stale" ELSE @]
<1>3. row \in Artifact /\ row.text = x /\ row.words = RowOf(x).words
  BY <1>2 DEF Artifact
<1>4. art' = [art EXCEPT ![x] = row]
  BY <1>x DEF SaveText
<1>5. x # NoRec
  BY RecordingsAssumption DEF Recording, Prepared
<1>6. ASSUME x \in rec PROVE row.words = art[x].words
  BY <1>3, <1>6, WholeRows DEF RowOf, RowIsWhole
<1>. HIDE DEF row
<1>7. x \in rec => /\ (row.text = x /\ x \in text) \/ row.text = art[x].text
                   /\ (row.words = x /\ x \in words) \/ row.words = art[x].words
  BY <1>1, <1>x, <1>3, <1>6
<1>8. (HasText(x) => row.text # NoRec) /\ UNCHANGED <<rec, text, words, project, scan, crossed>>
  BY <1>3, <1>5 DEF SaveText
<1>. QED  BY <1>3, <1>4, <1>7, <1>8, SavesRow

LEMMA SaveWordsStep == ASSUME IInv, NEW w \in Worker, SaveWords(w) PROVE IInv'
<1>1. /\ Working(w) /\ body[w].at = "saveWords" /\ WorkIsSound(w) /\ body[w] \in Body /\ Job(w) \in JobId
      /\ Target(w) \in Recording
      /\ Target(w) \in rec => Target(w) \in words
  BY WorkerAtWork DEF SaveWords, At, Working, WorkIsSound, Reading
<1>x. PICK x \in Recording : x = Target(w)
  BY <1>1
<1>. DEFINE b == [body[w] EXCEPT !.at = "done"]
            row == [art[x] EXCEPT !.words = x,
                      !.alignment = IF body[w].read.alignment = "ok" THEN @ ELSE "ok"]
<1>2. b \in Body /\ b.at = "done" /\ b.todo = body[w].todo /\ b.made = body[w].made
  BY <1>1 DEF Body, Step
<1>3. body' = [body EXCEPT ![w] = b]
  BY DEF SaveWords, To, IInv, Shapes
<1>4. art[x] \in Artifact
  BY <1>x DEF SaveWords, Row, IInv, Shapes, TypeOK
<1>5. row \in Artifact /\ row.words = x /\ row.text = art[x].text
  BY <1>4 DEF Artifact
<1>6. art' = [art EXCEPT ![x] = row]
  BY <1>x, <1>4 DEF SaveWords, IInv, Shapes, TypeOK, Artifact
<1>7. HasText(x) => row.text # NoRec
  BY <1>5 DEF HasText
<1>. HIDE DEF row, b
<1>8. WritesRows(w)
  <2>1. x \in rec => /\ (row.text = x /\ x \in text) \/ row.text = art[x].text
                     /\ (row.words = x /\ x \in words) \/ row.words = art[x].words
    BY <1>1, <1>x, <1>5
  <2>2. UNCHANGED <<rec, text, words, project, scan, crossed>>
    BY DEF SaveWords
  <2>. QED  BY <1>5, <1>6, <1>7, <2>1, <2>2, SavesRow
<1>9. AddsOwn(w, b)
  BY NothingAdded DEF SaveWords
<1>10. body'[w] = b
  BY <1>3 DEF IInv, Shapes
<1>11. WorkIsSound(w)'
  BY <1>1, <1>2, <1>10 DEF WorkIsSound, SaveWords, jobVars, Working, Preparing, Reading
<1>. QED  BY <1>1, <1>2, <1>3, <1>8, <1>9, <1>11, StepOfWork, ActiveIsTyped DEF SaveWords

-----------------------------------------------------------------------------
(* The last step of w's work, which may change what nobody else relies on. *)
LEMMA KeptOrResting ==
  ASSUME IInv, NEW v \in Worker, worker'[v] = worker[v], body'[v] = body[v], Working(v) => Spares(v)
  PROVE  WorkIsSound(v)'
<1>1. CASE Working(v)
  <2>1. Working(v)' /\ worker'[v].job = worker[v].job /\ worker[v].job \in JobId
    BY <1>1 DEF Working, IInv, JobsInv, HolderIsSound
  <2>. QED  BY <1>1, <2>1, SparedWork DEF IInv
<1>2. CASE ~Working(v)
  BY <1>2, RestingIsSound DEF IInv, WorkIsSound
<1>. QED  BY <1>1, <1>2

LEMMA LastStep ==
  ASSUME IInv, NEW w \in Worker, Working(w), FailJob(w),
         UNCHANGED <<project, scan, crossed, rec, text, words, active, task, planned>>,
         body' = [body EXCEPT ![w] = NoBody],
         rec \subseteq audio', audio' \subseteq audio, \A x \in audio \ audio' : x \in OwnRows(w),
         art' \in [Recording -> Row], \A x \in rec : art'[x] = art[x],
         \A x \in Recording : HasText(x) => HasText(x)'
  PROVE  IInv'
<1>1. JobAction
  BY DEF JobAction, Raises, Working
<1>2. JobsInv' /\ TakenStay
  BY <1>1, JobActionKeeps DEF IInv
<1>3. /\ \A v \in Worker \ {w} : worker'[v] = worker[v] /\ body'[v] = body[v]
      /\ ~Working(w)' /\ body'[w] = NoBody
      /\ \A j \in JobId : status[j] = "none" => status'[j] = "none"
  BY RaisesMoves DEF IInv, Shapes, Working
<1>4. ASSUME NEW v \in Worker PROVE BodyMoves(v)
  BY <1>3 DEF BodyMoves, Working
<1>5. Shapes'
  BY <1>2, NoBodyIsBody DEF IInv, Shapes, TypeOK, JobsInv
<1>6. UnbornAreUnknown'
  BY <1>2, <1>4, UnknownStays DEF IInv, Known
<1>7. ASSUME NEW v \in Worker PROVE WorkIsSound(v)'
  <2>1. CASE v = w
    BY <1>3, <2>1, RestingIsSound
  <2>2. CASE v # w
    <3>1. ASSUME Working(v) PROVE Spares(v)
      <4>1. worker[v].job # worker[w].job
        BY <2>2, <3>1, OthersHoldOthers DEF IInv
      <4>. QED  BY <4>1 DEF Spares, HasBatch, OwnRows, Job, Target
    <3>. QED  BY <1>3, <2>2, <3>1, KeptOrResting
  <2>. QED  BY <2>1, <2>2
<1>8. NamesAreNear' /\ DoomedAreUnnamed' /\ NamedFilesExist' /\ ActiveGroupIsWhole'
  BY DEF IInv, NamesAreNear, DoomedAreUnnamed, NamedFilesExist, ActiveGroupIsWhole, HasBatch
<1>9. ScanCovers'
  BY <1>2 DEF IInv, ScanCovers, TakenStay, Shapes, Scan
<1>10. GroupsAreSettled'
  BY <1>2, <1>4, GroupsStaySettled DEF IInv
<1>11. CheckedAlignmentHasText'
  <2>. SUFFICES ASSUME NEW j \in JobId, status'[j] \in {"pending", "running"}, task[j].checked, HasBatch
                PROVE  HasText(task[j].rec)'
    BY DEF CheckedAlignmentHasText, In, HasBatch
  <2>1. HasText(task[j].rec) /\ task[j].rec \in Prepared
    BY <1>2, <1>3 DEF IInv, CheckedAlignmentHasText, In, TakenStay, GroupsAreSettled
  <2>2. PICK x \in Recording : x = task[j].rec
    BY <2>1 DEF Recording
  <2>3. HasText(x)'
    BY <2>1, <2>2
  <2>. QED  BY <2>2, <2>3 DEF HasText
<1>. QED  BY <1>2, <1>5, <1>6, <1>7, <1>8, <1>9, <1>10, <1>11 DEF IInv

LEMMA UndoFilesStep == ASSUME IInv, NEW w \in Worker, UndoFiles(w) PROVE IInv'
<1>1. /\ Working(w) /\ body[w].at = "undoFiles" /\ WorkIsSound(w) /\ body[w] \in Body /\ Job(w) \in JobId
  BY WorkerAtWork DEF UndoFiles, At, Working
<1>2. \A x \in OfJob(w, body[w].wrote) : x \in OwnRows(w) /\ x \notin rec
  BY <1>1 DEF OfJob, OwnRows, WorkIsSound, Body, Prepared
<1>. QED  BY <1>1, <1>2, LastStep DEF UndoFiles, Raises, IInv, Shapes, TypeOK, NamedFilesExist, HasText

LEMMA SaveTextStep == ASSUME IInv, NEW w \in Worker, SaveText(w) PROVE IInv'
<1>1. /\ Working(w) /\ body[w].at = "saveText" /\ WorkIsSound(w) /\ body[w] \in Body /\ Job(w) \in JobId
      /\ Target(w) \in Recording /\ task[Job(w)].kind # "prepare"
  BY WorkerAtWork DEF SaveText, At, Working, WorkIsSound, Reading
<1>2. WritesRows(w)
  BY SavedText
<1>3. CASE To(w, "done") /\ UNCHANGED jobVars
  <2>. DEFINE b == [body[w] EXCEPT !.at = "done"]
  <2>1. b \in Body /\ b.at = "done" /\ b.todo = body[w].todo /\ b.made = body[w].made
    BY <1>1 DEF Body, Step
  <2>2. body' = [body EXCEPT ![w] = b]
    BY <1>3 DEF To, IInv, Shapes
  <2>. HIDE DEF b
  <2>3. AddsOwn(w, b)
    BY NothingAdded DEF SaveText
  <2>4. body'[w] = b
    BY <2>2 DEF IInv, Shapes
  <2>5. WorkIsSound(w)'
    BY <1>1, <1>3, <2>1, <2>4 DEF WorkIsSound, jobVars, Working, Preparing, Reading
  <2>. QED  BY <1>1, <1>2, <1>3, <2>1, <2>2, <2>3, <2>5, StepOfWork, ActiveIsTyped DEF SaveText
<1>4. CASE Target(w) \notin rec /\ Raises(w) /\ body' = [body EXCEPT ![w] = NoBody]
  <2>1. PICK x \in Recording : x = Target(w)
    BY <1>1
  <2>2. \A y \in Recording \ {x} : art'[y] = art[y]
    BY <2>1 DEF SaveText, IInv, Shapes, TypeOK
  <2>3. \A y \in Recording : HasText(y) => HasText(y)'
    <3>1. RowOf(x) \in Artifact
      BY DEF RowOf, Row, Blank, Artifact, IInv, Shapes, TypeOK
    <3>2. art'[x].text = x /\ art'[x] \in Artifact
      BY <2>1, <3>1 DEF SaveText, IInv, Shapes, TypeOK, Artifact
    <3>3. x # NoRec /\ art'[x] # NoArtifact
      BY <3>2, RecordingsAssumption DEF Recording, Prepared, Artifact, NoArtifact
    <3>4. HasText(x)'
      BY <3>2, <3>3 DEF HasText
    <3>5. \A y \in Recording \ {x} : HasText(y) => HasText(y)'
      BY <2>2 DEF HasText
    <3>. QED  BY <3>4, <3>5
  <2>4. art' \in [Recording -> Row]
    BY <1>2 DEF WritesRows
  <2>5. \A y \in rec : art'[y] = art[y]
    BY <1>4, <2>1, <2>2 DEF IInv, Shapes, TypeOK
  <2>. QED  BY <1>1, <1>4, <2>3, <2>4, <2>5, LastStep DEF SaveText, Raises, IInv, NamedFilesExist
<1>. QED  BY <1>3, <1>4 DEF SaveText

LEMMA DoneStep == ASSUME IInv, NEW w \in Worker, Done(w) PROVE IInv'
<1>1. JobAction
  BY DEF Done, JobAction
<1>2. /\ \A v \in Worker \ {w} : worker'[v] = worker[v]
      /\ worker'[w].at # "run"
      /\ \A j \in JobId : status[j] = "none" => status'[j] = "none"
  <2>1. CASE FailJob(w)
    BY <2>1, RaisesMoves DEF IInv
  <2>2. CASE worker' = [worker EXCEPT ![w].at = "complete"] /\ UNCHANGED <<status, claimedBy>>
    BY <2>2 DEF IInv, JobsInv, JobsTypeOK, Local
  <2>. QED  BY <2>1, <2>2 DEF Done, ReadDone
<1>. QED  BY <1>1, <1>2, ReleaseStep DEF Done

LEMMA CrashesStep == ASSUME IInv, NEW w \in Worker, Crashes(w) PROVE IInv'
<1>1. JobAction
  BY DEF Crashes, JobAction
<1>2. /\ \A v \in Worker \ {w} : worker'[v] = worker[v]
      /\ worker'[w] = Idle /\ UNCHANGED status
  BY DEF Crashes, Dies, IInv, JobsInv, JobsTypeOK
<1>3. worker'[w].at # "run"
  BY <1>2 DEF Idle
<1>. QED  BY <1>1, <1>2, <1>3, ReleaseStep DEF Crashes

-----------------------------------------------------------------------------
(* New jobs: each about a recording there is, or about none, and checked   *)
(* only if the active group was.                                           *)
LEMMA EnqueueForStep ==
  ASSUME IInv, NEW S \in SUBSET (rec \cup {NoRec}), NEW kind \in Kind, NEW checked \in BOOLEAN,
         checked => /\ active # NoJobId /\ S \subseteq Group(active)
                    /\ \A x \in S : HasText(x),
         EnqueueFor(S, kind, checked)
  PROVE  IInv'
<1>. DEFINE new == NextIds(Cardinality(S))
<1>1. PICK give \in [new -> S] :
        /\ Enqueue(Cardinality(S))
        /\ task' = [j \in JobId |->
             IF j \in new THEN [kind |-> kind, rec |-> give[j], checked |-> checked] ELSE task[j]]
        /\ UNCHANGED <<dataVars, body, planned>>
  BY DEF EnqueueFor
<1>2. /\ new \subseteq JobId /\ \A j \in new : status[j] = "none"
      /\ SetStatus(new, "pending") /\ UNCHANGED <<claimedBy, worker>>
  BY <1>1 DEF NextIds, In, Enqueue
<1>3. JobsInv' /\ TakenStay
  BY <1>1, EnqueueStep DEF IInv
<1>. HIDE DEF new
<1>4. \A v \in Worker : BodyMoves(v)
  BY <1>1, <1>2 DEF BodyMoves, Working, IInv, JobsInv, HolderIsSound
<1>5. \A j \in JobId \ new : task'[j] = task[j] /\ status'[j] = status[j]
  BY <1>1, <1>2 DEF SetStatus
<1>6. \A j \in new : /\ task'[j].rec = give[j] /\ task'[j].checked = checked
                     /\ give[j] \in S /\ status'[j] = "pending"
  BY <1>1, <1>2 DEF SetStatus
<1>7. Shapes'
  <2>1. task' \in [JobId -> Task]
    BY <1>1 DEF Task, IInv, Shapes, TypeOK
  <2>. QED  BY <1>1, <1>3, <2>1 DEF IInv, Shapes, TypeOK, JobsInv, dataVars
<1>8. UnbornAreUnknown'
  <2>1. \A x \in Prepared \cap Known' : x \in Known
    BY <1>1, <1>5, <1>6, RecordingsAssumption DEF Known, dataVars, Prepared
  <2>. QED  BY <1>3, <1>4, <2>1, UnknownStays DEF IInv
<1>9. ASSUME NEW v \in Worker PROVE WorkIsSound(v)'
  <2>1. Working(v) => worker[v].job \in JobId \ new
    BY <1>2, HeldIsTaken DEF Working, IInv, Taken
  <2>2. Working(v) => Spares(v)
    BY <1>1, <1>5, <2>1 DEF Spares, dataVars, HasBatch, Target, Job
  <2>. QED  BY <1>1, <1>2, <2>2, KeptOrResting
<1>10. NamesAreNear' /\ DoomedAreUnnamed' /\ NamedFilesExist' /\ ActiveGroupIsWhole'
  BY <1>1 DEF IInv, dataVars, NamesAreNear, DoomedAreUnnamed, NamedFilesExist, ActiveGroupIsWhole, HasBatch
<1>11. ScanCovers'
  BY <1>1, <1>3 DEF IInv, dataVars, ScanCovers, TakenStay, Shapes, Scan
<1>12. GroupsAreSettled'
  <2>1. ASSUME NEW g \in JobId, Settled(g) PROVE Settled(g)'
    BY <1>3, <1>4, <2>1, SettledStays
  <2>2. active # NoJobId => active \in JobId /\ Settled(active)
    BY DEF IInv, GroupsAreSettled, Shapes, TypeOK
  <2>3. active # NoJobId => Settled(active)'
    <3>1. ASSUME active # NoJobId PROVE Settled(active)'
      <4>1. PICK g \in JobId : g = active
        BY <2>2, <3>1
      <4>2. Settled(g)'
        BY <2>1, <2>2, <3>1, <4>1
      <4>. QED  BY <1>1, <4>1, <4>2 DEF Settled, Taken, Job, Working, dataVars
    <3>. QED  BY <3>1
  <2>4. ASSUME NEW j \in JobId, task'[j].checked
        PROVE  status'[j] # "none" /\ task'[j].rec \in Prepared /\ Settled(task[j].rec[1])'
    <3>1. CASE j \in new
      <4>1. checked = TRUE /\ give[j] \in Group(active) /\ status'[j] = "pending"
        BY <1>6, <2>4, <3>1
      <4>2. give[j] \in Prepared /\ give[j][1] = active /\ active # NoJobId
        BY <4>1 DEF Group
      <4>. QED  BY <1>1, <1>6, <2>3, <3>1, <4>1, <4>2 DEF Settled, Taken, Job, Working, dataVars
    <3>2. CASE j \notin new
      <4>1. status[j] # "none" /\ task[j].rec \in Prepared /\ Settled(task[j].rec[1])
        BY <1>5, <2>4, <3>2 DEF IInv, GroupsAreSettled
      <4>2. PICK g \in JobId : g = task[j].rec[1]
        BY <4>1 DEF Prepared
      <4>3. Settled(g)'
        BY <2>1, <4>1, <4>2
      <4>. QED  BY <1>5, <3>2, <4>1, <4>2, <4>3 DEF Settled, Taken, Job, Working
    <3>. QED  BY <3>1, <3>2
  <2>. QED  BY <1>1, <2>3, <2>4 DEF GroupsAreSettled, Settled, Taken, Job, Working, dataVars
<1>13. CheckedAlignmentHasText'
  <2>. SUFFICES ASSUME NEW j \in JobId, status'[j] \in {"pending", "running"}, task'[j].checked, HasBatch
                PROVE  HasText(task[j].rec)'
    BY <1>1 DEF CheckedAlignmentHasText, In, HasBatch, dataVars
  <2>1. CASE j \in new
    BY <1>1, <1>6, <2>1 DEF HasText, dataVars
  <2>2. CASE j \notin new
    BY <1>1, <1>5, <2>2 DEF IInv, CheckedAlignmentHasText, In, HasText, dataVars
  <2>. QED  BY <2>1, <2>2
<1>. QED  BY <1>3, <1>7, <1>8, <1>9, <1>10, <1>11, <1>12, <1>13 DEF IInv

LEMMA EnqueuesStep ==
  ASSUME IInv,
         \/ EnqueuePreparation \/ EnqueueTranscription \/ EnqueueAlignment
         \/ \E x \in Direct, kind \in {"transcribe", "align"} : EnqueueOne(x, kind)
  PROVE  IInv'
<1>1. CASE EnqueuePreparation
  BY <1>1, EnqueueForStep DEF EnqueuePreparation, Kind
<1>2. Group(active) \in SUBSET (rec \cup {NoRec})
  BY DEF Group
<1>3. CASE EnqueueTranscription
  BY <1>2, <1>3, EnqueueForStep DEF EnqueueTranscription, Kind
<1>4. CASE EnqueueAlignment
  BY <1>2, <1>4, EnqueueForStep DEF EnqueueAlignment, Kind
<1>5. ASSUME NEW x, NEW kind \in {"transcribe", "align"}, EnqueueOne(x, kind) PROVE IInv'
  BY <1>5, EnqueueForStep DEF EnqueueOne, Kind
<1>. QED  BY <1>1, <1>3, <1>4, <1>5

-----------------------------------------------------------------------------
(* A preparation takes back its own rows, and the jobs that were given one *)
(* of them with it.                                                        *)
LEMMA UndoRowsStep == ASSUME IInv, NEW w \in Worker, UndoRows(w) PROVE IInv'
<1>1. /\ Working(w) /\ body[w].at = "undoRows" /\ WorkIsSound(w) /\ body[w] \in Body /\ Job(w) \in JobId
  BY WorkerAtWork DEF UndoRows, At, Working
<1>. DEFINE b == [body[w] EXCEPT !.at = "undoFiles"]
            D == OfJob(w, body[w].made) \cap rec
            S == {j \in JobId : Exists(j) /\ task[j].rec \in D}
<1>2. b \in Body /\ b.at = "undoFiles" /\ b.todo = body[w].todo /\ b.made = body[w].made
  BY <1>1 DEF Body, Step
<1>3. body' = [body EXCEPT ![w] = b]
  BY DEF UndoRows, To, IInv, Shapes
<1>d. PICK dead \in SUBSET rec : dead = D
  OBVIOUS
<1>4. /\ rec' = rec \ dead /\ art' = [x \in Recording |-> IF x \in dead THEN NoArtifact ELSE art[x]]
      /\ \A x \in dead : x \in OwnRows(w)
  BY <1>1, <1>d DEF UndoRows, OfJob, OwnRows, Prepared, Body
<1>5. DeleteJobs(S)
  BY DEF UndoRows, DeleteJobs, Exists
<1>6. JobsInv' /\ TakenStay
  BY <1>5, DeleteStep DEF IInv
<1>7. \A j \in JobId : status'[j] \in {"pending", "running"} => status[j] = status'[j] /\ task[j].rec \notin dead
  BY <1>5, <1>d DEF DeleteJobs, SetStatus, Exists
<1>. HIDE DEF b, S, D
<1>8. /\ body'[w] = b /\ \A v \in Worker \ {w} : body'[v] = body[v]
      /\ \A v \in Worker : worker'[v] = worker[v]
  BY <1>3, <1>5 DEF IInv, Shapes, DeleteJobs
<1>9. ASSUME NEW v \in Worker PROVE BodyMoves(v)
  BY <1>1, <1>2, <1>8 DEF BodyMoves, Working
<1>10. Shapes'
  <2>1. art' \in [Recording -> Row]
    BY <1>4 DEF IInv, Shapes, TypeOK, Row
  <2>2. rec' \subseteq Recording /\ body' \in [Worker -> Body]
    BY <1>2, <1>3, <1>4 DEF IInv, Shapes, TypeOK
  <2>. QED  BY <1>6, <2>1, <2>2 DEF UndoRows, IInv, Shapes, TypeOK, JobsInv
<1>11. UnbornAreUnknown'
  BY <1>4, <1>6, <1>9, UnknownStays DEF IInv, Known, UndoRows
<1>12. ASSUME NEW v \in Worker PROVE WorkIsSound(v)'
  <2>1. CASE v # w
    <3>1. ASSUME Working(v) PROVE Spares(v)
      <4>1. worker[v].job # worker[w].job
        BY <1>1, <2>1, <3>1, OthersHoldOthers DEF IInv
      <4>. QED  BY <1>4, <4>1 DEF Spares, UndoRows, HasBatch, OwnRows, Job, Target
    <3>. QED  BY <1>8, <2>1, <3>1, KeptOrResting
  <2>2. CASE v = w
    <3>1. \A r \in Raw : <<Job(w), r>> \in rec => <<Job(w), r>> \in dead
      BY <1>1, <1>d DEF WorkIsSound, Preparing, OfJob, D
    <3>2. /\ task[Job(w)].kind = "prepare" /\ planned[Job(w)] \subseteq b.todo \cup b.made
          /\ Job(w)' = Job(w) /\ Working(w)' /\ UNCHANGED <<task, planned>>
      BY <1>1, <1>2, <1>8 DEF WorkIsSound, Preparing, Job, Working, UndoRows
    <3>3. \A r \in Raw : <<Job(w), r>> \notin rec'
      BY <1>4, <3>1
    <3>. QED  BY <1>2, <1>8, <2>2, <3>2, <3>3 DEF WorkIsSound, Preparing, Reading
  <2>. QED  BY <2>1, <2>2
<1>13. NamesAreNear' /\ DoomedAreUnnamed' /\ NamedFilesExist'
  <2>1. \A x \in rec' : x \in rec /\ art'[x] = art[x]
    BY <1>4 DEF IInv, Shapes, TypeOK
  <2>. QED  BY <2>1 DEF UndoRows, IInv, NamesAreNear, DoomedAreUnnamed, NamedFilesExist
<1>14. ScanCovers'
  BY <1>4, <1>6 DEF UndoRows, IInv, ScanCovers, TakenStay, Shapes, Scan
<1>15. GroupsAreSettled'
  BY <1>6, <1>9, GroupsStaySettled DEF IInv, UndoRows
<1>u. ~Settled(Job(w))
  BY <1>1 DEF Settled
<1>16. ActiveGroupIsWhole'
  <2>1. active # NoJobId => active # Job(w)
    BY <1>u DEF IInv, GroupsAreSettled
  <2>. QED  BY <1>4, <2>1 DEF UndoRows, IInv, ActiveGroupIsWhole, HasBatch, OwnRows
<1>17. CheckedAlignmentHasText'
  <2>. SUFFICES ASSUME NEW j \in JobId, status'[j] \in {"pending", "running"}, task[j].checked, HasBatch
                PROVE  HasText(task[j].rec)'
    BY DEF CheckedAlignmentHasText, In, HasBatch, UndoRows
  <2>1. HasText(task[j].rec) /\ task[j].rec \in Prepared
    BY <1>7 DEF IInv, CheckedAlignmentHasText, In, GroupsAreSettled
  <2>2. task[j].rec \in Recording /\ task[j].rec \notin dead
    BY <1>7, <2>1 DEF Recording
  <2>. QED  BY <1>4, <2>1, <2>2 DEF HasText, UndoRows
<1>. QED  BY <1>6, <1>10, <1>11, <1>12, <1>13, <1>14, <1>15, <1>16, <1>17 DEF IInv

-----------------------------------------------------------------------------
(* The deletion of the project.                                            *)
LEMMA ReadProjectStep == ASSUME IInv, ReadProject PROVE IInv'
<1>1. JobsInv' /\ TakenStay
  BY DEF ReadProject, jobVars, IInv, JobsInv, JobsTypeOK, HolderIsSound, Taken, Beats, OneHolder, TakenStay
<1>2. \A v \in Worker : BodyMoves(v)
  BY DEF ReadProject, jobVars, BodyMoves, Working, IInv, JobsInv, HolderIsSound
<1>3. /\ scan'.rec = rec /\ scan'.art = {art[x] : x \in rec} \ {NoArtifact}
      /\ scan'.jobs = {j \in JobId : Exists(j) /\ task[j].rec \in rec}
      /\ scan'.text = {} /\ scan'.words = {}
  BY DEF ReadProject, NoScan
<1>4. scan' \in Scan
  <2>1. {art[x] : x \in rec} \ {NoArtifact} \subseteq Artifact
    BY DEF IInv, Shapes, TypeOK, Row
  <2>. QED  BY <2>1 DEF ReadProject, Scan, NoScan, IInv, Shapes, TypeOK
<1>5. Shapes'
  BY <1>1, <1>4 DEF ReadProject, IInv, Shapes, TypeOK, JobsInv, Scan
<1>6. UnbornAreUnknown'
  BY <1>1, <1>2, <1>3, UnknownStays DEF IInv, Known, ReadProject
<1>7. ASSUME NEW v \in Worker PROVE WorkIsSound(v)'
  BY KeptOrResting DEF ReadProject, jobVars, Spares, HasBatch, Target, Job
<1>8. NamesAreNear'
  <2>1. \A row \in scan'.art : row.text \in {NoRec} \cup rec \cup Raw /\ row.words \in {NoRec} \cup rec \cup Raw
    BY <1>3 DEF IInv, NamesAreNear
  <2>. QED  BY <1>3, <2>1 DEF ReadProject, IInv, NamesAreNear
<1>9. ScanCovers' /\ DoomedAreUnnamed'
  BY <1>3 DEF ReadProject, jobVars, IInv, ScanCovers, DoomedAreUnnamed, Exists
<1>10. GroupsAreSettled'
  BY <1>1, <1>2, GroupsStaySettled DEF IInv, ReadProject
<1>11. NamedFilesExist' /\ ActiveGroupIsWhole' /\ CheckedAlignmentHasText'
  BY DEF ReadProject, jobVars, IInv, NamedFilesExist, ActiveGroupIsWhole, CheckedAlignmentHasText,
         HasBatch, HasText, In
<1>. QED  BY <1>1, <1>5, <1>6, <1>7, <1>8, <1>9, <1>10, <1>11 DEF IInv

LEMMA DeleteRowsStep == ASSUME IInv, DeleteRows PROVE IInv'
<1>1. DeleteJobs(scan.jobs) /\ project' = "cleared" /\ rec' = rec \ scan.rec
  BY DEF DeleteRows, DeleteJobs, IInv, ScanCovers, Shapes, Scan
<1>2. JobsInv' /\ TakenStay
  BY <1>1, DeleteStep DEF IInv
<1>3. UNCHANGED <<worker, body>>
  BY DEF DeleteRows
<1>4. \A v \in Worker : BodyMoves(v)
  BY <1>3 DEF BodyMoves, Working, IInv, JobsInv, HolderIsSound
<1>5. Shapes'
  <2>1. art' \in [Recording -> Row]
    BY DEF DeleteRows, IInv, Shapes, TypeOK, Row
  <2>. QED  BY <1>2, <2>1 DEF DeleteRows, IInv, Shapes, TypeOK, JobsInv
<1>6. UnbornAreUnknown'
  BY <1>1, <1>2, <1>4, UnknownStays DEF IInv, Known, DeleteRows
<1>7. ASSUME NEW v \in Worker PROVE WorkIsSound(v)'
  <2>1. Spares(v)
    BY <1>1 DEF DeleteRows, Spares, HasBatch, Target, Job
  <2>. QED  BY <1>3, <2>1, KeptOrResting
<1>8. NamesAreNear' /\ DoomedAreUnnamed' /\ NamedFilesExist'
  <2>1. \A x \in rec' : x \in rec /\ art'[x] = art[x]
    BY DEF DeleteRows, IInv, Shapes, TypeOK
  <2>. QED  BY <2>1 DEF DeleteRows, IInv, NamesAreNear, DoomedAreUnnamed, NamedFilesExist
<1>9. ScanCovers'
  <2>1. rec \cap Raw \subseteq scan.rec
    BY DEF DeleteRows, IInv, ScanCovers
  <2>2. \A j \in scan'.jobs : status'[j] # "none"
    BY <1>2 DEF DeleteRows, IInv, ScanCovers, TakenStay, Shapes, Scan
  <2>3. crossed' = {}
    BY DEF DeleteRows, IInv, ScanCovers
  <2>. QED  BY <1>1, <2>1, <2>2, <2>3 DEF ScanCovers, DeleteRows
<1>10. GroupsAreSettled'
  BY <1>2, <1>4, GroupsStaySettled DEF IInv, DeleteRows
<1>11. ActiveGroupIsWhole' /\ CheckedAlignmentHasText'
  BY <1>1 DEF ActiveGroupIsWhole, CheckedAlignmentHasText, HasBatch
<1>. QED  BY <1>2, <1>5, <1>6, <1>7, <1>8, <1>9, <1>10, <1>11 DEF IInv

(* What is to be unlinked lies with the deleted rows or with the raw       *)
(* recordings, of which none is left, and no row names it.                 *)
LEMMA KeepNamedStep == ASSUME IInv, KeepNamed PROVE IInv'
<1>1. JobsInv' /\ TakenStay
  BY DEF KeepNamed, jobVars, IInv, JobsInv, JobsTypeOK, HolderIsSound, Taken, Beats, OneHolder, TakenStay
<1>2. \A v \in Worker : BodyMoves(v)
  BY DEF KeepNamed, jobVars, BodyMoves, Working, IInv, JobsInv, HolderIsSound
<1>3. crossed = {} /\ crossed' = Copying /\ project' = "kept" /\ ~HasBatch /\ ~HasBatch'
      /\ rec \cap (Raw \cup scan.rec) = {}
  BY DEF KeepNamed, IInv, ScanCovers, HasBatch
<1>. DEFINE left == {art[x] : x \in Recording}
            gone(column) == Named(column, scan.art) \ Named(column, left)
<1>4. /\ scan'.rec = scan.rec /\ scan'.art = scan.art /\ scan'.jobs = scan.jobs
      /\ scan'.text = gone("text") /\ scan'.words = gone("words")
  BY DEF KeepNamed, IInv, Shapes, Scan
<1>5. gone("text") \subseteq scan.rec \cup Raw /\ gone("words") \subseteq scan.rec \cup Raw
  BY DEF Named, IInv, NamesAreNear
<1>6. \A x \in rec : art[x].text \notin gone("text") /\ art[x].words \notin gone("words")
  BY DEF Named, IInv, Shapes, TypeOK
<1>. HIDE DEF gone, left
<1>7. Copying \subseteq Prepared
  <2>1. ASSUME NEW v \in Worker, At(v, "saveCopy") PROVE Made(v) \in Prepared
    <3>1. WorkIsSound(v) /\ body[v] \in Body /\ Job(v) \in JobId
      BY <2>1, WorkerAtWork DEF At, Working
    <3>. QED  BY <2>1, <3>1 DEF At, WorkIsSound, Body, Made, Now, Prepared
  <2>. QED  BY <2>1 DEF Copying
<1>8. Shapes'
  <2>1. scan.rec \cup Raw \subseteq Recording
    BY DEF IInv, Shapes, TypeOK, Recording
  <2>2. scan' \in Scan
    BY <1>4, <1>5, <2>1 DEF KeepNamed, IInv, Shapes, Scan
  <2>. QED  BY <1>1, <1>3, <1>4, <1>5, <1>7, <2>1, <2>2 DEF KeepNamed, IInv, Shapes, TypeOK, JobsInv
<1>9. UnbornAreUnknown'
  BY <1>1, <1>2, <1>4, UnknownStays DEF IInv, Known, KeepNamed
<1>10. ASSUME NEW v \in Worker PROVE WorkIsSound(v)'
  <2>1. ASSUME Working(v), body[v].at = "saveCopy" PROVE <<Job(v), body[v].now>> \in crossed'
    BY <1>3, <2>1 DEF Copying, At, Working, Made, Now
  <2>2. Working(v) => Spares(v)
    BY <1>3, <2>1 DEF KeepNamed, Spares, Target, Job
  <2>. QED  BY <2>2, KeptOrResting DEF KeepNamed, jobVars
<1>11. NamesAreNear' /\ DoomedAreUnnamed' /\ ScanCovers'
  BY <1>3, <1>4, <1>5, <1>6 DEF KeepNamed, jobVars, IInv, NamesAreNear, DoomedAreUnnamed, ScanCovers
<1>12. NamedFilesExist'
  BY <1>3 DEF KeepNamed, IInv, NamedFilesExist
<1>13. GroupsAreSettled'
  BY <1>1, <1>2, GroupsStaySettled DEF IInv, KeepNamed
<1>14. ActiveGroupIsWhole' /\ CheckedAlignmentHasText'
  BY <1>3 DEF ActiveGroupIsWhole, CheckedAlignmentHasText
<1>. QED  BY <1>1, <1>8, <1>9, <1>10, <1>11, <1>12, <1>13, <1>14 DEF IInv

(* The files go that no row names, so that nobody else loses its own.      *)
LEMMA DeleteFilesStep == ASSUME IInv, DeleteFiles PROVE IInv'
<1>1. JobsInv' /\ TakenStay
  BY DEF DeleteFiles, jobVars, IInv, JobsInv, JobsTypeOK, HolderIsSound, Taken, Beats, OneHolder, TakenStay
<1>2. \A v \in Worker : BodyMoves(v)
  BY DEF DeleteFiles, jobVars, BodyMoves, Working, IInv, JobsInv, HolderIsSound
<1>3. /\ scan' = NoScan /\ NoScan \in Scan /\ NoScan.rec = {} /\ NoScan.art = {} /\ NoScan.jobs = {}
      /\ NoScan.text = {} /\ NoScan.words = {}
  BY DEF DeleteFiles, NoScan, Scan
<1>4. rec \cap (Raw \cup scan.rec) = {} /\ ~HasBatch /\ ~HasBatch'
  BY DEF DeleteFiles, IInv, ScanCovers, HasBatch
<1>5. /\ audio' = audio \ scan.rec
      /\ text' = text \ scan.text /\ words' = words \ scan.words
  BY DEF DeleteFiles
<1>6. ASSUME NEW x \in rec PROVE x \notin scan.text /\ x \notin scan.words
  BY <1>4 DEF IInv, NamesAreNear
<1>8. Shapes'
  BY <1>1, <1>3, <1>5 DEF DeleteFiles, IInv, Shapes, TypeOK, JobsInv, Scan
<1>9. UnbornAreUnknown'
  BY <1>1, <1>2, <1>3, UnknownStays DEF IInv, Known, DeleteFiles
<1>10. ASSUME NEW v \in Worker PROVE WorkIsSound(v)'
  <2>1. ASSUME Working(v), body[v].at \in {"parent", "insert"} PROVE <<Job(v), body[v].now>> \notin scan.rec
    <3>1. WorkIsSound(v) /\ body[v] \in Body /\ Job(v) \in JobId
      BY <2>1, WorkerAtWork
    <3>2. body[v].now \in body[v].todo \ body[v].made /\ body[v].now \in Raw
      BY <2>1, <3>1 DEF WorkIsSound, Body
    <3>3. PICK x \in Prepared : x = <<Job(v), body[v].now>>
      BY <3>1, <3>2 DEF Prepared
    <3>4. Unborn(x)
      BY <2>1, <3>2, <3>3 DEF Unborn
    <3>. QED  BY <3>3, <3>4 DEF IInv, UnbornAreUnknown, Known
  <2>2. ASSUME Working(v), body[v].at = "saveCopy" PROVE <<Job(v), body[v].now>> \in crossed
    BY <2>2, WorkerAtWork DEF WorkIsSound, ReadIsWhole, DeleteFiles
  <2>3. Working(v) => Spares(v)
    BY <1>4, <1>5, <1>6, <2>1, <2>2 DEF DeleteFiles, Spares, Target, Job
  <2>. QED  BY <2>3, KeptOrResting DEF DeleteFiles, jobVars
<1>11. NamesAreNear' /\ DoomedAreUnnamed'
  BY <1>3 DEF DeleteFiles, IInv, NamesAreNear, DoomedAreUnnamed
<1>12. NamedFilesExist'
  BY <1>4, <1>5 DEF DeleteFiles, IInv, NamedFilesExist, DoomedAreUnnamed
<1>13. ScanCovers'
  BY <1>3 DEF DeleteFiles, ScanCovers
<1>14. GroupsAreSettled'
  BY <1>1, <1>2, GroupsStaySettled DEF IInv, DeleteFiles
<1>15. ActiveGroupIsWhole' /\ CheckedAlignmentHasText'
  BY <1>4 DEF ActiveGroupIsWhole, CheckedAlignmentHasText
<1>. QED  BY <1>1, <1>8, <1>9, <1>10, <1>11, <1>12, <1>13, <1>14, <1>15 DEF IInv

-----------------------------------------------------------------------------
LEMMA InitIInv == Init => IInv
<1>. SUFFICES ASSUME Init PROVE IInv
  OBVIOUS
<1>0. 1 \in JobId /\ NoJobId \notin JobId
  BY JobsAssumption DEF JobId, NoJobId
<1>1. PICK raw \in SUBSET Raw, done \in BOOLEAN :
        /\ text \in SUBSET raw /\ words \in SUBSET text
        /\ LET made == IF done THEN {1} \X raw ELSE {}
           IN  /\ rec = raw \cup made
               /\ art = [x \in Recording |->
                    IF x \in raw THEN Copies(x)
                    ELSE IF x \in made THEN Copies(x[2]) ELSE NoArtifact]
        /\ active = IF done THEN 1 ELSE NoJobId
        /\ status = [j \in JobId |-> IF j > 1 THEN "none"
                                     ELSE IF done THEN "completed" ELSE "failed"]
        /\ planned = [j \in JobId |-> IF j > 1 THEN {} ELSE raw]
  BY DEF Init
<1>. DEFINE made == IF done THEN {1} \X raw ELSE {}
<1>2. /\ rec = raw \cup made /\ rec \subseteq Recording /\ made \subseteq Prepared
      /\ art = [x \in Recording |-> IF x \in raw THEN Copies(x)
                                    ELSE IF x \in made THEN Copies(x[2]) ELSE NoArtifact]
  BY <1>0, <1>1 DEF Recording, Prepared
<1>3. ASSUME NEW r \in raw
      PROVE  /\ Copies(r) \in Artifact
             /\ Copies(r).text \in {NoRec, r} /\ Copies(r).text \in text \cup {NoRec}
             /\ Copies(r).words \in {NoRec, r} /\ Copies(r).words \in words \cup {NoRec}
  BY <1>1 DEF Copies, Artifact, Recording
<1>4. \A j \in JobId : status[j] \in {"none", "completed", "failed"} /\ (j = 1 <=> Taken(j))
  BY <1>1 DEF Taken, JobId
<1>5. /\ worker = [w \in Worker |-> Idle] /\ body = [w \in Worker |-> NoBody]
      /\ task = [j \in JobId |-> IF j > 1 THEN NoTask ELSE Prepare]
      /\ project = "live" /\ scan = NoScan /\ crossed = {} /\ audio = rec
  BY DEF Init
<1>6. NoTask \in Task /\ Prepare \in Task /\ NoTask.rec = NoRec /\ Prepare.rec = NoRec
      /\ NoTask.checked = FALSE /\ Prepare.checked = FALSE
  BY DEF NoTask, Prepare, Task, Kind
<1>7. \A j \in JobId : task[j] \in Task /\ task[j].rec = NoRec /\ task[j].checked = FALSE
  BY <1>5, <1>6
<1>8. NoScan \in Scan /\ NoScan.rec = {} /\ NoScan.art = {} /\ NoScan.jobs = {}
      /\ NoScan.text = {} /\ NoScan.words = {}
  BY DEF NoScan, Scan
<1>9. JobsInv
  <2>1. JobsTypeOK
    <3>1. status \in [JobId -> Status]
      BY <1>1 DEF Status, Terminal
    <3>. QED  BY <1>5, <3>1, IdleIsLocal DEF Init, JobsTypeOK
  <2>. QED  BY <1>5, <2>1 DEF JobsInv, HolderIsSound, OneHolder, Idle
<1>10. Shapes
  <2>1. art \in [Recording -> Row]
    BY <1>2, <1>3 DEF Row, Prepared
  <2>2. task \in [JobId -> Task] /\ planned \in [JobId -> SUBSET Raw]
    BY <1>1, <1>5, <1>6
  <2>3. active \in JobId \cup {NoJobId}
    BY <1>0, <1>1
  <2>. QED  BY <1>1, <1>2, <1>5, <1>8, <1>9, <2>1, <2>2, <2>3, NoBodyIsBody
            DEF Shapes, TypeOK, JobsInv, Scan, Recording
<1>11. UnbornAreUnknown
  <2>1. \A x \in Prepared \cap Known : x[1] = 1
    <3>1. Known = rec \cup {NoRec} \/ Known = rec
      BY <1>0, <1>5, <1>7, <1>8 DEF Known
    <3>. QED  BY <1>1, <1>2, <3>1, RecordingsAssumption DEF Prepared
  <2>. QED  BY <1>0, <1>4, <1>5, <2>1 DEF UnbornAreUnknown, Unborn, Working, Idle
<1>12. \A w \in Worker : WorkIsSound(w)
  BY <1>5 DEF WorkIsSound, NoBody, Preparing, Reading
<1>13. \A x \in rec : /\ art[x] # NoArtifact
                      /\ art[x].text \in {NoRec, x} \cup Raw /\ art[x].text \in text \cup {NoRec}
                      /\ art[x].words \in {NoRec, x} \cup Raw /\ art[x].words \in words \cup {NoRec}
  <2>1. \A x \in raw : art[x] = Copies(x)
    BY <1>2
  <2>2. \A x \in made \ raw : art[x] = Copies(x[2]) /\ x[2] \in raw
    BY <1>2
  <2>. QED  BY <1>1, <1>2, <1>3, <2>1, <2>2 DEF Artifact, NoArtifact
<1>14. NamesAreNear /\ DoomedAreUnnamed /\ NamedFilesExist
  BY <1>5, <1>8, <1>13 DEF NamesAreNear, DoomedAreUnnamed, NamedFilesExist
<1>15. ScanCovers
  BY <1>5, <1>8 DEF ScanCovers
<1>16. GroupsAreSettled
  BY <1>0, <1>1, <1>4, <1>5, <1>7 DEF GroupsAreSettled, Settled, Working, Idle
<1>17. ActiveGroupIsWhole /\ CheckedAlignmentHasText
  <2>1. active # NoJobId => active = 1 /\ planned[1] = raw /\ made = {1} \X raw
    BY <1>0, <1>1
  <2>. QED  BY <1>2, <1>7, <2>1 DEF ActiveGroupIsWhole, CheckedAlignmentHasText, In
<1>. QED  BY <1>9, <1>10, <1>11, <1>12, <1>14, <1>15, <1>16, <1>17 DEF IInv

LEMMA StepIInv == IInv /\ [Next]_vars => IInv'
<1>. SUFFICES ASSUME IInv, [Next]_vars PROVE IInv'
  OBVIOUS
<1>1. CASE UNCHANGED vars
  <2>1. JobAction
    BY <1>1 DEF vars, JobAction
  <2>2. \A v \in Worker : body'[v] = IF Working(v)' THEN body[v] ELSE NoBody
    BY <1>1 DEF vars, jobVars, IInv, WorkIsSound, Working
  <2>. QED  BY <1>1, <2>1, <2>2, JobsOnlyStep DEF vars, jobVars, IInv, Shapes
<1>2. ASSUME NEW w \in Worker, Work(w) PROVE IInv'
  BY <1>2, RefusedStep, BeginsStep, WriteWavStep, ReadParentStep, InsertRowStep, ReadArtifactStep, SaveCopyStep, ActivateStep,
     UndoRowsStep, UndoFilesStep, WriteTextStep, SaveTextStep, WriteWordsStep, SaveWordsStep DEF Work
<1>3. ASSUME NEW w \in Worker, Polls(w) \/ Done(w) \/ Throws(w) \/ Crashes(w) PROVE IInv'
  BY <1>3, PollsStep, DoneStep, ThrowsStep, CrashesStep
<1>4. CASE Client
  BY <1>4, EnqueuesStep, ReadProjectStep, DeleteRowsStep, KeepNamedStep, DeleteFilesStep DEF Client
<1>. QED  BY <1>1, <1>2, <1>3, <1>4 DEF Next

-----------------------------------------------------------------------------
(* Jobs, rows and files keep the shapes that the code writes.              *)
THEOREM TypeCorrect == Spec => []TypeOK
<1>1. IInv => TypeOK
  BY DEF IInv, Shapes
<1>. QED  BY InitIInv, StepIInv, <1>1, PTL DEF Spec

(* A row names only files that are there, whatever preparation failed,     *)
(* died or raced the deletion of the project, but for a row whose copy     *)
(* crossed the deletion's look at what is still named.                     *)
THEOREM FilesAreThere == Spec => []NamedFilesExist
<1>1. IInv => NamedFilesExist
  BY DEF IInv
<1>. QED  BY InitIInv, StepIInv, <1>1, PTL DEF Spec

(* The active group has a row for each raw recording its job found.        *)
THEOREM GroupIsWhole == Spec => []ActiveGroupIsWhole
<1>1. IInv => ActiveGroupIsWhole
  BY DEF IInv
<1>. QED  BY InitIInv, StepIInv, <1>1, PTL DEF Spec

(* The recording of an alignment that was checked when it was asked for    *)
(* still has some transcript, not necessarily the one it had then.         *)
THEOREM AlignmentHasText == Spec => []CheckedAlignmentHasText
<1>1. IInv => CheckedAlignmentHasText
  BY DEF IInv
<1>. QED  BY InitIInv, StepIInv, <1>1, PTL DEF Spec

(* A job whose heartbeats go on is failed by its own worker or by nobody.  *)
THEOREM LiveJobsAreLeft == Spec => LiveJobIsNotSwept
<1>1. IInv /\ [Next]_vars => [\A w \in Worker, j \in JobId :
        worker[w].job = j /\ worker[w].beating /\ status[j] = "running"
          /\ status'[j] = "failed" => worker'[w].job # j]_vars
  BY NextMovesJobs, NotSweptStep DEF NotSwept, IInv
<1>. QED  BY InitIInv, StepIInv, <1>1, PTL DEF Spec, LiveJobIsNotSwept

(* The jobs implement JobLifecycle, whatever the workers do with them.     *)
THEOREM ImplementsLifecycle == Spec => JobsFollowTheirLifecycle
<1>1. Init => Lifecycle!Init
  <2>. SUFFICES ASSUME Init PROVE Lifecycle!Init
    OBVIOUS
  <2>1. status \in [1..MaxJobs -> {"none", "completed", "failed"}]
    BY DEF Init, JobId
  <2>2. claimedBy = [j \in 1..MaxJobs |-> NoWorker]
    BY DEF Init, JobId
  <2>. QED  BY <2>1, <2>2 DEF Lifecycle!Init, Lifecycle!Terminal, Lifecycle!JobId
<1>2. IInv /\ [Next]_vars => [Lifecycle!Next]_<<status, claimedBy>>
  <2>1. ASSUME IInv, Next PROVE [Lifecycle!Next]_<<status, claimedBy>>
    BY <2>1, NextMovesJobs, JobActionLife DEF LifeStep, IInv
  <2>2. UNCHANGED vars => UNCHANGED <<status, claimedBy>>
    BY DEF vars, jobVars
  <2>. QED  BY <2>1, <2>2
<1>. QED  BY InitIInv, StepIInv, <1>1, <1>2, PTL DEF Spec, JobsFollowTheirLifecycle, Lifecycle!Spec

=============================================================================
