----------------------------- MODULE DatasetRun -----------------------------
(***************************************************************************)
(* One multi-speaker dataset run: its processingrun row, its status.json,  *)
(* its worker processes and the API calls on it                            *)
(* (backend/app/dataset_runs.py, workers/dataset/speechcraft_dataset/run.py*)
(* and the rerun modules beside it).                                       *)
(*                                                                         *)
(* The backend launches workers and never waits for them; all it knows of  *)
(* one is the pid in the row, whether that pid answers signal 0, and what  *)
(* status.json says.  A worker that ended stays a zombie until the backend *)
(* starts its next subprocess, which reaps it, and a zombie answers.       *)
(*                                                                         *)
(* Stages are ranks: 1 diarization, 2 candidate_review_clips, 3 the QC     *)
(* stages, 4 native_export; 0 is a run not started, or a status.json that  *)
(* says "starting".                                                        *)
(***************************************************************************)
EXTENDS Naturals, FiniteSets

CONSTANTS Call,        \* bound: API calls that may be in progress at once
          Ops,         \* bound: what each of them may be for
          MaxWorkers,  \* bound: worker processes ever launched
          Stop,        \* bound: the stages that clients ask a run to stop after
          Crowding,    \* bound: TRUE: workers are asked for beside a live one
          BackendDies  \* TRUE: the backend process may die and restart

ASSUME DatasetRunAssumption ==
  /\ MaxWorkers \in Nat /\ Stop \subseteq 2..4
  /\ Crowding \in BOOLEAN /\ BackendDies \in BOOLEAN

VARIABLES row,        \* the processingrun row
          file,       \* status.json
          selected,   \* speaker_selection.json selects a speaker
          reached,    \* the stage whose artifacts are in the run's directory
          worker,     \* the worker processes, by pid
          call,       \* the local state of the API calls
          overlapped, \* history: a worker was launched, or its status.json
                      \* written, beside a live one
          overtaken,  \* history: a call has committed over a later launch's
          stopped     \* history: cancelled, and no worker asked for since

vars == <<row, file, selected, reached, worker, call, overlapped, overtaken, stopped>>

Pid    == 1..MaxWorkers
NoPid  == 0
Stage  == 1..4
Rank   == 0..4
Status == {"pending", "running", "completed", "failed", "cancelled"}

Row  == [status : Status, stage : Rank, pid : Pid \cup {NoPid}]
File == [ok : {"null", "true", "false"}, stage : Rank, done : BOOLEAN,
         cancelled : BOOLEAN]

Says(ok, stage, done) == [ok |-> ok, stage |-> stage, done |-> done, cancelled |-> FALSE]
NoFile  == [Says("null", 0, FALSE) EXCEPT !.ok = "none"]  \* absent, or torn
AnyFile == File \cup {NoFile}

Pipeline == {"start", "resume"}
Kind   == Pipeline \cup {"slicer", "qc", "export"}
Life   == {"none", "alive", "zombie", "gone"}
Worker == [life : Life, kind : Kind, at : Rank, booted : BOOLEAN, goal : Rank]
NoWorker == [life |-> "none", kind |-> "start", at |-> 0, booted |-> FALSE, goal |-> 0]

NoRow == [status |-> "pending", stage |-> 0, pid |-> NoPid]
Op    == {"none", "start", "resume", "slicer", "qc", "export", "refresh",
          "cancel", "select"}
NoCall == [op |-> "none", at |-> "read", row |-> NoRow, file |-> NoFile,
           goal |-> 0, alive |-> FALSE]
CallState == [op : Op, at : {"read", "launch", "commit", "pid", "kill"},
              row : Row, file : AnyFile, goal : Rank, alive : BOOLEAN]

TypeOK ==
  /\ row \in Row
  /\ file \in AnyFile
  /\ selected \in BOOLEAN /\ overlapped \in BOOLEAN /\ overtaken \in BOOLEAN /\ stopped \in BOOLEAN
  /\ reached \in Rank
  /\ worker \in [Pid -> Worker]
  /\ call \in [Call -> CallState]

Init ==
  /\ row = NoRow
  /\ file = NoFile
  /\ selected = FALSE /\ overlapped = FALSE /\ overtaken = FALSE /\ stopped = FALSE
  /\ reached = 0
  /\ worker = [p \in Pid |-> NoWorker]
  /\ call = [c \in Call |-> NoCall]

Live       == {p \in Pid : worker[p].life = "alive"}
Answers(p) == p # NoPid /\ worker[p].life \in {"alive", "zombie"}  \* _pid_is_running
Owned(p)   == p # NoPid /\ worker[p].life = "alive"                \* _owned_worker_process

Higher(a, b) == IF a > b THEN a ELSE b
Lower(a, b)  == IF a < b THEN a ELSE b
Reaped(w)    == IF w.life = "zombie" THEN [w EXCEPT !.life = "gone"] ELSE w

(* session.commit writes the columns that differ from what was read. *)
Column(old, new, now) == IF new # old THEN new ELSE now
Commit(old, new) ==
  row' = [status |-> Column(old.status, new.status, row.status),
          stage  |-> Column(old.stage, new.stage, row.stage),
          pid    |-> Column(old.pid, new.pid, row.pid)]

(* What a call goes by when it commits: a poll all of the row, a cancel    *)
(* and a selection the pid in its input_summary.                           *)
Remembered(op) == CASE op \in Kind     -> NoRow
                    [] op = "refresh"  -> row
                    [] OTHER           -> [NoRow EXCEPT !.pid = row.pid]

Begin(c, op, at, goal) ==
  /\ call[c].op = "none" /\ op \in Ops[c]
  /\ call' = [call EXCEPT ![c] = [NoCall EXCEPT !.op = op, !.at = at,
                                  !.row = Remembered(op), !.goal = goal]]
Return(c) == call' = [call EXCEPT ![c] = NoCall]

(* The call commits to a row that has a worker launched since it read it. *)
Overtakes(c) == overtaken' = (overtaken \/ call[c].row.pid < row.pid)

-----------------------------------------------------------------------------
(* Launching.  Each call reads the row and checks it, writes config.json   *)
(* (and a rerun a new status.json), starts the worker, and only then       *)
(* commits the row; a refused call changes nothing.                        *)
(* _wizard_run_lock is held by a resume from its check to its commit.      *)

Start(c) ==
  /\ row.status = "pending"
  /\ \E stop \in Stop : Begin(c, "start", "launch", IF selected THEN stop ELSE 1)
  /\ UNCHANGED <<file, overlapped>>

CompletedThrough(stop) == row.status = "completed" /\ row.stage >= stop

Resume(c) ==
  /\ \A d \in Call : call[d].op # "resume"
  /\ row.status # "running" /\ ~Owned(row.pid)
  /\ selected
  /\ \E stop \in Stop : ~CompletedThrough(stop) /\ Begin(c, "resume", "launch", stop)
  /\ UNCHANGED <<file, overlapped>>

First(kind) == CASE kind \in Pipeline -> 1
                 [] kind = "slicer"    -> 2
                 [] kind = "qc"        -> 3
                 [] kind = "export"    -> 4

(* rerun_dataset_slicer, generate_dataset_qc_scores and                    *)
(* rerun_dataset_native_export; all need the candidate clips, and QC the   *)
(* selection.                                                              *)
Rerun(c, kind) ==
  /\ row.status # "running"
  /\ reached >= 2
  /\ kind = "qc" => selected
  /\ Begin(c, kind, "launch", IF kind = "slicer" THEN 3 ELSE First(kind))
  /\ file' = Says("null", First(kind), FALSE)
  /\ overlapped' = (overlapped \/ Live # {})

(* _launch_worker; Popen reaps the workers that have ended. *)
Launch(c) ==
  /\ call[c].op \in Kind /\ call[c].at = "launch"
  /\ \E p \in Pid :
        /\ worker[p].life = "none" /\ \A q \in 1..(p - 1) : worker[q].life # "none"
        /\ worker' = [[q \in Pid |-> Reaped(worker[q])] EXCEPT ![p] =
             [life |-> "alive", kind |-> call[c].op, at |-> 0,
              booted |-> call[c].op \notin Pipeline, goal |-> call[c].goal]]
        /\ call' = [call EXCEPT ![c].at = "commit",
             ![c].row = [@ EXCEPT !.pid = p]]
  /\ overlapped' = (overlapped \/ Live # {})
  /\ stopped' = FALSE
  /\ UNCHANGED <<row, file, selected, reached, overtaken>>

(* The commit of a launch.  status, started_at and input_summary (which    *)
(* holds the pid) always differ from what was read.                        *)
Launched(c) ==
  /\ call[c].op \in Kind /\ call[c].at = "commit"
  /\ row' = [status |-> "running", pid |-> call[c].row.pid,
             stage |-> IF call[c].op \in Pipeline THEN row.stage ELSE First(call[c].op)]
  /\ Return(c) /\ Overtakes(c)
  /\ UNCHANGED <<file, selected, reached, worker, overlapped, stopped>>

Asks(c) ==
  /\ Crowding \/ Live = {}
  /\ \/ Start(c) \/ Resume(c)
     \/ \E kind \in {"slicer", "qc", "export"} : Rerun(c, kind)
  /\ stopped' = FALSE
  /\ UNCHANGED <<row, selected, reached, worker, overtaken>>

-----------------------------------------------------------------------------
(* The worker process.  A pipeline first says that it starts; a QC or      *)
(* slicer rerun first clears what follows the candidate clips.             *)
Alive(p) == worker[p].life = "alive"

Boot(p) ==
  /\ Alive(p) /\ ~worker[p].booted
  /\ file' = Says("null", 0, FALSE)
  /\ worker' = [worker EXCEPT ![p].booted = TRUE]
  /\ UNCHANGED <<row, selected, reached, call, overlapped, overtaken, stopped>>

(* The next stage is announced; the one before has its artifacts. *)
Enter(p) ==
  /\ Alive(p) /\ worker[p].booted
  /\ worker[p].at < worker[p].goal
  /\ LET next == IF worker[p].at = 0 THEN First(worker[p].kind) ELSE worker[p].at + 1
     IN  /\ worker' = [worker EXCEPT ![p].at = next]
         /\ file' = Says("null", next, FALSE)
  /\ reached' = IF worker[p].at = 0 /\ worker[p].kind \in {"slicer", "qc"}
                THEN Lower(reached, 2) ELSE Higher(reached, worker[p].at)
  /\ UNCHANGED <<row, selected, call, overlapped, overtaken, stopped>>

(* A process that has ended keeps nothing but its pid. *)
Ends(p) == worker' = [worker EXCEPT ![p] = [NoWorker EXCEPT !.life = "zombie"]]

(* _complete_ok; a slicer rerun whose QC stages fail also ends well. *)
Finish(p) ==
  /\ Alive(p) /\ worker[p].at > 0
  /\ \/ /\ worker[p].at = worker[p].goal
        /\ file' = Says("true", worker[p].at, TRUE)
        /\ reached' = Higher(reached, worker[p].at)
     \/ /\ worker[p].kind = "slicer" /\ worker[p].at = 3
        /\ file' = Says("true", 2, TRUE)
        /\ UNCHANGED reached
  /\ Ends(p)
  /\ UNCHANGED <<row, selected, call, overlapped, overtaken, stopped>>

(* A stage raises. *)
Break(p) ==
  /\ Alive(p) /\ worker[p].booted
  /\ file' = Says("false", worker[p].at, TRUE)
  /\ Ends(p)
  /\ UNCHANGED <<row, selected, reached, call, overlapped, overtaken, stopped>>

(* The worker is killed from outside, perhaps while it wrote status.json.  *)
Die(p) ==
  /\ Alive(p)
  /\ file' \in {file, NoFile}
  /\ Ends(p)
  /\ UNCHANGED <<row, selected, reached, call, overlapped, overtaken, stopped>>

(* The backend starts some other subprocess. *)
Reap ==
  /\ \E p \in Pid : worker[p].life = "zombie"
  /\ worker' = [p \in Pid |-> Reaped(worker[p])]
  /\ UNCHANGED <<row, file, selected, reached, call, overlapped, overtaken, stopped>>

-----------------------------------------------------------------------------
(* _apply_worker_status_to_run, for a status.json that could be read.      *)
InProgress(f) == f.ok = "null" /\ ~f.done /\ f.stage # 0

(* Mutant: a worker that is gone is taken to have finished. *)
AppliedHopefully(f, old, alive) ==
  CASE f.cancelled /\ f.done -> "cancelled"
    [] ~f.cancelled /\ f.ok = "true" -> "completed"
    [] ~f.cancelled /\ f.ok = "false" -> "failed"
    [] OTHER -> IF alive THEN "running"
                ELSE IF old = "running" THEN "completed" ELSE old

AppliedStatus(f, old, alive) ==
  CASE f.cancelled /\ f.done -> "cancelled"
    [] ~f.cancelled /\ f.ok = "true" -> IF f.done THEN "completed" ELSE "failed"
    [] ~f.cancelled /\ f.ok = "false" -> "failed"
    [] InProgress(f) -> IF alive \/ old = "pending" THEN "running" ELSE "failed"
    [] OTHER -> IF alive THEN "running"
                ELSE IF old = "running" THEN "failed" ELSE old

Applied(f, old, alive) ==
  [old EXCEPT !.status = AppliedStatus(f, old.status, alive),
              !.stage = IF f.stage = 0 THEN @ ELSE f.stage]

(* Mutant: without a status.json the row stays. *)
RefreshedFromFile(f, old, alive) == IF f # NoFile THEN Applied(f, old, alive) ELSE old

(* refresh_dataset_run without a status.json. *)
Refreshed(f, old, alive) ==
  IF f # NoFile THEN Applied(f, old, alive)
  ELSE IF old.status = "running" /\ ~alive THEN [old EXCEPT !.status = "failed"]
  ELSE old

(* refresh_dataset_run reads the row, then status.json, then asks for the  *)
(* pid, then commits; a status.json that is being written reads as none.   *)
Refresh(c) ==
  /\ row.pid # NoPid
  /\ Begin(c, "refresh", "read", 0)
  /\ UNCHANGED <<row, file, selected, reached, worker, overlapped, overtaken, stopped>>

RefreshReads(c) ==
  /\ call[c].op = "refresh" /\ call[c].at = "read"
  /\ \E f \in {file} \cup IF Live # {} THEN {NoFile} ELSE {} :
        call' = [call EXCEPT ![c].at = "pid", ![c].file = f]
  /\ UNCHANGED <<row, file, selected, reached, worker, overlapped, overtaken, stopped>>

RefreshAsks(c) ==
  /\ call[c].op = "refresh" /\ call[c].at = "pid"
  /\ call' = [call EXCEPT ![c].at = "commit", ![c].alive = Answers(call[c].row.pid)]
  /\ UNCHANGED <<row, file, selected, reached, worker, overlapped, overtaken, stopped>>

RefreshCommits(c) ==
  /\ call[c].op = "refresh" /\ call[c].at = "commit"
  /\ Commit(call[c].row, Refreshed(call[c].file, call[c].row, call[c].alive))
  /\ Return(c) /\ Overtakes(c)
  /\ UNCHANGED <<file, selected, reached, worker, overlapped, stopped>>

(* cancel_dataset_run of a worker that is not verifiably owned: refused,   *)
(* or the row takes what the worker said last.                             *)
CancelEnded(c) ==
  /\ call[c].op = "none"
  /\ row.status = "running" /\ ~Owned(row.pid) /\ file.ok = "true"
  /\ row' = Applied(file, row, FALSE)
  /\ UNCHANGED <<file, selected, reached, worker, call, overlapped, overtaken, stopped>>

Cancel(c) ==
  /\ row.status = "running" /\ Owned(row.pid)
  /\ Begin(c, "cancel", "kill", 0)
  /\ UNCHANGED <<row, file, selected, reached, worker, overlapped, overtaken, stopped>>

(* SIGTERM, and SIGKILL after the grace time, to the process group. *)
CancelKills(c) ==
  /\ call[c].op = "cancel" /\ call[c].at = "kill"
  /\ LET p == call[c].row.pid
     IN  \/ /\ Alive(p) /\ Ends(p) /\ file' \in {file, NoFile}
         \/ /\ ~Alive(p) /\ UNCHANGED <<worker, file>>
  /\ call' = [call EXCEPT ![c].at = "commit"]
  /\ UNCHANGED <<row, selected, reached, overlapped, overtaken, stopped>>

(* No worker was launched or asked for since the call read the row. *)
NothingSince(c) ==
  /\ \A d \in Call : call[d].op \notin Kind
  /\ \A p \in Pid : worker[p].life # "none" => p <= call[c].row.pid

(* Mutant: status.json keeps what the worker said last. *)
CancelCommitsRow(c) ==
  /\ call[c].op = "cancel" /\ call[c].at = "commit"
  /\ Commit(call[c].row, [call[c].row EXCEPT !.status = "cancelled"])
  /\ Return(c) /\ Overtakes(c)
  /\ stopped' = NothingSince(c)
  /\ UNCHANGED <<file, selected, reached, worker, overlapped>>

(* Mutant: what the worker said of itself stays in status.json. *)
CancelMarksFile(c) ==
  /\ call[c].op = "cancel" /\ call[c].at = "commit"
  /\ file' = [file EXCEPT !.cancelled = TRUE, !.done = TRUE]
  /\ row' = [row EXCEPT !.status = "cancelled", !.pid = call[c].row.pid]
  /\ Return(c) /\ Overtakes(c)
  /\ stopped' = NothingSince(c)
  /\ UNCHANGED <<selected, reached, worker, overlapped>>

(* status.json is rewritten before the row.  The row's input_summary gets  *)
(* the time of the cancellation, and with it the pid that was read.        *)
CancelCommits(c) ==
  /\ call[c].op = "cancel" /\ call[c].at = "commit"
  /\ file' = [(IF file = NoFile THEN Says("null", 0, FALSE) ELSE file) EXCEPT
                !.ok = "false", !.cancelled = TRUE, !.done = TRUE]
  /\ row' = [row EXCEPT !.status = "cancelled", !.pid = call[c].row.pid]
  /\ Return(c) /\ Overtakes(c)
  /\ stopped' = NothingSince(c)
  /\ UNCHANGED <<selected, reached, worker, overlapped>>

(* save_dataset_speaker_selection rewrites the input_summary it has read.  *)
Select(c) ==
  /\ reached >= 1
  /\ Begin(c, "select", "commit", 0)
  /\ UNCHANGED <<row, file, selected, reached, worker, overlapped, overtaken, stopped>>

SelectCommits(c) ==
  /\ call[c].op = "select"
  /\ selected' = TRUE
  /\ row' = [row EXCEPT !.pid = call[c].row.pid]
  /\ Return(c) /\ Overtakes(c)
  /\ UNCHANGED <<file, reached, worker, overlapped, stopped>>

(* The calls in progress end with the backend; the workers go on. *)
Restart ==
  /\ BackendDies
  /\ \E c \in Call : call[c].op # "none"
  /\ call' = [c \in Call |-> NoCall]
  /\ worker' = [p \in Pid |-> Reaped(worker[p])]
  /\ UNCHANGED <<row, file, selected, reached, overlapped, overtaken, stopped>>

-----------------------------------------------------------------------------
Runs(p) == Boot(p) \/ Enter(p) \/ Finish(p)

Serves(c) == \/ Launch(c) \/ Launched(c)
             \/ RefreshReads(c) \/ RefreshAsks(c) \/ RefreshCommits(c)
             \/ CancelKills(c) \/ CancelCommits(c) \/ SelectCommits(c)

Next ==
  \/ \E c \in Call : Asks(c) \/ Refresh(c) \/ Cancel(c) \/ CancelEnded(c)
                       \/ Select(c) \/ Serves(c)
  \/ \E p \in Pid : Runs(p) \/ Break(p) \/ Die(p)
  \/ Reap \/ Restart

Spec == Init /\ [][Next]_vars

(* A call that was accepted is served, the page that shows a run keeps     *)
(* polling it, and the backend does not die for ever.                      *)
Fairness ==
  /\ SF_vars(\E c \in Call : Refresh(c)) /\ \A c \in Call : WF_vars(Serves(c))
  /\ <>[][~Restart]_vars

FairSpec == Spec /\ Fairness

-----------------------------------------------------------------------------
(* A run that the next poll shows as completed has the artifacts of the    *)
(* stage it is shown at, whichever polls raced.  (A worker that was        *)
(* launched and is not in the row yet, or never will be because the        *)
(* backend died, may have cleared them, two workers at once may clear each *)
(* other's, and a call may commit what it read before a later launch.)     *)
LastIsRecorded == \A p \in Pid : worker[p].life # "none" => p <= row.pid
Settled == Live = {} /\ LastIsRecorded

CompletedStageIsOnDisk ==
  file # NoFile /\ Settled /\ ~overlapped /\ ~overtaken =>
    LET polled == Applied(file, row, FALSE)
    IN  polled.status = "completed" => reached >= polled.stage

(* A cancelled run stays cancelled until a worker is asked for again: the  *)
(* next poll shows it as cancelled, whatever the killed worker left behind *)
(* and whatever a poll that raced the cancellation has put into the row.   *)
CancelSticks ==
  stopped /\ ~overlapped =>
    \A alive \in BOOLEAN : Refreshed(file, row, alive).status = "cancelled"

(* Overlapping resumes never leave two workers at once: "re-check the live *)
(* worker before launching another one" (resume_dataset_run_processing).   *)
ResumesDoNotOverlap == Cardinality({p \in Live : worker[p].kind = "resume"}) <= 1

(* Once nothing answers at the recorded pid the polls stop showing the run *)
(* as running, or the row comes to name a worker that does.  (A selection  *)
(* saved over a launch puts back an input_summary without its pid, and     *)
(* nobody asks then.)                                                      *)
GoneIsNoticed ==
  (row.status = "running" /\ ~Answers(row.pid)) ~>
    (row.status # "running" \/ Answers(row.pid) \/ overtaken)

=============================================================================
