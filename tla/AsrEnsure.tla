------------------------------- MODULE AsrEnsure -------------------------------
(***************************************************************************)
(* The consent-gated download of a recognition model                       *)
(* (backend/app/asr_model_ensure.py), outside a managed runtime.           *)
(*                                                                         *)
(* A request makes a job in the backend's memory and a thread for it; the  *)
(* thread starts ensure_asr.py, reads the lines the process writes and     *)
(* applies them to the job; the process downloads into the cache of the    *)
(* hub that all processes share (dataset/models.py).  Pages poll the job.  *)
(*                                                                         *)
(* `jobs` and `active` are the module's dictionaries, every access to      *)
(* which is under its lock.  A pipe holds at most MaxPipe lines.  The      *)
(* backend may die and start again, with empty dictionaries; a process it  *)
(* leaves is stopped by its next write.                                    *)
(***************************************************************************)
EXTENDS Naturals, Sequences, FiniteSets

CONSTANTS
  Model,      \* the sizes that may be asked for
  Id,         \* the ids of jobs, 1..n: a bound on the requests
  MaxPipe,    \* the lines a pipe holds
  MaxDeaths   \* the number of times the backend may die

VARIABLES
  jobs,     \* Id -> the job, or Unknown
  active,   \* Model -> the id registered for it, or 0
  thread,   \* Id -> where the thread of the job is
  proc,     \* Id -> its process: where it is, what it found, and its output
  cache,    \* Model -> the files of its snapshot on disk
  issued,   \* the number of jobs that were made
  deaths    \* the number of times the backend died

vars == <<jobs, active, thread, proc, cache, issued, deaths>>

Unknown == [phase |-> "unknown"]

(* A snapshot that the worker can load has all of these.                   *)
File == {"config", "weights", "vocabulary"}

(* What validate_asr_model_snapshot looks for.                             *)
Required == {"config", "weights"}

Open == {"queued", "downloading", "verifying"}

NoProcess == [at |-> "none", found |-> "nothing", pipe |-> <<>>]

Init ==
  /\ jobs = [i \in Id |-> Unknown]
  /\ active = [m \in Model |-> 0]
  /\ thread = [i \in Id |-> "none"]
  /\ proc = [i \in Id |-> NoProcess]
  /\ cache \in [Model -> {{}, {"config"}, File}]
  /\ issued = 0 /\ deaths = 0

-----------------------------------------------------------------------------
(* The job.                                                                *)

(* What a page is shown of the transfer: how many files are complete if    *)
(* the worker says it, and nothing once it is over; never how many bytes,  *)
(* which the worker does not know.                                         *)
Progress(job, phase, files) ==
  [job EXCEPT !.phase = phase,
              !.files = IF phase = "downloading" THEN files ELSE "unknown"]

NewJob(m) ==
  [model |-> m, phase |-> "queued", ok |-> "undecided", files |-> "unknown"]

Failed(job)   == Progress([job EXCEPT !.ok = "no"], "failed", "unknown")
Complete(job) == Progress([job EXCEPT !.ok = "yes"], "complete", "unknown")

(* A line of the process: progress, or the result.                         *)
Apply(job, line) ==
  CASE line.event = "progress"                -> Progress(job, "downloading", line.files)
    [] line.event = "result" /\ line.ok       -> Complete(job)
    [] line.event = "result" /\ ~line.ok      -> Failed(job)
    [] line.event = "noise"                   -> job

(* The job that a request for m is answered with: the registered one while *)
(* it is under way, else a new one.                                        *)
Running(m) ==
  /\ active[m] # 0
  /\ jobs[active[m]].phase \in Open

Ask(m) ==
  /\ ~Running(m)
  /\ issued + 1 \in Id
  /\ issued' = issued + 1
  /\ jobs' = [jobs EXCEPT ![issued'] = NewJob(m)]
  /\ active' = [active EXCEPT ![m] = issued']
  /\ thread' = [thread EXCEPT ![issued'] = "begin"]
  /\ UNCHANGED <<proc, cache, deaths>>

-----------------------------------------------------------------------------
(* The thread of job i, _run_job.                                          *)

Goes(i, to) == thread' = [thread EXCEPT ![i] = to]

(* The environment of the worker is there and the job is shown as          *)
(* downloading, or it is not.                                              *)
Begin(i) ==
  /\ thread[i] = "begin"
  /\ \/ /\ Goes(i, "spawn")
        /\ jobs' = [jobs EXCEPT ![i] = Progress(@, "downloading", "unknown")]
     \/ Goes(i, "raised") /\ UNCHANGED jobs
  /\ UNCHANGED <<active, proc, cache, issued, deaths>>

Spawn(i) ==
  /\ thread[i] = "spawn"
  /\ \/ /\ Goes(i, "read")
        /\ proc' = [proc EXCEPT ![i].at = "start"]
     \/ Goes(i, "raised") /\ UNCHANGED proc
  /\ UNCHANGED <<jobs, active, cache, issued, deaths>>

(* The next line; one that cannot be decoded raises.                       *)
Read(i) ==
  /\ thread[i] = "read" /\ proc[i].pipe # <<>>
  /\ proc' = [proc EXCEPT ![i].pipe = Tail(@)]
  /\ \/ /\ jobs' = [jobs EXCEPT ![i] = Apply(@, Head(proc[i].pipe))]
        /\ UNCHANGED thread
     \/ /\ Head(proc[i].pipe).event = "noise"
        /\ Goes(i, "raised") /\ UNCHANGED jobs
  /\ UNCHANGED <<active, cache, issued, deaths>>

(* The output ends with the process; one without a result has failed.      *)
(* `for raw in process.stdout` has ended, so the line that told the result *)
(* was applied.                                                            *)
Waited(i) ==
  /\ thread[i] = "read" /\ proc[i].pipe = <<>> /\ proc[i].at = "ended"
  /\ Goes(i, "finally")
  /\ jobs' = IF jobs[i].phase \in {"complete", "failed"} THEN jobs
             ELSE [jobs EXCEPT ![i] = Failed(@)]
  /\ UNCHANGED <<active, proc, cache, issued, deaths>>

(* The handler of every exception ends the process, by SIGKILL if it has   *)
(* to, and waits for it.                                                   *)
Ended(p) == [p EXCEPT !.at = IF @ = "none" THEN "none" ELSE "ended", !.pipe = <<>>]

HandleProcess(i) ==
  /\ thread[i] = "raised"
  /\ Goes(i, "handled")
  /\ proc' = [proc EXCEPT ![i] = Ended(@)]
  /\ UNCHANGED <<jobs, active, cache, issued, deaths>>

HandleJob(i) ==
  /\ thread[i] = "handled"
  /\ Goes(i, "finally")
  /\ jobs' = [jobs EXCEPT ![i] = Failed(@)]
  /\ UNCHANGED <<active, proc, cache, issued, deaths>>

(* A later job may be registered for the model by now.                     *)
FinallyAnyway(i) ==
  /\ thread[i] = "finally"
  /\ Goes(i, "done")
  /\ active' = [active EXCEPT ![jobs[i].model] = 0]
  /\ UNCHANGED <<jobs, proc, cache, issued, deaths>>

Finally(i) ==
  /\ thread[i] = "finally"
  /\ Goes(i, "done")
  /\ active' = [active EXCEPT ![jobs[i].model] = IF @ = i THEN 0 ELSE @]
  /\ UNCHANGED <<jobs, proc, cache, issued, deaths>>

-----------------------------------------------------------------------------
(* The process of job i, ensure_asr.py, and check_asr_model.               *)

Told(i, line, to) ==
  /\ Len(proc[i].pipe) < MaxPipe
  /\ proc' = [proc EXCEPT ![i].pipe = Append(@, line), ![i].at = to]

Line(files) == [event |-> "progress", files |-> files]

(* It is known to be the reader's no more: the write fails and ends it.    *)
Orphan(i) == thread[i] = "lost"

Broken(i) ==
  /\ Orphan(i) /\ proc[i].at \in {"start", "fetch", "tell", "verified"}
  /\ proc' = [proc EXCEPT ![i] = Ended(@)]
  /\ UNCHANGED <<jobs, active, thread, cache, issued, deaths>>

Announce(i) ==
  /\ ~Orphan(i) /\ proc[i].at = "start"
  /\ Told(i, Line("unknown"), "fetch")
  /\ UNCHANGED <<jobs, active, thread, cache, issued, deaths>>

(* snapshot_download puts one file after the other into the snapshot, each *)
(* whole, and every one is told.  (External: the hub.)                     *)
Fetch(i) ==
  /\ proc[i].at = "fetch"
  /\ \E f \in File \ cache[jobs[i].model] :
       cache' = [cache EXCEPT ![jobs[i].model] = @ \cup {f}]
  /\ proc' = [proc EXCEPT ![i].at = "tell"]
  /\ UNCHANGED <<jobs, active, thread, issued, deaths>>

Tell(i) ==
  /\ ~Orphan(i) /\ proc[i].at = "tell"
  /\ Told(i, Line("some"), "fetch")
  /\ UNCHANGED <<jobs, active, thread, cache, issued, deaths>>

(* validate_asr_model_snapshot.                                            *)
Valid(files) == Required \subseteq files

(* The download returns the snapshot when it has every file, or, if the    *)
(* hub cannot be reached, when there is a snapshot at all; or it raises,   *)
(* which is a result as well.                                              *)
Verify(i) ==
  LET files == cache[jobs[i].model] IN
  /\ proc[i].at = "fetch"
  /\ \/ /\ files # {}
        /\ proc' = [proc EXCEPT ![i].at = "verified", ![i].found = IF Valid(files) THEN "ok" ELSE "bad"]
     \/ proc' = [proc EXCEPT ![i].at = "verified", ![i].found = "bad"]
  /\ UNCHANGED <<jobs, active, thread, cache, issued, deaths>>

Report(i) ==
  /\ ~Orphan(i) /\ proc[i].at = "verified"
  /\ Told(i, [event |-> "result", ok |-> proc[i].found = "ok"], "leaving")
  /\ UNCHANGED <<jobs, active, thread, cache, issued, deaths>>

Exit(i) ==
  /\ proc[i].at = "leaving"
  /\ proc' = [proc EXCEPT ![i].at = "ended"]
  /\ UNCHANGED <<jobs, active, thread, cache, issued, deaths>>

(* It may say what is not its own wording, as a library's warning, and die *)
(* anywhere, what it wrote remaining to be read.                           *)
Noise(i) ==
  /\ ~Orphan(i) /\ proc[i].at \in {"start", "leaving"}
  /\ Told(i, [event |-> "noise"], proc[i].at)
  /\ UNCHANGED <<jobs, active, thread, cache, issued, deaths>>

Die(i) ==
  /\ proc[i].at \notin {"none", "ended"}
  /\ proc' = [proc EXCEPT ![i].at = "ended"]
  /\ UNCHANGED <<jobs, active, thread, cache, issued, deaths>>

-----------------------------------------------------------------------------
(* The backend dies and starts again: the ids of its jobs are known no     *)
(* more.  The models of lost jobs are kept for their processes.            *)
Restart ==
  /\ deaths < MaxDeaths
  /\ deaths' = deaths + 1
  /\ active' = [m \in Model |-> 0]
  /\ thread' = [i \in Id |-> IF thread[i] = "none" THEN "none" ELSE "lost"]
  /\ proc' = [i \in Id |-> [proc[i] EXCEPT !.pipe = <<>>]]
  /\ UNCHANGED <<jobs, cache, issued>>

Next ==
  \/ \E m \in Model : Ask(m)
  \/ \E i \in Id :
       \/ Begin(i) \/ Spawn(i) \/ Read(i) \/ Waited(i)
       \/ HandleProcess(i) \/ HandleJob(i) \/ Finally(i)
       \/ Announce(i) \/ Fetch(i) \/ Tell(i) \/ Verify(i) \/ Report(i) \/ Exit(i)
       \/ Noise(i) \/ Die(i) \/ Broken(i)
  \/ Restart

-----------------------------------------------------------------------------
(* Every variable has its type.                                            *)
TypeOK ==
  /\ \A i \in Id : jobs[i] # Unknown =>
       /\ jobs[i].model \in Model
       /\ jobs[i].phase \in Open \cup {"complete", "failed"}
       /\ jobs[i].ok \in {"undecided", "yes", "no"}
       /\ jobs[i].files \in {"unknown", "some"}
  /\ active \in [Model -> Id \cup {0}]
  /\ thread \in [Id -> {"none", "begin", "spawn", "read", "raised", "handled",
                        "finally", "done", "lost"}]
  /\ \A i \in Id :
       /\ proc[i].at \in {"none", "start", "fetch", "tell", "verified", "leaving", "ended"}
       /\ Len(proc[i].pipe) <= MaxPipe
  /\ cache \in [Model -> SUBSET File]
  /\ issued \in 0..Cardinality(Id) /\ deaths \in 0..MaxDeaths

Known(i) == jobs[i] # Unknown /\ thread[i] # "lost"

(* A page that polls a job is told the truth: what is shown as under way   *)
(* is the one job of its model that requests are answered with, and a      *)
(* thread tends it; what is shown as complete is so, with the files the    *)
(* worker looks for on disk; and a thread that has ended left no process.  *)
JobsAreTended ==
  \A i \in Id : Known(i) =>
    /\ jobs[i].phase \in Open =>
         /\ active[jobs[i].model] = i
         /\ thread[i] # "done"
         /\ jobs[i].ok = "undecided"
    /\ jobs[i].phase = "complete" =>
         jobs[i].ok = "yes" /\ Valid(cache[jobs[i].model])
    /\ jobs[i].phase = "failed" => jobs[i].ok = "no"
    /\ thread[i] = "done" => proc[i].at \in {"none", "ended"}

=============================================================================
