--------------------------- MODULE ProcessingJobs ---------------------------
(***************************************************************************)
(* The queue of processing jobs and its workers: backend/app/worker.py and *)
(* fail_stale_processing_jobs, claim_next_processing_job,                  *)
(* heartbeat_processing_job, run_claimed_processing_job,                   *)
(* _complete_processing_job and _fail_processing_job of                    *)
(* backend/app/repository.py.                                              *)
(*                                                                         *)
(* Every worker is a process with a session of its own on one SQLite file. *)
(* A session reads rows and later commits, by primary key, the columns it  *)
(* changed; only the claim is a conditional UPDATE.  So one action below   *)
(* is one read or one commit, and what a session read is kept in its       *)
(* worker.  What a job does is left to the modules that extend this one:   *)
(* at = "run" is theirs.  Ids are given in the order of created_at.        *)
(***************************************************************************)
EXTENDS Naturals, FiniteSets

CONSTANTS Worker,    \* worker processes
          MaxJobs,   \* bound: jobs ever enqueued
          NoWorker,
          DbFaults   \* TRUE: a commit may fail, as on a locked database

ASSUME JobsAssumption == MaxJobs \in Nat \ {0} /\ NoWorker \notin Worker
                           /\ DbFaults \in BOOLEAN

VARIABLES status,    \* status of each row of processing_job
          claimedBy, \* claimed_by
          worker     \* the local state of each worker

jobVars == <<status, claimedBy, worker>>

JobId    == 1..MaxJobs
Terminal == {"completed", "failed"}
Status   == {"none", "pending", "running", "deleted"} \cup Terminal
WorkerAt == {"idle", "sweep", "claim", "run", "complete"}
NoJobId  == 0

Local == [at : WorkerAt, job : 0..MaxJobs, stale : SUBSET JobId, beating : BOOLEAN]

(* Also a worker that died and was not started again yet. *)
Idle == [at |-> "idle", job |-> NoJobId, stale |-> {}, beating |-> FALSE]

JobsTypeOK ==
  /\ status \in [JobId -> Status]
  /\ claimedBy \in [JobId -> Worker \cup {NoWorker}]
  /\ worker \in [Worker -> Local]

In(s)  == {j \in JobId : status[j] = s}
Oldest(S) == {j \in S : \A k \in S : j <= k}

(* The rows with these ids become s; the others stay. *)
SetStatus(S, s) == status' = [j \in JobId |-> IF j \in S THEN s ELSE status[j]]

Exists(j)   == status[j] \notin {"none", "deleted"}

-----------------------------------------------------------------------------
(* session.add(ProcessingJob(status = PENDING)) for each of n new jobs. *)
NextIds(n) == LET used == JobId \ In("none")
              IN  {j \in In("none") : j <= Cardinality(used) + n}

Enqueue(n) ==
  /\ Cardinality(In("none")) >= n
  /\ SetStatus(NextIds(n), "pending")
  /\ UNCHANGED <<claimedBy, worker>>

(* claim_next_processing_job: UPDATE ... WHERE status = PENDING, oldest    *)
(* first; then the heartbeat thread starts and the worker checks that it   *)
(* holds the job.                                                          *)
ClaimFrom(w, open) ==
  \/ \E j \in Oldest(open) :
        /\ SetStatus({j}, "running")
        /\ claimedBy' = [claimedBy EXCEPT ![j] = w]
        /\ worker' = [worker EXCEPT ![w] =
             [Idle EXCEPT !.at = "run", !.job = j, !.beating = TRUE]]
  \/ /\ open = {} /\ worker[w].at = "claim"
     /\ worker' = [worker EXCEPT ![w] = Idle]
     /\ UNCHANGED <<status, claimedBy>>

(* Mutant: the UPDATE is not conditional on the status it read. *)
ClaimRunning(w) ==
  /\ worker[w].at \in {"idle", "claim"}
  /\ ClaimFrom(w, In("pending") \cup In("running"))

Claim(w) ==
  /\ worker[w].at \in {"idle", "claim"}
  /\ ClaimFrom(w, In("pending"))

Beats(j) == \E w \in Worker : worker[w].job = j /\ worker[w].beating

(* fail_stale_processing_jobs reads the running rows whose heartbeat is    *)
(* older than stale_after_seconds (a poll that finds none claims at once)  *)
ReadOverdue(w, overdue) ==
  /\ worker[w].at = "idle"
  /\ \E S \in SUBSET overdue :
        /\ S # {}
        /\ worker' = [worker EXCEPT ![w].at = "sweep", ![w].stale = S]
  /\ UNCHANGED <<status, claimedBy>>

(* Mutant: the age of a job is counted from its start. *)
ReadOld(w) == ReadOverdue(w, In("running"))

ReadStale(w) == ReadOverdue(w, {j \in In("running") : ~Beats(j)})

(* ... and commits them as failed, whatever they are by then.  A row that  *)
(* was deleted meanwhile fails the commit, which ends the worker.          *)
FailStale(w) ==
  /\ worker[w].at = "sweep"
  /\ \/ /\ \A j \in worker[w].stale : Exists(j)
        /\ SetStatus(worker[w].stale, "failed")
        /\ worker' = [worker EXCEPT ![w].at = "claim", ![w].stale = {}]
     \/ /\ \E j \in worker[w].stale : ~Exists(j)
        /\ worker' = [worker EXCEPT ![w] = Idle]
        /\ UNCHANGED status
  /\ UNCHANGED claimedBy

Holds(w) == LET j == worker[w].job
            IN  j # NoJobId /\ status[j] = "running" /\ claimedBy[j] \in {NoWorker, w}

(* _fail_processing_job does not look at the status; when the row is gone  *)
(* its own exception, raised in the except block, ends the worker.         *)
FailJob(w) ==
  /\ SetStatus({j \in {worker[w].job} : Exists(j)}, "failed")
  /\ worker' = [worker EXCEPT ![w] = Idle]
  /\ UNCHANGED claimedBy

(* The work raises an exception; so does _validate_claimed_processing_job  *)
(* of a job that was failed since it was claimed.                          *)
Raises(w) == worker[w].at = "run" /\ FailJob(w)

(* heartbeat_processing_job renews the row, whose age is not kept here;    *)
(* the first exception ends the thread for good.                           *)
HeartbeatEnds(w) ==
  /\ worker[w].beating
  /\ ~Holds(w) \/ DbFaults
  /\ worker' = [worker EXCEPT ![w].beating = FALSE]
  /\ UNCHANGED <<status, claimedBy>>

(* The work is done: _complete_processing_job reads the row ... *)
ReadDone(w) ==
  /\ worker[w].at = "run"
  /\ IF status[worker[w].job] = "running"
     THEN /\ worker' = [worker EXCEPT ![w].at = "complete"]
          /\ UNCHANGED <<status, claimedBy>>
     ELSE FailJob(w)

(* ... and commits COMPLETED by primary key; a commit that fails, as that  *)
(* of a row deleted meanwhile, becomes the failure of the job.             *)
Complete(w) ==
  /\ worker[w].at = "complete"
  /\ \/ /\ Exists(worker[w].job)
        /\ SetStatus({worker[w].job}, "completed")
        /\ worker' = [worker EXCEPT ![w] = Idle]
        /\ UNCHANGED claimedBy
     \/ /\ ~Exists(worker[w].job) \/ DbFaults
        /\ FailJob(w)

(* A worker process dies. *)
Dies(w) ==
  /\ worker[w] # Idle
  /\ worker' = [worker EXCEPT ![w] = Idle]
  /\ UNCHANGED <<status, claimedBy>>

(* What a worker does around the work of a job. *)
Poll(w) == ReadStale(w) \/ FailStale(w) \/ Claim(w)
             \/ HeartbeatEnds(w) \/ Complete(w)

=============================================================================
