--------------------------- MODULE SetupController ---------------------------
(***************************************************************************)
(* The setup job of the setup controller and the subprocesses it owns:     *)
(* SetupController (setup-controller/src/controller.js), runProcess,       *)
(* runOwnedProcess, reconcileOwnedProcess and terminateRecoveredProcess    *)
(* (bootstrap.js), and their startup and shutdown order (server.js).       *)
(*                                                                         *)
(* The controller is one JavaScript process: what it does between two      *)
(* waits is one action, except that a commit to the state file and the     *)
(* spawn of a process are separate steps, since a crash can fall between   *)
(* them.  No handler runs between those (Busy).  job is the state in       *)
(* memory, disk the one in the state file, which a failed commit may or    *)
(* may not have replaced (the rename precedes the fsync of the directory). *)
(*                                                                         *)
(* The stages are folded into three: those before install_models, where    *)
(* waiting_for_user resumes, install_models and those after it.  A UUID or *)
(* a process group is reused here once nothing refers to it.               *)
(***************************************************************************)
EXTENDS ProcessGroups

CONSTANTS Attempt,     \* attempt ids
          Session,     \* authenticated browser sessions
          NoAttempt, Nobody, NoSession,
          Tolerant,    \* TRUE: stages that swallow an uncertain termination
          Crashes,     \* TRUE: the controller may be killed
          Faults       \* TRUE: commits, spawns and signals may fail

ASSUME AttemptAssumption == NoAttempt \notin Attempt
ASSUME ChildAssumption   == Nobody \notin Child
ASSUME SessionAssumption == NoSession \notin Session
ASSUME SwitchAssumption  == {Tolerant, Crashes, Faults, Reuse} \subseteq BOOLEAN

VARIABLES
  ctl,        \* what the controller process is doing
  job, disk,  \* the setup job in memory and in the state file
  exec,       \* the active execution: its attempt, abort signal and token
  at,         \* where run(), and the subprocess it awaits, have got to
  kid,        \* the local variables of runOwnedProcess
  error,      \* the code of the error being thrown
  swallowed,  \* children whose uncertain termination a stage swallowed
  pending,    \* the session of the pending authorization token
  verifying   \* the session whose token is being verified

vars == <<ctl, job, disk, exec, at, kid, error, swallowed, pending,
          verifying, group>>

State  == {"idle", "running", "waiting_for_user", "cancelling", "failed",
           "cancelled", "interrupted", "completed"}
Stage  == {"install", "models", "validate"}
Record == [kind : {"none", "intent", "active", "uncertain"},
           id : Child \cup {Nobody}, attempt : Attempt \cup {NoAttempt}]
Job    == [state : State, stage : Stage, attempt : Attempt \cup {NoAttempt},
           child : Record, uncertain : BOOLEAN]
Kid    == [id : Child \cup {Nobody}, known : BOOLEAN, secret : BOOLEAN,
           fed : BOOLEAN, cancelled : BOOLEAN]
Exec   == [attempt : Attempt \cup {NoAttempt}, aborted : BOOLEAN,
           token : BOOLEAN]
Ctl    == {"down", "refused", "reconcile", "terminate", "kill", "recover",
           "up", "stopping"}
KidAt  == {"spawned", "running", "term", "killed", "doubt", "closing"}
Point  == KidAt \cup {"idle", "task", "spawn", "raised", "settle"}
Code   == {"", "CANCELLED", "UNCERTAIN", "START_FAILED", "PERSIST_FAILED",
           "COMMIT_FAILED", "TASK_FAILED", "UNAUTHORIZED"}

NoRecord == [kind |-> "none", id |-> Nobody, attempt |-> NoAttempt]
NoJob    == [state |-> "idle", stage |-> "install", attempt |-> NoAttempt,
             child |-> NoRecord, uncertain |-> FALSE]
NoKid    == [id |-> Nobody, known |-> FALSE, secret |-> FALSE, fed |-> FALSE,
             cancelled |-> FALSE]
NoExec   == [attempt |-> NoAttempt, aborted |-> FALSE, token |-> FALSE]

TypeOK ==
  /\ ctl \in Ctl
  /\ job \in Job /\ disk \in Job
  /\ exec \in Exec
  /\ at \in Point
  /\ kid \in Kid
  /\ error \in Code
  /\ swallowed \in SUBSET Child
  /\ pending \in Session \cup {NoSession}
  /\ verifying \in Session \cup {NoSession}
  /\ GroupsOK

Init ==
  /\ ctl = "down"
  /\ job = NoJob /\ disk = NoJob
  /\ exec = NoExec
  /\ at = "idle"
  /\ kid = NoKid
  /\ error = ""
  /\ swallowed = {}
  /\ pending = NoSession /\ verifying = NoSession
  /\ NoGroups

-----------------------------------------------------------------------------
Serving  == ctl \in {"up", "stopping"}
Busy     == at \in {"spawn", "doubt", "raised", "settle"}
Recorded == job.child.kind # "none"
Current  == job.attempt = exec.attempt

(* StateStore.commit: durable first, then in memory; or it throws. *)
Saved(new) == job' = new /\ disk' = new
Lost(new)  == Faults /\ UNCHANGED job /\ disk' \in {disk, new}

FreshAttempt == Attempt \ {job.attempt, disk.attempt, job.child.attempt,
                           disk.child.attempt}
FreshChild   == {c \in Child : /\ GroupIsGone(c)
                               /\ c \notin {job.child.id, disk.child.id}}

AuthUnchanged == UNCHANGED <<pending, verifying>>
OnlyFiles     == UNCHANGED <<ctl, swallowed, group>> /\ AuthUnchanged
NothingSaved  == UNCHANGED <<job, disk>>

(* The record the callbacks of the current subprocess store. *)
Rec(kind) == [kind |-> kind, attempt |-> exec.attempt,
              id |-> IF kid.known THEN kid.id ELSE Nobody]

(* Mutant: the callback mistakes the pid for the attempt id. *)
WithChildSwapped(rec) ==
  [job EXCEPT !.child = [rec EXCEPT !.attempt = rec.id]]

(* onChildProcess of run() and of recoverInterrupted(); the latter does    *)
(* not touch termination_status.                                           *)
WithChild(rec) ==
  IF Current
    THEN [job EXCEPT !.child = rec,
                     !.uncertain = IF ctl = "recover" THEN @
                                   ELSE IF rec.kind = "none" THEN FALSE
                                   ELSE rec.kind = "uncertain" \/ @]
    ELSE job

(* The execution is over: run() returned and activeExecution was cleared. *)
Over == at' = "idle" /\ exec' = NoExec /\ kid' = NoKid /\ error' = ""

Raise(code) == at' = "raised" /\ error' = code

-----------------------------------------------------------------------------
(* A subprocess of the running stage: runProcess and runOwnedProcess. *)

Intent == [kind |-> "intent", id |-> Nobody, attempt |-> exec.attempt]

(* runProcess commits the launch intent.  Only authorize-install is given  *)
(* the token, over its stdin.                                              *)
CommitIntent ==
  /\ at = "task"
  /\ job.state # "idle"
  /\ \E secret \in {FALSE, exec.token /\ job.stage = "models"} :
       kid' = [NoKid EXCEPT !.secret = secret]
  /\ \/ /\ Saved(WithChild(Intent))
        /\ at' = IF Current THEN "spawn" ELSE "raised"
        /\ error' = IF Current THEN error ELSE "PERSIST_FAILED"
     \/ Lost(WithChild(Intent)) /\ Raise("COMMIT_FAILED")
  /\ UNCHANGED exec /\ OnlyFiles

Spawn ==
  /\ at = "spawn"
  /\ ~exec.aborted
  /\ \E c \in FreshChild :
       /\ Becomes(c, "led")
       /\ kid' = [kid EXCEPT !.id = c]
       /\ swallowed' = swallowed \ {c}
  /\ at' = "spawned"
  /\ NothingSaved /\ AuthUnchanged /\ UNCHANGED <<ctl, exec, error>>

(* The signal was aborted before runOwnedProcess was called: it rejects at *)
(* once, and so does a spawn that throws.  The intent stays.               *)
NeverSpawned ==
  /\ at = "spawn"
  /\ \/ exec.aborted /\ Raise("CANCELLED")
     \/ Faults /\ ~exec.aborted /\ Raise("START_FAILED")
  /\ NothingSaved /\ UNCHANGED <<exec, kid>> /\ OnlyFiles

(* 'error' and 'close' without a 'spawn' event: the intent is cleared. *)
SpawnFails ==
  /\ at = "spawn"
  /\ ~exec.aborted
  /\ Saved(WithChild(NoRecord)) \/ Lost(WithChild(NoRecord))
  /\ Raise("START_FAILED")
  /\ UNCHANGED <<exec, kid>> /\ OnlyFiles

(* Where stop() gets to: SIGTERM only while the leader is the process that *)
(* was spawned, otherwise (or if the signal fails) nothing is certain.     *)
StopLeadsTo(point) ==
  \/ kid.known /\ IdentityMatches(kid.id) /\ point = "term"
  \/ (Faults \/ ~kid.known \/ ~IdentityMatches(kid.id)) /\ point = "doubt"

(* stop() as soon as the identity is known, if it is. *)
StoppedAs(known, point) ==
  (known /\ point = "term") \/ ((Faults \/ ~known) /\ point = "doubt")

(* Mutant: the credential is written before ownership is acknowledged. *)
ConfirmSpawnReleaseEarly ==
  /\ at = "spawned"
  /\ \/ /\ Saved(WithChild(Rec("active")))
        /\ kid' = [kid EXCEPT !.known = TRUE, !.fed = kid.secret]
        /\ at' = "running"
     \/ /\ Lost(WithChild(Rec("active")))
        /\ kid' = [kid EXCEPT !.known = TRUE, !.fed = kid.secret]
        /\ at' = "running"
  /\ UNCHANGED <<exec, error>> /\ OnlyFiles

(* The 'spawn' event: the identity is read and persisted; only after that  *)
(* acknowledgement, and unless the stop has begun, is the credential sent. *)
ConfirmSpawn ==
  /\ at = "spawned"
  /\ \E known \in {IdentityMatches(kid.id),
                   IdentityMatches(kid.id) /\ ~Faults} :
       LET rec  == [kind |-> "active", attempt |-> exec.attempt,
                    id |-> IF known THEN kid.id ELSE Nobody]
           stop == kid.cancelled \/ exec.aborted
       IN \/ /\ Saved(WithChild(rec))
             /\ kid' = [kid EXCEPT !.known = known,
                                   !.cancelled = stop \/ (known /\ ~Current),
                                   !.fed = /\ kid.secret /\ known /\ ~stop
                                           /\ Current /\ job.state = "running"
                                           /\ job.stage = "models"]
             /\ IF known /\ ~stop /\ Current THEN at' = "running"
                                              ELSE StoppedAs(known, at')
          \/ /\ Lost(WithChild(rec))
             /\ kid' = [kid EXCEPT !.known = known, !.cancelled = TRUE]
             /\ StoppedAs(known, at')
  /\ UNCHANGED <<exec, error>> /\ OnlyFiles

(* A probe of validate_runtime exceeds its time limit; before the 'spawn'  *)
(* and after the 'close' event that only decides the outcome.              *)
ProbeTimeout ==
  /\ job.stage = "validate"
  /\ \/ at = "running" /\ StopLeadsTo(at')
     \/ at \in {"spawned", "closing"} /\ at' = at
  /\ kid' = [kid EXCEPT !.cancelled = TRUE]
  /\ NothingSaved /\ UNCHANGED <<exec, error>> /\ OnlyFiles

(* The kill timer, graceMs after SIGTERM. *)
KillTimer ==
  /\ at = "term"
  /\ \/ IdentityMatches(kid.id) /\ at' = "killed"
     \/ (Faults \/ ~IdentityMatches(kid.id)) /\ at' = "doubt"
  /\ NothingSaved /\ UNCHANGED <<exec, kid, error>> /\ OnlyFiles

(* graceMs after SIGKILL there was still no 'close'. *)
UncertainTimer ==
  /\ at = "killed"
  /\ at' = "doubt"
  /\ NothingSaved /\ UNCHANGED <<exec, kid, error>> /\ OnlyFiles

(* markTerminationUncertain: the record is kept, marked, and the process   *)
(* promise rejected.                                                       *)
MarkUncertain ==
  /\ at = "doubt"
  /\ Saved(WithChild(Rec("uncertain"))) \/ Lost(WithChild(Rec("uncertain")))
  /\ Raise("UNCERTAIN")
  /\ UNCHANGED <<exec, kid>> /\ OnlyFiles

(* The 'close' event: the leader was reaped; from here on an abort only    *)
(* changes the outcome.                                                    *)
Closed ==
  /\ at \in {"running", "term", "killed"}
  /\ ~IdentityMatches(kid.id)
  /\ at' = "closing"
  /\ NothingSaved /\ UNCHANGED <<exec, kid, error>> /\ OnlyFiles

(* Mutant: the record is cleared although members of the group remain. *)
SettleChildTrusting ==
  /\ at = "closing"
  /\ Saved(WithChild(NoRecord))
  /\ IF kid.cancelled \/ exec.aborted
       THEN Raise("CANCELLED") ELSE at' = "task" /\ error' = ""
  /\ UNCHANGED <<exec, kid>> /\ OnlyFiles

(* The rest of the 'close' handler: the whole group must be gone before    *)
(* the record is cleared, and the promise settles accordingly.             *)
SettleChild ==
  /\ at = "closing"
  /\ LET safe == GroupIsGone(kid.id)
         new  == WithChild(IF safe THEN NoRecord ELSE Rec("uncertain"))
         stop == kid.cancelled \/ exec.aborted
     IN \/ /\ Saved(new)
           /\ IF ~safe THEN Raise("UNCERTAIN")
              ELSE IF stop THEN Raise("CANCELLED")
              ELSE at' = "task" /\ error' = ""
        \/ /\ Lost(new)
           /\ Raise(IF ~safe THEN "UNCERTAIN"
                    ELSE IF stop THEN "CANCELLED" ELSE "PERSIST_FAILED")
  /\ UNCHANGED <<exec, kid>> /\ OnlyFiles

-----------------------------------------------------------------------------
(* The stages. *)

(* A verification catches the error of its subprocess, or of the commit of *)
(* its intent, and goes on without it.  Most rethrow CANCELLED and         *)
(* UNCERTAIN; the ones a Tolerant stage stands for (verifyUv,              *)
(* verifyPython, verifyBackendEnvironment) and recoverInterrupted do not   *)
(* rethrow UNCERTAIN, and a probe that timed out is no cancellation.       *)
Swallow ==
  /\ at = "raised"
  /\ \/ error \in {"COMMIT_FAILED", "START_FAILED", "PERSIST_FAILED"}
     \/ /\ Tolerant \/ ctl = "recover"
        /\ error = "UNCERTAIN" \/ (error = "CANCELLED" /\ ~exec.aborted)
  /\ at' = "task" /\ error' = "" /\ kid' = NoKid
  /\ swallowed' = IF error = "UNCERTAIN" THEN swallowed \cup {kid.id}
                                         ELSE swallowed
  /\ NothingSaved /\ AuthUnchanged /\ UNCHANGED <<ctl, exec, group>>

(* The stage fails by itself, or notices the abort in a download. *)
StageFails ==
  /\ at = "task"
  /\ Serving
  /\ \/ Raise("TASK_FAILED")
     \/ exec.aborted /\ Raise("CANCELLED")
     \/ job.stage = "models" /\ exec.token /\ Raise("UNAUTHORIZED")
  /\ kid' = NoKid
  /\ NothingSaved /\ UNCHANGED exec /\ OnlyFiles

Waiting == [job EXCEPT !.state = "waiting_for_user"]

(* install_models has just asked the model manager for its status, so that *)
(* subprocess ended and was cleared; it needs the token and has none.      *)
WaitForUser ==
  /\ at = "task"
  /\ Serving
  /\ job.stage = "models" /\ ~exec.token /\ ~Recorded
  /\ Current /\ job.state = "running"
  /\ \/ Saved(Waiting) /\ Over
     \/ Lost(Waiting) /\ Raise("TASK_FAILED") /\ UNCHANGED <<exec, kid>>
  /\ OnlyFiles

NextStage  == IF job.stage = "install" THEN "models" ELSE "validate"
Completed  == [job EXCEPT !.state = "completed"]
InStage(s) == [job EXCEPT !.stage = s]

(* Mutant: a stage that ended well is not stopped by the cancellation. *)
StageDoneUnchecked ==
  /\ at = "task"
  /\ Serving
  /\ \/ /\ job.stage # "validate"
        /\ Saved([InStage(NextStage) EXCEPT !.state = "running"])
        /\ UNCHANGED <<at, error, kid>>
        /\ exec' = [exec EXCEPT !.token = @ /\ job.stage # "models"]
     \/ job.stage = "validate" /\ Saved(Completed) /\ Over
  /\ OnlyFiles

(* The stage returned: run() rereads the job, then starts the next stage   *)
(* or completes; the token does not outlive install_models.                *)
StageDone ==
  /\ at = "task"
  /\ Serving
  /\ \/ /\ Current /\ job.state = "cancelling"
        /\ at' = "settle" /\ NothingSaved /\ UNCHANGED <<exec, kid, error>>
     \/ /\ Current /\ job.state = "running" /\ job.stage # "validate"
        /\ exec' = [exec EXCEPT !.token = @ /\ job.stage # "models"]
        /\ \/ Saved(InStage(NextStage)) /\ UNCHANGED <<at, error>>
           \/ Lost(InStage(NextStage)) /\ Raise("TASK_FAILED")
        /\ UNCHANGED kid
     \/ /\ Current /\ job.state = "running" /\ job.stage = "validate"
        /\ \/ Saved(Completed) /\ Over
           \/ Lost(Completed) /\ Raise("TASK_FAILED") /\ UNCHANGED <<exec, kid>>
  /\ OnlyFiles

(* The catch block of run(): what the thrown error makes of the job. *)
Failed ==
  IF error = "UNAUTHORIZED" /\ job.stage = "models" /\ ~Recorded THEN Waiting
  ELSE IF Recorded \/ error \in {"UNCERTAIN", "PERSIST_FAILED"}
    THEN [job EXCEPT !.state = "interrupted", !.uncertain = TRUE]
    ELSE [job EXCEPT !.state = "failed"]

RunFails ==
  /\ at = "raised"
  /\ Serving
  /\ \/ /\ Current /\ job.state = "cancelling"
        /\ at' = "settle" /\ NothingSaved /\ UNCHANGED <<exec, kid, error>>
     \/ /\ Current /\ job.state = "running"
        /\ Saved(Failed) \/ Lost(Failed)
        /\ Over
  /\ OnlyFiles

(* Mutant: a cancelled job is cancelled whether or not a record remains. *)
CancelledAnyway == [job EXCEPT !.state = "cancelled", !.uncertain = FALSE]

Cancelled ==
  IF Recorded THEN [job EXCEPT !.state = "interrupted", !.uncertain = TRUE]
              ELSE [job EXCEPT !.state = "cancelled", !.uncertain = FALSE]

(* finishCancelled, called by run() or by cancel(). *)
FinishCancelled ==
  /\ at = "settle"
  /\ Saved(Cancelled) \/ Lost(Cancelled)
  /\ Over
  /\ OnlyFiles

-----------------------------------------------------------------------------
(* The requests of the browser; server.js refuses them while stopping. *)
Request == ctl = "up" /\ ~Busy

(* The new attempt is saved and launched; the pending token is handed to   *)
(* it if this session had it verified (takePendingAuthorization).          *)
Launch(new, s) ==
  /\ Saved(new)
  /\ exec' = [attempt |-> new.attempt, aborted |-> FALSE, token |-> pending = s]
  /\ at' = "task"
  /\ pending' = IF pending = s THEN NoSession ELSE pending

NotLaunched(new) == Lost(new) /\ UNCHANGED <<exec, at>>

(* No subprocess is recorded and none is uncertain. *)
NothingOwned == ~Recorded /\ ~job.uncertain

Attempted(a) == [job EXCEPT !.state = "running", !.stage = "install",
                            !.attempt = a]

NewJob(a) == [NoJob EXCEPT !.state = "running", !.attempt = a]

(* start(): a new job, or the resumption of one that waits for the token   *)
(* this session has had verified; otherwise nothing changes.               *)
Start(s) ==
  /\ Request
  /\ verifying = NoSession
  /\ \E a \in FreshAttempt :
       \/ /\ job.state = "waiting_for_user" /\ pending = s
          /\ \/ Launch(Attempted(a), s)
             \/ NotLaunched(Attempted(a)) /\ pending' = NoSession
       \/ /\ job.state \in {"idle", "completed"}
          /\ NothingOwned
          /\ \/ Launch(NewJob(a), s)
             \/ NotLaunched(NewJob(a)) /\ UNCHANGED pending
  /\ UNCHANGED <<ctl, kid, error, swallowed, verifying, group>>

(* Mutant: retry does not ask whether a process is still owned. *)
RetryAtOnce(s) ==
  /\ Request
  /\ verifying = NoSession
  /\ job.state \in {"failed", "cancelled", "interrupted"}
  /\ \E a \in FreshAttempt :
       \/ Launch(Attempted(a), s)
       \/ NotLaunched(Attempted(a)) /\ UNCHANGED pending
  /\ UNCHANGED <<ctl, kid, error, swallowed, verifying, group>>

Retry(s) ==
  /\ Request
  /\ verifying = NoSession
  /\ at = "idle"
  /\ job.state \in {"failed", "cancelled", "interrupted"}
  /\ NothingOwned
  /\ \E a \in FreshAttempt :
       \/ Launch(Attempted(a), s)
       \/ NotLaunched(Attempted(a)) /\ UNCHANGED pending
  /\ UNCHANGED <<ctl, kid, error, swallowed, verifying, group>>

(* Mutant: a cancellation is reported before the execution has ended. *)
CancellingAtOnce == [job EXCEPT !.state = "cancelled"]

Cancelling == [job EXCEPT !.state = "cancelling"]

(* Mutant: a running subprocess does not listen to the abort signal. *)
AbortUnheard ==
  \/ at = "idle" /\ at' = "settle" /\ UNCHANGED <<exec, kid>>
  \/ /\ at # "idle"
     /\ exec' = [exec EXCEPT !.aborted = TRUE]
     /\ UNCHANGED <<at, kid>>

(* The abort signal of the execution: the listener of a running subprocess *)
(* stops it, anything else only finds the signal aborted later.            *)
Abort ==
  \/ at = "idle" /\ at' = "settle" /\ UNCHANGED <<exec, kid>>
  \/ /\ at # "idle"
     /\ exec' = [exec EXCEPT !.aborted = TRUE]
     /\ kid' = [kid EXCEPT !.cancelled = @ \/ at \in {"spawned", "running"}]
     /\ IF at = "running" THEN StopLeadsTo(at') ELSE UNCHANGED at

Cancel ==
  /\ Request
  /\ job.state \in {"running", "waiting_for_user"}
  /\ \/ Saved(Cancelling) /\ Abort
     \/ Lost(Cancelling) /\ UNCHANGED <<exec, at, kid>>
  /\ UNCHANGED error /\ OnlyFiles

(* preauthorizeModel: the token is verified over the network, meanwhile    *)
(* neither start nor retry is accepted.                                    *)
Verify(s) ==
  /\ Request
  /\ at = "idle" /\ verifying = NoSession
  /\ pending' = NoSession /\ verifying' = s
  /\ NothingSaved /\ UNCHANGED <<ctl, exec, at, kid, error, swallowed, group>>

Verified ==
  /\ Serving /\ ~Busy
  /\ verifying # NoSession
  /\ pending' \in {verifying, NoSession} /\ verifying' = NoSession
  /\ NothingSaved /\ UNCHANGED <<ctl, exec, at, kid, error, swallowed, group>>

TokenExpires ==
  /\ Serving /\ ~Busy
  /\ pending # NoSession /\ pending' = NoSession
  /\ NothingSaved /\ UNCHANGED <<ctl, exec, at, kid, error, swallowed, group,
                                 verifying>>

-----------------------------------------------------------------------------
(* Startup, shutdown and crash of the controller process. *)

Forgotten ==
  /\ exec' = NoExec /\ at' = "idle" /\ kid' = NoKid /\ error' = ""
  /\ pending' = NoSession /\ verifying' = NoSession

(* createSetupController: the state file is read, then reconciled. *)
Boot ==
  /\ ctl \in {"down", "refused"}
  /\ ctl' = "reconcile"
  /\ NothingSaved /\ AuthUnchanged
  /\ UNCHANGED <<exec, at, kid, error, swallowed, group>>

ToRecovery ==
  /\ ctl' = "recover"
  /\ at' = "task"
  /\ exec' = [NoExec EXCEPT !.attempt = job.attempt]

Cleared ==
  IF job.attempt = job.child.attempt
    THEN [job EXCEPT !.child = NoRecord, !.uncertain = FALSE] ELSE job

(* No record, or the recorded group is confirmed to be gone. *)
Confirm ==
  /\ \/ ctl = "reconcile" /\ ~Recorded /\ NothingSaved
     \/ /\ ctl \in {"reconcile", "terminate", "kill"}
        /\ job.child.id # Nobody /\ GroupIsGone(job.child.id)
        /\ Saved(Cleared)
  /\ ToRecovery
  /\ AuthUnchanged /\ UNCHANGED <<kid, error, swallowed, group>>

(* SIGTERM, and SIGKILL once the group did not stop in time, only while    *)
(* the recorded leader itself is still there.                              *)
Escalate ==
  /\ \/ ctl = "reconcile" /\ ctl' = "terminate"
     \/ ctl = "terminate" /\ ctl' = "kill"
  /\ job.child.id # Nobody /\ IdentityMatches(job.child.id)
  /\ NothingSaved /\ AuthUnchanged
  /\ UNCHANGED <<exec, at, kid, error, swallowed, group>>

(* Mutant: a recorded process that cannot be identified is forgotten. *)
RefuseNot ==
  /\ ctl = "reconcile" /\ Recorded
  /\ job.child.id = Nobody
  /\ Saved([job EXCEPT !.child = NoRecord, !.uncertain = FALSE])
  /\ ToRecovery
  /\ AuthUnchanged /\ UNCHANGED <<kid, error, swallowed, group>>

Marked ==
  IF job.attempt = job.child.attempt
    THEN [job EXCEPT !.child = [@ EXCEPT !.kind = "uncertain"],
                     !.uncertain = TRUE]
    ELSE job

(* The termination cannot be confirmed: the record is marked and the start *)
(* fails.  So does a start whose confirmation cannot be saved.             *)
Refuse ==
  /\ ctl \in {"reconcile", "terminate", "kill"} /\ Recorded
  /\ \/ job.child.id = Nobody
     \/ job.child.id # Nobody /\ ctl # "kill"
          /\ group[job.child.id] \in {"orphaned", "foreign"}
     \/ job.child.id # Nobody /\ ctl = "kill" /\ ~GroupIsGone(job.child.id)
     \/ Faults
  /\ \/ Saved(Marked)
     \/ Faults /\ disk' \in {disk, Marked} /\ job' = disk'
  /\ ctl' = "refused"
  /\ AuthUnchanged /\ UNCHANGED <<exec, at, kid, error, swallowed, group>>

Interrupted == IF job.state \in {"running", "cancelling"}
                 THEN [job EXCEPT !.state = "interrupted"] ELSE job

(* recoverInterrupted is done; the constructor of SetupController marks    *)
(* what was running as interrupted.                                        *)
Serve ==
  /\ ctl = "recover" /\ at = "task"
  /\ Over
  /\ \/ Saved(Interrupted) /\ ctl' = "up"
     \/ Faults /\ disk' \in {disk, Interrupted} /\ job' = disk'
          /\ ctl' = "refused"
  /\ AuthUnchanged /\ UNCHANGED <<swallowed, group>>

(* close(): a running job is cancelled, a waiting one is kept.  If the     *)
(* cancellation cannot be saved, close() fails: the job goes on, requests  *)
(* stay refused, and only a second signal ends the process.                *)
Shutdown ==
  /\ Request
  /\ ctl' = "stopping"
  /\ pending' = NoSession
  /\ \/ job.state = "running" /\ Saved(Cancelling) /\ Abort
     \/ job.state = "running" /\ Lost(Cancelling) /\ UNCHANGED <<exec, at, kid>>
     \/ job.state # "running" /\ NothingSaved /\ UNCHANGED <<exec, at, kid>>
  /\ UNCHANGED <<error, swallowed, verifying, group>>

(* close() has ended, or a second signal found nothing running.            *)
Exit ==
  /\ ctl = "stopping" /\ at = "idle"
  /\ ctl' = "down" /\ job' = disk
  /\ Forgotten
  /\ UNCHANGED <<disk, swallowed, group>>

(* The controller is killed; what it spawned lives on. *)
Crash ==
  /\ Crashes /\ ctl \notin {"down", "refused"}
  /\ ctl' = "down" /\ job' = disk
  /\ Forgotten
  /\ UNCHANGED <<disk, swallowed, group>>

(* Only a number that some record still names can mislead by its reuse. *)
World ==
  /\ \E c \in Child :
       \/ LeaderExits(c) \/ OrphansExit(c) \/ StrangerExits(c)
       \/ c \in {job.child.id, disk.child.id, kid.id} /\ PidReused(c)
  /\ UNCHANGED <<ctl, job, disk, exec, at, kid, error, swallowed, pending,
                 verifying>>

-----------------------------------------------------------------------------
Subprocess == \/ CommitIntent \/ Spawn \/ NeverSpawned \/ SpawnFails
              \/ ConfirmSpawn \/ ProbeTimeout \/ KillTimer \/ UncertainTimer
              \/ MarkUncertain \/ Closed \/ SettleChild

Running == \/ Swallow \/ StageFails \/ WaitForUser \/ StageDone \/ RunFails
           \/ FinishCancelled

Requests == \/ \E s \in Session : Start(s) \/ Retry(s) \/ Verify(s)
            \/ Cancel \/ Verified \/ TokenExpires \/ Shutdown

Startup == Boot \/ Confirm \/ Escalate \/ Refuse \/ Serve

Next == Subprocess \/ Running \/ Requests \/ Startup \/ Exit \/ Crash \/ World

Spec == Init /\ [][Next]_vars

(* The execution itself never waits for ever: its timers fire, its file    *)
(* operations end, its downloads are bounded or end with the signal.       *)
FairSpec == Spec /\ WF_vars(Subprocess \/ Running)

-----------------------------------------------------------------------------
(* The children whose groups may still write, other than those whose       *)
(* uncertain termination a stage was told of and swallowed.                *)
Owned == {c \in Child : Live(c)} \ swallowed

(* At most one owned process group is alive, across cancels, retries,      *)
(* resumptions, crashes and restarts (start, retry, reconcileOwnedProcess).*)
OneWriter == \A c, d \in Owned : c = d

(* As long as one is alive the state file says so, so that no restart can  *)
(* miss it (runProcess, runOwnedProcess: intent before spawn, cleared only *)
(* after the group was confirmed gone).                                    *)
LiveIsRecorded == Owned # {} => disk.child.kind # "none"

(* A job that was reported as settled has no process left that writes.     *)
SettledMeansStopped ==
  /\ ctl = "up" /\ at = "idle"
  /\ job.state \in {"cancelled", "failed", "completed", "waiting_for_user"}
  => Owned = {}

(* One writer at most, in the state file as long as it lives, and none     *)
(* once the job is settled.                                                *)
WritersAreSafe == OneWriter /\ LiveIsRecorded /\ SettledMeansStopped

(* The active execution is the one of the current attempt, and no other    *)
(* request has moved the job away from under it.                           *)
ExecutionIsCurrent ==
  Serving /\ at \notin {"idle", "settle"}
    => Current /\ job.state \in {"running", "cancelling"}

(* The credential is only ever held by a child whose PID and identity are  *)
(* in the state file.                                                      *)
CredentialIsOwned ==
  kid.fed /\ at \in {"running", "term", "killed"}
    => disk.child.id = kid.id /\ disk.child.attempt = exec.attempt

Allowed ==
  ({"idle", "failed", "cancelled", "interrupted", "completed"} \X {"running"})
  \cup ({"running"} \X {"waiting_for_user", "cancelling", "failed",
                         "interrupted", "completed"})
  \cup ({"waiting_for_user"} \X {"running", "cancelling", "failed",
                                  "interrupted"})
  \cup ({"cancelling"} \X {"cancelled", "interrupted"})

(* The job only moves along the ALLOWED table, whoever moves it: requests, *)
(* run(), its catch block, waitForUser, and a restart that finds what a    *)
(* failed commit left in the state file.                                   *)
LegalTransitions ==
  [][job'.state # job.state => <<job.state, job'.state>> \in Allowed]_vars

(* A cancellation ends, whatever the subprocess does, with the job         *)
(* cancelled or, if its termination is uncertain, interrupted.             *)
CancelSettles ==
  (ctl = "up" /\ job.state = "cancelling")
    ~> job.state \in {"cancelled", "interrupted"}

Writers == INSTANCE InstallationWriters WITH writers <- Owned

(* The controller implements the promise of InstallationWriters. *)
WriterSpec == Writers!Spec

-----------------------------------------------------------------------------
(* What the documentation promises and the code does not keep. *)

(* README.md: an uncertain termination stays recorded and blocks retry.    *)
OwnershipRetained == (\E c \in Child : Live(c)) => disk.child.kind # "none"

(* A start is only refused while the recorded process may still be there.  *)
RefusedForCause ==
  [][ctl # "refused" /\ ctl' = "refused" => \E c \in Child : Live(c)]_vars

(* Retry refuses an uncertain job until a restart has reconciled it, and   *)
(* a restart reconciles only what is recorded.                             *)
UncertainIsReconcilable == job.uncertain => Recorded

=============================================================================
