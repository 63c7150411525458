------------------------ MODULE SetupControllerProofs ------------------------
(***************************************************************************)
(* Theorems about SetupController, for any number of attempts, process     *)
(* groups and sessions and for all settings of its switches.               *)
(*                                                                         *)
(* The inductive invariant says of every place run() and its subprocess    *)
(* can be at what may still be alive there, and that whatever is alive is  *)
(* covered by both the record in memory and the one in the state file: a   *)
(* record covers a child if it is there and names either that child or, as *)
(* a launch intent does, nobody yet.                                       *)
(***************************************************************************)
EXTENDS SetupController, TLAPS

Covered(r) == \A c \in Owned : r.kind # "none" /\ r.id \in {Nobody, c}

RecordsCover == Covered(job.child) /\ Covered(disk.child)

(* Nothing runs before the spawn, between two subprocesses, or once one    *)
(* has ended with any error but an uncertain termination.                  *)
NothingRuns ==
  at \in {"task", "spawn"} \/ (at = "raised" /\ error # "UNCERTAIN")
    => Owned = {}

(* Otherwise the child of the running subprocess is the only one. *)
OnlyTheKid ==
  at \in KidAt \/ (at = "raised" /\ error = "UNCERTAIN")
    => kid.id \in Child /\ Owned \subseteq {kid.id}

(* The launch intent is durable before the spawn. *)
IntentFirst ==
  at = "spawn" => /\ job.child.kind # "none" /\ job.child.id = Nobody
                  /\ disk.child.kind # "none" /\ disk.child.id = Nobody

(* A job at rest in one of these states has left nothing behind. *)
RestIsQuiet ==
  Serving /\ at = "idle"
  /\ job.state \in {"idle", "waiting_for_user", "completed", "failed",
                    "cancelled"}
    => Owned = {}

SettleIsCancelling == at = "settle" => job.state = "cancelling"

NothingAtStartup ==
  ctl \in {"down", "refused", "reconcile", "terminate", "kill"} => at = "idle"

(* The credential goes to no child that is not recorded by identity. *)
FedIsRecorded ==
  /\ kid.fed => at \notin {"spawn", "spawned"}
  /\ kid.fed /\ at \in {"running", "term", "killed"}
       => /\ job.child.id = kid.id /\ job.child.attempt = exec.attempt
          /\ disk.child.id = kid.id /\ disk.child.attempt = exec.attempt

(* What the state file can be found to hold after a crash. *)
StatesAgree == disk.state = job.state \/ <<job.state, disk.state>> \in Allowed

Ownership ==
  /\ OneWriter /\ RecordsCover /\ NothingRuns /\ OnlyTheKid /\ IntentFirst
  /\ RestIsQuiet

Control == ExecutionIsCurrent /\ SettleIsCancelling /\ NothingAtStartup

IInv == /\ TypeOK /\ Ownership /\ Control /\ FedIsRecorded /\ StatesAgree

-----------------------------------------------------------------------------
(* What the updates of the job change, and what they leave alone. *)
LEMMA WithChildFacts ==
  ASSUME TypeOK, NEW rec \in Record
  PROVE  /\ WithChild(rec) \in Job
         /\ WithChild(rec).state = job.state
         /\ WithChild(rec).attempt = job.attempt
         /\ WithChild(rec).child = IF Current THEN rec ELSE job.child
PROOF
<1>1. CASE Current
  BY <1>1 DEF TypeOK, WithChild, Job
<1>2. CASE ~Current
  BY <1>2 DEF TypeOK, WithChild, Job
<1> QED BY <1>1, <1>2

SameChild(new) == new \in Job /\ new.child = job.child

(* None of the changes of state touches the record or the attempt. *)
LEMMA UpdateFacts ==
  ASSUME TypeOK
  PROVE  /\ \A new \in {Waiting, Completed, Failed, Cancelled, Cancelling,
                        Interrupted, InStage(NextStage)} :
              SameChild(new) /\ new.attempt = job.attempt
         /\ Waiting.state = "waiting_for_user"
         /\ Completed.state = "completed"
         /\ Cancelling.state = "cancelling"
         /\ InStage(NextStage).state = job.state
         /\ Cancelled.state = IF Recorded THEN "interrupted" ELSE "cancelled"
         /\ Interrupted.state = IF job.state \in {"running", "cancelling"}
                                  THEN "interrupted" ELSE job.state
PROOF
<1>1. job \in Job
  BY DEF TypeOK
<1>2. SameChild(Waiting) /\ Waiting.attempt = job.attempt
      /\ Waiting.state = "waiting_for_user"
  BY <1>1 DEF Waiting, SameChild, Job, State
<1>3. SameChild(Completed) /\ Completed.attempt = job.attempt
      /\ Completed.state = "completed"
  BY <1>1 DEF Completed, SameChild, Job, State
<1>4. SameChild(Cancelling) /\ Cancelling.attempt = job.attempt
      /\ Cancelling.state = "cancelling"
  BY <1>1 DEF Cancelling, SameChild, Job, State
<1>5. SameChild(Cancelled) /\ Cancelled.attempt = job.attempt
      /\ Cancelled.state = IF Recorded THEN "interrupted" ELSE "cancelled"
  BY <1>1 DEF Cancelled, SameChild, Job, State
<1>6. SameChild(Interrupted) /\ Interrupted.attempt = job.attempt
      /\ Interrupted.state = IF job.state \in {"running", "cancelling"}
                               THEN "interrupted" ELSE job.state
  BY <1>1 DEF Interrupted, SameChild, Job, State
<1>7. NextStage \in Stage
  BY DEF NextStage, Stage
<1>8. SameChild(InStage(NextStage)) /\ InStage(NextStage).attempt = job.attempt
      /\ InStage(NextStage).state = job.state
  BY <1>1, <1>7 DEF InStage, SameChild, Job
<1>9. SameChild(Failed) /\ Failed.attempt = job.attempt
  BY <1>1, <1>2 DEF Failed, SameChild, Job, State
<1> QED BY <1>2, <1>3, <1>4, <1>5, <1>6, <1>8, <1>9

(* What the catch block of run() makes of the job. *)
LEMMA FailedFacts ==
  ASSUME TypeOK
  PROVE  /\ Failed.state \in {"waiting_for_user", "interrupted", "failed"}
         /\ Failed.state = "failed" => ~Recorded /\ error # "UNCERTAIN"
         /\ Failed.state = "waiting_for_user" => ~Recorded
PROOF
<1>1. job \in Job
  BY DEF TypeOK
<1>2. Waiting.state = "waiting_for_user"
  BY <1>1 DEF Waiting, Job
<1> QED BY <1>1, <1>2 DEF Failed, Job

(* What start() and retry() save. *)
LEMMA LaunchFacts ==
  ASSUME TypeOK, NEW a \in Attempt
  PROVE  /\ SameChild(Attempted(a)) /\ Attempted(a).state = "running"
         /\ Attempted(a).attempt = a
         /\ NewJob(a) \in Job /\ NewJob(a).state = "running"
         /\ NewJob(a).attempt = a /\ NewJob(a).child = NoRecord
PROOF
<1>1. job \in Job
  BY DEF TypeOK
<1>2. SameChild(Attempted(a)) /\ Attempted(a).state = "running"
      /\ Attempted(a).attempt = a
  BY <1>1 DEF Attempted, SameChild, Job, State, Stage
<1>3. NewJob(a) \in Job /\ NewJob(a).state = "running"
      /\ NewJob(a).attempt = a /\ NewJob(a).child = NoRecord
  BY DEF NewJob, NoJob, NoRecord, Job, Record, State, Stage
<1> QED BY <1>2, <1>3

(* What reconcileOwnedProcess saves. *)
LEMMA ReconcileFacts ==
  ASSUME TypeOK
  PROVE  /\ Cleared \in Job /\ Cleared.state = job.state
         /\ Cleared.child \in {NoRecord, job.child}
         /\ Marked \in Job /\ Marked.state = job.state
         /\ Marked.child.id = job.child.id
         /\ Recorded => Marked.child.kind # "none"
PROOF
<1>1. job \in Job /\ job.child \in Record
  BY DEF TypeOK, Job
<1>2. Cleared \in Job /\ Cleared.state = job.state
      /\ Cleared.child \in {NoRecord, job.child}
  BY <1>1 DEF Cleared, NoRecord, Job, Record
<1>3. [job.child EXCEPT !.kind = "uncertain"] \in Record
      /\ [job.child EXCEPT !.kind = "uncertain"].id = job.child.id
      /\ [job.child EXCEPT !.kind = "uncertain"].kind = "uncertain"
  BY <1>1 DEF Record
<1>4. /\ Marked \in Job /\ Marked.state = job.state
      /\ Marked.child.id = job.child.id
      /\ Recorded => Marked.child.kind # "none"
  BY <1>1, <1>3 DEF Marked, Job, Recorded
<1> QED BY <1>2, <1>4

(* What the callbacks store has the type of a record. *)
LEMMA RecordFacts ==
  ASSUME TypeOK
  PROVE  /\ NoRecord \in Record /\ NoRecord.kind = "none"
         /\ Intent \in Record /\ Intent.kind # "none" /\ Intent.id = Nobody
         /\ \A k \in {"active", "uncertain"} :
              /\ Rec(k) \in Record /\ Rec(k).kind = k
              /\ Rec(k).id = (IF kid.known THEN kid.id ELSE Nobody)
PROOF
<1>1. kid.id \in Child \cup {Nobody} /\ exec.attempt \in Attempt \cup {NoAttempt}
  BY DEF TypeOK, Kid, Exec
<1> QED BY <1>1 DEF NoRecord, Intent, Rec, Record

(* Every step preserves the types. *)
LEMMA TypeStep == TypeOK /\ OnlyTheKid /\ [Next]_vars => TypeOK'
PROOF
<1> SUFFICES ASSUME TypeOK, OnlyTheKid, [Next]_vars PROVE TypeOK'
  OBVIOUS
<1> USE AttemptAssumption, ChildAssumption
<1>p. KidAt \subseteq Point
  BY DEF KidAt, Point
<1>a. /\ ctl \in Ctl /\ job \in Job /\ disk \in Job /\ exec \in Exec
      /\ at \in Point /\ kid \in Kid /\ error \in Code
      /\ swallowed \in SUBSET Child /\ pending \in Session \cup {NoSession}
      /\ verifying \in Session \cup {NoSession}
      /\ group \in [Child -> GroupState]
  BY DEF TypeOK, GroupsOK
<1>k. NoKid \in Kid /\ NoExec \in Exec /\ NoRecord \in Record
  BY DEF NoKid, NoExec, NoRecord, Kid, Exec, Record
<1>1. ASSUME NEW c \in Child, NEW s \in GroupState, Becomes(c, s)
      PROVE  group' \in [Child -> GroupState]
  BY <1>1, <1>a DEF Becomes
<1>2. ASSUME NEW new \in Job, Saved(new) \/ Lost(new)
      PROVE  job' \in Job /\ disk' \in Job
  BY <1>2, <1>a DEF Saved, Lost
<1>3. ASSUME NEW rec \in Record PROVE WithChild(rec) \in Job
  BY WithChildFacts
<1>4. /\ Intent \in Record
      /\ \A k \in {"active", "uncertain"} : Rec(k) \in Record
  BY RecordFacts
<1>o. Over => /\ at' \in Point /\ exec' \in Exec /\ kid' \in Kid
              /\ error' \in Code
  BY <1>k DEF Over, Point, Code
<1>u. \A new \in {Waiting, Completed, Failed, Cancelled, Cancelling,
                  Interrupted, InStage(NextStage)} : new \in Job
  BY UpdateFacts DEF SameChild
<1>b. Abort => at' \in Point /\ exec' \in Exec /\ kid' \in Kid
  BY <1>a DEF Abort, StopLeadsTo, Point, KidAt, Exec, Kid
<1>l. ASSUME NEW new \in Job, NEW s \in Session, Launch(new, s)
      PROVE  /\ job' \in Job /\ disk' \in Job /\ exec' \in Exec
             /\ at' \in Point /\ pending' \in Session \cup {NoSession}
  BY <1>l, <1>2, <1>a DEF Launch, Job, Exec, Point
<1>m. ASSUME NEW new \in Job, NotLaunched(new)
      PROVE  /\ job' \in Job /\ disk' \in Job /\ exec' \in Exec
             /\ at' \in Point
  BY <1>m, <1>2, <1>a DEF NotLaunched
<1>10. CASE CommitIntent
  <2>1. job' \in Job /\ disk' \in Job
    BY <1>10, <1>2, <1>3, <1>4 DEF CommitIntent
  <2>2. kid' \in Kid
    BY <1>10, <1>a DEF CommitIntent, NoKid, Kid, Exec
  <2> QED BY <1>10, <2>1, <2>2, <1>a
    DEF CommitIntent, OnlyFiles, AuthUnchanged, Raise, Point, Code, TypeOK,
        GroupsOK
<1>11. CASE Spawn
  <2>1. PICK c \in FreshChild : /\ Becomes(c, "led")
                                /\ kid' = [kid EXCEPT !.id = c]
                                /\ swallowed' = swallowed \ {c}
    BY <1>11 DEF Spawn
  <2>2. group' \in [Child -> GroupState]
    BY <2>1, <1>1 DEF FreshChild, GroupState
  <2>3. kid' \in Kid
    BY <2>1, <1>a DEF FreshChild, Kid
  <2> QED BY <1>11, <2>1, <2>2, <2>3, <1>a
    DEF Spawn, NothingSaved, AuthUnchanged, Point, KidAt, TypeOK, GroupsOK
<1>12. CASE NeverSpawned
  BY <1>12, <1>a DEF NeverSpawned, NothingSaved, OnlyFiles, AuthUnchanged,
    Raise, Point, Code, TypeOK, GroupsOK
<1>13. CASE SpawnFails
  <2>1. job' \in Job /\ disk' \in Job
    BY <1>13, <1>2, <1>3, <1>k DEF SpawnFails
  <2> QED BY <1>13, <2>1, <1>a
    DEF SpawnFails, OnlyFiles, AuthUnchanged, Raise, Point, Code, TypeOK,
      GroupsOK
<1>14. CASE ConfirmSpawn
  <2>1. ASSUME NEW known \in BOOLEAN
        PROVE  [kind |-> "active", attempt |-> exec.attempt,
                id |-> IF known THEN kid.id ELSE Nobody] \in Record
    BY <1>a DEF Record, Exec, Kid
  <2>2. {IdentityMatches(kid.id)} \cup (IF Faults THEN {FALSE} ELSE {})
          \subseteq BOOLEAN
    BY DEF IdentityMatches
  <2>3. job' \in Job /\ disk' \in Job
    BY <1>14, <2>1, <2>2, <1>2, <1>3 DEF ConfirmSpawn, StoppedAs
  <2>4. kid' \in Kid /\ at' \in Point
    BY <1>14, <2>2, <1>a
      DEF ConfirmSpawn, StoppedAs, Kid, Exec, Point, KidAt, Current
  <2> QED BY <1>14, <2>3, <2>4, <1>a
    DEF ConfirmSpawn, StoppedAs, OnlyFiles, AuthUnchanged, TypeOK, GroupsOK
<1>15. CASE ProbeTimeout
  BY <1>15, <1>a DEF ProbeTimeout, StopLeadsTo, NothingSaved, OnlyFiles,
    AuthUnchanged, Point, KidAt, Kid, TypeOK, GroupsOK
<1>16. CASE KillTimer
  BY <1>16, <1>a DEF KillTimer, NothingSaved, OnlyFiles, AuthUnchanged, Point,
    KidAt, TypeOK, GroupsOK
<1>17. CASE UncertainTimer
  BY <1>17, <1>a DEF UncertainTimer, NothingSaved, OnlyFiles, AuthUnchanged,
    Point, KidAt, TypeOK, GroupsOK
<1>18. CASE MarkUncertain
  <2>1. job' \in Job /\ disk' \in Job
    BY <1>18, <1>2, <1>3, <1>4 DEF MarkUncertain
  <2> QED BY <1>18, <2>1, <1>a DEF MarkUncertain, OnlyFiles, AuthUnchanged,
    Raise, Point, Code, TypeOK, GroupsOK
<1>19. CASE Closed
  BY <1>19, <1>a DEF Closed, NothingSaved, OnlyFiles, AuthUnchanged, Point,
    KidAt, TypeOK, GroupsOK
<1>20. CASE SettleChild
  <2>1. (IF GroupIsGone(kid.id) THEN NoRecord ELSE Rec("uncertain")) \in Record
    BY <1>4, <1>k
  <2>2. job' \in Job /\ disk' \in Job
    BY <1>20, <2>1, <1>2, <1>3 DEF SettleChild
  <2> QED BY <1>20, <2>2, <1>a DEF SettleChild, OnlyFiles, AuthUnchanged,
    Raise, Point, Code, TypeOK, GroupsOK
<1>21. CASE Swallow
  <2>1. swallowed' \in SUBSET Child
    BY <1>21, <1>a DEF Swallow, OnlyTheKid
  <2> QED BY <1>21, <2>1, <1>a, <1>k DEF Swallow, NothingSaved, AuthUnchanged,
    Point, Code, TypeOK, GroupsOK
<1>22. CASE StageFails
  BY <1>22, <1>a, <1>k
    DEF StageFails, NothingSaved, OnlyFiles, AuthUnchanged, Raise, Point,
      Code, TypeOK, GroupsOK
<1>23. CASE WaitForUser
  <2>1. job' \in Job /\ disk' \in Job
    BY <1>23, <1>2, <1>u DEF WaitForUser
  <2> QED BY <1>23, <2>1, <1>a, <1>o
    DEF WaitForUser, OnlyFiles, AuthUnchanged, Raise, Point, Code, TypeOK,
      GroupsOK
<1>24. CASE StageDone
  <2>1. job' \in Job /\ disk' \in Job
    BY <1>24, <1>2, <1>u, <1>a DEF StageDone, NothingSaved
  <2> QED BY <1>24, <2>1, <1>a, <1>o
    DEF StageDone, NothingSaved, OnlyFiles, AuthUnchanged, Raise, Point, Code,
      Exec, TypeOK, GroupsOK
<1>25. CASE RunFails
  <2>1. job' \in Job /\ disk' \in Job
    BY <1>25, <1>2, <1>u, <1>a DEF RunFails, NothingSaved
  <2> QED BY <1>25, <2>1, <1>a, <1>o
    DEF RunFails, NothingSaved, OnlyFiles, AuthUnchanged, Point, TypeOK,
      GroupsOK
<1>26. CASE FinishCancelled
  <2>1. job' \in Job /\ disk' \in Job
    BY <1>26, <1>2, <1>u DEF FinishCancelled
  <2> QED BY <1>26, <2>1, <1>a, <1>o
    DEF FinishCancelled, OnlyFiles, AuthUnchanged, TypeOK, GroupsOK
<1>27. ASSUME NEW s \in Session, Start(s)
       PROVE  TypeOK'
  <2>1. PICK a \in FreshAttempt :
          \/ Launch(Attempted(a), s) \/ Launch(NewJob(a), s)
          \/ NotLaunched(Attempted(a)) /\ pending' = NoSession
          \/ NotLaunched(NewJob(a)) /\ UNCHANGED pending
    BY <1>27 DEF Start
  <2>2. a \in Attempt
    BY DEF FreshAttempt
  <2> QED BY <1>27, <2>1, <2>2, <1>l, <1>m, <1>a, LaunchFacts
    DEF Start, SameChild, TypeOK, GroupsOK
<1>28. ASSUME NEW s \in Session, Retry(s)
       PROVE  TypeOK'
  <2>1. PICK a \in FreshAttempt :
          Launch(Attempted(a), s) \/ (NotLaunched(Attempted(a)) /\ UNCHANGED pending)
    BY <1>28 DEF Retry
  <2>2. a \in Attempt
    BY DEF FreshAttempt
  <2> QED BY <1>28, <2>1, <2>2, <1>l, <1>m, <1>a, LaunchFacts
    DEF Retry, SameChild, TypeOK, GroupsOK
<1>29. ASSUME NEW s \in Session, Verify(s)
       PROVE  TypeOK'
  BY <1>29, <1>a DEF Verify, NothingSaved, TypeOK, GroupsOK
<1>30. CASE Cancel
  <2>1. job' \in Job /\ disk' \in Job
    BY <1>30, <1>2, <1>u DEF Cancel
  <2> QED BY <1>30, <2>1, <1>a, <1>b
    DEF Cancel, OnlyFiles, AuthUnchanged, TypeOK, GroupsOK
<1>31. CASE Verified
  BY <1>31, <1>a DEF Verified, NothingSaved, TypeOK, GroupsOK
<1>32. CASE TokenExpires
  BY <1>32, <1>a DEF TokenExpires, NothingSaved, TypeOK, GroupsOK
<1>33. CASE Shutdown
  <2>1. job' \in Job /\ disk' \in Job
    BY <1>33, <1>2, <1>u, <1>a DEF Shutdown, NothingSaved
  <2> QED BY <1>33, <2>1, <1>a, <1>b
    DEF Shutdown, NothingSaved, Ctl, TypeOK, GroupsOK
<1>34. CASE Boot
  BY <1>34, <1>a DEF Boot, NothingSaved, AuthUnchanged, Ctl, TypeOK, GroupsOK
<1>35. CASE Confirm
  <2>1. job' \in Job /\ disk' \in Job
    BY <1>35, <1>2, <1>a, ReconcileFacts DEF Confirm, NothingSaved
  <2> QED BY <1>35, <2>1, <1>a, <1>o
    DEF Confirm, ToRecovery, NoExec, AuthUnchanged, Ctl, Point, Exec, Job,
      TypeOK, GroupsOK
<1>36. CASE Escalate
  BY <1>36, <1>a
    DEF Escalate, NothingSaved, AuthUnchanged, Ctl, TypeOK, GroupsOK
<1>37. CASE Refuse
  <2>1. job' \in Job /\ disk' \in Job
    BY <1>37, <1>a, <1>2, ReconcileFacts DEF Refuse
  <2> QED BY <1>37, <2>1, <1>a, <1>o
    DEF Refuse, AuthUnchanged, Ctl, TypeOK, GroupsOK
<1>38. CASE Serve
  <2>1. job' \in Job /\ disk' \in Job
    BY <1>38, <1>a, <1>2, <1>u DEF Serve
  <2> QED BY <1>38, <2>1, <1>a, <1>o
    DEF Serve, AuthUnchanged, Ctl, TypeOK, GroupsOK
<1>39. CASE Exit
  BY <1>39, <1>a, <1>k DEF Exit, Forgotten, Ctl, Point, Code, TypeOK, GroupsOK
<1>40. CASE Crash
  BY <1>40, <1>a, <1>k DEF Crash, Forgotten, Ctl, Point, Code, TypeOK, GroupsOK
<1>41. CASE World
  <2>1. group' \in [Child -> GroupState]
    BY <1>41, <1>1 DEF World, LeaderExits, OrphansExit, StrangerExits,
      PidReused, GroupState
  <2> QED BY <1>41, <2>1, <1>a DEF World, TypeOK, GroupsOK
<1>42. CASE UNCHANGED vars
  BY <1>42, <1>a DEF vars, TypeOK, GroupsOK
<1> QED
  BY <1>10, <1>11, <1>12, <1>13, <1>14, <1>15, <1>16, <1>17, <1>18, <1>19,
     <1>20, <1>21, <1>22, <1>23, <1>24, <1>25, <1>26, <1>27, <1>28, <1>29,
     <1>30, <1>31, <1>32, <1>33, <1>34, <1>35, <1>36, <1>37, <1>38, <1>39,
     <1>40, <1>41, <1>42
  DEF Next, Subprocess, Running, Requests, Startup

-----------------------------------------------------------------------------
(* Only Swallow, Spawn and the operating system change what is owned. *)
LEMMA OwnedFrame == UNCHANGED <<group, swallowed>> => Owned' = Owned
PROOF BY DEF Owned, Live

(* While nobody is added, the records cover the owned children as long as  *)
(* the one that is being stored does.                                      *)
LEMMA CoverSaved ==
  ASSUME NEW new, RecordsCover, Saved(new) \/ Lost(new),
         Owned' \subseteq Owned,
         \A c \in Owned' : new.child.kind # "none" /\ new.child.id \in {Nobody, c}
  PROVE  RecordsCover'
PROOF BY DEF RecordsCover, Covered, Saved, Lost

(* Every step preserves what is said of the owned children and where the   *)
(* execution has got to.                                                   *)
LEMMA OwnershipStep ==
  ASSUME TypeOK, Ownership, Control, [Next]_vars
  PROVE  Ownership' /\ Control'
PROOF
<1> USE ChildAssumption, AttemptAssumption
<1>i. /\ OneWriter /\ RecordsCover /\ NothingRuns /\ OnlyTheKid /\ IntentFirst
      /\ RestIsQuiet /\ ExecutionIsCurrent /\ SettleIsCancelling
      /\ NothingAtStartup
  BY DEF Ownership, Control
<1>w. Owned' \subseteq Owned => OneWriter'
  BY <1>i DEF OneWriter
<1>c. UNCHANGED <<job, disk>> /\ Owned' \subseteq Owned => RecordsCover'
  BY <1>i DEF RecordsCover, Covered
<1>u. ~Recorded => Owned = {}
  BY <1>i DEF RecordsCover, Covered, Recorded
<1>q. /\ Owned' = {} /\ at' \in {"task", "raised", "settle", "idle"}
      /\ at' = "raised" => error' # "UNCERTAIN"
      => Ownership'
  BY DEF Ownership, OneWriter, RecordsCover, Covered, NothingRuns, OnlyTheKid,
    IntentFirst, RestIsQuiet, KidAt
<1>f. /\ Owned' \subseteq Owned
      /\ UNCHANGED <<job, disk, ctl, at, kid, error, exec>>
      => Ownership' /\ Control'
  <2> SUFFICES ASSUME Owned' \subseteq Owned,
                      UNCHANGED <<job, disk, ctl, at, kid, error, exec>>
               PROVE  Ownership' /\ Control'
    OBVIOUS
  <2>1. RecordsCover' /\ OneWriter'
    BY <1>c, <1>w
  <2>2. NothingRuns' /\ OnlyTheKid' /\ IntentFirst' /\ RestIsQuiet'
    BY <1>i DEF NothingRuns, OnlyTheKid, IntentFirst, RestIsQuiet, Serving
  <2>3. ExecutionIsCurrent' /\ SettleIsCancelling' /\ NothingAtStartup'
    BY <1>i DEF ExecutionIsCurrent, SettleIsCancelling, NothingAtStartup,
      Serving, Current
  <2> QED BY <2>1, <2>2, <2>3 DEF Ownership, Control
<1>g. UNCHANGED <<job, disk, ctl, at, kid, error, exec, swallowed, group>>
      => Ownership' /\ Control'
  BY <1>f, OwnedFrame
(* The subprocess waits or is being stopped, and nothing is saved. *)
<1>1. CASE ProbeTimeout \/ KillTimer \/ UncertainTimer \/ Closed
  <2>1. /\ NothingSaved /\ UNCHANGED <<exec, error, ctl, swallowed, group>>
        /\ at \in KidAt /\ at' \in KidAt /\ kid'.id = kid.id
    BY <1>1 DEF ProbeTimeout, KillTimer, UncertainTimer, Closed, StopLeadsTo,
      OnlyFiles, TypeOK, Kid, KidAt
  <2>2. Owned' = Owned
    BY <2>1, OwnedFrame
  <2>3. RecordsCover' /\ OneWriter'
    BY <2>1, <2>2, <1>c, <1>w DEF NothingSaved
  <2>4. NothingRuns' /\ OnlyTheKid' /\ IntentFirst' /\ RestIsQuiet'
    BY <2>1, <2>2, <1>i
      DEF NothingRuns, OnlyTheKid, IntentFirst, RestIsQuiet, KidAt
  <2>5. ExecutionIsCurrent' /\ SettleIsCancelling' /\ NothingAtStartup'
    BY <2>1, <1>i DEF ExecutionIsCurrent, SettleIsCancelling, NothingAtStartup,
      Serving, Current, NothingSaved, KidAt
  <2> QED BY <2>3, <2>4, <2>5 DEF Ownership, Control
<1>2. CASE CommitIntent
  <2>1. /\ at = "task" /\ UNCHANGED <<exec, ctl, swallowed, group>>
        /\ Owned = {} /\ Owned' = {}
    BY <1>2, <1>i, OwnedFrame DEF CommitIntent, OnlyFiles, NothingRuns
  <2>2. RecordsCover' /\ OneWriter'
    BY <2>1 DEF RecordsCover, Covered, OneWriter
  <2>3. /\ job'.state = job.state /\ job'.attempt = job.attempt
        /\ at' = "spawn" => job'.child = Intent /\ disk'.child = Intent
        /\ at' \in {"spawn", "raised"}
        /\ at' = "raised" => error' # "UNCERTAIN"
    BY <1>2, WithChildFacts, RecordFacts DEF CommitIntent, Saved, Lost, Raise
  <2>4. NothingRuns' /\ OnlyTheKid' /\ RestIsQuiet'
    BY <2>1, <2>3 DEF NothingRuns, OnlyTheKid, RestIsQuiet, KidAt
  <2>5. IntentFirst'
    BY <2>3, RecordFacts DEF IntentFirst
  <2>6. ExecutionIsCurrent' /\ SettleIsCancelling' /\ NothingAtStartup'
    BY <2>1, <2>3, <1>i
      DEF ExecutionIsCurrent, SettleIsCancelling, NothingAtStartup, Serving,
        Current
  <2> QED BY <2>2, <2>4, <2>5, <2>6 DEF Ownership, Control
<1>3. CASE Spawn
  <2>1. PICK c \in FreshChild : /\ Becomes(c, "led")
                                /\ kid' = [kid EXCEPT !.id = c]
                                /\ swallowed' = swallowed \ {c}
    BY <1>3 DEF Spawn
  <2>2. /\ at = "spawn" /\ at' = "spawned" /\ c \in Child
        /\ UNCHANGED <<job, disk, exec, ctl, error>>
        /\ kid'.id = c
    BY <1>3, <2>1 DEF Spawn, NothingSaved, FreshChild, TypeOK, Kid
  <2>3. Owned = {}
    BY <2>2, <1>i DEF NothingRuns
  <2>4. Owned' \subseteq {c}
    BY <2>1, <2>3 DEF Owned, Live, Becomes, TypeOK, GroupsOK
  <2>5. /\ job'.child.kind # "none" /\ job'.child.id = Nobody
        /\ disk'.child.kind # "none" /\ disk'.child.id = Nobody
    BY <2>2, <1>i DEF IntentFirst
  <2>6. OneWriter' /\ RecordsCover' /\ NothingRuns' /\ OnlyTheKid' /\ IntentFirst'
        /\ RestIsQuiet'
    BY <2>2, <2>4, <2>5 DEF OneWriter, RecordsCover, Covered, NothingRuns,
      OnlyTheKid, IntentFirst, RestIsQuiet, KidAt
  <2>7. Control'
    BY <2>2, <1>i
      DEF ExecutionIsCurrent, SettleIsCancelling, NothingAtStartup, Serving,
        Current, Control
  <2> QED BY <2>6, <2>7 DEF Ownership
<1>4. CASE NeverSpawned \/ SpawnFails
  <2>1. /\ at = "spawn" /\ at' = "raised" /\ error' # "UNCERTAIN"
        /\ UNCHANGED <<exec, ctl, swallowed, group>>
        /\ job'.state = job.state /\ job'.attempt = job.attempt
    BY <1>4, WithChildFacts, RecordFacts
    DEF NeverSpawned, SpawnFails, Raise, OnlyFiles, NothingSaved, Saved, Lost
  <2>2. Owned' = {}
    BY <2>1, <1>i, OwnedFrame DEF NothingRuns
  <2>3. Control'
    BY <2>1, <1>i
      DEF ExecutionIsCurrent, SettleIsCancelling, NothingAtStartup, Serving,
        Current, Control
  <2> QED BY <2>1, <2>2, <2>3, <1>q
<1>5. CASE ConfirmSpawn
  <2>1. PICK known \in BOOLEAN :
          LET rec == [kind |-> "active", attempt |-> exec.attempt,
                      id |-> IF known THEN kid.id ELSE Nobody]
          IN Saved(WithChild(rec)) \/ Lost(WithChild(rec))
    BY <1>5 DEF ConfirmSpawn, StoppedAs, IdentityMatches
  <2> DEFINE rec == [kind |-> "active", attempt |-> exec.attempt,
                     id |-> IF known THEN kid.id ELSE Nobody]
  <2>2. /\ at = "spawned" /\ at' \in {"doubt", "term", "running"}
        /\ kid'.id = kid.id /\ UNCHANGED <<exec, error, ctl, swallowed, group>>
    BY <1>5 DEF ConfirmSpawn, StoppedAs, OnlyFiles, TypeOK, Kid
  <2>3. rec \in Record
    BY DEF Record, TypeOK, Kid, Exec
  <2>4. /\ WithChild(rec).child \in {rec, job.child}
        /\ WithChild(rec).state = job.state
        /\ WithChild(rec).attempt = job.attempt
    BY <2>3, WithChildFacts
  <2>5. Owned' = Owned /\ Owned \subseteq {kid.id}
    BY <2>2, <1>i, OwnedFrame DEF OnlyTheKid, KidAt
  <2>6. \A c \in Owned : /\ rec.kind # "none" /\ rec.id \in {Nobody, c}
                         /\ job.child.kind # "none" /\ job.child.id \in {Nobody, c}
    BY <2>5, <1>i DEF RecordsCover, Covered
  <2>7. RecordsCover'
    <3> HIDE DEF rec
    <3> QED BY <2>1, <2>4, <2>5, <2>6, <1>i, CoverSaved DEF rec
  <2>8. OneWriter' /\ NothingRuns' /\ OnlyTheKid' /\ IntentFirst' /\ RestIsQuiet'
    BY <2>2, <2>5, <1>i DEF OneWriter, NothingRuns, OnlyTheKid, IntentFirst,
      RestIsQuiet, KidAt
  <2>9. job'.state = job.state /\ job'.attempt = job.attempt
    BY <2>1, <2>4 DEF Saved, Lost
  <2>10. Control'
    BY <2>2, <2>9, <1>i
      DEF ExecutionIsCurrent, SettleIsCancelling, NothingAtStartup, Serving,
        Current, Control
  <2> QED BY <2>7, <2>8, <2>10 DEF Ownership
<1>6. CASE MarkUncertain
  <2>1. /\ at = "doubt" /\ at' = "raised" /\ error' = "UNCERTAIN"
        /\ UNCHANGED <<exec, kid, ctl, swallowed, group>>
        /\ Saved(WithChild(Rec("uncertain"))) \/ Lost(WithChild(Rec("uncertain")))
    BY <1>6 DEF MarkUncertain, OnlyFiles, Raise
  <2>2. /\ WithChild(Rec("uncertain")).child \in {Rec("uncertain"), job.child}
        /\ WithChild(Rec("uncertain")).state = job.state
        /\ WithChild(Rec("uncertain")).attempt = job.attempt
        /\ Rec("uncertain").kind # "none"
        /\ Rec("uncertain").id \in {kid.id, Nobody}
    BY WithChildFacts, RecordFacts
  <2>3. Owned' = Owned /\ kid.id \in Child /\ Owned \subseteq {kid.id}
    BY <2>1, <1>i, OwnedFrame DEF OnlyTheKid, KidAt
  <2>4. RecordsCover'
    BY <2>1, <2>2, <2>3, <1>i, CoverSaved DEF RecordsCover, Covered
  <2>5. OneWriter' /\ NothingRuns' /\ OnlyTheKid' /\ IntentFirst' /\ RestIsQuiet'
    BY <2>1, <2>3, <1>i DEF OneWriter, NothingRuns, OnlyTheKid, IntentFirst,
      RestIsQuiet, KidAt
  <2>6. job'.state = job.state /\ job'.attempt = job.attempt
    BY <2>1, <2>2 DEF Saved, Lost
  <2>7. Control'
    BY <2>1, <2>6, <1>i
      DEF ExecutionIsCurrent, SettleIsCancelling, NothingAtStartup, Serving,
        Current, Control
  <2> QED BY <2>4, <2>5, <2>7 DEF Ownership
<1>7. CASE SettleChild
  <2> DEFINE rec == IF GroupIsGone(kid.id) THEN NoRecord ELSE Rec("uncertain")
  <2>1. /\ at = "closing" /\ at' \in {"task", "raised"}
        /\ UNCHANGED <<exec, kid, ctl, swallowed, group>>
        /\ Saved(WithChild(rec)) \/ Lost(WithChild(rec))
        /\ ~GroupIsGone(kid.id) => at' = "raised" /\ error' = "UNCERTAIN"
        /\ GroupIsGone(kid.id) => error' # "UNCERTAIN"
    BY <1>7 DEF SettleChild, OnlyFiles, Raise
  <2>2. /\ rec \in Record /\ rec.id \in {kid.id, Nobody}
        /\ ~GroupIsGone(kid.id) => rec.kind # "none"
    BY RecordFacts DEF NoRecord
  <2>3. /\ WithChild(rec).child \in {rec, job.child}
        /\ WithChild(rec).state = job.state
        /\ WithChild(rec).attempt = job.attempt
    BY <2>2, WithChildFacts
  <2> HIDE DEF rec
  <2>4. Owned' = Owned /\ kid.id \in Child /\ Owned \subseteq {kid.id}
    BY <2>1, <1>i, OwnedFrame DEF OnlyTheKid, KidAt
  <2>5. GroupIsGone(kid.id) => Owned = {}
    BY <2>4 DEF Owned, Live, GroupIsGone
  <2>6. RecordsCover'
    BY <2>1, <2>2, <2>3, <2>4, <2>5, <1>i, CoverSaved DEF RecordsCover, Covered
  <2>7. OneWriter' /\ NothingRuns' /\ OnlyTheKid' /\ IntentFirst' /\ RestIsQuiet'
    BY <2>1, <2>4, <2>5, <1>i DEF OneWriter, NothingRuns, OnlyTheKid,
      IntentFirst, RestIsQuiet, KidAt
  <2>8. job'.state = job.state /\ job'.attempt = job.attempt
    BY <2>1, <2>3 DEF Saved, Lost
  <2>9. Control'
    BY <2>1, <2>8, <1>i
      DEF ExecutionIsCurrent, SettleIsCancelling, NothingAtStartup, Serving,
        Current, Control
  <2> QED BY <2>6, <2>7, <2>9 DEF Ownership
<1>8. CASE Swallow
  <2>1. /\ at = "raised" /\ at' = "task" /\ UNCHANGED <<job, disk, exec, ctl, group>>
        /\ swallowed' = IF error = "UNCERTAIN" THEN swallowed \cup {kid.id}
                                               ELSE swallowed
    BY <1>8 DEF Swallow, NothingSaved
  <2>2. Owned' = {}
    BY <2>1, <1>i DEF NothingRuns, OnlyTheKid, Owned, Live
  <2>3. Control'
    BY <2>1, <1>i
      DEF ExecutionIsCurrent, SettleIsCancelling, NothingAtStartup, Serving,
        Current, Control
  <2> QED BY <2>1, <2>2, <2>3, <1>q
<1>9. CASE StageFails
  <2>1. /\ at = "task" /\ at' = "raised" /\ error' # "UNCERTAIN"
        /\ UNCHANGED <<job, disk, exec, ctl, swallowed, group>>
    BY <1>9 DEF StageFails, NothingSaved, OnlyFiles, Raise
  <2>2. Owned' = {}
    BY <2>1, <1>i, OwnedFrame DEF NothingRuns
  <2>3. Control'
    BY <2>1, <1>i
      DEF ExecutionIsCurrent, SettleIsCancelling, NothingAtStartup, Serving,
        Current, Control
  <2> QED BY <2>1, <2>2, <2>3, <1>q
<1>10. CASE WaitForUser \/ StageDone
  <2>1. at = "task" /\ Serving /\ UNCHANGED <<ctl, swallowed, group>>
    BY <1>10 DEF WaitForUser, StageDone, OnlyFiles
  <2>2. Owned' = {}
    BY <2>1, <1>i, OwnedFrame DEF NothingRuns
  <2>3. /\ at' \in {"task", "raised", "settle", "idle"}
        /\ at' = "raised" => error' # "UNCERTAIN"
        /\ at' \in {"task", "raised"} =>
             /\ job'.state = job.state /\ job'.attempt = job.attempt
             /\ exec'.attempt = exec.attempt
        /\ at' = "settle" => job'.state = "cancelling"
    <3>1. CASE WaitForUser
      BY <3>1, UpdateFacts DEF WaitForUser, Saved, Lost, Over, Raise
    <3>2. CASE StageDone
      BY <3>2, UpdateFacts
        DEF StageDone, Saved, Lost, Over, Raise, NothingSaved, TypeOK, Exec
    <3> QED BY <1>10, <3>1, <3>2
  <2>4. Control'
    BY <2>1, <2>3, <1>i
      DEF ExecutionIsCurrent, SettleIsCancelling, NothingAtStartup, Serving,
        Current, Control
  <2> QED BY <2>2, <2>3, <2>4, <1>q
<1>11. CASE RunFails \/ FinishCancelled
  <2>1. /\ at \in {"raised", "settle"} /\ at' \in {"settle", "idle"}
        /\ UNCHANGED <<ctl, swallowed, group>>
        /\ at' = "settle" => UNCHANGED <<job, disk>> /\ job.state = "cancelling"
    BY <1>11 DEF RunFails, FinishCancelled, OnlyFiles, Over, NothingSaved
  <2>2. Owned' = Owned
    BY <2>1, OwnedFrame
  <2>3. CASE at' = "settle"
    <3>1. RecordsCover'
      BY <2>1, <2>2, <2>3, <1>c
    <3>2. OneWriter' /\ NothingRuns' /\ OnlyTheKid' /\ IntentFirst' /\ RestIsQuiet'
      BY <2>2, <2>3, <1>i
        DEF OneWriter, NothingRuns, OnlyTheKid, IntentFirst, RestIsQuiet,
          KidAt
    <3>3. Control'
      BY <2>1, <2>3, <1>i
        DEF ExecutionIsCurrent, SettleIsCancelling, NothingAtStartup, Serving,
          Current, Control
    <3> QED BY <3>1, <3>2, <3>3 DEF Ownership
  <2>4. CASE at' = "idle"
    <3>1. PICK new \in {Failed, Cancelled} :
            /\ Saved(new) \/ Lost(new)
            /\ job.state \in {"running", "cancelling"}
      BY <1>11, <2>4, <1>i DEF RunFails, FinishCancelled, SettleIsCancelling
    <3>2. /\ new.child = job.child
          /\ new.state \in {"failed", "waiting_for_user", "cancelled"} => ~Recorded
          /\ new.state # "idle" /\ new.state # "completed"
      BY UpdateFacts, FailedFacts DEF SameChild
    <3>3. RecordsCover'
      BY <2>2, <3>1, <3>2, <1>i, CoverSaved DEF RecordsCover, Covered
    <3>4. RestIsQuiet'
      BY <2>2, <2>4, <3>1, <3>2, <1>u DEF RestIsQuiet, Saved, Lost
    <3>5. OneWriter' /\ NothingRuns' /\ OnlyTheKid' /\ IntentFirst'
      BY <2>2, <2>4, <1>i
        DEF OneWriter, NothingRuns, OnlyTheKid, IntentFirst, RestIsQuiet,
          KidAt
    <3>6. Control'
      BY <2>1, <2>4, <1>i
        DEF ExecutionIsCurrent, SettleIsCancelling, NothingAtStartup, Serving,
          Current, Control
    <3> QED BY <3>3, <3>4, <3>5, <3>6 DEF Ownership
  <2> QED BY <2>1, <2>3, <2>4
(* A launch or a failed one: nothing is owned, so nothing can be lost. *)
<1>l. ASSUME NEW new, NEW s, Owned = {}, at = "idle", ctl = "up",
             new.state = "running",
             Launch(new, s), UNCHANGED <<ctl, swallowed, group>>
      PROVE  Ownership' /\ Control'
  <2>1. /\ at' = "task" /\ job' = new /\ exec'.attempt = new.attempt
        /\ Owned' = {} /\ ctl' = "up"
    BY <1>l, OwnedFrame DEF Launch, Saved
  <2>2. Control'
    BY <2>1, <1>l
      DEF ExecutionIsCurrent, SettleIsCancelling, NothingAtStartup, Serving,
        Current, Control
  <2> QED BY <2>1, <2>2, <1>q
<1>m. ASSUME NEW new, Owned = {}, at = "idle", ctl = "up",
             NotLaunched(new), UNCHANGED <<ctl, kid, error, swallowed, group>>
      PROVE  Ownership' /\ Control'
  <2>1. at' = "idle" /\ Owned' = {} /\ ctl' = "up"
    BY <1>m, OwnedFrame DEF NotLaunched
  <2>2. Control'
    BY <2>1
      DEF ExecutionIsCurrent, SettleIsCancelling, NothingAtStartup, Serving,
        Current, Control
  <2> QED BY <2>1, <2>2, <1>q
<1>12. ASSUME NEW s \in Session, Start(s)
       PROVE  Ownership' /\ Control'
  <2>1. /\ ctl = "up" /\ UNCHANGED <<ctl, kid, error, swallowed, group>>
        /\ ~Busy
        /\ job.state \in {"waiting_for_user", "idle", "completed"}
    BY <1>12 DEF Start, Request
  <2>2. at = "idle"
    BY <2>1, <1>i DEF ExecutionIsCurrent, Busy, Serving
  <2>3. Owned = {}
    BY <2>1, <2>2, <1>i DEF RestIsQuiet, Serving
  <2>4. PICK a \in FreshAttempt : \E new \in {Attempted(a), NewJob(a)} :
          Launch(new, s) \/ NotLaunched(new)
    BY <1>12 DEF Start
  <2>5. PICK new \in {Attempted(a), NewJob(a)} : Launch(new, s) \/ NotLaunched(new)
    BY <2>4
  <2>6. new.state = "running"
    BY <2>4, <2>5, LaunchFacts DEF FreshAttempt
  <2> QED BY <2>1, <2>2, <2>3, <2>5, <2>6, <1>l, <1>m
<1>13. ASSUME NEW s \in Session, Retry(s)
       PROVE  Ownership' /\ Control'
  <2>1. /\ ctl = "up" /\ at = "idle" /\ ~Recorded
        /\ UNCHANGED <<ctl, kid, error, swallowed, group>>
    BY <1>13 DEF Retry, Request, NothingOwned
  <2>2. PICK a \in FreshAttempt :
          Launch(Attempted(a), s) \/ NotLaunched(Attempted(a))
    BY <1>13 DEF Retry
  <2>3. Attempted(a).state = "running"
    BY <2>2, LaunchFacts DEF FreshAttempt
  <2> QED BY <2>1, <2>2, <2>3, <1>u, <1>l, <1>m
(* The abort moves a running subprocess to its stop, nothing else. *)
<1>a. ASSUME Saved(Cancelling), Abort, ctl = "up", ctl' \in {"up", "stopping"},
             ~Busy, UNCHANGED <<error, swallowed, group>>
      PROVE  Ownership' /\ Control'
  <2>1. /\ Cancelling.child = job.child /\ Cancelling.state = "cancelling"
        /\ Cancelling.attempt = job.attempt
    BY UpdateFacts DEF SameChild
  <2>2. Owned' = Owned
    BY <1>a, OwnedFrame
  <2>3. RecordsCover'
    BY <1>a, <2>1, <2>2, <1>i, CoverSaved DEF RecordsCover, Covered
  <2>4. job'.state = "cancelling" /\ job'.attempt = job.attempt
    BY <1>a, <2>1 DEF Saved
  <2>5. CASE at = "idle"
    <3>1. at' = "settle"
      BY <1>a, <2>5 DEF Abort
    <3>2. OneWriter' /\ NothingRuns' /\ OnlyTheKid' /\ IntentFirst' /\ RestIsQuiet'
      BY <3>1, <2>2, <1>i
        DEF OneWriter, NothingRuns, OnlyTheKid, IntentFirst, RestIsQuiet,
          KidAt
    <3>3. Control'
      BY <1>a, <3>1, <2>4
        DEF ExecutionIsCurrent, SettleIsCancelling, NothingAtStartup, Serving,
          Current, Control
    <3> QED BY <2>3, <3>2, <3>3 DEF Ownership
  <2>6. CASE at # "idle"
    <3>1. /\ at' = at \/ (at \in KidAt /\ at' \in {"term", "doubt"})
          /\ kid'.id = kid.id /\ exec'.attempt = exec.attempt
      BY <1>a, <2>6 DEF Abort, StopLeadsTo, KidAt, TypeOK, Kid, Exec
    <3>2. at \notin {"spawn", "raised", "settle"}
      BY <1>a DEF Busy
    <3>3. OneWriter' /\ NothingRuns' /\ OnlyTheKid' /\ IntentFirst' /\ RestIsQuiet'
      BY <2>2, <2>6, <3>1, <3>2, <1>i
        DEF OneWriter, NothingRuns, OnlyTheKid, IntentFirst, RestIsQuiet,
          KidAt
    <3>4. Control'
      BY <1>a, <2>4, <2>6, <3>1, <3>2, <1>i
        DEF ExecutionIsCurrent, SettleIsCancelling, NothingAtStartup, Serving,
          Current, Control, KidAt
    <3> QED BY <2>3, <3>3, <3>4 DEF Ownership
  <2> QED BY <2>5, <2>6
<1>14. CASE Cancel \/ Shutdown
  <2>1. CASE Saved(Cancelling) /\ Abort
    <3>1. /\ ctl = "up" /\ ctl' \in {"up", "stopping"} /\ ~Busy
          /\ UNCHANGED <<error, swallowed, group>>
      BY <1>14 DEF Cancel, Shutdown, Request, OnlyFiles
    <3> QED BY <2>1, <3>1, <1>a
  <2>2. CASE ~(Saved(Cancelling) /\ Abort)
    <3>1. /\ UNCHANGED <<job, exec, at, kid, error, swallowed, group>>
          /\ ctl = "up" /\ ctl' \in {"up", "stopping"}
          /\ Lost(Cancelling) \/ UNCHANGED disk
      BY <1>14, <2>2
        DEF Cancel, Shutdown, Request, OnlyFiles, NothingSaved, Lost
    <3>2. Owned' = Owned
      BY <3>1, OwnedFrame
    <3>3. Cancelling.child = job.child
      BY UpdateFacts DEF SameChild
    <3>4. RecordsCover'
      BY <3>1, <3>2, <3>3, <1>i DEF RecordsCover, Covered, Lost
    <3>5. OneWriter' /\ NothingRuns' /\ OnlyTheKid'
      BY <3>1, <3>2, <1>i
        DEF OneWriter, NothingRuns, OnlyTheKid, IntentFirst, RestIsQuiet,
          KidAt
    <3>6. IntentFirst' /\ RestIsQuiet'
      BY <1>14, <3>1, <3>2, <3>3, <1>i
        DEF IntentFirst, RestIsQuiet, Serving, Lost
    <3>7. Control'
      BY <3>1, <1>i
        DEF ExecutionIsCurrent, SettleIsCancelling, NothingAtStartup, Serving,
          Current, Control
    <3> QED BY <3>4, <3>5, <3>6, <3>7 DEF Ownership
  <2> QED BY <2>1, <2>2
<1>15. ASSUME Verified \/ TokenExpires \/ (\E s \in Session : Verify(s))
       PROVE  Ownership' /\ Control'
  BY <1>15, <1>g DEF Verified, TokenExpires, Verify, NothingSaved
<1>16. CASE Boot \/ Escalate
  <2>1. /\ UNCHANGED <<job, disk, exec, at, kid, error, swallowed, group>>
        /\ ctl \in {"down", "refused", "reconcile", "terminate"}
        /\ ctl' \in {"reconcile", "terminate", "kill"}
    BY <1>16 DEF Boot, Escalate, NothingSaved
  <2>2. at' = "idle" /\ Owned' = Owned
    BY <2>1, <1>i, OwnedFrame DEF NothingAtStartup
  <2>3. RecordsCover' /\ OneWriter'
    BY <2>1, <2>2, <1>c, <1>w
  <2>4. NothingRuns' /\ OnlyTheKid' /\ IntentFirst' /\ RestIsQuiet'
    BY <2>1, <2>2
      DEF NothingRuns, OnlyTheKid, IntentFirst, RestIsQuiet, KidAt, Serving
  <2>5. Control'
    BY <2>1, <2>2
      DEF ExecutionIsCurrent, SettleIsCancelling, NothingAtStartup, Serving,
        Current, Control
  <2> QED BY <2>3, <2>4, <2>5 DEF Ownership
<1>17. CASE Confirm
  <2>1. /\ UNCHANGED <<kid, error, swallowed, group>> /\ ctl' = "recover" /\ at' = "task"
        /\ ~Recorded \/ (job.child.id # Nobody /\ GroupIsGone(job.child.id))
    BY <1>17 DEF Confirm, ToRecovery
  <2>2. Owned = {}
    BY <2>1, <1>u, <1>i DEF RecordsCover, Covered, Owned, Live, GroupIsGone
  <2>3. Owned' = {}
    BY <2>1, <2>2, OwnedFrame
  <2>4. Control'
    BY <2>1
      DEF ExecutionIsCurrent, SettleIsCancelling, NothingAtStartup, Serving,
        Current, Control
  <2> QED BY <2>1, <2>3, <2>4, <1>q
<1>18. CASE Refuse
  <2>1. /\ UNCHANGED <<at, exec, kid, error, swallowed, group>> /\ ctl' = "refused"
        /\ ctl \in {"reconcile", "terminate", "kill"} /\ Recorded
        /\ job' \in {disk, Marked} /\ disk' = job'
    BY <1>18 DEF Refuse, Saved
  <2>2. at' = "idle" /\ Owned' = Owned
    BY <2>1, <1>i, OwnedFrame DEF NothingAtStartup
  <2>3. Marked.child.id = job.child.id /\ Marked.child.kind # "none"
    BY <2>1, ReconcileFacts
  <2>4. RecordsCover'
    BY <2>1, <2>2, <2>3, <1>i DEF RecordsCover, Covered
  <2>5. OneWriter' /\ NothingRuns' /\ OnlyTheKid' /\ IntentFirst' /\ RestIsQuiet'
    BY <2>1, <2>2, <1>i
      DEF OneWriter, NothingRuns, OnlyTheKid, IntentFirst, RestIsQuiet, KidAt,
        Serving
  <2>6. Control'
    BY <2>1, <2>2
      DEF ExecutionIsCurrent, SettleIsCancelling, NothingAtStartup, Serving,
        Current, Control
  <2> QED BY <2>4, <2>5, <2>6 DEF Ownership
<1>19. CASE Serve
  <2>1. /\ at = "task" /\ at' = "idle" /\ UNCHANGED <<swallowed, group>>
        /\ ctl' \in {"up", "refused"}
    BY <1>19 DEF Serve, Over
  <2>2. Owned' = {}
    BY <2>1, <1>i, OwnedFrame DEF NothingRuns
  <2>3. Control'
    BY <2>1
      DEF ExecutionIsCurrent, SettleIsCancelling, NothingAtStartup, Serving,
        Current, Control
  <2> QED BY <2>1, <2>2, <2>3, <1>q
<1>20. CASE Exit \/ Crash
  <2>1. /\ UNCHANGED <<disk, swallowed, group>> /\ job' = disk
        /\ ctl' = "down" /\ at' = "idle"
    BY <1>20 DEF Exit, Crash, Forgotten
  <2>2. Owned' = Owned
    BY <2>1, OwnedFrame
  <2>3. RecordsCover' /\ OneWriter'
    BY <2>1, <2>2, <1>i DEF RecordsCover, Covered, OneWriter
  <2>4. NothingRuns' /\ OnlyTheKid' /\ IntentFirst' /\ RestIsQuiet'
    BY <2>1
      DEF NothingRuns, OnlyTheKid, IntentFirst, RestIsQuiet, KidAt, Serving
  <2>5. Control'
    BY <2>1
      DEF ExecutionIsCurrent, SettleIsCancelling, NothingAtStartup, Serving,
        Current, Control
  <2> QED BY <2>3, <2>4, <2>5 DEF Ownership
<1>21. CASE World
  <2>1. UNCHANGED <<job, disk, ctl, at, kid, error, exec, swallowed>>
    BY <1>21 DEF World
  <2>2. ASSUME NEW c \in Child, NEW s,
               Becomes(c, s), s \in {"gone", "foreign"} \/ Live(c)
        PROVE  Owned' \subseteq Owned
    BY <2>1, <2>2 DEF Becomes, Owned, Live, TypeOK, GroupsOK
  <2>3. Owned' \subseteq Owned
    BY <1>21, <2>2
      DEF World, LeaderExits, OrphansExit, StrangerExits, PidReused, Live
  <2> QED BY <2>1, <2>3, <1>f
<1>22. CASE UNCHANGED vars
  BY <1>22, <1>g DEF vars
<1> QED
  BY <1>1, <1>2, <1>3, <1>4, <1>5, <1>6, <1>7, <1>8, <1>9, <1>10, <1>11,
     <1>12, <1>13, <1>14, <1>15, <1>16, <1>17, <1>18, <1>19, <1>20, <1>21, <1>22
  DEF Next, Subprocess, Running, Requests, Startup

-----------------------------------------------------------------------------
(* The credential: it is sent after the identity was saved, and no step    *)
(* saves another record before the subprocess has ended.                   *)
LEMMA FedStep ==
  ASSUME TypeOK, Ownership, Control, FedIsRecorded, [Next]_vars
  PROVE  FedIsRecorded'
PROOF
<1>i. NothingAtStartup
  BY DEF Control
<1>o. at' \notin {"spawn", "spawned", "running", "term", "killed"} => FedIsRecorded'
  BY DEF FedIsRecorded
<1>k. kid'.fed = FALSE => FedIsRecorded'
  BY DEF FedIsRecorded
<1>f. ASSUME kid'.fed = kid.fed, kid'.id = kid.id, exec'.attempt = exec.attempt,
             job'.child = job.child, disk'.child \in {disk.child, job.child},
             at' = at \/ (at \in {"running", "term", "killed"} /\ at' # "spawn"
                          /\ at' # "spawned")
      PROVE  FedIsRecorded'
  BY <1>f DEF FedIsRecorded
<1>1. CASE CommitIntent \/ Spawn
  <2>1. kid'.fed = FALSE
    BY <1>1 DEF CommitIntent, Spawn, NoKid, FedIsRecorded, TypeOK, Kid
  <2> QED BY <2>1, <1>k
<1>2. CASE ConfirmSpawn
  <2> DEFINE rec(known) == [kind |-> "active", attempt |-> exec.attempt,
                            id |-> IF known THEN kid.id ELSE Nobody]
  <2>1. PICK known \in BOOLEAN :
          /\ kid'.fed => known /\ Current /\ Saved(WithChild(rec(known)))
          /\ kid'.id = kid.id /\ exec'.attempt = exec.attempt /\ at = "spawned"
          /\ at' # "spawn" /\ at' # "spawned"
    <3>1. PICK known \in BOOLEAN :
            \/ /\ Saved(WithChild(rec(known)))
               /\ kid' = [kid EXCEPT !.known = known,
                            !.cancelled = (kid.cancelled \/ exec.aborted)
                                            \/ (known /\ ~Current),
                            !.fed = /\ kid.secret /\ known
                                    /\ ~(kid.cancelled \/ exec.aborted)
                                    /\ Current /\ job.state = "running"
                                    /\ job.stage = "models"]
            \/ kid' = [kid EXCEPT !.known = known, !.cancelled = TRUE]
      BY <1>2 DEF ConfirmSpawn, StoppedAs, IdentityMatches
    <3>2. /\ at = "spawned" /\ exec' = exec /\ ~kid.fed
          /\ at' \in {"doubt", "term", "running"}
      BY <1>2 DEF ConfirmSpawn, StoppedAs, FedIsRecorded
    <3> QED BY <3>1, <3>2 DEF TypeOK, Kid
  <2>2. rec(known) \in Record
    BY DEF Record, TypeOK, Kid, Exec
  <2>3. Current => WithChild(rec(known)).child = rec(known)
    BY <2>2, WithChildFacts
  <2>4. kid'.fed => job'.child = rec(known) /\ disk'.child = rec(known)
    BY <2>1, <2>3 DEF Saved
  <2> QED BY <2>1, <2>4 DEF FedIsRecorded
<1>3. CASE ProbeTimeout \/ KillTimer \/ UncertainTimer \/ Closed
  <2>1. /\ UNCHANGED <<job, disk, exec>> /\ kid'.fed = kid.fed /\ kid'.id = kid.id
        /\ \/ at' = at
           \/ /\ at \in {"running", "term", "killed"}
              /\ at' \in {"term", "killed", "doubt", "closing"}
    BY <1>3 DEF ProbeTimeout, KillTimer, UncertainTimer, Closed, StopLeadsTo,
      NothingSaved, TypeOK, Kid
  <2> QED BY <2>1, <1>f
<1>4. CASE NeverSpawned \/ SpawnFails \/ MarkUncertain \/ SettleChild
  BY <1>4, <1>o DEF NeverSpawned, SpawnFails, MarkUncertain, SettleChild, Raise
<1>5. CASE Running
  <2>1. at \in {"raised", "task", "settle"}
        /\ at' \in {at, "raised", "task", "settle", "idle"}
    BY <1>5 DEF Running, Swallow, StageFails, WaitForUser, StageDone, RunFails,
      FinishCancelled, Raise, Over
  <2> QED BY <2>1, <1>o
<1>6. ASSUME NEW s \in Session, Start(s) \/ Retry(s)
      PROVE  FedIsRecorded'
  <2>1. CASE at' = "task"
    BY <2>1, <1>o
  <2>2. CASE at' # "task"
    <3>1. /\ UNCHANGED <<job, exec, at, kid>>
          /\ ~Busy /\ Serving /\ job.state \notin {"running", "cancelling"}
      BY <1>6, <2>2
        DEF Start, Retry, Launch, NotLaunched, Lost, Request, Serving
    <3>2. at = "idle"
      BY <3>1 DEF Control, ExecutionIsCurrent, Busy
    <3> QED BY <3>1, <3>2, <1>o
  <2> QED BY <2>1, <2>2
<1>7. CASE Cancel \/ Shutdown
  <2>1. Cancelling.child = job.child
    BY UpdateFacts DEF SameChild
  <2>2. /\ job'.child = job.child /\ disk'.child \in {disk.child, job.child}
        /\ Abort \/ UNCHANGED <<exec, at, kid>>
    BY <1>7, <2>1 DEF Cancel, Shutdown, Saved, Lost, NothingSaved
  <2>3. CASE UNCHANGED <<exec, at, kid>>
    BY <2>2, <2>3, <1>f
  <2>4. CASE Abort
    <3>1. CASE at = "idle"
      BY <2>4, <3>1, <1>o DEF Abort
    <3>2. CASE at # "idle"
      <4>1. /\ kid'.fed = kid.fed /\ kid'.id = kid.id /\ exec'.attempt = exec.attempt
            /\ at' = at \/ (at = "running" /\ at' \in {"term", "doubt"})
        BY <2>4, <3>2 DEF Abort, StopLeadsTo, TypeOK, Kid, Exec
      <4> QED BY <2>2, <4>1, <1>f
    <3> QED BY <3>1, <3>2
  <2> QED BY <2>2, <2>3, <2>4
<1>8. CASE Startup
  <2>1. at' \in {"idle", "task"}
    BY <1>8, <1>i
      DEF Startup, Boot, Confirm, Escalate, Refuse, Serve, ToRecovery, Over,
        NothingAtStartup
  <2> QED BY <2>1, <1>o
<1>9. CASE Exit \/ Crash
  BY <1>9, <1>o DEF Exit, Crash, Forgotten
<1>10. ASSUME \/ Verified \/ TokenExpires \/ (\E s \in Session : Verify(s))
              \/ World \/ UNCHANGED vars
       PROVE  FedIsRecorded'
  <2>1. UNCHANGED <<job, disk, exec, at, kid>>
    BY <1>10 DEF Verified, TokenExpires, Verify, World, vars, NothingSaved
  <2> QED BY <2>1, <1>f
<1> QED
  BY <1>1, <1>2, <1>3, <1>4, <1>5, <1>6, <1>7, <1>8, <1>9, <1>10
  DEF Next, Subprocess, Requests

-----------------------------------------------------------------------------
LegalMove ==
  job'.state # job.state => <<job.state, job'.state>> \in Allowed

(* A legal update keeps the two states in agreement whether its commit     *)
(* succeeds or fails.                                                      *)
LEMMA LegalUpdate ==
  ASSUME NEW new, StatesAgree, Saved(new) \/ Lost(new),
         new.state = job.state \/ <<job.state, new.state>> \in Allowed
  PROVE  StatesAgree' /\ LegalMove
PROOF BY DEF StatesAgree, LegalMove, Saved, Lost

(* The job moves along the table, and so does what a restart finds.        *)
LEMMA TransitionStep ==
  ASSUME TypeOK, Control, StatesAgree, [Next]_vars
  PROVE  StatesAgree' /\ LegalMove
PROOF
<1>f. UNCHANGED <<job, disk>> => StatesAgree' /\ LegalMove
  BY DEF StatesAgree, LegalMove
<1>r. ASSUME NEW rec \in Record, Saved(WithChild(rec)) \/ Lost(WithChild(rec))
      PROVE  StatesAgree' /\ LegalMove
  BY <1>r, WithChildFacts, LegalUpdate
<1>1. CASE CommitIntent \/ SpawnFails \/ MarkUncertain
  <2>1. PICK rec \in {Intent, NoRecord, Rec("uncertain")} :
          Saved(WithChild(rec)) \/ Lost(WithChild(rec))
    BY <1>1 DEF CommitIntent, SpawnFails, MarkUncertain
  <2> QED BY <2>1, <1>r, RecordFacts
<1>2. CASE ConfirmSpawn
  <2>1. ASSUME NEW known \in BOOLEAN
        PROVE  [kind |-> "active", attempt |-> exec.attempt,
                id |-> IF known THEN kid.id ELSE Nobody] \in Record
    BY DEF Record, TypeOK, Kid, Exec
  <2> QED BY <1>2, <2>1, <1>r DEF ConfirmSpawn, StoppedAs, IdentityMatches
<1>3. CASE SettleChild
  <2>1. (IF GroupIsGone(kid.id) THEN NoRecord ELSE Rec("uncertain")) \in Record
    BY RecordFacts
  <2> QED BY <1>3, <2>1, <1>r DEF SettleChild
<1>4. CASE WaitForUser
  BY <1>4, UpdateFacts, LegalUpdate DEF WaitForUser, Allowed
<1>5. CASE StageDone
  <2>1. CASE NothingSaved
    BY <2>1, <1>f DEF NothingSaved
  <2>2. CASE ~NothingSaved
    <3>1. PICK new \in {Completed, InStage(NextStage)} :
            job.state = "running" /\ (Saved(new) \/ Lost(new))
      BY <1>5, <2>2 DEF StageDone
    <3> QED BY <3>1, UpdateFacts, LegalUpdate DEF Allowed
  <2> QED BY <2>1, <2>2
<1>6. CASE RunFails
  <2>1. CASE NothingSaved
    BY <2>1, <1>f DEF NothingSaved
  <2>2. CASE ~NothingSaved
    <3>1. job.state = "running" /\ (Saved(Failed) \/ Lost(Failed))
      BY <1>6, <2>2 DEF RunFails
    <3> QED BY <3>1, FailedFacts, LegalUpdate DEF Allowed
  <2> QED BY <2>1, <2>2
<1>7. CASE FinishCancelled
  <2>1. job.state = "cancelling"
    BY <1>7 DEF FinishCancelled, Control, SettleIsCancelling
  <2> QED BY <1>7, <2>1, UpdateFacts, LegalUpdate DEF FinishCancelled, Allowed
<1>8. ASSUME NEW s \in Session, Start(s) \/ Retry(s)
      PROVE  StatesAgree' /\ LegalMove
  <2>1. PICK a \in FreshAttempt : \E new \in {Attempted(a), NewJob(a)} :
          Saved(new) \/ Lost(new)
    BY <1>8 DEF Start, Retry, Launch, NotLaunched
  <2>2. PICK new \in {Attempted(a), NewJob(a)} : Saved(new) \/ Lost(new)
    BY <2>1
  <2>3. new.state = "running"
    BY <2>2, LaunchFacts DEF FreshAttempt
  <2>4. <<job.state, "running">> \in Allowed
    BY <1>8 DEF Start, Retry, Allowed
  <2> QED BY <2>2, <2>3, <2>4, LegalUpdate
<1>9. CASE Cancel \/ Shutdown
  <2>1. CASE NothingSaved
    BY <2>1, <1>f DEF NothingSaved
  <2>2. CASE ~NothingSaved
    <3>1. /\ job.state \in {"running", "waiting_for_user"}
          /\ Saved(Cancelling) \/ Lost(Cancelling)
      BY <1>9, <2>2 DEF Cancel, Shutdown
    <3>2. <<job.state, "cancelling">> \in Allowed
      BY <3>1 DEF Allowed
    <3> QED BY <3>1, <3>2, UpdateFacts, LegalUpdate
  <2> QED BY <2>1, <2>2
<1>10. CASE Confirm
  <2>1. NothingSaved \/ Saved(Cleared)
    BY <1>10 DEF Confirm
  <2> QED BY <2>1, <1>f, ReconcileFacts, LegalUpdate DEF NothingSaved
<1>11. CASE Refuse
  <2>1. job' \in {disk, Marked} /\ disk' = job'
    BY <1>11 DEF Refuse, Saved
  <2>2. Marked.state = job.state
    BY ReconcileFacts
  <2> QED BY <2>1, <2>2 DEF StatesAgree, LegalMove
<1>12. CASE Serve
  <2>1. job' \in {disk, Interrupted} /\ disk' = job'
    BY <1>12 DEF Serve, Saved
  <2>2. Interrupted.state = job.state \/ <<job.state, Interrupted.state>> \in Allowed
    BY UpdateFacts DEF Allowed
  <2> QED BY <2>1, <2>2 DEF StatesAgree, LegalMove
<1>13. CASE Exit \/ Crash
  BY <1>13 DEF Exit, Crash, StatesAgree, LegalMove
<1>14. ASSUME \/ Spawn \/ NeverSpawned \/ ProbeTimeout \/ KillTimer
              \/ UncertainTimer \/ Closed \/ Swallow \/ StageFails \/ Verified
              \/ TokenExpires \/ (\E s \in Session : Verify(s)) \/ Boot
              \/ Escalate \/ World \/ UNCHANGED vars
       PROVE  StatesAgree' /\ LegalMove
  <2>1. UNCHANGED <<job, disk>>
    BY <1>14 DEF Spawn, NeverSpawned, ProbeTimeout, KillTimer, UncertainTimer,
      Closed, Swallow, StageFails, Verified, TokenExpires, Verify, Boot,
      Escalate, World, vars, NothingSaved
  <2> QED BY <2>1, <1>f
<1> QED
  BY <1>1, <1>2, <1>3, <1>4, <1>5, <1>6, <1>7, <1>8, <1>9, <1>10, <1>11,
     <1>12, <1>13, <1>14
  DEF Next, Subprocess, Running, Requests, Startup

-----------------------------------------------------------------------------
(* A step that adds an owned child is a spawn, and nothing was owned.      *)
LEMMA OwnedStep ==
  ASSUME TypeOK, Ownership, [Next]_vars
  PROVE  \/ Owned' \subseteq Owned
         \/ Owned = {} /\ \E c \in Child : Owned' \subseteq {c}
PROOF
<1>1. CASE Spawn
  <2>1. PICK c \in FreshChild : Becomes(c, "led") /\ swallowed' = swallowed \ {c}
    BY <1>1 DEF Spawn
  <2>2. Owned = {}
    BY <1>1 DEF Spawn, Ownership, NothingRuns
  <2>3. Owned' \subseteq {c}
    BY <2>1, <2>2 DEF Owned, Live, Becomes, TypeOK, GroupsOK
  <2> QED BY <2>1, <2>2, <2>3 DEF FreshChild
<1>2. CASE Swallow
  BY <1>2 DEF Swallow, Owned, Live
<1>3. CASE World
  <2>1. ASSUME NEW c \in Child, NEW s,
               Becomes(c, s), s \in {"gone", "foreign"} \/ Live(c)
        PROVE  Owned' \subseteq Owned
    BY <1>3, <2>1 DEF World, Becomes, Owned, Live, TypeOK, GroupsOK
  <2> QED BY <1>3, <2>1 DEF World, LeaderExits, OrphansExit, StrangerExits,
    PidReused, Live
<1>4. ASSUME \/ CommitIntent \/ NeverSpawned \/ SpawnFails \/ ConfirmSpawn
             \/ ProbeTimeout \/ KillTimer \/ UncertainTimer \/ MarkUncertain
             \/ Closed \/ SettleChild
             \/ StageFails \/ WaitForUser \/ StageDone \/ RunFails
             \/ FinishCancelled \/ Requests \/ Startup \/ Exit \/ Crash
             \/ UNCHANGED vars
      PROVE  Owned' \subseteq Owned
  <2>1. UNCHANGED <<swallowed, group>>
    BY <1>4 DEF CommitIntent, NeverSpawned, SpawnFails, ConfirmSpawn,
      ProbeTimeout, KillTimer, UncertainTimer, MarkUncertain, Closed,
      SettleChild, StageFails, WaitForUser, StageDone, RunFails,
      FinishCancelled, Requests, Start, Retry, Verify, Cancel, Verified,
      TokenExpires, Shutdown, Startup, Boot, Confirm, Escalate, Refuse, Serve,
      Exit, Crash, OnlyFiles, vars
  <2> QED BY <2>1, OwnedFrame
<1> QED BY <1>1, <1>2, <1>3, <1>4 DEF Next, Subprocess, Running

(* Initially nothing exists, so every part holds. *)
LEMMA InitIInv == Init => IInv
PROOF
<1> SUFFICES ASSUME Init PROVE IInv
  OBVIOUS
<1>1. NoRecord \in Record /\ NoRecord.kind = "none" /\ NoRecord.id = Nobody
  BY DEF NoRecord, Record
<1>2. NoJob \in Job /\ NoJob.state = "idle"
  BY <1>1 DEF NoJob, Job, State, Stage
<1>3. NoKid \in Kid /\ NoKid.fed = FALSE /\ NoExec \in Exec
  BY DEF NoKid, NoExec, Kid, Exec
<1>4. TypeOK
  BY <1>2, <1>3
    DEF Init, TypeOK, Ctl, Point, Code, GroupsOK, NoGroups, GroupState
<1>5. Owned = {}
  BY DEF Init, NoGroups, Owned, Live
<1>6. Ownership
  BY <1>5 DEF Init, Ownership, OneWriter, RecordsCover, Covered, NothingRuns,
    OnlyTheKid, IntentFirst, RestIsQuiet, KidAt
<1>7. Control
  BY DEF Init, Control, ExecutionIsCurrent, SettleIsCancelling,
    NothingAtStartup, Serving
<1>8. FedIsRecorded /\ StatesAgree
  BY <1>3 DEF Init, FedIsRecorded, StatesAgree
<1> QED BY <1>4, <1>6, <1>7, <1>8 DEF IInv

(* The invariant is inductive. *)
LEMMA StepIInv == IInv /\ [Next]_vars => IInv'
PROOF
<1> SUFFICES ASSUME IInv, [Next]_vars PROVE IInv'
  OBVIOUS
<1>1. TypeOK /\ Ownership /\ Control /\ FedIsRecorded /\ StatesAgree
  BY DEF IInv
<1>2. TypeOK'
  BY <1>1, TypeStep DEF Ownership
<1> QED BY <1>1, <1>2, OwnershipStep, FedStep, TransitionStep DEF IInv

(* So it holds in every behaviour. *)
LEMMA Inductive == Spec => []IInv
PROOF BY InitIInv, StepIInv, PTL DEF Spec

-----------------------------------------------------------------------------
(* Every variable keeps its type. *)
THEOREM TypeCorrect == Spec => []TypeOK
PROOF
<1>1. IInv => TypeOK
  BY DEF IInv
<1> QED BY <1>1, Inductive, PTL

(* At most one owned process group is alive at any time, whatever is       *)
(* cancelled, retried, crashed or restarted.                               *)
THEOREM SingleWriter == Spec => []OneWriter
PROOF
<1>1. IInv => OneWriter
  BY DEF IInv, Ownership
<1> QED BY <1>1, Inductive, PTL

(* No restart can miss a live child: the state file records one. *)
THEOREM NoLostChild == Spec => []LiveIsRecorded
PROOF
<1>1. IInv => LiveIsRecorded
  BY DEF IInv, Ownership, RecordsCover, Covered, LiveIsRecorded
<1> QED BY <1>1, Inductive, PTL

(* What is reported as cancelled, failed, completed or waiting is quiet.   *)
THEOREM SettledIsQuiet == Spec => []SettledMeansStopped
PROOF
<1>1. IInv => SettledMeansStopped
  BY DEF IInv, Ownership, RestIsQuiet, SettledMeansStopped, Serving
<1> QED BY <1>1, Inductive, PTL

(* A writer is alone, recorded, and gone once the job is settled.          *)
THEOREM WritersSafe == Spec => []WritersAreSafe
PROOF
<1>1. OneWriter /\ LiveIsRecorded /\ SettledMeansStopped => WritersAreSafe
  BY DEF WritersAreSafe
<1> QED BY <1>1, SingleWriter, NoLostChild, SettledIsQuiet, PTL

(* run() never continues an attempt that is no longer the job's.           *)
THEOREM NoStaleExecution == Spec => []ExecutionIsCurrent
PROOF
<1>1. IInv => ExecutionIsCurrent
  BY DEF IInv, Control
<1> QED BY <1>1, Inductive, PTL

(* The credential is only held by a process that is recorded.              *)
THEOREM CredentialHeldByOwned == Spec => []CredentialIsOwned
PROOF
<1>1. IInv => CredentialIsOwned
  BY DEF IInv, FedIsRecorded, CredentialIsOwned
<1> QED BY <1>1, Inductive, PTL

(* Every change of the job's state is in the ALLOWED table, those across   *)
(* failed commits and crashes included.                                    *)
THEOREM TransitionsAreLegal == Spec => LegalTransitions
PROOF
<1>1. IInv /\ [Next]_vars
        => [job'.state # job.state => <<job.state, job'.state>> \in Allowed]_vars
  BY TransitionStep DEF IInv, LegalMove
<1> QED BY <1>1, Inductive, PTL DEF Spec, LegalTransitions

(* The controller keeps the promise of InstallationWriters: a writer is    *)
(* admitted only when the last one is gone.                                *)
THEOREM ImplementsWriters == Spec => WriterSpec
PROOF
<1>1. Init => Writers!Init
  BY DEF Init, Writers!Init, NoGroups, Owned, Live
<1>2. IInv /\ [Next]_vars => [Writers!Next]_Owned
  <2> SUFFICES ASSUME IInv, [Next]_vars PROVE [Writers!Next]_Owned
    OBVIOUS
  <2>1. \A c, d \in Owned : c = d
    BY DEF IInv, Ownership, OneWriter
  <2>2. Owned \subseteq Child
    BY DEF Owned
  <2>3. \/ Owned' \subseteq Owned
        \/ Owned = {} /\ \E c \in Child : Owned' \subseteq {c}
    BY OwnedStep DEF IInv
  <2>4. CASE Owned' \subseteq Owned
    <3>1. Owned' = Owned \/ Owned' = {}
      BY <2>1, <2>4
    <3> QED BY <3>1 DEF Writers!Next, Writers!Leave
  <2>5. CASE Owned = {} /\ \E c \in Child : Owned' \subseteq {c}
    <3>1. PICK c \in Child : Owned' = {} \/ Owned' = {c}
      BY <2>5
    <3> QED BY <2>5, <3>1 DEF Writers!Next, Writers!Admit
  <2> QED BY <2>3, <2>4, <2>5
<1> QED BY <1>1, <1>2, Inductive, PTL DEF Spec, WriterSpec, Writers!Spec

=============================================================================
