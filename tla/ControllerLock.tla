--------------------------- MODULE ControllerLock ---------------------------
(***************************************************************************)
(* The ownership lock of the setup controller, setup-controller/src/       *)
(* state-store.js: acquireOwnership, inspectOwner and releaseOwnership.    *)
(*                                                                         *)
(* Any number of controller processes start on one data directory.  Each   *)
(* runs acquireOwnership, whose system calls interleave with those of the  *)
(* others; one action below is one system call that touches the directory  *)
(* (a check of two facts about a file only its own creator may remove is   *)
(* one action).  Two files matter:                                         *)
(*   lock    .controller.lock      created 'wx', then written              *)
(*   marker  .controller.recovery  created 'wx' by a process that found    *)
(*                                 the lock stale and reclaims it          *)
(* A file is its inode, the process that created it, and whether its JSON  *)
(* was written.  A process draws its nonces once and its (pid, start       *)
(* identity) is its own, so "by" stands for all of them, and reading a     *)
(* file yields "by" only if the file is full.  Inodes are reused.          *)
(***************************************************************************)
EXTENDS FiniteSets

CONSTANTS Proc,      \* the controller processes ever started (incarnations)
          Inode,     \* inode numbers the file system may hand out
          NoFile,    \* the path does not exist
          NoInode,   \* no lstat result yet
          Faults     \* TRUE: a system call may fail with an I/O error

File == [ino : Inode, by : Proc, full : BOOLEAN]

ASSUME FileAssumption  == NoFile \notin File
ASSUME InodeAssumption == NoInode \notin Inode
ASSUME FaultsAssumption == Faults \in BOOLEAN

VARIABLES lock, marker,
          pc,        \* where each process is in acquireOwnership
          mine,      \* fileIdentity of the lock the process created
          seen,      \* status.info and status.owner of the first inspection
          again      \* current.info and current.owner of the second one

vars == <<lock, marker, pc, mine, seen, again>>

(* The program points, named for what the process does next. *)
FastPath    == {"blocker", "create", "write", "recheck", "backout",
                "backoutUnlink", "stat", "read", "live", "mark", "markWrite"}
Reclaiming  == {"stat2", "read2", "live2", "confirm", "unlink", "recreate",
                "rewrite", "verify", "unmark"}
CleaningUp  == {"cleanLock", "cleanLockUnlink", "cleanMark", "cleanMarkUnlink"}
Owning      == {"owner", "releaseUnlink"}
Alive       == FastPath \cup Reclaiming \cup CleaningUp \cup Owning
                 \cup {"failed", "released"}
Point       == Alive \cup {"unborn", "dead"}

NothingSeen == [ino |-> NoInode, by |-> {}]
Sight       == [ino : Inode \cup {NoInode}, by : SUBSET Proc]

TypeOK ==
  /\ lock \in File \cup {NoFile}
  /\ marker \in File \cup {NoFile}
  /\ pc \in [Proc -> Point]
  /\ mine \in [Proc -> Inode \cup {NoInode}]
  /\ seen \in [Proc -> Sight]
  /\ again \in [Proc -> Sight]

Init ==
  /\ lock = NoFile
  /\ marker = NoFile
  /\ pc = [p \in Proc |-> "unborn"]
  /\ mine = [p \in Proc |-> NoInode]
  /\ seen = [p \in Proc |-> NothingSeen]
  /\ again = [p \in Proc |-> NothingSeen]

-----------------------------------------------------------------------------
Exists(file)  == file # NoFile
FreshInode    == {i \in Inode : /\ Exists(lock) => i # lock.ino
                                /\ Exists(marker) => i # marker.ino}

(* Mutants of Content: the wrong field is remembered; metadata that was    *)
(* never completely written is trusted.                                    *)
ContentWrongField(file) ==
  IF Exists(file) /\ file.full THEN {file.ino} ELSE {}

ContentUnwritten(file) == IF Exists(file) THEN {file.by} ELSE {}

(* The nonce JSON.parse finds in a file: none while it is empty or gone. *)
Content(file) == IF Exists(file) /\ file.full THEN {file.by} ELSE {}

(* process.kill(pid, 0) and the start identity: the process that wrote the *)
(* metadata no longer runs, whoever has its pid now.                       *)
Gone(p) == pc[p] = "dead"

Goto(p, point)  == pc' = [pc EXCEPT ![p] = point]
FilesUnchanged  == UNCHANGED <<lock, marker>>
SightsUnchanged == UNCHANGED <<seen, again>>

(* fs.openSync(target, 'wx'): an empty file, or EEXIST. *)
EmptyFile(p, i) == [ino |-> i, by |-> p, full |-> FALSE]

(* A write goes to the file the descriptor is open on, wherever it is. *)
Written(file, p) == IF Exists(file) /\ file.by = p
                      THEN [file EXCEPT !.full = TRUE] ELSE file

-----------------------------------------------------------------------------
(* A controller process starts: StateStore.open. *)
Start(p) ==
  /\ pc[p] = "unborn"
  /\ Goto(p, "blocker")
  /\ FilesUnchanged /\ SightsUnchanged /\ UNCHANGED mine

(* recoveryBlocker(): any marker, readable or not, refuses the start. *)
CheckBlocker(p) ==
  /\ pc[p] = "blocker"
  /\ Goto(p, IF Exists(marker) THEN "failed" ELSE "create")
  /\ FilesUnchanged /\ SightsUnchanged /\ UNCHANGED mine

CreateLock(p) ==
  /\ pc[p] = "create"
  /\ ~Exists(lock)
  /\ \E i \in FreshInode : lock' = EmptyFile(p, i)
  /\ Goto(p, "write")
  /\ UNCHANGED <<marker, mine>> /\ SightsUnchanged

(* EEXIST: somebody's lock is there, inspect it. *)
FindLock(p) ==
  /\ pc[p] = "create"
  /\ Exists(lock)
  /\ Goto(p, "stat")
  /\ FilesUnchanged /\ SightsUnchanged /\ UNCHANGED mine

(* Where control goes when a call throws: only the reclaim has a catch     *)
(* block, and releaseOwnership is the last thing a closing controller does.*)
AfterThrow(p) ==
  IF pc[p] \in Reclaiming THEN "cleanLock"
  ELSE IF pc[p] \in {"cleanLock", "cleanLockUnlink"} THEN "cleanMark"
  ELSE IF pc[p] \in Owning THEN "released"
  ELSE "failed"

(* The rest of writeExclusive: the JSON is written and the path lstat'ed,  *)
(* which throws ENOENT if the path is gone.                                *)
WriteLock(p, at, next) ==
  /\ pc[p] = at
  /\ lock' = Written(lock, p)
  /\ mine' = [mine EXCEPT ![p] = IF Exists(lock) THEN lock.ino ELSE @]
  /\ Goto(p, IF Exists(lock) THEN next ELSE AfterThrow(p))
  /\ UNCHANGED marker /\ SightsUnchanged

(* Mutant: the marker is not looked for again. *)
RecheckNothing(p) ==
  /\ pc[p] = "recheck"
  /\ Goto(p, "owner")
  /\ FilesUnchanged /\ SightsUnchanged /\ UNCHANGED mine

(* The re-check after creation: a contender never proceeds through a       *)
(* marker.                                                                 *)
Recheck(p) ==
  /\ pc[p] = "recheck"
  /\ Goto(p, IF Exists(marker) THEN "backout" ELSE "owner")
  /\ FilesUnchanged /\ SightsUnchanged /\ UNCHANGED mine

BackOut(p) ==
  /\ pc[p] = "backout"
  /\ Goto(p, IF Exists(lock) /\ lock.ino = mine[p]
               THEN "backoutUnlink" ELSE "failed")
  /\ FilesUnchanged /\ SightsUnchanged /\ UNCHANGED mine

(* fs.unlinkSync(lockPath) removes whatever the path names by now, and     *)
(* throws ENOENT if it names nothing.                                      *)
UnlinkLock(p, at, next) ==
  /\ pc[p] = at
  /\ lock' = NoFile
  /\ Goto(p, IF Exists(lock) THEN next ELSE AfterThrow(p))
  /\ UNCHANGED <<marker, mine>> /\ SightsUnchanged

-----------------------------------------------------------------------------
(* inspectOwner, first call: lstat, read, then probe the recorded process. *)
Stat(p) ==
  /\ pc[p] = "stat"
  /\ \/ /\ Exists(lock)
        /\ seen' = [seen EXCEPT ![p] = [ino |-> lock.ino, by |-> {}]]
        /\ Goto(p, "read")
     \/ /\ ~Exists(lock)
        /\ Goto(p, "failed")
        /\ UNCHANGED seen
  /\ FilesUnchanged /\ UNCHANGED <<mine, again>>

ReadOwner(p) ==
  /\ pc[p] = "read"
  /\ seen' = [seen EXCEPT ![p] = [ino |-> @.ino, by |-> Content(lock)]]
  /\ Goto(p, IF Content(lock) = {} THEN "failed" ELSE "live")
  /\ FilesUnchanged /\ UNCHANGED <<mine, again>>

(* Mutant: liveness is judged by the PID alone, which may be reused. *)
ProbePidOnly(p) ==
  /\ pc[p] = "live"
  /\ \E reused \in BOOLEAN :
       Goto(p, IF ~reused /\ \A q \in seen[p].by : Gone(q)
                 THEN "mark" ELSE "failed")
  /\ FilesUnchanged /\ SightsUnchanged /\ UNCHANGED mine

(* Only a recorded process that is certainly gone makes the lock stale. *)
ProbeOwner(p) ==
  /\ pc[p] = "live"
  /\ Goto(p, IF \A q \in seen[p].by : Gone(q) THEN "mark" ELSE "failed")
  /\ FilesUnchanged /\ SightsUnchanged /\ UNCHANGED mine

(* The exclusive recovery marker; EEXIST refuses the start. *)
CreateMarker(p) ==
  /\ pc[p] = "mark"
  /\ \/ /\ ~Exists(marker)
        /\ \E i \in FreshInode : marker' = EmptyFile(p, i)
        /\ Goto(p, "markWrite")
     \/ /\ Exists(marker)
        /\ Goto(p, "failed")
        /\ UNCHANGED marker
  /\ UNCHANGED <<lock, mine>> /\ SightsUnchanged

WriteMarker(p) ==
  /\ pc[p] = "markWrite"
  /\ marker' = Written(marker, p)
  /\ Goto(p, "stat2")
  /\ UNCHANGED <<lock, mine>> /\ SightsUnchanged

-----------------------------------------------------------------------------
(* inspectOwner again, now under the marker. *)
StatAgain(p) ==
  /\ pc[p] = "stat2"
  /\ \/ /\ Exists(lock)
        /\ again' = [again EXCEPT ![p] = [ino |-> lock.ino, by |-> {}]]
        /\ Goto(p, "read2")
     \/ /\ ~Exists(lock)
        /\ Goto(p, "cleanLock")
        /\ UNCHANGED again
  /\ FilesUnchanged /\ UNCHANGED <<mine, seen>>

ReadOwnerAgain(p) ==
  /\ pc[p] = "read2"
  /\ again' = [again EXCEPT ![p] = [ino |-> @.ino, by |-> Content(lock)]]
  /\ Goto(p, IF Content(lock) = {} THEN "cleanLock" ELSE "live2")
  /\ FilesUnchanged /\ UNCHANGED <<mine, seen>>

(* Mutant: the second inspection compares inodes only. *)
SameInode(p) == seen[p].ino = again[p].ino

(* Same inode, still stale, same nonce: the lock that was inspected. *)
SameLock(p) ==
  /\ seen[p].ino = again[p].ino
  /\ \A q \in again[p].by : Gone(q)
  /\ seen[p].by = again[p].by

ProbeOwnerAgain(p) ==
  /\ pc[p] = "live2"
  /\ Goto(p, IF SameLock(p) THEN "confirm" ELSE "cleanLock")
  /\ FilesUnchanged /\ SightsUnchanged /\ UNCHANGED mine

ConfirmLock(p) ==
  /\ pc[p] = "confirm"
  /\ Goto(p, IF Exists(lock) /\ lock.ino = seen[p].ino
               THEN "unlink" ELSE "cleanLock")
  /\ FilesUnchanged /\ SightsUnchanged /\ UNCHANGED mine

(* Mutant: the new lock is created over whatever is there. *)
RecreateOver(p) ==
  /\ pc[p] = "recreate"
  /\ \E i \in FreshInode : lock' = EmptyFile(p, i)
  /\ Goto(p, "rewrite")
  /\ UNCHANGED <<marker, mine>> /\ SightsUnchanged

(* writeExclusive on the vacant path; a contender that passed the blocker  *)
(* before the marker existed may have been faster.                         *)
Recreate(p) ==
  /\ pc[p] = "recreate"
  /\ \/ /\ ~Exists(lock)
        /\ \E i \in FreshInode : lock' = EmptyFile(p, i)
        /\ Goto(p, "rewrite")
     \/ /\ Exists(lock)
        /\ Goto(p, "cleanLock")
        /\ UNCHANGED lock
  /\ UNCHANGED <<marker, mine>> /\ SightsUnchanged

VerifyLock(p) ==
  /\ pc[p] = "verify"
  /\ Goto(p, IF Content(lock) = {p} THEN "unmark" ELSE "cleanLock")
  /\ FilesUnchanged /\ SightsUnchanged /\ UNCHANGED mine

(* The marker goes and the new owner returns; if the fsync of the          *)
(* directory then fails, the catch block undoes the lock as well.          *)
Unmark(p) ==
  /\ pc[p] = "unmark"
  /\ marker' = NoFile
  /\ \/ Exists(marker) /\ Goto(p, "owner")
     \/ (Faults \/ ~Exists(marker)) /\ Goto(p, AfterThrow(p))
  /\ UNCHANGED <<lock, mine>> /\ SightsUnchanged

-----------------------------------------------------------------------------
(* The catch block of the reclaim: newInfo is set only if the lock was     *)
(* created and written, and each file is removed only if inode and nonce   *)
(* are the process's own.                                                  *)
CleanLock(p) ==
  /\ pc[p] = "cleanLock"
  /\ Goto(p, IF /\ Exists(lock)
                /\ lock.ino = mine[p]
                /\ Content(lock) = {p}
               THEN "cleanLockUnlink" ELSE "cleanMark")
  /\ FilesUnchanged /\ SightsUnchanged /\ UNCHANGED mine

(* Mutant: the catch block removes any marker it finds. *)
CleanAnyMarker(p) ==
  /\ pc[p] = "cleanMark"
  /\ Goto(p, IF Exists(marker) THEN "cleanMarkUnlink" ELSE "failed")
  /\ FilesUnchanged /\ SightsUnchanged /\ UNCHANGED mine

CleanMarker(p) ==
  /\ pc[p] = "cleanMark"
  /\ Goto(p, IF Content(marker) = {p} THEN "cleanMarkUnlink" ELSE "failed")
  /\ FilesUnchanged /\ SightsUnchanged /\ UNCHANGED mine

UnlinkMarker(p) ==
  /\ pc[p] = "cleanMarkUnlink"
  /\ marker' = NoFile
  /\ Goto(p, "failed")
  /\ UNCHANGED <<lock, mine>> /\ SightsUnchanged

(* releaseOwnership: the lock is removed only if it is still the owner's. *)
Release(p) ==
  /\ pc[p] = "owner"
  /\ Goto(p, IF /\ Exists(lock)
                /\ lock.ino = mine[p]
                /\ Content(lock) = {p}
               THEN "releaseUnlink" ELSE "released")
  /\ FilesUnchanged /\ SightsUnchanged /\ UNCHANGED mine

-----------------------------------------------------------------------------
(* A system call throws for another reason.  A write may have filled the   *)
(* file before a later fsync failed; mine stays unset, as newInfo does     *)
(* until writeExclusive has returned.                                      *)
Throw(p) ==
  /\ Faults
  /\ pc[p] \in FastPath \cup Reclaiming \cup CleaningUp \cup Owning
  /\ Goto(p, AfterThrow(p))
  /\ lock' \in (IF pc[p] \in {"write", "rewrite"}
                  THEN {lock, Written(lock, p)} ELSE {lock})
  /\ marker' \in (IF pc[p] = "markWrite"
                    THEN {marker, Written(marker, p)} ELSE {marker})
  /\ SightsUnchanged /\ UNCHANGED mine

(* The process exits or is killed, at any point. *)
Die(p) ==
  /\ pc[p] \in Alive
  /\ Goto(p, "dead")
  /\ FilesUnchanged /\ SightsUnchanged /\ UNCHANGED mine

-----------------------------------------------------------------------------
(* The steps of acquireOwnership itself: synchronous code, so a process    *)
(* that is not killed runs them to the end.                                *)
Acquire(p) ==
  \/ CheckBlocker(p) \/ CreateLock(p) \/ FindLock(p)
  \/ WriteLock(p, "write", "recheck") \/ Recheck(p)
  \/ BackOut(p) \/ UnlinkLock(p, "backoutUnlink", "failed")
  \/ Stat(p) \/ ReadOwner(p) \/ ProbeOwner(p)
  \/ CreateMarker(p) \/ WriteMarker(p)
  \/ StatAgain(p) \/ ReadOwnerAgain(p) \/ ProbeOwnerAgain(p)
  \/ ConfirmLock(p) \/ UnlinkLock(p, "unlink", "recreate")
  \/ Recreate(p) \/ WriteLock(p, "rewrite", "verify")
  \/ VerifyLock(p) \/ Unmark(p)
  \/ CleanLock(p) \/ UnlinkLock(p, "cleanLockUnlink", "cleanMark")
  \/ CleanMarker(p) \/ UnlinkMarker(p)

Step(p) ==
  \/ Start(p)
  \/ Acquire(p)
  \/ Release(p) \/ UnlinkLock(p, "releaseUnlink", "released")
  \/ Throw(p)
  \/ Die(p)

Next == \E p \in Proc : Step(p)

Spec == Init /\ [][Next]_vars

FairSpec == Spec /\ \A p \in Proc : WF_vars(Acquire(p))

-----------------------------------------------------------------------------
Owns(p) == pc[p] \in Owning

(* At most one controller owns the installation, whatever was reclaimed,   *)
(* backed out of or left behind (acquireOwnership, releaseOwnership).      *)
MutualExclusion == \A p, q \in Proc : Owns(p) /\ Owns(q) => p = q

(* Ownership is visible: as long as a controller owns the installation its *)
(* complete metadata is what every later starter finds at the lock path.   *)
OwnerOnDisk ==
  \A p \in Proc : Owns(p) => /\ Content(lock) = {p}
                            /\ lock.ino = mine[p]

(* While a reclaimer has taken the stale lock away and not yet removed its *)
(* marker nobody else becomes or stays owner, although a contender that    *)
(* passed recoveryBlocker early can create the lock in that window.        *)
ReclaimIsAlone ==
  \A p, q \in Proc :
    pc[p] \in {"recreate", "rewrite", "verify", "unmark"} => ~Owns(q)

(* A lock is removed by its creator, or after its creator is gone and its  *)
(* metadata proved that: a live process, owner or still acquiring, never   *)
(* loses its lock, and unreadable metadata is left for manual inspection.  *)
LockRemovalJustified ==
  [][Exists(lock) /\ ~Exists(lock')
       => IF Gone(lock.by) THEN lock.full
                           ELSE pc'[lock.by] # pc[lock.by]]_vars

(* A recovery marker is never guessed stale: only its creator, alive,      *)
(* removes it, so the marker of a crashed reclaimer stays as a tombstone.  *)
MarkerNeverStolen ==
  [][Exists(marker) /\ ~Exists(marker')
       => pc'[marker.by] # pc[marker.by] /\ ~Gone(marker.by)]_vars

(* The installation has one owner, its lock shows it, and no owner is left *)
(* beside a reclaimer that has the lock away.                              *)
LockIsSafe == MutualExclusion /\ OwnerOnDisk /\ ReclaimIsAlone

(* Neither the lock nor the marker is taken from a live process.           *)
FilesAreRespected == LockRemovalJustified /\ MarkerNeverStolen

(* A crash does not block the next start: a controller that starts alone,  *)
(* over no lock or the complete lock of a dead one and over no marker,     *)
(* ends up owner unless it is killed or another one starts.                *)
Alone(p)   == \A q \in Proc \ {p} : pc[q] \in {"unborn", "dead"}
CleanSlate == ~Exists(marker) /\ (Exists(lock) => lock.full)

RestartSucceeds ==
  \A p \in Proc :
    (pc[p] = "blocker" /\ Alone(p) /\ CleanSlate)
      ~> (Owns(p) \/ pc[p] = "dead" \/ ~Alone(p))

(* The processes that hold the installation, for the abstract lock. *)
Holders == {p \in Proc : Owns(p)}
Refused == CleaningUp \cup {"failed", "released", "dead",
                          "backout", "backoutUnlink"}
GoneFor == {p \in Proc : pc[p] \in Refused}

Ownership == INSTANCE InstallationOwnership
               WITH holders <- Holders, gone <- GoneFor

(* The lock protocol implements the promise of InstallationOwnership. *)
OwnershipSpec == Ownership!Spec

=============================================================================
