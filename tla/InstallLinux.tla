----------------------------- MODULE InstallLinux -----------------------------
(***************************************************************************)
(* The Linux installer and uninstaller of the application                  *)
(* (launcher/installer/install-linux.py, launcher/src/uninstall-linux.js): *)
(* versioned releases, a `current` pointer, a command that goes through    *)
(* it, and an install lock that both take.                                 *)
(*                                                                         *)
(* The lock is a directory with a file that holds the owner's pid.  Taking *)
(* it, judging it stale, removing it and releasing it are separate system  *)
(* calls by path, with other processes in between; any process may fail or *)
(* die between two of its calls.  An empty lock directory is left alone    *)
(* for two seconds: a live process is taken to need less between two       *)
(* calls.  Pids are not used again.                                        *)
(***************************************************************************)
EXTENDS Naturals, FiniteSets

CONSTANTS
  Process,   \* runs of the installer and the uninstaller
  Version,   \* versions of the application
  None       \* no pid, version or command

VARIABLES
  lock,      \* the lock directory, its pid file's creator, whether it was written
  release,   \* each version's tree: "none", "whole", "bare" or "ragged"
  command,   \* the command is there
  current,   \* the version the pointer names
  proc,      \* the processes
  shared     \* two processes were inside the lock at once

install == <<lock, release, command, current, proc, shared>>

(* A "bare" release has its manifest and lacks other files, a "ragged" one *)
(* lacks its manifest.                                                     *)
Listed == {v \in Version : release[v] \in {"whole", "bare"}}

NoLock == [dir |-> FALSE, pid |-> None, written |-> FALSE]
Ready  == [pc |-> "ready", does |-> None, version |-> None, command |-> FALSE,
           current |-> None, releases |-> {}, stale |-> {}, left |-> None]

Init ==
  /\ lock = NoLock
  /\ release = [v \in Version |-> "none"]
  /\ command = FALSE
  /\ current = None
  /\ proc = [p \in Process |-> Ready]
  /\ shared = FALSE

At(p, pc)   == proc[p].pc = pc
Alive(p)    == proc[p].pc \notin {"ready", "done", "dead"}
Outside     == {"ready", "done", "dead", "lock", "judge", "unlink", "rmdir",
                "give up", "gave up", "create", "write"}
Inside      == {p \in Process : proc[p].pc \notin Outside}

Goes(p, pc) == proc' = [proc EXCEPT ![p].pc = pc]
Leaves(p)   == Goes(p, "done")

(* A change that makes out of date what others have seen of "what".        *)
Changes(p, what, pc) ==
  proc' = [q \in Process |->
    IF q = p THEN [proc[q] EXCEPT !.pc = pc]
    ELSE IF proc[q].does = "uninstall" THEN [proc[q] EXCEPT !.stale = @ \cup {what}]
    ELSE proc[q]]

-----------------------------------------------------------------------------
(* An installer comes with a verified archive; an uninstaller looks at the *)
(* installation and asks before it takes the lock.                         *)
StartInstall(p, v) ==
  /\ At(p, "ready")
  /\ proc' = [proc EXCEPT ![p].pc = "lock", ![p].does = "install", ![p].version = v]
  /\ UNCHANGED <<lock, release, command, current, shared>>

StartUninstall(p) ==
  /\ At(p, "ready")
  /\ command \/ current # None \/ Listed # {}
  /\ current = None \/ current \in Listed
  /\ proc' = [proc EXCEPT ![p].pc = "lock", ![p].does = "uninstall",
       ![p].command = command, ![p].current = current, ![p].releases = Listed]
  /\ UNCHANGED <<lock, release, command, current, shared>>

-----------------------------------------------------------------------------
(* acquire_install_lock.                                                   *)
MakeLock(p) ==
  /\ At(p, "lock")
  /\ IF lock.dir THEN Goes(p, "judge") /\ UNCHANGED lock
     ELSE lock' = [NoLock EXCEPT !.dir = TRUE] /\ Goes(p, "create")
  /\ UNCHANGED <<release, command, current, shared>>

(* A lock without a pid file is young while a process is at it.            *)
Young == \E q \in Process : proc[q].pc \in {"create", "rmdir", "gave up", "release"}

LockIsLive ==
  IF lock.pid = None THEN Young ELSE lock.written /\ Alive(lock.pid)

JudgeLock(p) ==
  /\ At(p, "judge")
  /\ IF ~lock.dir
     THEN Goes(p, IF proc[p].does = "install" THEN "done" ELSE "unlink")
     ELSE IF LockIsLive THEN Goes(p, "lock") \/ Leaves(p)
     ELSE Goes(p, "unlink")
  /\ UNCHANGED <<lock, release, command, current, shared>>

(* _remove_stale_lock: whatever is there by now.                           *)
UnlinkPid(p) ==
  /\ At(p, "unlink") \/ At(p, "give up")
  /\ lock' = [lock EXCEPT !.pid = None, !.written = FALSE]
  /\ Goes(p, IF At(p, "unlink") THEN "rmdir" ELSE "gave up")
  /\ UNCHANGED <<release, command, current, shared>>

RemoveDir(p) ==
  /\ At(p, "rmdir") \/ At(p, "gave up")
  /\ lock' = IF lock.pid = None THEN NoLock ELSE lock
  /\ Goes(p, IF At(p, "rmdir") THEN "lock" ELSE "done")
  /\ UNCHANGED <<release, command, current, shared>>

CreatePid(p) ==
  /\ At(p, "create")
  /\ IF lock.dir /\ lock.pid = None
     THEN lock' = [lock EXCEPT !.pid = p] /\ Goes(p, "write")
     ELSE Goes(p, "give up") /\ UNCHANGED lock
  /\ UNCHANGED <<release, command, current, shared>>

WritePid(p) ==
  /\ At(p, "write")
  /\ \/ /\ lock' = IF lock.pid = p THEN [lock EXCEPT !.written = TRUE] ELSE lock
        /\ Goes(p, "inspect")
        /\ shared' = (shared \/ Inside # {})
     \/ /\ Goes(p, "give up")
        /\ UNCHANGED <<lock, shared>>
  /\ UNCHANGED <<release, command, current>>

(* release_install_lock: only one's own.                                   *)
Unlock(p) ==
  /\ At(p, "unlock")
  /\ IF lock.pid = p /\ lock.written
     THEN lock' = [lock EXCEPT !.pid = None, !.written = FALSE] /\ Goes(p, "release")
     ELSE Leaves(p) /\ UNCHANGED lock
  /\ UNCHANGED <<release, command, current, shared>>

ReleaseDir(p) ==
  /\ At(p, "release")
  /\ lock' = IF lock.pid = None THEN NoLock ELSE lock
  /\ Leaves(p)
  /\ UNCHANGED <<release, command, current, shared>>

-----------------------------------------------------------------------------
(* The installer, inside the lock.  It notes what there was, ...           *)
InstallInspect(p) ==
  /\ At(p, "inspect")
  /\ proc[p].does = "install"
  /\ proc' = [proc EXCEPT ![p].pc = "publish", ![p].command = command, ![p].current = current]
  /\ UNCHANGED <<lock, release, command, current, shared>>

(* ... unpacks the archive beside the releases and verifies every file of  *)
(* it, and renames it into place; a tree that is there already is taken    *)
(* for the same release if its manifest is the archive's, ...              *)
Publish(p) ==
  LET v == proc[p].version
  IN /\ At(p, "publish")
     /\ CASE release[v] = "none"   -> /\ release' = [release EXCEPT ![v] = "whole"]
                                      /\ Changes(p, v, "command")
          [] release[v] = "ragged" -> Goes(p, "unlock") /\ UNCHANGED release
          [] OTHER                 -> Goes(p, "command") /\ UNCHANGED release
     /\ UNCHANGED <<lock, command, current, shared>>

(* ... writes the command and then the pointer, each by a rename, ...      *)
SetCommand(p) ==
  /\ At(p, "command")
  /\ command' = TRUE
  /\ Changes(p, "command", "pointer")
  /\ UNCHANGED <<lock, release, current, shared>>

SetCurrent(p) ==
  /\ At(p, "pointer")
  /\ current' = proc[p].version
  /\ Changes(p, "current", "check")
  /\ UNCHANGED <<lock, release, command, shared>>

CheckCurrent(p) ==
  /\ At(p, "check")
  /\ Goes(p, IF current = proc[p].version /\ release[proc[p].version] # "none"
             THEN "unlock" ELSE "undo command")
  /\ UNCHANGED <<lock, release, command, current, shared>>

(* ... and if anything fails puts back what there was.                     *)
InstallFails(p) ==
  /\ \/ At(p, "publish") /\ Goes(p, "unlock")
     \/ At(p, "command") /\ (Goes(p, "unlock") \/ Goes(p, "undo current"))
     \/ (At(p, "pointer") \/ At(p, "check")) /\ Goes(p, "undo command")
     \/ (At(p, "undo command") \/ At(p, "undo current")) /\ Goes(p, "unlock")
  /\ UNCHANGED <<lock, release, command, current, shared>>

UndoCommand(p) ==
  /\ At(p, "undo command")
  /\ command' = proc[p].command
  /\ Changes(p, "command", "undo current")
  /\ UNCHANGED <<lock, release, current, shared>>

UndoCurrent(p) ==
  /\ At(p, "undo current")
  /\ current' = proc[p].current
  /\ Changes(p, "current", "undone")
  /\ UNCHANGED <<lock, release, command, shared>>

Undone(p) ==
  /\ At(p, "undone")
  /\ Goes(p, "unlock")
  /\ UNCHANGED <<lock, release, command, current, shared>>

-----------------------------------------------------------------------------
(* The uninstaller, inside the lock.  It looks again, and goes on if       *)
(* nothing has changed and the services could be stopped.                  *)
UninstallInspect(p) ==
  /\ At(p, "inspect")
  /\ proc[p].does = "uninstall"
  /\ \/ proc[p].stale = {} /\ Goes(p, "unlink command")
     \/ Goes(p, "unlock")
  /\ UNCHANGED <<lock, release, command, current, shared>>

(* What another process has put in its place is not removed.               *)
UnlinkCommand(p) ==
  /\ At(p, "unlink command")
  /\ IF ~proc[p].command THEN Goes(p, "unlink current") /\ UNCHANGED command
     ELSE IF "command" \in proc[p].stale \/ ~command
     THEN Goes(p, "unlock") /\ UNCHANGED command
     ELSE command' = FALSE /\ Changes(p, "command", "unlink current")
  /\ UNCHANGED <<lock, release, current, shared>>

UnlinkCurrent(p) ==
  /\ At(p, "unlink current")
  /\ IF proc[p].current = None THEN Goes(p, "remove") /\ UNCHANGED current
     ELSE IF "current" \in proc[p].stale \/ current = None
     THEN Goes(p, "put command") /\ UNCHANGED current
     ELSE current' = None /\ Changes(p, "current", "remove")
  /\ UNCHANGED <<lock, release, command, shared>>

(* Each release that was listed is removed, file by file, the manifest     *)
(* before or after others.                                                 *)
RemoveFiles(p, v) ==
  /\ At(p, "remove")
  /\ v \in proc[p].releases
  /\ release[v] # "none"
  /\ proc[p].left = v \/ (proc[p].left = None /\ v \notin proc[p].stale)
  /\ \E to \in CASE release[v] = "whole" -> {"bare", "ragged"}
                 [] release[v] = "bare"  -> {"ragged"}
                 [] OTHER                -> {"none"} :
       /\ release' = [release EXCEPT ![v] = to]
       /\ proc' = [q \in Process |->
            IF q = p THEN [proc[q] EXCEPT !.left = IF to = "none" THEN None ELSE v,
                                          !.releases = IF to = "none" THEN @ \ {v} ELSE @]
            ELSE IF proc[q].does = "uninstall" /\ to # "bare"
            THEN [proc[q] EXCEPT !.stale = @ \cup {IF to = "none" THEN v ELSE "list"}]
            ELSE proc[q]]
  /\ UNCHANGED <<lock, command, current, shared>>

Removed(p) ==
  /\ At(p, "remove")
  /\ proc[p].releases = {}
  /\ Goes(p, "unlock")
  /\ UNCHANGED <<lock, release, command, current, shared>>

(* An error puts the command back, so that the uninstaller can be run      *)
(* again, and not the pointer: with it gone, releases are being removed.   *)
UninstallFails(p) ==
  /\ \/ At(p, "unlink command") /\ Goes(p, "unlock")
     \/ (At(p, "unlink current") \/ At(p, "remove")) /\ Goes(p, "put command")
     \/ At(p, "put command") /\ Goes(p, "unlock")
  /\ UNCHANGED <<lock, release, command, current, shared>>

(* Mutant of PutCommand: puts the pointer back as well.                    *)
PutAllBack(p) ==
  /\ At(p, "put command")
  /\ command' = (command \/ proc[p].command)
  /\ current' = IF current = None THEN proc[p].current ELSE current
  /\ IF command' # command THEN Changes(p, "command", "unlock") ELSE Goes(p, "unlock")
  /\ UNCHANGED <<lock, release, shared>>

PutCommand(p) ==
  /\ At(p, "put command")
  /\ command' = (command \/ proc[p].command)
  /\ IF command' # command THEN Changes(p, "command", "unlock") ELSE Goes(p, "unlock")
  /\ UNCHANGED <<lock, release, current, shared>>

Dies(p) ==
  /\ Alive(p)
  /\ Goes(p, "dead")
  /\ UNCHANGED <<lock, release, command, current, shared>>

Locking(p) ==
  \/ MakeLock(p) \/ JudgeLock(p) \/ UnlinkPid(p) \/ RemoveDir(p) \/ CreatePid(p)
  \/ WritePid(p) \/ Unlock(p) \/ ReleaseDir(p)

Installing(p) ==
  \/ InstallInspect(p) \/ Publish(p) \/ SetCommand(p) \/ SetCurrent(p) \/ CheckCurrent(p)
  \/ InstallFails(p) \/ UndoCommand(p) \/ UndoCurrent(p) \/ Undone(p)

Uninstalling(p) ==
  \/ UninstallInspect(p) \/ UnlinkCommand(p) \/ UnlinkCurrent(p)
  \/ \E v \in Version : RemoveFiles(p, v)
  \/ Removed(p) \/ UninstallFails(p) \/ PutCommand(p)

Next ==
  \E p \in Process :
    \/ \E v \in Version : StartInstall(p, v)
    \/ StartUninstall(p)
    \/ Locking(p) \/ Installing(p) \/ Uninstalling(p) \/ Dies(p)

Spec == Init /\ [][Next]_install

-----------------------------------------------------------------------------
(* Every variable has the shapes the two programs write.                   *)
TypeOK ==
  /\ lock.dir \in BOOLEAN /\ lock.written \in BOOLEAN
  /\ lock.pid \in Process \cup {None}
  /\ lock.pid # None => lock.dir
  /\ release \in [Version -> {"none", "whole", "bare", "ragged"}]
  /\ current \in Version \cup {None}
  /\ \A p \in Process : proc[p].releases \subseteq Version

(* As long as no two processes were inside the lock at once, the pointer   *)
(* names a release with its manifest, whoever failed, died or undid what   *)
(* it had done.                                                            *)
PointerIsListed == (~shared /\ current # None) => current \in Listed

(* A failed activation leaves the command and the pointer as they were.    *)
UndoRestores ==
  \A p \in Process :
    (At(p, "undone") /\ ~shared) => command = proc[p].command /\ current = proc[p].current

(* When every process has ended and none has died, no lock is left, though *)
(* they may have removed one another's.                                    *)
LockIsReleased == (\A p \in Process : proc[p].pc \in {"ready", "done"}) => lock = NoLock

(* The three together.                                                     *)
InstallHolds == PointerIsListed /\ UndoRestores /\ LockIsReleased

(* "Reinstalling the same version is safe": what is activated was verified *)
(* as a whole (launcher/DISTRIBUTION.md:106).                              *)
ActiveIsWhole == (~shared /\ current # None) => release[current] = "whole"

=============================================================================
