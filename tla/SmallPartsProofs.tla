-------------------------- MODULE SmallPartsProofs --------------------------
(***************************************************************************)
(* Theorems about four of the parts that MCSmallParts composes.            *)
(*                                                                         *)
(* The controller's ownership lock (ControllerLock), for every set of      *)
(* processes and inodes, with or without I/O faults: a process that        *)
(* created the lock and has not given it up finds its own file at the lock *)
(* path; only one process is under the recovery marker; and what that      *)
(* process found stale belongs to a dead process, so nobody else can       *)
(* remove it.                                                              *)
(*                                                                         *)
(* The start-up of the database (Migrations, as Mig), for every set of     *)
(* processes and of columns: no statement takes back what another start    *)
(* has relied on, and a start that is alone finds what it looked at.       *)
(*                                                                         *)
(* The slices of an alignment (SliceGrouping, as Grp), for any number of   *)
(* words of any lengths and for any limits: every word is in one slice, in *)
(* order, of a legal length, and slices are cut at quiet gaps.             *)
(*                                                                         *)
(* The audio of review clips (ReviewClips, as Rev), for any recording and  *)
(* any pair of rates: a clip lies where the analysis placed it and holds   *)
(* the channels that were listened to.                                     *)
(***************************************************************************)
EXTENDS MCSmallParts, Sequences, WellFoundedInduction, TLAPS

(* Program points at which the file at the lock path is the process's own, *)
(* and at which the marker is.                                             *)
LockHeld   == {"write", "recheck", "backout", "backoutUnlink", "rewrite",
               "verify", "unmark", "cleanLockUnlink"} \cup Owning
MarkerHeld == Reclaiming \cup {"markWrite", "cleanMarkUnlink"}
FoundStale == {"mark", "markWrite", "stat2", "read2", "live2", "confirm",
               "unlink"}

LockIsMine ==
  \A p \in Proc : pc[p] \in LockHeld =>
    /\ Exists(lock)
    /\ lock.by = p
    /\ pc[p] \notin {"write", "rewrite"} => lock.full /\ mine[p] = lock.ino

MarkerIsMine ==
  \A p \in Proc : pc[p] \in MarkerHeld => Exists(marker) /\ marker.by = p

(* What was found stale names exactly one process, and it is dead. *)
StaleIsDead ==
  \A p \in Proc :
    /\ pc[p] \in FoundStale \cup {"live"} => seen[p].by # {}
    /\ pc[p] \in FoundStale => \A q \in seen[p].by : Gone(q)

(* Under the marker, the stale lock stays until the reclaimer unlinks it. *)
StaleLockStays ==
  \A p \in Proc :
    \/ pc[p] = "live2" /\ again[p].by = seen[p].by
    \/ pc[p] \in {"confirm", "unlink"}
    => Content(lock) = seen[p].by

NobodyOwnsVacantLock ==
  \A p, q \in Proc : pc[p] = "recreate" => ~Owns(q)

IInv ==
  /\ TypeOK
  /\ LockIsMine
  /\ MarkerIsMine
  /\ StaleIsDead
  /\ StaleLockStays
  /\ NobodyOwnsVacantLock

-----------------------------------------------------------------------------
(* Initially no process has started, no file exists and every part holds. *)
LEMMA InitIInv == Init => IInv
BY FileAssumption, InodeAssumption
   DEF Init, IInv, TypeOK, LockIsMine, MarkerIsMine, StaleIsDead,
       StaleLockStays, NobodyOwnsVacantLock, LockHeld, MarkerHeld,
       FoundStale, NothingSeen, Sight, Owns, Owning, Reclaiming, Alive, Point

-----------------------------------------------------------------------------
(* What creating and writing a file do to it. *)
LEMMA EmptyFileFacts ==
  ASSUME NEW p \in Proc, NEW i \in Inode
  PROVE  /\ EmptyFile(p, i) \in File
         /\ Exists(EmptyFile(p, i))
         /\ EmptyFile(p, i).by = p
         /\ Content(EmptyFile(p, i)) = {}
<1>1. /\ EmptyFile(p, i) \in File
      /\ EmptyFile(p, i).by = p /\ EmptyFile(p, i).full = FALSE
  BY DEF EmptyFile, File
<1>2. Exists(EmptyFile(p, i))
  BY <1>1, FileAssumption DEF Exists
<1> QED BY <1>1, <1>2 DEF Content

(* Only the process that created a file fills it, and nothing else changes. *)
LEMMA WrittenFacts ==
  ASSUME NEW file \in File \cup {NoFile}, NEW p \in Proc
  PROVE  /\ Written(file, p) \in File \cup {NoFile}
         /\ Exists(Written(file, p)) <=> Exists(file)
         /\ Exists(file) => /\ Written(file, p).by = file.by
                            /\ Written(file, p).ino = file.ino
         /\ Exists(file) /\ file.by = p => Written(file, p).full
         /\ Exists(file) /\ file.by # p => Written(file, p) = file
<1>1. CASE Exists(file) /\ file.by = p
  <2>1. file \in File
    BY <1>1 DEF Exists
  <2>2. /\ Written(file, p) \in File
        /\ Written(file, p).by = file.by
        /\ Written(file, p).ino = file.ino
        /\ Written(file, p).full
    BY <1>1, <2>1 DEF Written, File
  <2> QED BY <1>1, <2>2, FileAssumption DEF Exists
<1>2. CASE ~(Exists(file) /\ file.by = p)
  BY <1>2 DEF Written
<1> QED BY <1>1, <1>2

(* A file that is read as a record was written by the process it names. *)
LEMMA ContentFacts ==
  ASSUME NEW file \in File \cup {NoFile}
  PROVE  /\ Content(file) \in SUBSET Proc
         /\ \A q : q \in Content(file) => Exists(file) /\ file.full /\ file.by = q
BY FileAssumption DEF Content, Exists, File

(* A step moves the program counter of one live process. *)
LEMMA StepMovesOne ==
  ASSUME NEW p \in Proc, Step(p)
  PROVE  /\ pc[p] # "dead"
         /\ \E x \in Point : pc' = [pc EXCEPT ![p] = x]
BY DEF Step, Acquire, Start, CheckBlocker, CreateLock, FindLock, WriteLock,
       Recheck, BackOut, UnlinkLock, Stat, ReadOwner, ProbeOwner, CreateMarker,
       WriteMarker, StatAgain, ReadOwnerAgain, ProbeOwnerAgain, ConfirmLock,
       Recreate, VerifyLock, Unmark, CleanLock, CleanMarker, UnlinkMarker,
       Release, Throw, Die, Goto, AfterThrow, FastPath, Reclaiming, CleaningUp,
       Owning, Alive, Point

(* Every step preserves the types. *)
LEMMA TypeStep ==
  ASSUME TypeOK, NEW p \in Proc, Step(p)
  PROVE  TypeOK'
<1>t. /\ lock \in File \cup {NoFile} /\ marker \in File \cup {NoFile}
      /\ pc \in [Proc -> Point]
      /\ mine \in [Proc -> Inode \cup {NoInode}]
      /\ seen \in [Proc -> Sight] /\ again \in [Proc -> Sight]
  BY DEF TypeOK
<1> USE DEF FilesUnchanged, SightsUnchanged
<1>f. lock \in File => lock.ino \in Inode
  BY DEF File
<1>i. Exists(lock) => lock.ino \in Inode
  BY <1>t, <1>f DEF Exists
<1>1. pc' \in [Proc -> Point]
  BY <1>t, StepMovesOne
<1>2. lock' \in File \cup {NoFile}
  <2>1. \/ lock' \in {lock, NoFile, Written(lock, p)}
        \/ \E i \in Inode : lock' = EmptyFile(p, i)
    BY
       DEF Step, Acquire, Start, CheckBlocker, CreateLock, FindLock,
           WriteLock,
           Recheck, BackOut, UnlinkLock, Stat, ReadOwner, ProbeOwner,
           CreateMarker, WriteMarker, StatAgain, ReadOwnerAgain,
           ProbeOwnerAgain, ConfirmLock, Recreate, VerifyLock, Unmark,
           CleanLock, CleanMarker, UnlinkMarker, Release, Throw, Die,
           FreshInode
  <2> QED BY <2>1, <1>t, EmptyFileFacts, WrittenFacts
<1>3. marker' \in File \cup {NoFile}
  <2>1. \/ marker' \in {marker, NoFile, Written(marker, p)}
        \/ \E i \in Inode : marker' = EmptyFile(p, i)
    BY
       DEF Step, Acquire, Start, CheckBlocker, CreateLock, FindLock,
           WriteLock,
           Recheck, BackOut, UnlinkLock, Stat, ReadOwner, ProbeOwner,
           CreateMarker, WriteMarker, StatAgain, ReadOwnerAgain,
           ProbeOwnerAgain, ConfirmLock, Recreate, VerifyLock, Unmark,
           CleanLock, CleanMarker, UnlinkMarker, Release, Throw, Die,
           FreshInode
  <2> QED BY <2>1, <1>t, EmptyFileFacts, WrittenFacts
<1>4. mine' \in [Proc -> Inode \cup {NoInode}]
  <2>1. CASE \E here, next \in Point : WriteLock(p, here, next)
    BY <2>1, <1>t, <1>i DEF WriteLock
  <2>2. CASE mine' = mine
    BY <2>2, <1>t
  <2>3. mine' = mine \/ WriteLock(p, "write", "recheck")
        \/ WriteLock(p, "rewrite", "verify")
    BY DEF Step, Acquire, Start, CheckBlocker, CreateLock, FindLock, Recheck,
         BackOut, UnlinkLock, Stat, ReadOwner, ProbeOwner, CreateMarker,
         WriteMarker, StatAgain, ReadOwnerAgain, ProbeOwnerAgain, ConfirmLock,
         Recreate, VerifyLock, Unmark, CleanLock, CleanMarker, UnlinkMarker,
         Release, Throw, Die
  <2> QED
    BY <2>1, <2>2, <2>3 DEF Point, Alive, FastPath, Reclaiming
<1>5. seen' \in [Proc -> Sight] /\ again' \in [Proc -> Sight]
  <2>1. CASE Stat(p) \/ StatAgain(p)
    <3>1. Exists(lock) => [ino |-> lock.ino, by |-> {}] \in Sight
      BY <1>i DEF Sight
    <3> QED BY <3>1, <2>1, <1>t DEF Stat, StatAgain
  <2>2. CASE ReadOwner(p) \/ ReadOwnerAgain(p)
    <3>1. /\ [ino |-> seen[p].ino, by |-> Content(lock)] \in Sight
          /\ [ino |-> again[p].ino, by |-> Content(lock)] \in Sight
      BY <1>t, ContentFacts DEF Sight
    <3> QED BY <3>1, <2>2, <1>t DEF ReadOwner, ReadOwnerAgain
  <2>3. CASE seen' = seen /\ again' = again
    BY <2>3, <1>t
  <2> QED
    BY <2>1, <2>2, <2>3
       DEF Step, Acquire, Start, CheckBlocker, CreateLock, FindLock, WriteLock,
           Recheck, BackOut, UnlinkLock, ProbeOwner, CreateMarker, WriteMarker,
           ProbeOwnerAgain, ConfirmLock, Recreate, VerifyLock, Unmark,
           CleanLock, CleanMarker, UnlinkMarker, Release, Throw, Die
<1> QED BY <1>1, <1>2, <1>3, <1>4, <1>5 DEF TypeOK

(* A step of another process leaves the lock a process owns in place, and  *)
(* one of its own keeps or gives up both the lock and the claim to it.     *)
LEMMA LockIsMineStep ==
  ASSUME TypeOK, LockIsMine, StaleIsDead, StaleLockStays,
         NEW p \in Proc, Step(p)
  PROVE  LockIsMine'
<1>t. /\ pc \in [Proc -> Point]
      /\ mine \in [Proc -> Inode \cup {NoInode}]
      /\ lock \in File \cup {NoFile}
  BY DEF TypeOK
<1> USE DEF Goto, FilesUnchanged, SightsUnchanged
(* Nobody's lock or claim to it changes. *)
<1>1. CASE \/ Start(p) \/ CheckBlocker(p) \/ FindLock(p)
           \/ Stat(p) \/ ReadOwner(p) \/ ProbeOwner(p)
           \/ CreateMarker(p) \/ WriteMarker(p)
           \/ StatAgain(p) \/ ReadOwnerAgain(p) \/ ProbeOwnerAgain(p)
           \/ ConfirmLock(p) \/ CleanMarker(p) \/ UnlinkMarker(p) \/ Die(p)
  <2>1. /\ lock' = lock /\ mine' = mine
        /\ \E x \in Point \ LockHeld : pc' = [pc EXCEPT ![p] = x]
    BY <1>1
       DEF Start, CheckBlocker, FindLock, Stat, ReadOwner, ProbeOwner,
           CreateMarker, WriteMarker, StatAgain, ReadOwnerAgain,
           ProbeOwnerAgain, ConfirmLock, CleanMarker, UnlinkMarker, Die,
           LockHeld, Owning, Point, Alive, FastPath, Reclaiming, CleaningUp
  <2> QED BY <2>1, <1>t DEF LockIsMine, Exists
<1>2. CASE \/ Recheck(p) \/ BackOut(p) \/ VerifyLock(p) \/ Unmark(p)
           \/ CleanLock(p) \/ Release(p)
  BY <1>2, <1>t, ContentFacts
     DEF Recheck, BackOut, VerifyLock, Unmark, CleanLock, Release, LockIsMine,
         LockHeld, Owning, Reclaiming, AfterThrow, Exists
<1>3. CASE CreateLock(p) \/ Recreate(p)
  <2>1. CASE /\ ~Exists(lock)
             /\ pc' \in {[pc EXCEPT ![p] = "write"],
                        [pc EXCEPT ![p] = "rewrite"]}
             /\ \E i \in FreshInode : lock' = EmptyFile(p, i)
     <3>1. Exists(lock)' /\ lock'.by = p
       BY <2>1, EmptyFileFacts DEF FreshInode, Exists
     <3>2. \A q \in Proc : pc[q] \notin LockHeld
       BY <2>1 DEF LockIsMine
     <3>3. /\ pc'[p] \in {"write", "rewrite"}
           /\ \A q \in Proc \ {p} : pc'[q] = pc[q]
       BY <2>1, <1>t
     <3> QED BY <3>1, <3>2, <3>3 DEF LockIsMine
  <2>2. CASE Recreate(p) /\ Exists(lock)
     BY <2>2, <1>t DEF Recreate, LockIsMine, LockHeld, Owning, Exists
  <2> QED BY <1>3, <2>1, <2>2 DEF CreateLock, Recreate
<1>4. CASE WriteLock(p, "write", "recheck") \/ WriteLock(p, "rewrite", "verify")
  <2>1. /\ pc[p] \in {"write", "rewrite"} /\ Exists(lock) /\ lock.by = p
    BY <1>4 DEF WriteLock, LockIsMine, LockHeld
  <2>2. /\ lock' = Written(lock, p) /\ mine' = [mine EXCEPT ![p] = lock.ino]
        /\ pc' \in {[pc EXCEPT ![p] = "recheck"], [pc EXCEPT ![p] = "verify"]}
    BY <1>4, <2>1 DEF WriteLock
  <2>3. Exists(lock)' /\ lock'.by = p /\ lock'.full /\ lock'.ino = lock.ino
    BY <2>1, <2>2, <1>t, WrittenFacts DEF Exists
  <2>4. \A q \in Proc \ {p} : pc'[q] \notin LockHeld
    BY <2>1, <2>2, <1>t DEF LockIsMine
  <2>5. mine'[p] = lock.ino
    BY <2>2, <1>t
  <2> QED BY <2>3, <2>4, <2>5 DEF LockIsMine
<1>5. CASE \/ UnlinkLock(p, "backoutUnlink", "failed")
           \/ UnlinkLock(p, "cleanLockUnlink", "cleanMark")
           \/ UnlinkLock(p, "releaseUnlink", "released")
   BY <1>5, <1>t
      DEF UnlinkLock, LockIsMine, LockHeld, Owning, Reclaiming, AfterThrow,
          Exists
<1>6. CASE UnlinkLock(p, "unlink", "recreate")
   <2>1. Exists(lock) /\ Gone(lock.by) /\ pc[p] = "unlink"
     BY <1>6, <1>t, ContentFacts
        DEF UnlinkLock, StaleIsDead, StaleLockStays, FoundStale
   <2>2. \A q \in Proc : pc[q] \notin LockHeld
     BY <2>1 DEF LockIsMine, Gone, LockHeld, Owning
   <2>3. pc' = [pc EXCEPT ![p] = "recreate"]
     BY <1>6, <2>1 DEF UnlinkLock
   <2> QED BY <2>2, <2>3, <1>t DEF LockIsMine, LockHeld, Owning
<1>7. CASE Throw(p)
   <2>1. pc[p] \in LockHeld => Exists(lock) /\ lock.by = p
     BY DEF LockIsMine
   <2>2. /\ pc' = [pc EXCEPT ![p] = AfterThrow(p)]
         /\ AfterThrow(p) \notin LockHeld /\ mine' = mine
         /\ lock' = lock \/ (pc[p] \in LockHeld /\ lock' = Written(lock, p))
     BY <1>7 DEF Throw, LockHeld, Owning, AfterThrow
   <2> QED BY <2>1, <2>2, <1>t, WrittenFacts DEF LockIsMine, Exists
<1> QED BY <1>1, <1>2, <1>3, <1>4, <1>5, <1>6, <1>7 DEF Step, Acquire

(* The same of the recovery marker: whoever created it is the only one to  *)
(* remove it.                                                              *)
LEMMA MarkerIsMineStep ==
  ASSUME TypeOK, MarkerIsMine, NEW p \in Proc, Step(p)
  PROVE  MarkerIsMine'
<1>t. /\ pc \in [Proc -> Point]
      /\ marker \in File \cup {NoFile}
  BY DEF TypeOK
<1> USE DEF Goto, FilesUnchanged, SightsUnchanged
<1>1. CASE CreateMarker(p)
  <2>1. CASE Exists(marker)
    BY <1>1, <2>1, <1>t DEF CreateMarker, MarkerIsMine, MarkerHeld, Reclaiming
  <2>2. CASE ~Exists(marker)
    <3>1. /\ pc' = [pc EXCEPT ![p] = "markWrite"]
          /\ Exists(marker)' /\ marker'.by = p
      BY <1>1, <2>2, EmptyFileFacts DEF CreateMarker, FreshInode, Exists
    <3>2. \A q \in Proc : pc[q] \notin MarkerHeld
      BY <2>2 DEF MarkerIsMine
    <3> QED BY <3>1, <3>2, <1>t DEF MarkerIsMine
  <2> QED BY <2>1, <2>2
<1>2. CASE WriteMarker(p) \/ (Throw(p) /\ pc[p] = "markWrite")
  <2>1. Exists(marker) /\ marker.by = p
    BY <1>2 DEF WriteMarker, MarkerIsMine, MarkerHeld
  <2>2. /\ marker' \in {marker, Written(marker, p)}
        /\ \E x \in Point : pc' = [pc EXCEPT ![p] = x]
    BY <1>2
       DEF WriteMarker, Throw, AfterThrow, Point, Alive, Reclaiming,
           CleaningUp, Owning
  <2>3. Exists(marker)' /\ marker'.by = p
    BY <2>1, <2>2, <1>t, WrittenFacts DEF Exists
  <2>4. \A q \in Proc \ {p} : pc'[q] \notin MarkerHeld
    BY <2>1, <2>2, <1>t DEF MarkerIsMine
  <2> QED BY <2>3, <2>4 DEF MarkerIsMine
(* The marker is removed by the process that holds it. *)
<1>3. CASE Unmark(p) \/ UnlinkMarker(p)
  BY <1>3, <1>t
     DEF Unmark, UnlinkMarker, MarkerIsMine, MarkerHeld, Reclaiming,
         AfterThrow, Exists
(* Every other step leaves the marker alone and enters MarkerHeld only     *)
(* from inside it, or by the content check of CleanMarker.                 *)
<1>4. CASE CleanMarker(p)
  BY <1>4, <1>t, ContentFacts
     DEF CleanMarker, MarkerIsMine, MarkerHeld, Reclaiming
<1>5. CASE \/ Start(p) \/ CheckBlocker(p) \/ CreateLock(p) \/ FindLock(p)
           \/ WriteLock(p, "write", "recheck") \/ Recheck(p)
           \/ BackOut(p) \/ UnlinkLock(p, "backoutUnlink", "failed")
           \/ Stat(p) \/ ReadOwner(p) \/ ProbeOwner(p)
           \/ CleanLock(p) \/ UnlinkLock(p, "cleanLockUnlink", "cleanMark")
           \/ Release(p) \/ UnlinkLock(p, "releaseUnlink", "released")
           \/ Die(p)
  <2>1. /\ marker' = marker
        /\ \E x \in Point \ MarkerHeld : pc' = [pc EXCEPT ![p] = x]
    BY <1>5
       DEF Start, CheckBlocker, CreateLock, FindLock, WriteLock, Recheck,
           BackOut, UnlinkLock, Stat, ReadOwner, ProbeOwner, CleanLock,
           Release, Die, AfterThrow, MarkerHeld, Owning, Point, Alive,
           FastPath, Reclaiming, CleaningUp
  <2> QED BY <2>1, <1>t DEF MarkerIsMine, Exists
<1>6. CASE \/ StatAgain(p) \/ ReadOwnerAgain(p) \/ ProbeOwnerAgain(p)
           \/ ConfirmLock(p) \/ UnlinkLock(p, "unlink", "recreate")
           \/ Recreate(p) \/ WriteLock(p, "rewrite", "verify") \/ VerifyLock(p)
  BY <1>6, <1>t
     DEF StatAgain, ReadOwnerAgain, ProbeOwnerAgain, ConfirmLock, UnlinkLock,
         Recreate, WriteLock, VerifyLock, AfterThrow, MarkerIsMine,
         MarkerHeld, Reclaiming, Exists
<1>7. CASE Throw(p) /\ pc[p] # "markWrite"
  BY <1>7, <1>t
     DEF Throw, AfterThrow, MarkerIsMine, MarkerHeld, Reclaiming, Owning,
         Exists
<1> QED BY <1>1, <1>2, <1>3, <1>4, <1>5, <1>6, <1>7 DEF Step, Acquire

(* What a process has judged stale names a process that is dead or was     *)
(* restarted since, and stays so.                                          *)
LEMMA StaleIsDeadStep ==
  ASSUME TypeOK, StaleIsDead, NEW p \in Proc, Step(p)
  PROVE  StaleIsDead'
<1>t. /\ pc \in [Proc -> Point]
      /\ seen \in [Proc -> Sight]
      /\ lock \in File \cup {NoFile}
  BY DEF TypeOK
<1> USE DEF Goto, FilesUnchanged, SightsUnchanged
(* The dead stay dead. *)
<1>d. /\ \A q \in Proc : Gone(q) => Gone(q)'
      /\ \A q \in Proc \ {p} : pc'[q] = pc[q]
  BY StepMovesOne, <1>t DEF Gone
<1>s. \A q \in Proc : seen[q].by \in SUBSET Proc
  BY <1>t DEF Sight
<1>1. CASE Stat(p) \/ ReadOwner(p) \/ ProbeOwner(p)
  <2>1. \A q \in Proc \ {p} : seen'[q] = seen[q]
    BY <1>1, <1>t DEF Stat, ReadOwner, ProbeOwner
  <2>2. Stat(p) \/ ReadOwner(p) => pc'[p] \in {"read", "live", "failed"}
    BY <1>t DEF Stat, ReadOwner
  <2>3. pc'[p] = "live" => seen'[p].by # {}
    BY <1>1, <1>t DEF Stat, ReadOwner, ProbeOwner
  <2>4. ProbeOwner(p) /\ pc'[p] \in FoundStale =>
          /\ seen' = seen /\ seen[p].by # {}
          /\ \A q \in seen[p].by : Gone(q)
    BY <1>t DEF ProbeOwner, StaleIsDead, FoundStale
  <2>5. pc'[p] \in FoundStale => ProbeOwner(p)
    BY <1>1, <2>2 DEF FoundStale
  <2> QED BY <2>1, <2>3, <2>4, <2>5, <1>d, <1>s DEF StaleIsDead
<1>2. CASE seen' = seen /\ (pc'[p] \in FoundStale => pc[p] \in FoundStale)
           /\ pc'[p] # "live"
  BY <1>2, <1>d, <1>s DEF StaleIsDead
<1>3. \/ Stat(p) \/ ReadOwner(p) \/ ProbeOwner(p)
      \/ seen' = seen /\ (pc'[p] \in FoundStale => pc[p] \in FoundStale)
         /\ pc'[p] # "live"
  BY <1>t
     DEF Step, Acquire, Start, CheckBlocker, CreateLock, FindLock, WriteLock,
         Recheck, BackOut, UnlinkLock, CreateMarker, WriteMarker, StatAgain,
         ReadOwnerAgain, ProbeOwnerAgain, ConfirmLock, Recreate, VerifyLock,
         Unmark, CleanLock, CleanMarker, UnlinkMarker, Release, Throw, Die,
         AfterThrow, FoundStale
<1> QED BY <1>1, <1>2, <1>3

(* A lock found stale under the marker is not replaced before it is        *)
(* removed.                                                                *)
LEMMA StaleLockStaysStep ==
  ASSUME IInv, NEW p \in Proc, Step(p)
  PROVE  StaleLockStays'
<1> DEFINE Claim(q) == \/ pc[q] = "live2" /\ again[q].by = seen[q].by
                       \/ pc[q] \in {"confirm", "unlink"}
<1>t. /\ pc \in [Proc -> Point]
      /\ seen \in [Proc -> Sight]
      /\ again \in [Proc -> Sight]
      /\ lock \in File \cup {NoFile}
  BY DEF IInv, TypeOK
<1> USE DEF Goto, FilesUnchanged, SightsUnchanged
(* A lock a reclaimer counts on is there, and its creator is dead. *)
<1>c. \A q \in Proc : Claim(q) => /\ Content(lock) = seen[q].by
                                  /\ Exists(lock) /\ Gone(lock.by)
  BY <1>t, ContentFacts DEF IInv, StaleIsDead, StaleLockStays, FoundStale
(* Only the reclaimer under the marker could take it away. *)
<1>l. \A q \in Proc \ {p} : Claim(q) => lock' = lock
  <2> SUFFICES ASSUME NEW q \in Proc \ {p}, Claim(q) PROVE lock' = lock
    OBVIOUS
  <2>1. Exists(lock) /\ Gone(lock.by)
    BY <1>c
  <2>2. pc[p] \notin LockHeld
    BY <2>1 DEF IInv, LockIsMine, Gone, LockHeld, Owning
  <2>3. pc[p] # "unlink"
    BY DEF IInv, MarkerIsMine, MarkerHeld, Reclaiming
  <2> QED
    BY <2>1, <2>2, <2>3
       DEF Step, Acquire, Start, CheckBlocker, CreateLock, FindLock, WriteLock,
           Recheck, BackOut, UnlinkLock, Stat, ReadOwner, ProbeOwner,
           CreateMarker, WriteMarker, StatAgain, ReadOwnerAgain,
           ProbeOwnerAgain, ConfirmLock, Recreate, VerifyLock, Unmark,
           CleanLock, CleanMarker, UnlinkMarker, Release, Throw, Die, LockHeld,
           Owning
<1>o. \A q \in Proc \ {p} :
        pc'[q] = pc[q] /\ seen'[q] = seen[q] /\ again'[q] = again[q]
  BY <1>t, StepMovesOne
     DEF Step, Acquire, Start, CheckBlocker, CreateLock, FindLock, WriteLock,
         Recheck, BackOut, UnlinkLock, Stat, ReadOwner, ProbeOwner,
         CreateMarker, WriteMarker, StatAgain, ReadOwnerAgain, ProbeOwnerAgain,
         ConfirmLock, Recreate, VerifyLock, Unmark, CleanLock, CleanMarker,
         UnlinkMarker, Release, Throw, Die
(* The claim of the process that moves. *)
<1>p. Claim(p)' => Content(lock)' = seen'[p].by
  <2>1. CASE ReadOwnerAgain(p)
    BY <2>1, <1>t DEF ReadOwnerAgain, Content, Exists
  <2>2. CASE ProbeOwnerAgain(p) \/ ConfirmLock(p)
    <3>1. pc'[p] \in {"confirm", "unlink"} => Claim(p)
      BY <2>2, <1>t DEF ProbeOwnerAgain, ConfirmLock, SameLock
    <3>2. pc'[p] # "live2" /\ lock' = lock /\ seen' = seen
      BY <2>2, <1>t DEF ProbeOwnerAgain, ConfirmLock
    <3> QED BY <3>1, <3>2, <1>c DEF Content, Exists
  <2>3. \/ ReadOwnerAgain(p) \/ ProbeOwnerAgain(p) \/ ConfirmLock(p)
        \/ pc'[p] \notin {"live2", "confirm", "unlink"}
    BY <1>t
      DEF Step, Acquire, Start, CheckBlocker, CreateLock, FindLock, WriteLock,
        Recheck, BackOut, UnlinkLock, Stat, ReadOwner, ProbeOwner,
        CreateMarker, WriteMarker, StatAgain, Recreate, VerifyLock, Unmark,
        CleanLock, CleanMarker, UnlinkMarker, Release, Throw, Die, AfterThrow
  <2> QED BY <2>1, <2>2, <2>3
<1>q. \A q \in Proc \ {p} : Claim(q)' => Content(lock)' = seen'[q].by
  BY <1>c, <1>l, <1>o DEF Content, Exists
<1> QED BY <1>p, <1>q DEF StaleLockStays

(* While nobody has written the lock nobody owns the installation. *)
LEMMA NobodyOwnsVacantLockStep ==
  ASSUME IInv, NEW p \in Proc, Step(p)
  PROVE  NobodyOwnsVacantLock'
<1>t. pc \in [Proc -> Point] /\ lock \in File \cup {NoFile}
  BY DEF IInv, TypeOK
<1> USE DEF Goto, FilesUnchanged, SightsUnchanged
<1>1. CASE UnlinkLock(p, "unlink", "recreate")
  <2>1. Exists(lock) /\ Gone(lock.by) /\ pc[p] = "unlink"
    BY <1>1, <1>t, ContentFacts
       DEF UnlinkLock, IInv, StaleIsDead, StaleLockStays, FoundStale
  <2>2. \A q \in Proc : ~Owns(q)
    BY <2>1 DEF IInv, LockIsMine, LockHeld, Owns, Owning, Gone
  <2>3. pc' = [pc EXCEPT ![p] = "recreate"]
    BY <1>1, <2>1 DEF UnlinkLock
  <2>4. \A q \in Proc : ~Owns(q)'
    BY <2>2, <2>3, <1>t DEF Owns, Owning
  <2> QED BY <2>4 DEF NobodyOwnsVacantLock
<1>2. CASE Recheck(p) \/ Unmark(p)
  <2>1. ASSUME NEW q \in Proc, pc[q] = "recreate"
        PROVE  ~Owns(p)' /\ p # q
    <3>1. Exists(marker) /\ marker.by = q
      BY <2>1 DEF IInv, MarkerIsMine, MarkerHeld, Reclaiming
    <3>2. CASE Recheck(p)
      BY <3>1, <3>2, <2>1, <1>t DEF Recheck, Owns, Owning
    <3>3. CASE Unmark(p)
      BY <3>1, <3>3, <2>1
         DEF Unmark, IInv, MarkerIsMine, MarkerHeld, Reclaiming
    <3> QED BY <1>2, <3>2, <3>3
  <2>2. pc'[p] # "recreate" /\ \A q \in Proc \ {p} : pc'[q] = pc[q]
    BY <1>2, <1>t DEF Recheck, Unmark, AfterThrow
  <2> QED BY <2>1, <2>2 DEF NobodyOwnsVacantLock, IInv, Owns
<1>3. CASE pc'[p] # "recreate" /\ (Owns(p)' => Owns(p))
  <2>1. \A q \in Proc \ {p} : pc'[q] = pc[q]
    BY StepMovesOne, <1>t
  <2> QED BY <1>3, <2>1 DEF NobodyOwnsVacantLock, IInv, Owns
<1>4. \/ UnlinkLock(p, "unlink", "recreate") \/ Recheck(p) \/ Unmark(p)
      \/ pc'[p] # "recreate" /\ (Owns(p)' => Owns(p))
  BY <1>t
     DEF Step, Acquire, Start, CheckBlocker, CreateLock, FindLock, WriteLock,
         BackOut, UnlinkLock, Stat, ReadOwner, ProbeOwner, CreateMarker,
         WriteMarker, StatAgain, ReadOwnerAgain, ProbeOwnerAgain, ConfirmLock,
         Recreate, VerifyLock, CleanLock, CleanMarker, UnlinkMarker, Release,
         Throw, Die, AfterThrow, Owns, Owning
<1> QED BY <1>1, <1>2, <1>3, <1>4

-----------------------------------------------------------------------------
(* The invariant is inductive. *)
LEMMA StepIInv == IInv /\ [Next]_vars => IInv'
<1>1. ASSUME IInv, NEW p \in Proc, Step(p)
      PROVE  IInv'
  BY <1>1, TypeStep, LockIsMineStep, MarkerIsMineStep, StaleIsDeadStep,
     StaleLockStaysStep, NobodyOwnsVacantLockStep DEF IInv
<1>2. ASSUME IInv, UNCHANGED vars
      PROVE  IInv'
  BY <1>2 DEF vars, IInv, TypeOK, LockIsMine, MarkerIsMine, StaleIsDead,
              StaleLockStays, NobodyOwnsVacantLock, Exists, Content, Gone, Owns
<1> QED BY <1>1, <1>2 DEF Next

(* So it holds in every behaviour. *)
LEMMA Inductive == Spec => []IInv
BY InitIInv, StepIInv, PTL DEF Spec

(* Every variable of the lock protocol keeps its type. *)
THEOREM TypeCorrect == Spec => []TypeOK
<1>1. IInv => TypeOK
  BY DEF IInv
<1> QED BY <1>1, Inductive, PTL

(* A controller that owns the installation finds its own complete metadata *)
(* at the lock path: nothing acquireOwnership does elsewhere removes it.   *)
THEOREM OwnerIsOnDisk == Spec => []OwnerOnDisk
<1>1. IInv => OwnerOnDisk
  BY ContentFacts
     DEF IInv, TypeOK, LockIsMine, LockHeld, Owns, Owning, OwnerOnDisk,
         Content
<1> QED BY <1>1, Inductive, PTL

(* At most one controller owns the installation. *)
THEOREM Mutex == Spec => []MutualExclusion
<1>1. IInv => MutualExclusion
  BY DEF IInv, LockIsMine, LockHeld, Owns, MutualExclusion
<1> QED BY <1>1, Inductive, PTL

(* Nobody else owns the installation while a reclaimer replaces the lock. *)
THEOREM ReclaimAlone == Spec => []ReclaimIsAlone
<1>1. IInv => ReclaimIsAlone
  <2> SUFFICES ASSUME IInv, NEW p \in Proc, NEW q \in Proc,
                      pc[p] \in {"recreate", "rewrite", "verify", "unmark"}
               PROVE  ~Owns(q)
    BY DEF ReclaimIsAlone
  <2>1. CASE pc[p] = "recreate"
    BY <2>1 DEF IInv, NobodyOwnsVacantLock
  <2>2. CASE pc[p] # "recreate"
    BY <2>2 DEF IInv, LockIsMine, LockHeld, Owns, Owning
  <2> QED BY <2>1, <2>2
<1> QED BY <1>1, Inductive, PTL

(* One owner, visible at the lock path, and none beside a reclaimer.       *)
THEOREM LockSafety == Spec => []LockIsSafe
<1>1. MutualExclusion /\ OwnerOnDisk /\ ReclaimIsAlone => LockIsSafe
  BY DEF LockIsSafe
<1> QED BY <1>1, Mutex, OwnerIsOnDisk, ReclaimAlone, PTL

(* A lock is removed by its creator, or once its creator is dead and its   *)
(* metadata was complete.                                                  *)
THEOREM RemovalJustified == Spec => LockRemovalJustified
<1>1. ASSUME IInv, [Next]_vars, Exists(lock), ~Exists(lock')
      PROVE  IF Gone(lock.by) THEN lock.full ELSE pc'[lock.by] # pc[lock.by]
  <2>t. /\ pc \in [Proc -> Point]
        /\ lock \in File \cup {NoFile}
    BY <1>1 DEF IInv, TypeOK
  <2>1. lock' # lock
    BY <1>1
  <2>2. PICK p \in Proc : Step(p)
    BY <1>1, <2>1 DEF Next, vars
  <2>3. /\ Goto(p, "failed") \/ Goto(p, "recreate") \/ Goto(p, "cleanMark")
           \/ Goto(p, "released")
        /\ pc[p] \in {"backoutUnlink", "unlink", "cleanLockUnlink",
                      "releaseUnlink"}
    <3>1. \/ UnlinkLock(p, "backoutUnlink", "failed")
          \/ UnlinkLock(p, "unlink", "recreate")
          \/ UnlinkLock(p, "cleanLockUnlink", "cleanMark")
          \/ UnlinkLock(p, "releaseUnlink", "released")
      BY <1>1, <2>1, <2>2, <2>t, EmptyFileFacts, WrittenFacts
         DEF Step, Acquire, Start, CheckBlocker, CreateLock, FindLock,
             WriteLock, Recheck, BackOut, Stat, ReadOwner, ProbeOwner,
             CreateMarker, WriteMarker, StatAgain, ReadOwnerAgain,
             ProbeOwnerAgain, ConfirmLock, Recreate, VerifyLock, Unmark,
             CleanLock, CleanMarker, UnlinkMarker, Release, Throw, Die,
             FilesUnchanged, FreshInode
    <3> QED BY <1>1, <3>1 DEF UnlinkLock
  <2>4. CASE pc[p] = "unlink"
    BY <1>1, <2>4, <2>t, ContentFacts
       DEF IInv, StaleIsDead, StaleLockStays, FoundStale
  <2>5. CASE pc[p] # "unlink"
    <3>1. lock.by = p /\ ~Gone(lock.by)
      BY <1>1, <2>3, <2>5 DEF IInv, LockIsMine, LockHeld, Owning, Gone
    <3>2. pc'[p] # pc[p]
      BY <2>3, <2>t DEF Goto
    <3> QED BY <3>1, <3>2
  <2> QED BY <2>4, <2>5
<1> QED BY <1>1, Inductive, PTL DEF Spec, LockRemovalJustified

(* A recovery marker is removed only by its creator, which is alive: the   *)
(* marker of a crashed reclaimer stays.                                    *)
THEOREM MarkerStays == Spec => MarkerNeverStolen
<1>1. ASSUME IInv, [Next]_vars, Exists(marker), ~Exists(marker')
      PROVE  pc'[marker.by] # pc[marker.by] /\ ~Gone(marker.by)
  <2>t. /\ pc \in [Proc -> Point]
        /\ marker \in File \cup {NoFile}
    BY <1>1 DEF IInv, TypeOK
  <2>1. marker' # marker
    BY <1>1
  <2>2. PICK p \in Proc : Step(p)
    BY <1>1, <2>1 DEF Next, vars
  <2>3. Unmark(p) \/ UnlinkMarker(p)
    BY <1>1, <2>1, <2>2, <2>t, EmptyFileFacts, WrittenFacts
       DEF Step, Acquire, Start, CheckBlocker, CreateLock, FindLock, WriteLock,
           Recheck, BackOut, UnlinkLock, Stat, ReadOwner, ProbeOwner,
           CreateMarker, WriteMarker, StatAgain, ReadOwnerAgain,
           ProbeOwnerAgain, ConfirmLock, Recreate, VerifyLock, CleanLock,
           CleanMarker, Release, Throw, Die, FilesUnchanged, FreshInode
  <2>4. marker.by = p /\ ~Gone(p)
    BY <1>1, <2>3
      DEF Unmark, UnlinkMarker, IInv, MarkerIsMine, MarkerHeld, Reclaiming,
        Gone
  <2>5. pc'[p] # pc[p]
    BY <2>3, <2>t DEF Unmark, UnlinkMarker, Goto, AfterThrow, Reclaiming
  <2> QED BY <2>4, <2>5
<1> QED BY <1>1, Inductive, PTL DEF Spec, MarkerNeverStolen

(* Neither the lock nor the marker is taken from a live process.           *)
THEOREM FilesRespected == Spec => FilesAreRespected
BY RemovalJustified, MarkerStays DEF FilesAreRespected

-----------------------------------------------------------------------------
(* The refinement: becoming owner is Take, ceasing to be one is GiveUp, a  *)
(* refusal or a death before ownership is Refuse, and the rest stutters.   *)
LEMMA RefinesInit == Init => Ownership!Init
BY
   DEF Init, Ownership!Init, Holders, GoneFor, Owns, Owning, Refused,
       CleaningUp

(* Every step is an acquisition, a release, a death or a stutter of        *)
(* InstallationOwnership.                                                  *)
LEMMA RefinesStep ==
  ASSUME IInv, IInv', NEW p \in Proc, Step(p)
  PROVE  [Ownership!Next]_Ownership!vars
<1>t. pc \in [Proc -> Point]
  BY DEF IInv, TypeOK
<1>o. \A q \in Proc \ {p} : pc'[q] = pc[q]
  BY <1>t, StepMovesOne
<1>x. \A q \in Proc : Owns(q) => pc[q] \notin Refused
  BY DEF Owns, Owning, Refused, CleaningUp
<1>r. pc[p] \in Refused => pc'[p] \in Refused
  BY <1>t
     DEF Step, Acquire, Start, CheckBlocker, CreateLock, FindLock, WriteLock,
         Recheck, BackOut, UnlinkLock, Stat, ReadOwner, ProbeOwner,
         CreateMarker, WriteMarker, StatAgain, ReadOwnerAgain, ProbeOwnerAgain,
         ConfirmLock, Recreate, VerifyLock, Unmark, CleanLock, CleanMarker,
         UnlinkMarker, Release, Throw, Die, Goto, AfterThrow, Refused,
         CleaningUp, Reclaiming, Owning
<1>g. Owns(p) => Owns(p)' \/ pc'[p] \in Refused
  BY <1>t
     DEF Step, Acquire, Start, CheckBlocker, CreateLock, FindLock, WriteLock,
         Recheck, BackOut, UnlinkLock, Stat, ReadOwner, ProbeOwner,
         CreateMarker, WriteMarker, StatAgain, ReadOwnerAgain, ProbeOwnerAgain,
         ConfirmLock, Recreate, VerifyLock, Unmark, CleanLock, CleanMarker,
         UnlinkMarker, Release, Throw, Die, Goto, AfterThrow, Refused,
         CleaningUp, Reclaiming, Owning, Owns
<1>1. CASE ~Owns(p) /\ Owns(p)'
  <2>1. \A q \in Proc : ~Owns(q)
    <3>1. \A q \in Proc \ {p} : Owns(q) => Owns(q)'
      BY <1>o DEF Owns
    <3>2. \A q, r \in Proc : Owns(q)' /\ Owns(r)' => q = r
      BY DEF IInv, LockIsMine, LockHeld, Owns
    <3> QED BY <1>1, <3>1, <3>2
  <2>2. Holders = {} /\ Holders' = {p}
    BY <1>1, <1>o, <2>1 DEF Holders, Owns
  <2>3. p \notin GoneFor /\ GoneFor' = GoneFor
    BY <1>1, <1>o, <1>r, <1>x DEF GoneFor, Owns, Owning, Refused, CleaningUp
  <2> QED BY <2>2, <2>3 DEF Ownership!Next, Ownership!Take
<1>2. CASE Owns(p) /\ ~Owns(p)'
  <2>1. p \in Holders /\ Holders' = Holders \ {p}
    BY <1>2, <1>o DEF Holders, Owns
  <2>2. GoneFor' = GoneFor \cup {p}
    BY <1>2, <1>g, <1>o DEF GoneFor
  <2> QED BY <2>1, <2>2 DEF Ownership!Next, Ownership!GiveUp
<1>3. CASE ~Owns(p) /\ ~Owns(p)' /\ pc[p] \notin Refused /\ pc'[p] \in Refused
  <2>1. p \notin Holders /\ Holders' = Holders
    BY <1>3, <1>o DEF Holders, Owns
  <2>2. GoneFor' = GoneFor \cup {p}
    BY <1>3, <1>o DEF GoneFor
  <2> QED BY <2>1, <2>2 DEF Ownership!Next, Ownership!Refuse
<1>4. CASE /\ Owns(p) <=> Owns(p)'
           /\ pc[p] \in Refused <=> pc'[p] \in Refused
  <2>1. Holders' = Holders /\ GoneFor' = GoneFor
    BY <1>4, <1>o DEF Holders, GoneFor, Owns
  <2> QED BY <2>1 DEF Ownership!vars
<1>5. Owns(p) /\ Owns(p)' => pc[p] \notin Refused /\ pc'[p] \notin Refused
  BY DEF Owns, Owning, Refused, CleaningUp
<1> QED BY <1>1, <1>2, <1>3, <1>4, <1>5, <1>r

(* The lock protocol implements the abstract ownership of the              *)
(* installation, however its system calls interleave, fail or stop.        *)
THEOREM ImplementsOwnership == Spec => OwnershipSpec
<1>1. ASSUME IInv, IInv', [Next]_vars
      PROVE  [Ownership!Next]_Ownership!vars
  <2>1. CASE Next
    BY <1>1, <2>1, RefinesStep DEF Next
  <2>2. CASE UNCHANGED vars
    BY <2>2 DEF vars, Ownership!vars, Holders, GoneFor, Owns
  <2> QED BY <1>1, <2>1, <2>2
<1> QED
  BY <1>1, RefinesInit, Inductive, PTL
     DEF Spec, OwnershipSpec, Ownership!Spec

-----------------------------------------------------------------------------
(* The start-up of the database (Mig is the module Migrations).            *)
Enters   == {"tables?", "tables"}
AddsRuns == {"runcols?", "runcols"}
AddsJobs == {"jobcols?", "jobcols"}
Ready    == {"version?", "assets?", "rename", "recreate", "report", "version1", "keys", "aside",
             "version2", "media?", "copy", "copying", "describe", "version3", "up"}
Seeds    == {"artifact?", "artifact", "project?", "project"} \cup Ready
Purges   == {"purge?", "purge"} \cup Seeds
StartPoint == {"down", "failed", "names"} \cup Enters \cup AddsRuns \cup AddsJobs \cup Purges
Keyed    == {"version2", "media?", "copy", "copying", "describe", "version3", "up"}
Settled  == {"aside", "keys"} \cup Keyed
Media    == {"copy", "copying", "describe"}

Database == [tables : BOOLEAN, cols : SUBSET Mig!Cols, names : BOOLEAN, windows : BOOLEAN,
             old : BOOLEAN, jobs : SUBSET {"current", "purged"}, project : BOOLEAN,
             artifact : BOOLEAN, assets : {"legacy", "none", "current"},
             aside : {"none", "empty", "rows"}, keys : {"absolute", "relative"},
             media : {"old", "new"}, file : {"old", "torn", "new"}, version : 0 .. 3]
Starts   == [pc : StartPoint, seen : SUBSET (Mig!Cols \cup {"all", "assets", "old", "artifact",
                                                            "project", "rename"}),
             version : 0 .. 3, alone : BOOLEAN]

(* What a database is, whoever has migrated it, and how far.               *)
Sound(d) ==
  /\ ~d.tables => d.assets = "none"
  /\ d.assets = "legacy" => d.aside = "none"
  /\ d.version >= 1 => d.assets = "current"
  /\ d.version >= 2 => d.keys = "relative"
  /\ d.version >= 3 => d.media = "new"
  /\ d.media = "new" => d.file # "old"

(* What no start takes back.                                               *)
Later(d, e) ==
  /\ d.tables => e.tables
  /\ d.cols \subseteq e.cols
  /\ ~d.names => ~e.names
  /\ ~d.windows => ~e.windows
  /\ ~d.old => ~e.old
  /\ "purged" \notin d.jobs => "purged" \notin e.jobs
  /\ "current" \in d.jobs => "current" \in e.jobs
  /\ d.project => e.project
  /\ d.assets # "legacy" => e.assets # "legacy"
  /\ d.assets = "current" => e.assets = "current"
  /\ d.assets = "legacy" => e.assets = "legacy" \/ e.aside = "rows"
  /\ d.aside = "rows" => e.aside = "rows"
  /\ d.keys = "relative" => e.keys = "relative"
  /\ d.media = "new" => e.media = "new"
  /\ d.version >= 1 => e.version >= 1

(* What a start has done, in company or alone, where it has come to.       *)
Done(w, d) ==
  /\ w.pc = "tables" /\ "all" \notin w.seen => d.tables
  /\ w.pc \notin {"down", "failed"} \cup Enters => d.tables
  /\ w.pc \in {"runcols", "jobcols"} => w.seen \subseteq Mig!Cols
  /\ w.pc = "runcols" => RunCols \subseteq d.cols \cup w.seen
  /\ w.pc \in {"names"} \cup AddsJobs \cup Purges => RunCols \subseteq d.cols
  /\ w.pc \in AddsJobs \cup Purges => ~d.names
  /\ w.pc = "jobcols" => JobCols \subseteq d.cols \cup w.seen
  /\ w.pc \in Purges => JobCols \subseteq d.cols
  /\ w.pc = "purge" /\ w.seen = {} => ~d.old
  /\ w.pc \in Seeds => ~d.windows /\ ~d.old /\ "purged" \notin d.jobs
  /\ w.pc = "project" /\ w.seen = {} => d.project
  /\ w.pc \in Ready => d.project
  /\ w.pc = "rename" => IF w.seen = {} THEN d.assets # "legacy"
                        ELSE d.assets = "legacy" \/ d.aside = "rows"
  /\ w.pc = "recreate" => d.assets # "legacy"
  /\ w.pc \in {"report", "version1"} => d.assets = "current"
  /\ w.pc \in Settled => d.version >= 1
  /\ w.pc = "aside" /\ w.version >= 2 => d.keys = "relative"
  /\ w.pc = "aside" /\ w.version >= 3 => d.media = "new"
  /\ w.pc \in Keyed => d.keys = "relative"
  /\ w.pc \in {"version3", "up"} => d.media = "new"

(* What one that is alone knows of the database: nobody has touched it     *)
(* since it looked.                                                        *)
Knows(w, d) ==
  /\ w.pc = "tables" => /\ "all" \in w.seen => ~d.tables
                        /\ "assets" \in w.seen => d.assets = "none"
  /\ w.pc \in {"runcols", "jobcols"} => w.seen \cap d.cols = {}
  /\ w.pc = "purge" => ("old" \in w.seen => d.old)
  /\ w.pc = "artifact" => (w.seen # {} => ~d.artifact)
  /\ w.pc = "project" => (w.seen # {} => ~d.project)
  /\ w.pc = "rename" => (w.seen # {} => d.assets = "legacy")
  /\ w.pc \in Media => d.media = "old"
  /\ w.pc = "describe" => d.file = "new"

StartsAlone(p) ==
  start[p].alone =>
    /\ start[p].pc # "failed"
    /\ Mig!Starting(p) => Knows(start[p], db) /\ \A q \in Starter \ {p} : ~Mig!Starting(q)

DatabaseInv ==
  /\ db \in Database /\ start \in [Starter -> Starts]
  /\ Sound(db)
  /\ db.file = "torn" => lost \/ db.media # "new" \/ \E p \in Starter : start[p].pc = "copying"
  /\ Mig!RowsStay
  /\ \A p \in Starter : Done(start[p], db) /\ StartsAlone(p)

-----------------------------------------------------------------------------
LEMMA DoneLater ==
  ASSUME NEW w, NEW d, NEW e, Done(w, d), Later(d, e)
  PROVE  Done(w, e)
<1>1. w.pc = "rename" => IF w.seen = {} THEN e.assets # "legacy"
                         ELSE e.assets = "legacy" \/ e.aside = "rows"
  BY DEF Done, Later
<1>2. /\ w.pc = "runcols" => RunCols \subseteq e.cols \cup w.seen
      /\ w.pc = "jobcols" => JobCols \subseteq e.cols \cup w.seen
      /\ w.pc \in {"names"} \cup AddsJobs \cup Purges => RunCols \subseteq e.cols
      /\ w.pc \in Purges => JobCols \subseteq e.cols
  BY DEF Done, Later
<1> QED BY <1>1, <1>2 DEF Done, Later

(* A step of a start that is under way: w is what it becomes, e what the   *)
(* database becomes.                                                       *)
Moves(p, w, e) ==
  /\ w \in Starts /\ e \in Database
  /\ db' = e /\ start' = [start EXCEPT ![p] = w]
  /\ w.alone = start[p].alone
  /\ UNCHANGED <<lost, was>>

LEMMA StartMoves ==
  ASSUME DatabaseInv, NEW p \in Starter, Mig!Starting(p), NEW w, NEW e, Moves(p, w, e),
         Sound(e), Later(db, e), Done(w, e),
         w.alone => w.pc # "failed" /\ (w.pc \in {"down", "up"} \/ Knows(w, e)),
         \/ e.file # "torn" \/ e.media # "new" \/ w.pc = "copying"
         \/ db.file = "torn" /\ db.media = "new" /\ start[p].pc # "copying"
  PROVE  DatabaseInv'
<1>1. /\ db' = e /\ start' \in [Starter -> Starts] /\ start'[p] = w
      /\ \A q \in Starter \ {p} : start'[q] = start[q]
      /\ lost' = lost /\ was' = was
  BY DEF Moves, DatabaseInv
<1>2. \A q \in Starter : Done(start'[q], db')
  <2>1. \A q \in Starter \ {p} : Done(start'[q], db')
    BY <1>1, DoneLater DEF DatabaseInv
  <2> QED BY <1>1, <2>1
<1>3. ASSUME NEW q \in Starter PROVE StartsAlone(q)'
  <2>1. CASE q = p
    <3>1. start[p].alone => \A r \in Starter \ {p} : ~Mig!Starting(r)
      BY DEF DatabaseInv, StartsAlone
    <3>2. \A r \in Starter \ {p} : Mig!Starting(r)' <=> Mig!Starting(r)
      BY <1>1 DEF Mig!Starting
    <3>3. Mig!Starting(p)' => w.pc \notin {"down", "up"}
      BY <1>1 DEF Mig!Starting
    <3> QED BY <1>1, <2>1, <3>1, <3>2, <3>3 DEF StartsAlone, Moves
  <2>2. CASE q # p
    <3>1. start'[q] = start[q] /\ (Mig!Starting(q)' <=> Mig!Starting(q))
      BY <1>1, <2>2 DEF Mig!Starting
    <3>2. start[q].alone => ~Mig!Starting(q) /\ start[q].pc # "failed"
      BY <2>2 DEF DatabaseInv, StartsAlone
    <3> QED BY <3>1, <3>2 DEF StartsAlone
  <2> QED BY <2>1, <2>2
<1>4. db'.file = "torn" => lost' \/ db'.media # "new" \/ \E r \in Starter : start'[r].pc = "copying"
  <2>1. CASE db.file = "torn" /\ db.media = "new" /\ start[p].pc # "copying"
    <3>1. lost \/ \E r \in Starter \ {p} : start[r].pc = "copying"
      BY <2>1 DEF DatabaseInv
    <3> QED BY <1>1, <3>1
  <2> QED BY <1>1, <2>1
<1>5. Mig!RowsStay'
  BY <1>1 DEF DatabaseInv, Mig!RowsStay, Later
<1> QED BY <1>1, <1>2, <1>3, <1>4, <1>5 DEF DatabaseInv, Moves

LEMMA GoesForm ==
  ASSUME DatabaseInv, NEW p \in Starter, NEW here \in StartPoint, Mig!Goes(p, here)
  PROVE  \E w \in Starts : /\ start' = [start EXCEPT ![p] = w] /\ w.alone = start[p].alone
                           /\ w.pc = here /\ w.seen = start[p].seen /\ w.version = start[p].version
<1> DEFINE w == [start[p] EXCEPT !.pc = here]
<1>1. start[p] \in Starts
  BY DEF DatabaseInv
<1>2. w \in Starts /\ w.alone = start[p].alone
      /\ w.pc = here /\ w.seen = start[p].seen /\ w.version = start[p].version
  BY <1>1 DEF Starts
<1>3. start' = [start EXCEPT ![p] = w]
  BY DEF Mig!Goes
<1> QED BY <1>2, <1>3

Things == Mig!Cols \cup {"all", "assets", "old", "artifact", "project", "rename"}

LEMMA SeesForm ==
  ASSUME DatabaseInv, NEW p \in Starter, NEW here \in StartPoint, NEW S \in SUBSET Things, Mig!Sees(p, S, here)
  PROVE  \E w \in Starts : /\ start' = [start EXCEPT ![p] = w] /\ w.alone = start[p].alone
                           /\ w.pc = here /\ w.seen = S /\ w.version = start[p].version
<1> DEFINE w == [start[p] EXCEPT !.pc = here, !.seen = S]
<1>1. start[p] \in Starts
  BY DEF DatabaseInv
<1>2. w \in Starts /\ w.alone = start[p].alone
      /\ w.pc = here /\ w.seen = S /\ w.version = start[p].version
  BY <1>1 DEF Starts, Things
<1>3. start' = [start EXCEPT ![p] = w]
  BY <1>1 DEF Mig!Sees, DatabaseInv, Starts
<1> QED BY <1>2, <1>3

LEMMA SameLater == \A d : Later(d, d)
BY DEF Later

(* A start that only looks, or goes on.                                    *)
LEMMA StartLooks ==
  ASSUME DatabaseInv, NEW p \in Starter, Mig!Starting(p), NEW w, Moves(p, w, db),
         Done(w, db), start[p].pc # "copying",
         w.alone => w.pc # "failed" /\ (w.pc \in {"down", "up"} \/ Knows(w, db))
  PROVE  DatabaseInv'
<1>1. \/ db.file # "torn" \/ db.media # "new"
      \/ db.file = "torn" /\ db.media = "new" /\ start[p].pc # "copying"
  OBVIOUS
<1> QED BY <1>1, SameLater, StartMoves DEF DatabaseInv

(* A refused statement: the start was not alone.                           *)
LEMMA StartFails ==
  ASSUME DatabaseInv, NEW p \in Starter, Mig!Starting(p), start[p].pc # "copying",
         ~start[p].alone, Mig!Goes(p, "failed"), UNCHANGED <<db, lost, was>>
  PROVE  DatabaseInv'
<1>1. "failed" \in StartPoint
  BY DEF StartPoint
<1>2. PICK w \in Starts : /\ start' = [start EXCEPT ![p] = w] /\ w.alone = start[p].alone
                          /\ w.pc = "failed"
  BY <1>1, GoesForm
<1>3. Moves(p, w, db)
  BY <1>2 DEF Moves, DatabaseInv
<1>4. Done(w, db)
  BY <1>2 DEF Done, AddsJobs, Purges, Seeds, Ready, Settled, Keyed, Enters
<1> QED BY <1>2, <1>3, <1>4, StartLooks

LEMMA Started ==
  ASSUME DatabaseInv, NEW p \in Starter, Mig!Start(p) PROVE DatabaseInv'
<1> DEFINE others == {q \in Starter \ {p} : Mig!Starting(q)}
           Fresh(b) == [Mig!Down EXCEPT !.pc = "tables?", !.alone = b]
           w == Fresh(others = {})
<1>1. /\ start' = [q \in Starter |-> IF q = p THEN w
                     ELSE IF q \in others THEN [start[q] EXCEPT !.alone = FALSE]
                     ELSE start[q]]
      /\ UNCHANGED <<db, lost, was>> /\ ~Mig!Starting(p)
  BY DEF Mig!Start
<1>2. w \in Starts /\ w.pc = "tables?" /\ (w.alone <=> others = {})
  <2>1. ASSUME NEW b \in BOOLEAN
        PROVE  Fresh(b) \in Starts /\ Fresh(b).pc = "tables?" /\ Fresh(b).alone = b
    <3>1. "tables?" \in StartPoint
      BY DEF StartPoint, Enters
    <3>2. Mig!Down \in Starts
      BY DEF Mig!Down, Starts, StartPoint
    <3> HIDE DEF StartPoint
    <3> QED BY <3>1, <3>2 DEF Starts
  <2>2. (others = {}) \in BOOLEAN
    OBVIOUS
  <2> HIDE DEF Fresh, others
  <2> QED BY <2>1, <2>2
<1>3. ASSUME NEW q \in others
      PROVE  /\ [start[q] EXCEPT !.alone = FALSE] \in Starts
             /\ [start[q] EXCEPT !.alone = FALSE].pc = start[q].pc
             /\ [start[q] EXCEPT !.alone = FALSE].seen = start[q].seen
             /\ [start[q] EXCEPT !.alone = FALSE].version = start[q].version
             /\ [start[q] EXCEPT !.alone = FALSE].alone = FALSE
  BY DEF DatabaseInv, Starts
<1> HIDE DEF w, Fresh
<1>4. /\ start' \in [Starter -> Starts] /\ start'[p] = w
      /\ \A q \in Starter \ {p} :
           /\ start'[q].pc = start[q].pc /\ start'[q].seen = start[q].seen
           /\ start'[q].version = start[q].version
           /\ start'[q].alone => start[q].alone /\ q \notin others
           /\ q \notin others => start'[q] = start[q]
  BY <1>1, <1>2, <1>3 DEF DatabaseInv
<1>5. \A q \in Starter : Done(start'[q], db')
  <2>1. Done(w, db)
    BY <1>2 DEF Done, AddsJobs, Purges, Seeds, Ready, Settled, Keyed, Enters
  <2>2. ASSUME NEW q \in Starter \ {p} PROVE Done(start'[q], db)
    BY <1>4 DEF DatabaseInv, Done
  <2> QED BY <1>1, <1>4, <2>1, <2>2
<1>6. ASSUME NEW q \in Starter PROVE StartsAlone(q)'
  <2>1. CASE q = p
    <3>1. w.alone => \A r \in Starter \ {p} : ~Mig!Starting(r)'
      BY <1>2, <1>4 DEF Mig!Starting
    <3>2. Knows(w, db)
      BY <1>2 DEF Knows, Media
    <3> QED BY <1>1, <1>2, <1>4, <2>1, <3>1, <3>2 DEF StartsAlone
  <2>2. CASE q # p
    <3>1. start'[q].alone => ~Mig!Starting(q)' /\ start'[q].pc # "failed"
      BY <1>4, <2>2 DEF Mig!Starting, DatabaseInv, StartsAlone
    <3> QED BY <3>1 DEF StartsAlone
  <2> QED BY <2>1, <2>2
<1>7. db'.file = "torn" => lost' \/ db'.media # "new" \/ \E r \in Starter : start'[r].pc = "copying"
  <2>1. start[p].pc # "copying"
    BY <1>1 DEF Mig!Starting
  <2> QED BY <1>1, <1>4, <2>1 DEF DatabaseInv
<1>8. Mig!RowsStay'
  BY <1>1 DEF DatabaseInv, Mig!RowsStay
<1> QED BY <1>1, <1>4, <1>5, <1>6, <1>7, <1>8 DEF DatabaseInv

LEMMA Died ==
  ASSUME DatabaseInv, NEW p \in Starter, Mig!Dies(p) PROVE DatabaseInv'
<1>1. /\ start' = [start EXCEPT ![p] = Mig!Down] /\ UNCHANGED <<db, was>>
      /\ lost' = (lost \/ (start[p].pc = "copying" /\ ~start[p].alone))
      /\ Mig!Starting(p)
  BY DEF Mig!Dies, Mig!Here
<1>2. Mig!Down \in Starts /\ Mig!Down.pc = "down"
  BY DEF Starts, Mig!Down, StartPoint
<1>3. /\ start' \in [Starter -> Starts] /\ start'[p] = Mig!Down
      /\ \A q \in Starter \ {p} : start'[q] = start[q]
  BY <1>1, <1>2 DEF DatabaseInv
<1>4. \A q \in Starter : Done(start'[q], db')
  <2>1. Done(Mig!Down, db)
    BY <1>2 DEF Done, AddsJobs, Purges, Seeds, Ready, Settled, Keyed, Enters
  <2> QED BY <1>1, <1>3, <2>1 DEF DatabaseInv
<1>5. ASSUME NEW q \in Starter PROVE StartsAlone(q)'
  <2>1. CASE q = p
    BY <1>2, <1>3, <2>1 DEF StartsAlone, Mig!Starting
  <2>2. CASE q # p
    <3>1. start'[q] = start[q] /\ (start[q].alone => ~Mig!Starting(q)) /\ (Mig!Starting(q)' <=> Mig!Starting(q))
      BY <1>1, <1>3, <2>2 DEF DatabaseInv, StartsAlone, Mig!Starting
    <3> QED BY <3>1 DEF DatabaseInv, StartsAlone
  <2> QED BY <2>1, <2>2
<1>6. db'.file = "torn" => lost' \/ db'.media # "new" \/ \E r \in Starter : start'[r].pc = "copying"
  <2>1. CASE start[p].pc = "copying" /\ start[p].alone
    <3>1. db.media = "old"
      BY <1>1, <2>1 DEF DatabaseInv, StartsAlone, Knows, Media
    <3> QED BY <1>1, <3>1
  <2>2. CASE start[p].pc = "copying" /\ ~start[p].alone
    BY <1>1, <2>2
  <2>3. CASE start[p].pc # "copying"
    BY <1>1, <1>3, <2>3 DEF DatabaseInv
  <2> QED BY <2>1, <2>2, <2>3
<1>7. Mig!RowsStay'
  BY <1>1 DEF DatabaseInv, Mig!RowsStay
<1> QED BY <1>1, <1>3, <1>4, <1>5, <1>6, <1>7 DEF DatabaseInv

(* A statement: what it makes of the database is sound, takes nothing back *)
(* and is what the next place relies on.                                   *)
LEMMA StatementStep ==
  ASSUME DatabaseInv, NEW p \in Starter, Mig!Starting(p), NEW ok, NEW e,
         NEW here \in StartPoint \ {"failed"}, Mig!Statement(p, ok, e, here),
         start[p].alone => ok,
         ~ok => start[p].pc # "copying",
         ok => /\ e \in Database /\ Sound(e) /\ Later(db, e)
               /\ \A w \in Starts :
                    w.pc = here /\ w.seen = start[p].seen /\ w.version = start[p].version =>
                      /\ Done(w, e)
                      /\ start[p].alone => here \in {"down", "up"} \/ Knows(w, e)
               /\ \/ e.file # "torn" \/ e.media # "new" \/ here = "copying"
                  \/ db.file = "torn" /\ db.media = "new" /\ start[p].pc # "copying"
  PROVE  DatabaseInv'
<1>1. CASE ok
  <2>1. db' = e /\ Mig!Goes(p, here) /\ UNCHANGED <<lost, was>>
    BY <1>1 DEF Mig!Statement
  <2>2. PICK w \in Starts : /\ start' = [start EXCEPT ![p] = w] /\ w.alone = start[p].alone
                            /\ w.pc = here /\ w.seen = start[p].seen
                            /\ w.version = start[p].version
    BY <2>1, GoesForm
  <2>3. Moves(p, w, e)
    BY <1>1, <2>1, <2>2 DEF Moves
  <2>4. Done(w, e) /\ (w.alone => w.pc # "failed" /\ (w.pc \in {"down", "up"} \/ Knows(w, e)))
    BY <1>1, <2>2
  <2> QED BY <1>1, <2>2, <2>3, <2>4, StartMoves
<1>2. CASE ~ok
  <2>1. Mig!Goes(p, "failed") /\ UNCHANGED <<db, lost, was>>
    BY <1>2 DEF Mig!Statement
  <2> QED BY <1>2, <2>1, StartFails
<1> QED BY <1>1, <1>2

(* A look at the database.                                                 *)
LEMMA LookStep ==
  ASSUME DatabaseInv, NEW p \in Starter, Mig!Starting(p), start[p].pc # "copying",
         NEW here \in StartPoint \ {"failed"}, NEW S \in SUBSET Things, Mig!Sees(p, S, here),
         UNCHANGED <<db, lost, was>>,
         \A w \in Starts :
           w.pc = here /\ w.seen = S /\ w.version = start[p].version =>
             Done(w, db) /\ (start[p].alone => Knows(w, db))
  PROVE  DatabaseInv'
<1>1. PICK w \in Starts : /\ start' = [start EXCEPT ![p] = w] /\ w.alone = start[p].alone
                          /\ w.pc = here /\ w.seen = S
                          /\ w.version = start[p].version
  BY SeesForm
<1>2. Moves(p, w, db)
  BY <1>1 DEF Moves, DatabaseInv
<1> QED BY <1>1, <1>2, StartLooks

(* What is known where a start has come to.                                *)
LEMMA StartKnows ==
  ASSUME DatabaseInv, NEW p \in Starter
  PROVE  /\ start[p] \in Starts /\ db \in Database /\ Sound(db) /\ Done(start[p], db)
         /\ Mig!Starting(p) /\ start[p].alone => Knows(start[p], db)
BY DEF DatabaseInv, StartsAlone

LEMMA CreatedLater ==
  ASSUME NEW d \in Database, Sound(d)
  PROVE  /\ Mig!Created(d) \in Database /\ Sound(Mig!Created(d)) /\ Later(d, Mig!Created(d))
         /\ Mig!Created(d).tables
         /\ d.assets # "legacy" => Mig!Created(d).assets = "current"
         /\ Mig!Created(d).file = d.file /\ Mig!Created(d).media = d.media
<1>1. CASE d.tables
  BY <1>1 DEF Mig!Created, Database, Sound, Later
<1>2. CASE ~d.tables
  BY <1>2 DEF Mig!Created, Database, Sound, Later
<1> QED BY <1>1, <1>2

LEMMA LookedForTables ==
  ASSUME DatabaseInv, NEW p \in Starter, Mig!LookForTables(p) PROVE DatabaseInv'
<1> DEFINE S == {t \in {"all", "assets"} : IF t = "all" THEN ~db.tables ELSE db.assets = "none"}
<1>1. /\ start[p].pc = "tables?" /\ Mig!Sees(p, S, "tables") /\ UNCHANGED <<db, lost, was>>
      /\ Mig!Starting(p)
  BY DEF Mig!LookForTables, Mig!Here, Mig!Starting
<1>2. S \in SUBSET Things /\ "tables" \in StartPoint \ {"failed"}
  BY DEF Things, StartPoint, Enters
<1>3. ASSUME NEW w \in Starts, w.pc = "tables", w.seen = S PROVE Done(w, db) /\ Knows(w, db)
  BY <1>3 DEF Done, Knows, Media, AddsJobs, Purges, Seeds, Ready, Settled, Keyed, Enters
<1> QED BY <1>1, <1>2, <1>3, LookStep

LEMMA CreatedTables ==
  ASSUME DatabaseInv, NEW p \in Starter, Mig!CreateTables(p) PROVE DatabaseInv'
<1> DEFINE ok == /\ "all" \in start[p].seen => ~db.tables
                 /\ "assets" \in start[p].seen => db.assets = "none"
           e  == IF start[p].seen = {} THEN db ELSE Mig!Created(db)
<1>1. start[p].pc = "tables" /\ Mig!Statement(p, ok, e, "runcols?") /\ Mig!Starting(p)
  BY DEF Mig!CreateTables, Mig!Here, Mig!Starting
<1>2. start[p].alone => ok
  BY <1>1, StartKnows DEF Knows
<1>3. "runcols?" \in StartPoint \ {"failed"}
  BY DEF StartPoint, AddsRuns
<1>4. /\ e \in Database /\ Sound(e) /\ Later(db, e) /\ e.tables
      /\ e.file = db.file /\ e.media = db.media
  BY <1>1, StartKnows, CreatedLater, SameLater DEF Done
<1>5. ASSUME NEW w \in Starts, w.pc = "runcols?" PROVE Done(w, e) /\ Knows(w, e)
  BY <1>4, <1>5 DEF Done, Knows, Media, AddsJobs, Purges, Seeds, Ready, Settled, Keyed, Enters
<1> HIDE DEF e, ok
<1> QED BY <1>1, <1>2, <1>3, <1>4, <1>5, StatementStep

LEMMA LookedForColumns ==
  ASSUME DatabaseInv, NEW p \in Starter,
         \/ Mig!LookForColumns(p, "runcols?", RunCols, "runcols")
         \/ Mig!LookForColumns(p, "jobcols?", JobCols, "jobcols")
  PROVE  DatabaseInv'
<1>1. CASE Mig!LookForColumns(p, "runcols?", RunCols, "runcols")
  <2>1. /\ start[p].pc = "runcols?" /\ Mig!Sees(p, RunCols \ db.cols, "runcols")
        /\ UNCHANGED <<db, lost, was>> /\ Mig!Starting(p)
    BY <1>1 DEF Mig!LookForColumns, Mig!Here, Mig!Starting
  <2>2. RunCols \ db.cols \in SUBSET Things /\ "runcols" \in StartPoint \ {"failed"}
    BY DEF Things, StartPoint, AddsRuns, Mig!Cols
  <2>3. db.tables
    BY <2>1, StartKnows DEF Done, Enters
  <2>4. ASSUME NEW w \in Starts, w.pc = "runcols", w.seen = RunCols \ db.cols
        PROVE  Done(w, db) /\ Knows(w, db)
    BY <2>3, <2>4 DEF Done, Mig!Cols, Knows, Media, AddsJobs, Purges, Seeds, Ready, Settled, Keyed, Enters
  <2> QED BY <2>1, <2>2, <2>4, LookStep
<1>2. CASE Mig!LookForColumns(p, "jobcols?", JobCols, "jobcols")
  <2>1. /\ start[p].pc = "jobcols?" /\ Mig!Sees(p, JobCols \ db.cols, "jobcols")
        /\ UNCHANGED <<db, lost, was>> /\ Mig!Starting(p)
    BY <1>2 DEF Mig!LookForColumns, Mig!Here, Mig!Starting
  <2>2. JobCols \ db.cols \in SUBSET Things /\ "jobcols" \in StartPoint \ {"failed"}
    BY DEF Things, StartPoint, AddsJobs, Mig!Cols
  <2>3. db.tables /\ RunCols \subseteq db.cols /\ ~db.names
    BY <2>1, StartKnows DEF Done, Enters, AddsJobs
  <2>4. ASSUME NEW w \in Starts, w.pc = "jobcols", w.seen = JobCols \ db.cols
        PROVE  Done(w, db) /\ Knows(w, db)
    BY <2>3, <2>4 DEF Done, Mig!Cols, Knows, Media, Purges, Seeds, Ready, Settled, Keyed, Enters
  <2> QED BY <2>1, <2>2, <2>4, LookStep
<1> QED BY <1>1, <1>2

LEMMA AddedColumn ==
  ASSUME DatabaseInv, NEW p \in Starter,
         \/ Mig!AddColumn(p, "runcols", "names") \/ Mig!AddColumn(p, "jobcols", "purge?")
  PROVE  DatabaseInv'
<1> DEFINE here == start[p].pc
           to   == IF here = "runcols" THEN "names" ELSE "purge?"
           Places == AddsJobs \cup Purges \cup {"names"} \cup AddsRuns \cup Enters
<1>1. here \in {"runcols", "jobcols"} /\ Mig!AddColumn(p, here, to) /\ Mig!Starting(p)
      /\ UNCHANGED <<lost, was>>
  BY DEF Mig!AddColumn, Mig!Here, Mig!Starting
<1>2. {here, to} \subseteq StartPoint \ {"failed"} /\ here # "copying"
  BY <1>1 DEF StartPoint, AddsRuns, AddsJobs, Purges
<1>3. /\ start[p] \in Starts /\ db \in Database /\ Sound(db) /\ Done(start[p], db)
      /\ start[p].alone => start[p].seen \cap db.cols = {}
  BY <1>1, StartKnows DEF Knows
<1>4. CASE start[p].seen = {}
  <2>1. Mig!Goes(p, to) /\ UNCHANGED <<db, lost, was>>
    BY <1>1, <1>4 DEF Mig!AddColumn
  <2>2. PICK w \in Starts : /\ start' = [start EXCEPT ![p] = w] /\ w.alone = start[p].alone
                            /\ w.pc = to
    BY <1>2, <2>1, GoesForm
  <2>3. Moves(p, w, db)
    BY <2>1, <2>2, <1>3 DEF Moves
  <2>4. Done(w, db)
    <3>1. CASE here = "runcols"
      BY <1>3, <1>4, <2>2, <3>1 DEF Done, Purges, AddsJobs, Seeds, Ready, Settled, Keyed, Enters
    <3>2. CASE here = "jobcols"
      BY <1>3, <1>4, <2>2, <3>2 DEF Done, Purges, AddsJobs, Seeds, Ready, Settled, Keyed, Enters
    <3> QED BY <1>1, <3>1, <3>2
  <2>5. Knows(w, db) /\ w.pc # "failed"
    BY <2>2 DEF Knows, Media
  <2> QED BY <1>1, <1>2, <2>3, <2>4, <2>5, StartLooks
<1>5. CASE start[p].seen # {}
  <2>1. PICK c \in start[p].seen :
          IF c \in db.cols THEN Mig!Goes(p, "failed") /\ UNCHANGED db
          ELSE /\ db' = [db EXCEPT !.cols = @ \cup {c}]
               /\ Mig!Sees(p, start[p].seen \ {c}, here)
    BY <1>1, <1>5 DEF Mig!AddColumn
  <2>2. CASE c \in db.cols
    BY <1>1, <1>2, <1>3, <2>1, <2>2, StartFails
  <2>3. CASE c \notin db.cols
    <3> DEFINE S == start[p].seen \ {c}
               e == [db EXCEPT !.cols = @ \cup {c}]
    <3>1. S \in SUBSET Things
      BY <1>3 DEF Starts, Things
    <3>2. PICK w \in Starts : /\ start' = [start EXCEPT ![p] = w] /\ w.alone = start[p].alone
                              /\ w.pc = here /\ w.seen = S
      BY <1>2, <2>1, <2>3, <3>1, SeesForm
    <3>3. start[p].seen \subseteq Mig!Cols
      BY <1>1, <1>3 DEF Done
    <3>4. /\ e \in Database /\ Sound(e) /\ Later(db, e) /\ e.cols = db.cols \cup {c}
          /\ e.file = db.file /\ e.media = db.media /\ e.tables = db.tables /\ e.names = db.names
      BY <1>3, <3>3 DEF Database, Sound, Later
    <3> HIDE DEF e
    <3>5. Moves(p, w, e)
      BY <1>1, <2>1, <2>3, <3>2, <3>4 DEF Moves, e
    <3>6. Done(w, e)
      <4>1. CASE here = "runcols"
        BY <1>3, <3>2, <3>4, <4>1 DEF Done, Purges, AddsJobs, Seeds, Ready, Settled, Keyed, Enters
      <4>2. CASE here = "jobcols"
        BY <1>3, <3>2, <3>4, <4>2 DEF Done, Purges, AddsJobs, Seeds, Ready, Settled, Keyed, Enters
      <4> QED BY <1>1, <4>1, <4>2
    <3>7. w.alone => Knows(w, e) /\ w.pc # "failed"
      BY <1>1, <1>3, <3>2, <3>4 DEF Knows, Media
    <3>8. \/ e.file # "torn" \/ e.media # "new"
          \/ db.file = "torn" /\ db.media = "new" /\ start[p].pc # "copying"
      BY <1>2, <3>4
    <3> QED BY <1>1, <3>4, <3>5, <3>6, <3>7, <3>8, StartMoves
  <2> QED BY <2>2, <2>3
<1> QED BY <1>4, <1>5

LEMMA NamesRewritten ==
  ASSUME DatabaseInv, NEW p \in Starter, Mig!RewriteNames(p) PROVE DatabaseInv'
<1> DEFINE e == [db EXCEPT !.names = FALSE]
<1>1. start[p].pc = "names" /\ Mig!Statement(p, TRUE, e, "jobcols?") /\ Mig!Starting(p)
  BY DEF Mig!RewriteNames, Mig!Here, Mig!Starting
<1>2. "jobcols?" \in StartPoint \ {"failed"}
  BY DEF StartPoint, AddsJobs
<1>3. db.tables /\ RunCols \subseteq db.cols /\ db \in Database /\ Sound(db)
  BY <1>1, StartKnows DEF Done, Enters
<1>4. /\ e \in Database /\ Sound(e) /\ Later(db, e) /\ e.tables /\ ~e.names
      /\ RunCols \subseteq e.cols /\ e.file = db.file /\ e.media = db.media
  <2>1. e \in Database
    BY <1>3 DEF Database
  <2>2. Sound(e) /\ Later(db, e)
    BY <1>3 DEF Database, Sound, Later
  <2> QED BY <1>3, <2>1, <2>2 DEF Database
<1> HIDE DEF e
<1>5. ASSUME NEW w \in Starts, w.pc = "jobcols?" PROVE Done(w, e) /\ Knows(w, e)
  BY <1>4, <1>5 DEF Done, Knows, Media, Purges, Seeds, Ready, Settled, Keyed, Enters
<1> QED BY <1>1, <1>2, <1>4, <1>5, StatementStep

LEMMA LookedForPurge ==
  ASSUME DatabaseInv, NEW p \in Starter, Mig!LookForPurge(p) PROVE DatabaseInv'
<1> DEFINE S == IF db.old THEN {"old"} ELSE {}
<1>1. /\ start[p].pc = "purge?" /\ Mig!Sees(p, S, "purge") /\ UNCHANGED <<db, lost, was>>
      /\ Mig!Starting(p)
  BY DEF Mig!LookForPurge, Mig!Here, Mig!Starting
<1>2. S \in SUBSET Things /\ "purge" \in StartPoint \ {"failed"}
  BY DEF Things, StartPoint, Purges
<1>3. db.tables /\ RunCols \subseteq db.cols /\ JobCols \subseteq db.cols /\ ~db.names
  BY <1>1, StartKnows DEF Done, Enters, Purges
<1>4. ASSUME NEW w \in Starts, w.pc = "purge", w.seen = S PROVE Done(w, db) /\ Knows(w, db)
  BY <1>3, <1>4 DEF Done, Knows, Media, Seeds, Ready, Settled, Keyed, Enters
<1> QED BY <1>1, <1>2, <1>4, LookStep

LEMMA Purged ==
  ASSUME DatabaseInv, NEW p \in Starter, Mig!Purge(p) PROVE DatabaseInv'
<1> DEFINE ok == /\ db.windows => JobCols \subseteq db.cols
                 /\ "old" \in start[p].seen => db.old
           e  == [db EXCEPT !.jobs = @ \ {"purged"}, !.windows = FALSE,
                            !.old = IF start[p].seen = {} THEN @ ELSE FALSE]
<1>1. start[p].pc = "purge" /\ Mig!Statement(p, ok, e, "artifact?") /\ Mig!Starting(p)
  BY DEF Mig!Purge, Mig!Here, Mig!Starting
<1>2. "artifact?" \in StartPoint \ {"failed"}
  BY DEF StartPoint, Purges, Seeds
<1>3. /\ db.tables /\ RunCols \subseteq db.cols /\ JobCols \subseteq db.cols /\ ~db.names
      /\ start[p].seen = {} => ~db.old
      /\ db \in Database /\ Sound(db)
  BY <1>1, StartKnows DEF Done, Enters, Purges
<1>4. start[p].alone => ok
  BY <1>1, <1>3, StartKnows DEF Knows
<1>5. /\ e \in Database /\ Sound(e) /\ Later(db, e) /\ e.tables /\ ~e.names
      /\ RunCols \subseteq e.cols /\ JobCols \subseteq e.cols
      /\ ~e.windows /\ ~e.old /\ "purged" \notin e.jobs
      /\ e.file = db.file /\ e.media = db.media
  BY <1>3 DEF Database, Sound, Later
<1> HIDE DEF e, ok
<1>6. ASSUME NEW w \in Starts, w.pc = "artifact?" PROVE Done(w, e) /\ Knows(w, e)
  BY <1>5, <1>6 DEF Done, Knows, Media, Ready, Settled, Keyed, Enters
<1> QED BY <1>1, <1>2, <1>4, <1>5, <1>6, StatementStep

(* What a start knows from the purge on.                                   *)
Cleaned(d) == /\ d.tables /\ RunCols \subseteq d.cols /\ JobCols \subseteq d.cols /\ ~d.names
              /\ ~d.windows /\ ~d.old /\ "purged" \notin d.jobs

LEMMA SeedsAreClean ==
  ASSUME DatabaseInv, NEW p \in Starter, start[p].pc \in Seeds
  PROVE  Cleaned(db) /\ db \in Database /\ Sound(db) /\ (start[p].pc \in Ready => db.project)
<1>1. start[p].pc \notin {"down", "failed"} \cup Enters /\ start[p].pc \in Purges
  BY DEF Seeds, Ready, Enters, Purges
<1>2. Done(start[p], db) /\ db \in Database /\ Sound(db)
  BY StartKnows
<1> HIDE DEF Seeds, Ready, Enters, Purges
<1> QED BY <1>1, <1>2 DEF Done, Cleaned

LEMMA LookedForArtifact ==
  ASSUME DatabaseInv, NEW p \in Starter, Mig!LookForArtifact(p) PROVE DatabaseInv'
<1> DEFINE S == IF db.project /\ ~db.artifact THEN {"artifact"} ELSE {}
<1>1. /\ start[p].pc = "artifact?" /\ Mig!Sees(p, S, "artifact") /\ UNCHANGED <<db, lost, was>>
      /\ Mig!Starting(p)
  BY DEF Mig!LookForArtifact, Mig!Here, Mig!Starting
<1>2. S \in SUBSET Things /\ "artifact" \in StartPoint \ {"failed"}
  BY DEF Things, StartPoint, Purges, Seeds
<1>3. Cleaned(db)
  BY <1>1, SeedsAreClean DEF Seeds
<1>4. ASSUME NEW w \in Starts, w.pc = "artifact", w.seen = S PROVE Done(w, db) /\ Knows(w, db)
  BY <1>3, <1>4 DEF Cleaned, Done, Knows, Media, Ready, Settled, Keyed, Enters
<1> QED BY <1>1, <1>2, <1>4, LookStep

LEMMA AddedArtifact ==
  ASSUME DatabaseInv, NEW p \in Starter, Mig!AddArtifact(p) PROVE DatabaseInv'
<1> DEFINE ok == start[p].seen # {} => ~db.artifact
           e  == [db EXCEPT !.artifact = @ \/ start[p].seen # {}]
<1>1. start[p].pc = "artifact" /\ Mig!Statement(p, ok, e, "project?") /\ Mig!Starting(p)
  BY DEF Mig!AddArtifact, Mig!Here, Mig!Starting
<1>2. "project?" \in StartPoint \ {"failed"}
  BY DEF StartPoint, Purges, Seeds
<1>3. Cleaned(db) /\ db \in Database /\ Sound(db)
  BY <1>1, SeedsAreClean DEF Seeds
<1>4. start[p].alone => ok
  BY <1>1, StartKnows DEF Knows
<1>5. /\ e \in Database /\ Sound(e) /\ Later(db, e) /\ Cleaned(e)
      /\ e.file = db.file /\ e.media = db.media
  <2>1. (db.artifact \/ start[p].seen # {}) \in BOOLEAN
    OBVIOUS
  <2> QED BY <1>3, <2>1 DEF Database, Sound, Later, Cleaned
<1> HIDE DEF e, ok
<1>6. ASSUME NEW w \in Starts, w.pc = "project?" PROVE Done(w, e) /\ Knows(w, e)
  BY <1>5, <1>6 DEF Cleaned, Done, Knows, Media, Ready, Settled, Keyed, Enters
<1> QED BY <1>1, <1>2, <1>4, <1>5, <1>6, StatementStep

LEMMA LookedForProject ==
  ASSUME DatabaseInv, NEW p \in Starter, Mig!LookForProject(p) PROVE DatabaseInv'
<1> DEFINE S == IF db.project THEN {} ELSE {"project"}
<1>1. /\ start[p].pc = "project?" /\ Mig!Sees(p, S, "project") /\ UNCHANGED <<db, lost, was>>
      /\ Mig!Starting(p)
  BY DEF Mig!LookForProject, Mig!Here, Mig!Starting
<1>2. S \in SUBSET Things /\ "project" \in StartPoint \ {"failed"}
  BY DEF Things, StartPoint, Purges, Seeds
<1>3. Cleaned(db)
  BY <1>1, SeedsAreClean DEF Seeds
<1>4. ASSUME NEW w \in Starts, w.pc = "project", w.seen = S PROVE Done(w, db) /\ Knows(w, db)
  BY <1>3, <1>4 DEF Cleaned, Done, Knows, Media, Ready, Settled, Keyed, Enters
<1> QED BY <1>1, <1>2, <1>4, LookStep

LEMMA Seeded ==
  ASSUME DatabaseInv, NEW p \in Starter, Mig!Seed(p) PROVE DatabaseInv'
<1> DEFINE ok == start[p].seen # {} => ~db.project
           e  == [db EXCEPT !.project = TRUE]
<1>1. start[p].pc = "project" /\ Mig!Statement(p, ok, e, "version?") /\ Mig!Starting(p)
  BY DEF Mig!Seed, Mig!Here, Mig!Starting
<1>2. "version?" \in StartPoint \ {"failed"}
  BY DEF StartPoint, Purges, Seeds, Ready
<1>3. Cleaned(db) /\ db \in Database /\ Sound(db)
  BY <1>1, SeedsAreClean DEF Seeds
<1>4. start[p].alone => ok
  BY <1>1, StartKnows DEF Knows
<1>5. /\ e \in Database /\ Sound(e) /\ Later(db, e) /\ Cleaned(e) /\ e.project
      /\ e.file = db.file /\ e.media = db.media
  BY <1>3 DEF Database, Sound, Later, Cleaned
<1> HIDE DEF e, ok
<1>6. ASSUME NEW w \in Starts, w.pc = "version?" PROVE Done(w, e) /\ Knows(w, e)
  BY <1>5, <1>6 DEF Cleaned, Done, Knows, Media, Settled, Keyed
<1> QED BY <1>1, <1>2, <1>4, <1>5, <1>6, StatementStep

LEMMA VersionRead ==
  ASSUME DatabaseInv, NEW p \in Starter, Mig!ReadVersion(p) PROVE DatabaseInv'
<1> DEFINE here == IF db.version < 1 THEN "assets?" ELSE "aside"
           w == [start[p] EXCEPT !.version = db.version, !.pc = here]
<1>1. /\ start[p].pc = "version?" /\ Mig!Starting(p) /\ UNCHANGED <<db, lost, was>>
      /\ start' = [start EXCEPT ![p].version = db.version, ![p].pc = here]
  BY DEF Mig!ReadVersion, Mig!Here, Mig!Starting
<1>2. Cleaned(db) /\ db \in Database /\ Sound(db) /\ db.project /\ start[p] \in Starts
  BY <1>1, SeedsAreClean, StartKnows DEF Seeds, Ready
<1>3. here \in StartPoint /\ db.version \in 0 .. 3
  BY <1>2 DEF StartPoint, Purges, Seeds, Ready, Database
<1>4. /\ w \in Starts /\ w.pc = here /\ w.version = db.version /\ w.alone = start[p].alone
      /\ start' = [start EXCEPT ![p] = w]
  BY <1>1, <1>2, <1>3 DEF Starts, DatabaseInv
<1>5. here = "aside" => db.version >= 1
  BY <1>3
<1>6. here \in {"assets?", "aside"}
  OBVIOUS
<1> HIDE DEF w, here
<1>7. Moves(p, w, db)
  BY <1>1, <1>2, <1>4 DEF Moves
<1>8. Done(w, db) /\ Knows(w, db) /\ w.pc # "failed"
  BY <1>2, <1>4, <1>5, <1>6 DEF Cleaned, Done, Knows, Media, Keyed, Settled, Sound
<1> QED BY <1>1, <1>7, <1>8, StartLooks

LEMMA LookedForAssets ==
  ASSUME DatabaseInv, NEW p \in Starter, Mig!LookForAssets(p) PROVE DatabaseInv'
<1> DEFINE S == IF db.assets = "legacy" THEN {"rename"} ELSE {}
<1>1. /\ start[p].pc = "assets?" /\ Mig!Sees(p, S, "rename") /\ UNCHANGED <<db, lost, was>>
      /\ Mig!Starting(p)
  BY DEF Mig!LookForAssets, Mig!Here, Mig!Starting
<1>2. S \in SUBSET Things /\ "rename" \in StartPoint \ {"failed"}
  BY DEF Things, StartPoint, Purges, Seeds, Ready
<1>3. Cleaned(db) /\ db.project
  BY <1>1, SeedsAreClean DEF Seeds, Ready
<1>4. ASSUME NEW w \in Starts, w.pc = "rename", w.seen = S PROVE Done(w, db) /\ Knows(w, db)
  BY <1>3, <1>4 DEF Cleaned, Done, Knows, Media, Settled, Keyed
<1> QED BY <1>1, <1>2, <1>4, LookStep

LEMMA RenamedAssets ==
  ASSUME DatabaseInv, NEW p \in Starter, Mig!RenameAssets(p) PROVE DatabaseInv'
<1> DEFINE looked == start[p].seen
           ok == looked # {} => db.assets # "none" /\ db.aside = "none"
           e  == IF looked = {} THEN db
                 ELSE [db EXCEPT !.assets = "none",
                                 !.aside = IF db.assets = "legacy" THEN "rows" ELSE "empty"]
<1>1. start[p].pc = "rename" /\ Mig!Statement(p, ok, e, "recreate") /\ Mig!Starting(p)
  BY DEF Mig!RenameAssets, Mig!Here, Mig!Starting
<1>2. "recreate" \in StartPoint \ {"failed"}
  BY DEF StartPoint, Purges, Seeds, Ready
<1>3. /\ Cleaned(db) /\ db.project /\ db \in Database /\ Sound(db)
      /\ IF looked = {} THEN db.assets # "legacy" ELSE db.assets = "legacy" \/ db.aside = "rows"
  BY <1>1, SeedsAreClean, StartKnows DEF Seeds, Ready, Done
<1>4. start[p].alone => ok
  BY <1>1, <1>3, StartKnows DEF Knows, Sound
<1>5. ASSUME ok
      PROVE  /\ e \in Database /\ Sound(e) /\ Later(db, e) /\ Cleaned(e)
             /\ e.project /\ e.assets # "legacy"
             /\ e.file = db.file /\ e.media = db.media
  <2>1. CASE looked = {}
    BY <1>3, <2>1, SameLater
  <2>2. CASE looked # {}
    <3>1. e = [db EXCEPT !.assets = "none", !.aside = "rows"] /\ db.assets = "legacy"
      BY <1>3, <1>5, <2>2
    <3>2. [db EXCEPT !.assets = "none", !.aside = "rows"] \in Database
      BY <1>3 DEF Database
    <3>3. db.version < 1
      BY <1>3, <3>1 DEF Sound, Database
    <3> QED BY <1>3, <3>1, <3>2, <3>3 DEF Database, Sound, Later, Cleaned
  <2> QED BY <2>1, <2>2
<1> HIDE DEF e, ok
<1>6. ASSUME ok, NEW w \in Starts, w.pc = "recreate" PROVE Done(w, e) /\ Knows(w, e)
  BY <1>5, <1>6 DEF Cleaned, Done, Knows, Media, Settled, Keyed
<1> QED BY <1>1, <1>2, <1>4, <1>5, <1>6, StatementStep

LEMMA RecreatedAssets ==
  ASSUME DatabaseInv, NEW p \in Starter, Mig!RecreateAssets(p) PROVE DatabaseInv'
<1> DEFINE e == Mig!Created(db)
<1>1. start[p].pc = "recreate" /\ Mig!Statement(p, TRUE, e, "report") /\ Mig!Starting(p)
  BY DEF Mig!RecreateAssets, Mig!Here, Mig!Starting
<1>2. "report" \in StartPoint \ {"failed"}
  BY DEF StartPoint, Purges, Seeds, Ready
<1>3. Cleaned(db) /\ db.project /\ db \in Database /\ Sound(db) /\ db.assets # "legacy"
  BY <1>1, SeedsAreClean, StartKnows DEF Seeds, Ready, Done
<1>4. /\ e \in Database /\ Sound(e) /\ Later(db, e) /\ e.assets = "current"
      /\ e.file = db.file /\ e.media = db.media
  BY <1>3, CreatedLater
<1>5. Cleaned(e) /\ e.project
  BY <1>3, <1>4 DEF Cleaned, Later
<1> HIDE DEF e
<1>6. ASSUME NEW w \in Starts, w.pc = "report" PROVE Done(w, e) /\ Knows(w, e)
  BY <1>4, <1>5, <1>6 DEF Cleaned, Done, Knows, Media, Settled, Keyed
<1> QED BY <1>1, <1>2, <1>4, <1>6, StatementStep

LEMMA ReportedAside ==
  ASSUME DatabaseInv, NEW p \in Starter, Mig!ReportAside(p) PROVE DatabaseInv'
<1> DEFINE e == [db EXCEPT !.aside = IF @ = "rows" THEN "rows" ELSE "none"]
           to == IF start[p].pc = "report" THEN "version1"
                 ELSE IF start[p].version < 2 THEN "keys"
                 ELSE IF start[p].version < 3 THEN "media?" ELSE "up"
<1>1. start[p].pc \in {"report", "aside"} /\ Mig!Statement(p, TRUE, e, to) /\ Mig!Starting(p)
  BY DEF Mig!ReportAside, Mig!Here, Mig!Starting
<1>2. to \in StartPoint \ {"failed"}
  BY DEF StartPoint, Purges, Seeds, Ready
<1>3. /\ Cleaned(db) /\ db.project /\ db \in Database /\ Sound(db)
      /\ start[p] \in Starts /\ Done(start[p], db)
  BY <1>1, SeedsAreClean, StartKnows DEF Seeds, Ready
<1>4. /\ e \in Database /\ Sound(e) /\ Later(db, e) /\ Cleaned(e) /\ e.project
      /\ e.file = db.file /\ e.media = db.media
      /\ e.keys = db.keys /\ e.version = db.version /\ e.assets = db.assets
  <2>1. e \in Database
    BY <1>3 DEF Database
  <2> QED BY <1>3, <2>1 DEF Database, Sound, Later, Cleaned
<1>5. \/ to = "version1" /\ db.assets = "current"
      \/ to = "keys" /\ db.version >= 1
      \/ to = "media?" /\ db.version >= 1 /\ db.keys = "relative"
      \/ to = "up" /\ db.version >= 1 /\ db.keys = "relative" /\ db.media = "new"
  <2>1. CASE start[p].pc = "report"
    BY <1>3, <2>1 DEF Done
  <2>2. CASE start[p].pc = "aside"
    <3>1. start[p].version \in 0 .. 3
      BY <1>3 DEF Starts
    <3>2. /\ db.version >= 1
          /\ start[p].version >= 2 => db.keys = "relative"
          /\ start[p].version >= 3 => db.media = "new"
      BY <1>3, <2>2 DEF Done, Settled
    <3> QED BY <2>2, <3>1, <3>2
  <2> QED BY <1>1, <2>1, <2>2
<1> HIDE DEF e, to
<1>6. ASSUME NEW w \in Starts, w.pc = to PROVE Done(w, e) /\ Knows(w, e)
  BY <1>4, <1>5, <1>6 DEF Cleaned, Done, Knows, Media, Settled, Keyed
<1> QED BY <1>1, <1>2, <1>4, <1>6, StatementStep

LEMMA KeysRewritten ==
  ASSUME DatabaseInv, NEW p \in Starter, Mig!RewriteKeys(p) PROVE DatabaseInv'
<1> DEFINE e == [db EXCEPT !.keys = "relative"]
<1>1. start[p].pc = "keys" /\ Mig!Statement(p, TRUE, e, "version2") /\ Mig!Starting(p)
  BY DEF Mig!RewriteKeys, Mig!Here, Mig!Starting
<1>2. "version2" \in StartPoint \ {"failed"}
  BY DEF StartPoint, Purges, Seeds, Ready
<1>3. Cleaned(db) /\ db.project /\ db \in Database /\ Sound(db) /\ db.version >= 1
  BY <1>1, SeedsAreClean, StartKnows DEF Seeds, Ready, Done, Settled
<1>4. /\ e \in Database /\ Sound(e) /\ Later(db, e) /\ Cleaned(e) /\ e.project
      /\ e.file = db.file /\ e.media = db.media
      /\ e.keys = "relative" /\ e.version = db.version
  <2>1. e \in Database
    BY <1>3 DEF Database
  <2> QED BY <1>3, <2>1 DEF Database, Sound, Later, Cleaned
<1> HIDE DEF e
<1>5. ASSUME NEW w \in Starts, w.pc = "version2" PROVE Done(w, e) /\ Knows(w, e)
  BY <1>3, <1>4, <1>5 DEF Cleaned, Done, Knows, Media, Settled, Keyed
<1> QED BY <1>1, <1>2, <1>4, <1>5, StatementStep

LEMMA KeyedAreKeyed ==
  ASSUME DatabaseInv, NEW p \in Starter, start[p].pc \in Keyed
  PROVE  /\ Cleaned(db) /\ db.project /\ db \in Database /\ Sound(db)
         /\ db.version >= 1 /\ db.keys = "relative"
<1>1. start[p].pc \in Seeds /\ start[p].pc \in Ready /\ start[p].pc \in Settled
  BY DEF Seeds, Ready, Settled, Keyed
<1> HIDE DEF Seeds, Ready, Settled, Keyed
<1> QED BY <1>1, SeedsAreClean, StartKnows DEF Done

LEMMA LookedForMedia ==
  ASSUME DatabaseInv, NEW p \in Starter, Mig!LookForMedia(p) PROVE DatabaseInv'
<1> DEFINE to == IF db.media = "new" THEN "version3" ELSE "copy"
<1>1. /\ start[p].pc = "media?" /\ Mig!Goes(p, to) /\ UNCHANGED <<db, lost, was>>
      /\ Mig!Starting(p)
  BY DEF Mig!LookForMedia, Mig!Here, Mig!Starting
<1>2. to \in StartPoint \ {"failed"}
  BY DEF StartPoint, Purges, Seeds, Ready
<1>3. PICK w \in Starts : /\ start' = [start EXCEPT ![p] = w] /\ w.alone = start[p].alone
                          /\ w.pc = to
  BY <1>1, <1>2, GoesForm
<1>4. /\ Cleaned(db) /\ db.project /\ db \in Database /\ db.version >= 1 /\ db.keys = "relative"
  BY <1>1, KeyedAreKeyed DEF Keyed
<1>5. Moves(p, w, db)
  BY <1>1, <1>3, <1>4 DEF Moves
<1>6. Done(w, db) /\ Knows(w, db) /\ w.pc # "failed"
  <2>1. (to = "version3" /\ db.media = "new") \/ (to = "copy" /\ db.media = "old")
    <3>1. db.media \in {"old", "new"}
      BY <1>4 DEF Database
    <3> QED BY <3>1
  <2> HIDE DEF to
  <2> QED BY <1>3, <1>4, <2>1 DEF Cleaned, Done, Knows, Media, Settled, Keyed
<1> QED BY <1>1, <1>5, <1>6, StartLooks

LEMMA CopiedMedia ==
  ASSUME DatabaseInv, NEW p \in Starter, Mig!CopyMedia(p) PROVE DatabaseInv'
<1> DEFINE new == IF start[p].pc = "copy" THEN "torn" ELSE "new"
           to  == IF start[p].pc = "copy" THEN "copying" ELSE "describe"
           e   == [db EXCEPT !.file = new]
<1>1. start[p].pc \in {"copy", "copying"} /\ Mig!Statement(p, TRUE, e, to) /\ Mig!Starting(p)
  BY DEF Mig!CopyMedia, Mig!Here, Mig!Starting
<1>2. to \in StartPoint \ {"failed"}
  BY DEF StartPoint, Purges, Seeds, Ready
<1>3. /\ Cleaned(db) /\ db.project /\ db \in Database /\ Sound(db)
      /\ db.version >= 1 /\ db.keys = "relative"
  BY <1>1, KeyedAreKeyed DEF Keyed
<1>4. start[p].alone => db.media = "old"
  BY <1>1, StartKnows DEF Knows, Media
<1>5. \/ to = "copying" /\ new = "torn"
      \/ to = "describe" /\ new = "new"
  BY <1>1
<1> HIDE DEF to, new
<1>6. /\ e \in Database /\ Sound(e) /\ Later(db, e) /\ Cleaned(e) /\ e.project
      /\ e.file = new /\ e.media = db.media /\ e.keys = db.keys /\ e.version = db.version
  <2>1. e \in Database
    BY <1>3, <1>5 DEF Database
  <2> QED BY <1>3, <1>5, <2>1 DEF Database, Sound, Later, Cleaned
<1> HIDE DEF e
<1>7. ASSUME NEW w \in Starts, w.pc = to
      PROVE  Done(w, e) /\ (start[p].alone => Knows(w, e))
  BY <1>3, <1>4, <1>5, <1>6, <1>7 DEF Cleaned, Done, Knows, Media, Settled, Keyed
<1> QED BY <1>1, <1>2, <1>5, <1>6, <1>7, StatementStep

LEMMA DescribedMedia ==
  ASSUME DatabaseInv, NEW p \in Starter, Mig!DescribeMedia(p) PROVE DatabaseInv'
<1> DEFINE ok == db.file = "new"
           e  == [db EXCEPT !.media = "new"]
<1>1. start[p].pc = "describe" /\ Mig!Statement(p, ok, e, "version3") /\ Mig!Starting(p)
  BY DEF Mig!DescribeMedia, Mig!Here, Mig!Starting
<1>2. "version3" \in StartPoint \ {"failed"}
  BY DEF StartPoint, Purges, Seeds, Ready
<1>3. /\ Cleaned(db) /\ db.project /\ db \in Database /\ Sound(db)
      /\ db.version >= 1 /\ db.keys = "relative"
  BY <1>1, KeyedAreKeyed DEF Keyed
<1>4. start[p].alone => ok
  BY <1>1, StartKnows DEF Knows
<1>5. ASSUME ok
      PROVE  /\ e \in Database /\ Sound(e) /\ Later(db, e) /\ Cleaned(e) /\ e.project
             /\ e.file = "new" /\ e.media = "new" /\ e.keys = db.keys /\ e.version = db.version
  <2>1. e \in Database
    BY <1>3 DEF Database
  <2> QED BY <1>3, <1>5, <2>1 DEF Database, Sound, Later, Cleaned
<1> HIDE DEF e, ok
<1>6. ASSUME ok, NEW w \in Starts, w.pc = "version3" PROVE Done(w, e) /\ Knows(w, e)
  BY <1>3, <1>5, <1>6 DEF Cleaned, Done, Knows, Media, Settled, Keyed
<1> QED BY <1>1, <1>2, <1>4, <1>5, <1>6, StatementStep

LEMMA VersionSet ==
  ASSUME DatabaseInv, NEW p \in Starter, Mig!Versions(p) PROVE DatabaseInv'
<1> DEFINE here == start[p].pc
           v  == IF here = "version1" THEN 1 ELSE IF here = "version2" THEN 2 ELSE 3
           to == IF here = "version1" THEN "keys" ELSE IF here = "version2" THEN "media?" ELSE "up"
           e  == [db EXCEPT !.version = v]
<1>1. /\ here \in {"version1", "version2", "version3"}
      /\ Mig!Statement(p, TRUE, e, to) /\ Mig!Starting(p)
  BY DEF Mig!Versions, Mig!SetVersion, Mig!Here, Mig!Starting
<1>2. to \in StartPoint \ {"failed"}
  BY DEF StartPoint, Purges, Seeds, Ready
<1>3. Cleaned(db) /\ db.project /\ db \in Database /\ Sound(db) /\ Done(start[p], db)
  BY <1>1, SeedsAreClean, StartKnows DEF Seeds, Ready
<1>4. /\ db.assets = "current"
      /\ \/ to = "keys" /\ v = 1
         \/ to = "media?" /\ v = 2 /\ db.keys = "relative"
         \/ to = "up" /\ v = 3 /\ db.keys = "relative" /\ db.media = "new"
  <2>1. CASE here = "version1"
    BY <1>3, <2>1 DEF Done
  <2>2. CASE here # "version1"
    BY <1>1, <1>3, <2>2 DEF Done, Settled, Keyed, Sound
  <2> QED BY <2>1, <2>2
<1> HIDE DEF here, to, v
<1>5. /\ e \in Database /\ Sound(e) /\ Later(db, e) /\ Cleaned(e) /\ e.project
      /\ e.file = db.file /\ e.media = db.media /\ e.keys = db.keys /\ e.version = v
  <2>1. e \in Database
    BY <1>3, <1>4 DEF Database
  <2> QED BY <1>3, <1>4, <2>1 DEF Database, Sound, Later, Cleaned
<1> HIDE DEF e
<1>6. ASSUME NEW w \in Starts, w.pc = to PROVE Done(w, e) /\ Knows(w, e)
  BY <1>4, <1>5, <1>6 DEF Cleaned, Done, Knows, Media, Settled, Keyed
<1>7. start[p].pc # "copying"
  BY <1>1 DEF here
<1> QED BY <1>1, <1>2, <1>5, <1>6, <1>7, StatementStep

LEMMA DatabaseStep ==
  ASSUME DatabaseInv, [SmallNext]_small PROVE DatabaseInv'
<1>1. CASE Mig!Next
  <2>1. PICK p \in Starter :
          \/ Mig!Start(p) \/ Mig!Dies(p)
          \/ Mig!LookForTables(p) \/ Mig!CreateTables(p) \/ Mig!RunColumns(p)
          \/ Mig!RewriteNames(p) \/ Mig!JobColumns(p) \/ Mig!LookForPurge(p) \/ Mig!Purge(p)
          \/ Mig!LookForArtifact(p) \/ Mig!AddArtifact(p) \/ Mig!LookForProject(p)
          \/ Mig!Seed(p) \/ Mig!ReadVersion(p)
          \/ Mig!LookForAssets(p) \/ Mig!RenameAssets(p) \/ Mig!RecreateAssets(p)
          \/ Mig!ReportAside(p) \/ Mig!RewriteKeys(p) \/ Mig!LookForMedia(p)
          \/ Mig!CopyMedia(p) \/ Mig!DescribeMedia(p) \/ Mig!Versions(p)
    BY <1>1 DEF Mig!Next
  <2>2. Mig!RunColumns(p) \/ Mig!JobColumns(p) => DatabaseInv'
    BY LookedForColumns, AddedColumn DEF Mig!RunColumns, Mig!JobColumns
  <2>3. \/ Mig!Start(p) \/ Mig!Dies(p) \/ Mig!LookForTables(p) \/ Mig!CreateTables(p)
        \/ Mig!RewriteNames(p) \/ Mig!LookForPurge(p) \/ Mig!Purge(p)
        \/ Mig!LookForArtifact(p) \/ Mig!AddArtifact(p) \/ Mig!LookForProject(p)
        => DatabaseInv'
    BY Started, Died, LookedForTables, CreatedTables, NamesRewritten, LookedForPurge, Purged,
       LookedForArtifact, AddedArtifact, LookedForProject
  <2>4. \/ Mig!Seed(p) \/ Mig!ReadVersion(p)
        \/ Mig!LookForAssets(p) \/ Mig!RenameAssets(p) \/ Mig!RecreateAssets(p)
        \/ Mig!ReportAside(p) \/ Mig!RewriteKeys(p) \/ Mig!LookForMedia(p)
        \/ Mig!CopyMedia(p) \/ Mig!DescribeMedia(p) \/ Mig!Versions(p)
        => DatabaseInv'
    BY Seeded, VersionRead, LookedForAssets, RenamedAssets, RecreatedAssets, ReportedAside,
       KeysRewritten, LookedForMedia, CopiedMedia, DescribedMedia, VersionSet
  <2> QED BY <2>1, <2>2, <2>3, <2>4
<1>2. CASE UNCHANGED database
  <2>1. db' = db /\ start' = start /\ lost' = lost /\ was' = was
    BY <1>2 DEF database
  <2>2. Mig!RowsStay'
    BY <2>1 DEF DatabaseInv, Mig!RowsStay
  <2>3. \A p \in Starter : StartsAlone(p)'
    BY <2>1 DEF DatabaseInv, StartsAlone, Mig!Starting
  <2> QED BY <2>1, <2>2, <2>3 DEF DatabaseInv
<1>3. Mig!Next \/ UNCHANGED database
  BY DEF SmallNext, small, database
<1> QED BY <1>1, <1>2, <1>3

LEMMA CurrentIsSound == Mig!Current \in Database
<1>1. {"current"} \in SUBSET {"current", "purged"} /\ Mig!Cols \in SUBSET Mig!Cols
  OBVIOUS
<1> DEFINE J == {"current"}
<1>2. Mig!Current = [tables |-> TRUE, cols |-> Mig!Cols, names |-> FALSE, windows |-> FALSE,
                     old |-> FALSE, jobs |-> J, project |-> TRUE, artifact |-> TRUE,
                     assets |-> "current", aside |-> "none", keys |-> "relative",
                     media |-> "new", file |-> "new", version |-> 3]
  BY DEF Mig!Current
<1>3. J \in SUBSET {"current", "purged"}
  BY <1>1
<1> HIDE DEF J
<1> QED BY <1>1, <1>2, <1>3 DEF Database

LEMMA FirstIsSound ==
  ASSUME NEW d \in {Mig!Fresh} \cup Mig!Earlier
  PROVE  /\ d \in Database /\ Sound(d) /\ d.file # "torn"
         /\ ~d.tables \/ "current" \in d.jobs
<1>1. CASE d = Mig!Fresh
  <2>1. /\ d.tables = FALSE /\ d.assets = "none" /\ d.version = 0 /\ d.media = "new"
        /\ d.file = "new"
    BY <1>1 DEF Mig!Fresh, Mig!Current
  <2>2. d = [tables |-> FALSE, cols |-> {}, names |-> FALSE, windows |-> FALSE,
             old |-> FALSE, jobs |-> {}, project |-> FALSE, artifact |-> FALSE,
             assets |-> "none", aside |-> "none", keys |-> "relative",
             media |-> "new", file |-> "new", version |-> 0]
    BY <1>1 DEF Mig!Fresh, Mig!Current
  <2>3. d \in Database
    BY <2>2 DEF Database
  <2> QED BY <2>1, <2>3 DEF Sound
<1>2. CASE d \in Mig!Earlier
  <2> DEFINE J(b)  == IF b THEN {"current", "purged"} ELSE {"current"}
             as(v) == IF v < 1 THEN "legacy" ELSE "current"
             ks(v) == IF v < 2 THEN "absolute" ELSE "relative"
             md(v, m) == IF v < 3 THEN m ELSE "new"
  <2>1. PICK C \in SUBSET Mig!Cols, n \in BOOLEAN, b \in BOOLEAN, a \in BOOLEAN, v \in 0 .. 3,
             m \in {"old", "new"} : d = Mig!Release(C, n, b, a, v, m)
    BY <1>2 DEF Mig!Earlier
  <2>2. /\ J(b) \in SUBSET {"current", "purged"} /\ "current" \in J(b)
        /\ as(v) \in {"legacy", "none", "current"} /\ ks(v) \in {"absolute", "relative"}
        /\ md(v, m) \in {"old", "new"}
        /\ v >= 1 => as(v) = "current"
        /\ v >= 2 => ks(v) = "relative"
        /\ v >= 3 => md(v, m) = "new"
    OBVIOUS
  <2>3. Mig!Release(C, n, b, a, v, m) =
            [Mig!Current EXCEPT !.cols = C, !.names = n, !.windows = b, !.old = b,
                 !.jobs = J(b), !.artifact = a, !.assets = as(v), !.keys = ks(v),
                 !.media = md(v, m), !.file = md(v, m), !.version = v]
    BY DEF Mig!Release
  <2> HIDE DEF J, as, ks, md
  <2>4. d = [tables |-> TRUE, cols |-> C, names |-> n, windows |-> b, old |-> b,
             jobs |-> J(b), project |-> TRUE, artifact |-> a,
             assets |-> as(v), aside |-> "none", keys |-> ks(v),
             media |-> md(v, m), file |-> md(v, m), version |-> v]
    BY <2>1, <2>3 DEF Mig!Current
  <2>5. d \in Database
    BY <2>2, <2>4 DEF Database
  <2> QED BY <2>2, <2>4, <2>5 DEF Sound
<1> QED BY <1>1, <1>2

LEMMA DatabaseInit == SmallInit => DatabaseInv
<1> SUFFICES ASSUME SmallInit PROVE DatabaseInv
  OBVIOUS
<1>1. /\ db \in {Mig!Fresh} \cup Mig!Earlier
      /\ start = [p \in Starter |-> Mig!Down]
      /\ \/ was = IF ~db.tables THEN "fresh" ELSE IF db.assets = "legacy" THEN "legacy" ELSE "later"
         \/ was = "fresh"
  BY DEF SmallInit, Mig!Init
<1>2. Mig!Down \in Starts /\ Mig!Down.pc = "down"
  BY DEF Starts, Mig!Down, StartPoint
<1>3. \A p \in Starter : Done(start[p], db)
  BY <1>1, <1>2 DEF Done, AddsJobs, Purges, Seeds, Ready, Settled, Keyed, Enters
<1>4. \A p \in Starter : StartsAlone(p)
  BY <1>1, <1>2 DEF StartsAlone, Mig!Starting
<1>5. db \in Database /\ Sound(db) /\ db.file # "torn" /\ (~db.tables \/ "current" \in db.jobs)
  BY <1>1, FirstIsSound
<1>6. Mig!RowsStay
  BY <1>1, <1>5 DEF Mig!RowsStay
<1> QED BY <1>1, <1>2, <1>3, <1>4, <1>5, <1>6 DEF DatabaseInv

LEMMA DatabaseInvSuffices == DatabaseInv => Mig!StartsRecover
<1> SUFFICES ASSUME DatabaseInv PROVE Mig!StartsRecover
  OBVIOUS
<1>1. Mig!LoneStartSucceeds
  BY DEF Mig!LoneStartSucceeds, Mig!Here, DatabaseInv, StartsAlone
<1>2. ASSUME NEW p \in Starter, start[p].pc = "up", \A q \in Starter : ~Mig!Starting(q)
      PROVE  /\ db.tables /\ db.cols = Mig!Cols /\ ~db.names /\ ~db.windows /\ ~db.old
             /\ "purged" \notin db.jobs
             /\ db.project /\ db.assets = "current" /\ db.keys = "relative"
             /\ lost \/ db.file = db.media
  <2>1. /\ Cleaned(db) /\ db.project /\ db \in Database /\ Sound(db)
        /\ db.version >= 1 /\ db.keys = "relative" /\ db.media = "new"
    BY <1>2, KeyedAreKeyed, StartKnows DEF Keyed, Done
  <2>2. db.cols = Mig!Cols
    BY <2>1 DEF Cleaned, Database, Mig!Cols
  <2>3. lost \/ db.file = "new"
    <3>1. \A q \in Starter : start[q].pc # "copying"
      BY <1>2 DEF Mig!Starting
    <3>2. db.file \in {"old", "torn", "new"} /\ db.file # "old"
      BY <2>1 DEF Database, Sound
    <3> QED BY <2>1, <3>1, <3>2 DEF DatabaseInv
  <2> QED BY <2>1, <2>2, <2>3 DEF Cleaned, Sound
<1>3. Mig!UpIsCurrent
  BY <1>2 DEF Mig!UpIsCurrent, Mig!Here
<1> QED BY <1>1, <1>3 DEF Mig!StartsRecover, DatabaseInv

(* The start of a repository that is alone is refused nothing, whatever    *)
(* state an earlier release, a crash or a refused start has left; a start  *)
(* that is up leaves the database current, and no step loses its rows      *)
(* (SQLiteRepository.__post_init__).                                       *)
THEOREM StartsAlwaysRecover == SmallSpec => []StartsRecover
<1>1. DatabaseInv /\ [SmallNext]_small => DatabaseInv'
  BY DatabaseStep
<1>2. DatabaseInv => StartsRecover
  BY DatabaseInvSuffices DEF StartsRecover
<1> QED BY <1>1, <1>2, DatabaseInit, PTL DEF SmallSpec

-----------------------------------------------------------------------------
(* Slices of an alignment (SliceGrouping, as Grp).                         *)

(* The words of an alignment, as they are kept, and the slices.            *)
WordRow == [start : Int, end : Int]
SpecRow == [first : Int, last : Int, merged : BOOLEAN]

WordsInOrder ==
  /\ words \in Seq(WordRow)
  /\ \A i \in DOMAIN words : words[i].start < words[i].end
  /\ \A i \in 1 .. Len(words) - 1 : words[i].end <= words[i + 1].start

(* A slice after another begins where that ended, at a quiet gap.          *)
Follows(s, t) == t.first = s.last + 1 /\ s.last \in pauses

SlicesInOrder ==
  /\ specs \in Seq(SpecRow)
  /\ specs # <<>> => specs[1].first = 1
  /\ \A n \in DOMAIN specs : specs[n].first \in 1 .. specs[n].last
  /\ \A n \in DOMAIN specs : specs[n].last \in pauses \cup {Len(words)}
  /\ \A n \in 1 .. Len(specs) - 1 : Follows(specs[n], specs[n + 1])

NotTooLong(s) == Grp!Duration(s) > MaxDuration => s.merged \/ Grp!Legal(s.first) = {}

LegalSoFar == \A n \in DOMAIN specs : NotTooLong(specs[n])

LooksSoFar ==
  /\ look \in Nat \ {0} /\ (specs = <<>> => look = 1) /\ look <= Len(specs) + 1
  /\ \A n \in DOMAIN specs : n < look => Grp!Duration(specs[n]) >= MinDuration

GroupInv ==
  /\ work \in {"align", "group", "merge", "cut", "done"}
  /\ WordsInOrder
  /\ pauses \subseteq Grp!Wide
  /\ SlicesInOrder /\ LooksSoFar /\ LegalSoFar
  /\ work = "align" => specs = <<>> /\ pauses = {}
  /\ work \in {"align", "group", "merge"} => splits = <<>>
  /\ work # "align" => words # <<>>
  /\ work \in {"merge", "cut", "done"} => specs # <<>> /\ specs[Len(specs)].last = Len(words)
  /\ work \in {"cut", "done"} =>
       /\ \A n \in DOMAIN specs : Grp!Duration(specs[n]) >= MinDuration \/ Len(specs) = 1
       /\ splits \in Seq(Int) /\ Len(splits) <= Len(specs) - 1
       /\ \A n \in DOMAIN splits : splits[n] \in Grp!CutRange(n)
  /\ work = "done" => Len(splits) = Len(specs) - 1

-----------------------------------------------------------------------------
LEMMA GroupingStarts == Grp!Init => GroupInv
<1> SUFFICES ASSUME Grp!Init PROVE GroupInv
  OBVIOUS
<1> QED BY DEF Grp!Init, GroupInv, WordsInOrder, SlicesInOrder, LooksSoFar, LegalSoFar

LEMMA MaxOfTwo == ASSUME NEW a \in Int, NEW b \in Int
  PROVE  /\ Grp!Max({a, b}) = IF a >= b THEN a ELSE b
<1> DEFINE m == IF a >= b THEN a ELSE b
<1>1. m \in {a, b} /\ \A y \in {a, b} : m >= y
  OBVIOUS
<1>2. \A x \in {a, b} : (\A y \in {a, b} : x >= y) => x = m
  OBVIOUS
<1> QED BY <1>1, <1>2 DEF Grp!Max

LEMMA WordParsed ==
  ASSUME GroupInv, Grp!ParseWord PROVE GroupInv'
<1> USE GroupingAssumption
<1>1. PICK g \in Gap, l \in Long :
        LET opens == IF words = <<>> THEN g ELSE Grp!End + g - Back
            from  == Grp!Max({opens, Grp!End})
        IN words' = IF opens + l <= from THEN words
                    ELSE Append(words, [start |-> from, end |-> opens + l])
  BY DEF Grp!ParseWord
<1> DEFINE begin == IF words = <<>> THEN g ELSE Grp!End + g - Back
           from  == Grp!Max({begin, Grp!End})
<1>2. Grp!End \in Int /\ g \in Int /\ l \in Int
  <2>1. CASE words = <<>>
    BY <2>1 DEF Grp!End
  <2>2. CASE words # <<>>
    <3>1. Len(words) \in DOMAIN words /\ words[Len(words)] \in WordRow
      BY <2>2 DEF GroupInv, WordsInOrder
    <3> QED BY <2>2, <3>1 DEF Grp!End, Grp!Last, WordRow
  <2> QED BY <2>1, <2>2
<1>3. begin \in Int /\ from \in Int /\ from >= Grp!End
  <2>1. begin \in Int
    BY <1>2
  <2> QED BY <1>2, <2>1, MaxOfTwo
<1>4. WordsInOrder'
  <2>1. CASE words' = words
    BY <2>1 DEF GroupInv, WordsInOrder
  <2>2. CASE words' # words
    <3> DEFINE w == [start |-> from, end |-> begin + l]
    <3>1. words' = Append(words, w) /\ from < begin + l
      BY <1>1, <1>2, <1>3, <2>2
    <3>2. w \in WordRow /\ w.start < w.end /\ w.start >= Grp!End
      BY <1>2, <1>3, <3>1 DEF WordRow
    <3> HIDE DEF w
    <3>3. words' \in Seq(WordRow) /\ Len(words') = Len(words) + 1
      BY <3>1, <3>2 DEF GroupInv, WordsInOrder
    <3>4. \A i \in DOMAIN words : words'[i] = words[i]
      BY <3>1, <3>2 DEF GroupInv, WordsInOrder
    <3>5. words'[Len(words) + 1] = w
      BY <3>1, <3>2 DEF GroupInv, WordsInOrder
    <3>6. words # <<>> => Grp!End = words[Len(words)].end
      BY DEF Grp!End, Grp!Last
    <3>7. \A i \in DOMAIN words' : i \in DOMAIN words \/ i = Len(words) + 1
      BY <3>3 DEF GroupInv, WordsInOrder
    <3>8. \A i \in DOMAIN words' : words'[i].start < words'[i].end
      BY <3>2, <3>4, <3>5, <3>7 DEF GroupInv, WordsInOrder
    <3>9. ASSUME NEW i \in 1 .. Len(words') - 1
          PROVE  words'[i].end <= words'[i + 1].start
      <4>1. i \in DOMAIN words /\ words'[i] = words[i]
        BY <3>3, <3>4 DEF GroupInv, WordsInOrder
      <4>2. CASE i = Len(words)
        BY <3>2, <3>5, <3>6, <4>1, <4>2
      <4>3. CASE i # Len(words)
        <5>1. i + 1 \in DOMAIN words /\ i \in 1 .. Len(words) - 1
          BY <4>1, <4>3 DEF GroupInv, WordsInOrder
        <5> QED BY <3>4, <4>1, <5>1 DEF GroupInv, WordsInOrder
      <4> QED BY <4>2, <4>3
    <3> QED BY <3>3, <3>8, <3>9 DEF WordsInOrder
  <2> QED BY <2>1, <2>2
<1>5. work = "align" /\ UNCHANGED <<pauses, specs, look, splits, work>>
  BY DEF Grp!ParseWord
<1>6. specs = <<>> /\ pauses = {}
  BY <1>5 DEF GroupInv
<1> QED BY <1>4, <1>5, <1>6 DEF GroupInv, SlicesInOrder, LooksSoFar, LegalSoFar

LEMMA BoundariesFound ==
  ASSUME GroupInv, Grp!FindBoundaries PROVE GroupInv'
<1>1. /\ work = "align" /\ words # <<>> /\ work' = "group"
      /\ pauses' \subseteq Grp!Wide
      /\ UNCHANGED <<words, specs, look, splits>>
  BY DEF Grp!FindBoundaries
<1>2. specs = <<>>
  BY <1>1 DEF GroupInv
<1>3. Grp!Wide' = Grp!Wide
  BY <1>1 DEF Grp!Wide, Grp!SafeStart, Grp!SafeEnd
<1> QED BY <1>1, <1>2, <1>3 DEF GroupInv, SlicesInOrder, LooksSoFar, LegalSoFar, WordsInOrder

-----------------------------------------------------------------------------
LEMMA LeastNatural ==
  ASSUME NEW T, T \subseteq Nat, T # {}
  PROVE  \E x \in T : \A y \in T : x <= y
<1> DEFINE Less == {p \in Nat \X Nat : p[1] < p[2]}
<1>1. IsWellFoundedOn(Less, Nat)
  BY NatLessThanWellFounded DEF OpToRel
<1> HIDE DEF Less
<1>2. PICK x \in T : \A y \in T : ~(<<y, x>> \in Less)
  BY <1>1, WFMin
<1>3. ASSUME NEW y \in T PROVE x <= y
  <2>1. x \in Nat /\ y \in Nat
    OBVIOUS
  <2>2. y < x => <<y, x>> \in Less
    BY <2>1 DEF Less
  <2> QED BY <1>2, <2>1, <2>2
<1> QED BY <1>3

LEMMA WideAreWords ==
  ASSUME GroupInv
  PROVE  /\ pauses \subseteq 1 .. Len(words) - 1 /\ Len(words) \in Nat
         /\ \A i \in DOMAIN words : words[i] \in WordRow
BY DEF GroupInv, Grp!Wide, WordsInOrder

LEMMA SpecIs ==
  ASSUME GroupInv, NEW n \in DOMAIN specs
  PROVE  /\ specs[n] \in SpecRow
         /\ specs[n].first \in 1 .. Len(words) /\ specs[n].last \in 1 .. Len(words)
         /\ specs[n].first <= specs[n].last
         /\ Grp!Duration(specs[n]) \in Int
<1>1. specs[n] \in SpecRow /\ specs[n].first \in 1 .. specs[n].last
  BY DEF GroupInv, SlicesInOrder
<1>2. specs[n].last \in 1 .. Len(words) - 1 \/ specs[n].last = Len(words)
  BY WideAreWords DEF GroupInv, SlicesInOrder
<1>3. specs[n].first \in Int /\ specs[n].last \in Int /\ Len(words) \in Nat
  BY <1>1, WideAreWords DEF SpecRow
<1>4. specs[n].first \in DOMAIN words /\ specs[n].last \in DOMAIN words
  <2>1. DOMAIN words = 1 .. Len(words)
    BY DEF GroupInv, WordsInOrder
  <2> QED BY <1>1, <1>2, <1>3, <2>1
<1> QED BY <1>1, <1>2, <1>3, <1>4, WideAreWords DEF Grp!Duration, Grp!Lasts, WordRow

(* Where a slice may end.                                                  *)
LEMMA EndIsLegal ==
  ASSUME GroupInv, NEW first \in 1 .. Len(words), NEW last \in Grp!SliceEnds(first)
  PROVE  /\ last \in first .. Len(words) /\ last \in pauses \cup {Len(words)}
         /\ NotTooLong([first |-> first, last |-> last, merged |-> FALSE])
<1> DEFINE s == [first |-> first, last |-> last, merged |-> FALSE]
<1> USE GroupingAssumption, WideAreWords
<1>0. Grp!Duration(s) = Grp!Lasts(first, last)
  BY DEF Grp!Duration
<1>1. CASE Grp!Legal(first) # {}
  <2>1. last \in pauses /\ last >= first /\ Grp!Lasts(first, last) \in MinDuration .. MaxDuration
    BY <1>1 DEF Grp!SliceEnds, Grp!Legal
  <2>2. ~(Grp!Lasts(first, last) > MaxDuration)
    BY <2>1
  <2> QED BY <1>0, <2>1, <2>2 DEF NotTooLong
<1>2. CASE Grp!Legal(first) = {} /\ Grp!Beyond(first) # {}
  <2>1. Grp!Beyond(first) \subseteq Nat
    BY DEF Grp!Beyond
  <2>2. PICK x \in Grp!Beyond(first) : \A y \in Grp!Beyond(first) : x <= y
    BY <1>2, <2>1, LeastNatural
  <2>3. Grp!Min(Grp!Beyond(first)) \in Grp!Beyond(first)
    BY <2>2 DEF Grp!Min
  <2>4. last \in pauses /\ last >= first
    BY <1>2, <2>3 DEF Grp!SliceEnds, Grp!Beyond
  <2> QED BY <1>2, <2>4 DEF NotTooLong
<1>3. CASE Grp!Legal(first) = {} /\ Grp!Beyond(first) = {}
  <2>1. last = Len(words)
    BY <1>3 DEF Grp!SliceEnds
  <2> QED BY <1>3, <2>1 DEF NotTooLong
<1> QED BY <1>1, <1>2, <1>3

LEMMA SliceGrouped ==
  ASSUME GroupInv, Grp!GroupNext PROVE GroupInv'
<1> DEFINE first == IF specs = <<>> THEN 1 ELSE Grp!Last(specs).last + 1
<1>1. work = "group" /\ UNCHANGED <<words, pauses, look, splits>> /\ words # <<>>
  BY DEF Grp!GroupNext, GroupInv
<1>2. /\ specs \in Seq(SpecRow) /\ DOMAIN specs = 1 .. Len(specs) /\ Len(specs) \in Nat
      /\ DOMAIN words = 1 .. Len(words) /\ Len(words) \in Nat \ {0}
  <2>1. words \in Seq(WordRow) /\ specs \in Seq(SpecRow)
    BY DEF GroupInv, SlicesInOrder, WordsInOrder
  <2> QED BY <1>1, <2>1
<1>3. specs # <<>> => /\ Len(specs) \in DOMAIN specs /\ Grp!Last(specs) = specs[Len(specs)]
                      /\ specs[Len(specs)].last \in 1 .. Len(words)
                      /\ specs[Len(specs)].last \in pauses \cup {Len(words)}
  <2> SUFFICES ASSUME specs # <<>> PROVE <1>3!2
    OBVIOUS
  <2>1. Len(specs) \in DOMAIN specs
    BY <1>2
  <2> QED BY <2>1, SpecIs DEF Grp!Last, GroupInv, SlicesInOrder
<1>4. first \in Nat \ {0}
  BY <1>3
<1>5. WordsInOrder' /\ pauses' \subseteq Grp!Wide'
  BY <1>1 DEF GroupInv, WordsInOrder, Grp!Wide, Grp!SafeStart, Grp!SafeEnd
<1>8. SlicesInOrder /\ LooksSoFar /\ LegalSoFar
  BY DEF GroupInv
<1>6. CASE first > Len(words)
  <2>1. work' = "merge" /\ specs' = specs
    BY <1>6 DEF Grp!GroupNext
  <2>2. specs # <<>> /\ specs[Len(specs)].last = Len(words)
    BY <1>2, <1>3, <1>6
  <2> QED BY <1>1, <1>5, <2>1, <2>2
          DEF GroupInv, SlicesInOrder, LooksSoFar, LegalSoFar, NotTooLong, Grp!Duration,
              Grp!Lasts, Grp!Legal, Follows
<1>7. CASE ~(first > Len(words))
  <2>1. PICK last \in Grp!SliceEnds(first) :
          specs' = Append(specs, [first |-> first, last |-> last, merged |-> FALSE])
    BY <1>7 DEF Grp!GroupNext
  <2> DEFINE s == [first |-> first, last |-> last, merged |-> FALSE]
  <2>2. first \in 1 .. Len(words)
    BY <1>2, <1>4, <1>7
  <2> HIDE DEF first
  <2>3. last \in first .. Len(words) /\ last \in pauses \cup {Len(words)} /\ NotTooLong(s)
    BY <2>2, EndIsLegal
  <2>4. s \in SpecRow /\ s.first = first /\ s.last = last
    BY <1>4, <2>3 DEF SpecRow
  <2>5. specs # <<>> => Follows(specs[Len(specs)], s)
    BY <1>2, <1>3, <2>2, <2>4 DEF Follows, first
  <2>6. specs = <<>> => s.first = 1
    BY <2>4 DEF first
  <2>7. work' = "group"
    BY <1>1, <1>7 DEF Grp!GroupNext, first
  <2> HIDE DEF s
  <2>8. /\ specs' \in Seq(SpecRow) /\ Len(specs') = Len(specs) + 1
        /\ DOMAIN specs' = 1 .. Len(specs) + 1
        /\ \A n \in DOMAIN specs : specs'[n] = specs[n]
        /\ specs'[Len(specs) + 1] = s
    BY <1>2, <2>1, <2>4 DEF s
  <2>9. \A n \in DOMAIN specs' : n \in DOMAIN specs \/ n = Len(specs) + 1
    BY <1>2, <2>8
  <2>10. SlicesInOrder'
    <3>1. specs'[1].first = 1
      <4>1. CASE specs = <<>>
        BY <2>6, <2>8, <4>1
      <4>2. CASE specs # <<>>
        <5>1. 1 \in DOMAIN specs
          BY <1>2, <4>2
        <5> QED BY <1>8, <2>8, <4>2, <5>1 DEF SlicesInOrder
      <4> QED BY <4>1, <4>2
    <3>2. \A n \in DOMAIN specs' : specs'[n].first \in 1 .. specs'[n].last
      BY <1>4, <2>3, <2>4, <2>8, <2>9 DEF GroupInv, SlicesInOrder
    <3>3. \A n \in DOMAIN specs' : specs'[n].last \in pauses \cup {Len(words)}
      BY <2>3, <2>4, <2>8, <2>9 DEF GroupInv, SlicesInOrder
    <3>4. ASSUME NEW n \in 1 .. Len(specs') - 1 PROVE Follows(specs'[n], specs'[n + 1])
      <4>1. n \in DOMAIN specs /\ specs'[n] = specs[n]
        BY <1>2, <2>8
      <4>2. CASE n = Len(specs)
        BY <2>5, <2>8, <4>1, <4>2
      <4>3. CASE n # Len(specs)
        <5>1. n + 1 \in DOMAIN specs /\ n \in 1 .. Len(specs) - 1
          BY <1>2, <4>1, <4>3
        <5> QED BY <2>8, <4>1, <5>1 DEF GroupInv, SlicesInOrder
      <4> QED BY <4>2, <4>3
    <3> QED BY <1>1, <2>8, <3>1, <3>2, <3>3, <3>4 DEF SlicesInOrder, Follows
  <2>11. LooksSoFar'
    <3>1. specs' # <<>>
      BY <1>2, <2>8
    <3>2. ASSUME NEW n \in DOMAIN specs', n < look
          PROVE  n \in DOMAIN specs /\ specs'[n] = specs[n]
      BY <1>2, <1>8, <2>8, <2>9, <3>2 DEF LooksSoFar
    <3>3. look \in Nat \ {0} /\ look <= Len(specs') + 1
      BY <1>2, <1>8, <2>8 DEF LooksSoFar
    <3>4. ASSUME NEW n \in DOMAIN specs', n < look
          PROVE  Grp!Lasts(specs'[n].first, specs'[n].last) >= MinDuration
      BY <3>2, <3>4 DEF GroupInv, LooksSoFar, Grp!Duration
    <3> QED BY <1>1, <3>1, <3>3, <3>4 DEF LooksSoFar, Grp!Duration, Grp!Lasts
  <2>12. LegalSoFar'
    <3>1. ASSUME NEW n \in DOMAIN specs'
          PROVE  (NotTooLong(specs[n]) /\ specs'[n] = specs[n]) \/ (NotTooLong(s) /\ specs'[n] = s)
      BY <2>3, <2>8, <2>9, <1>8 DEF LegalSoFar
    <3> QED BY <1>1, <3>1 DEF LegalSoFar, NotTooLong, Grp!Duration, Grp!Lasts, Grp!Legal
  <2> QED BY <1>1, <1>5, <2>7, <2>10, <2>11, <2>12 DEF GroupInv
<1> QED BY <1>6, <1>7

(* Two neighbours made one.                                                *)
LEMMA NeighboursJoined ==
  ASSUME GroupInv, NEW i \in 1 .. Len(specs) - 1,
         specs' = Grp!Joined(i), UNCHANGED <<words, pauses>>
  PROVE  /\ SlicesInOrder' /\ LegalSoFar'
         /\ Len(specs') = Len(specs) - 1 /\ specs' # <<>>
         /\ specs'[Len(specs')].last = specs[Len(specs)].last
         /\ \A n \in DOMAIN specs' : n < i => n \in DOMAIN specs /\ specs'[n] = specs[n]
<1> DEFINE s == [first |-> specs[i].first, last |-> specs[i + 1].last, merged |-> TRUE]
           k == Len(specs) - 1
<1>0. /\ specs \in Seq(SpecRow) /\ DOMAIN specs = 1 .. Len(specs) /\ Len(specs) \in Nat
      /\ Len(words) \in Nat /\ i \in Int /\ k \in Nat \ {0} /\ i <= k
      /\ i \in DOMAIN specs /\ i + 1 \in DOMAIN specs
  <2>1. specs \in Seq(SpecRow) /\ words \in Seq(WordRow)
    BY DEF GroupInv, SlicesInOrder, WordsInOrder
  <2> QED BY <2>1
<1>8. SlicesInOrder /\ LegalSoFar
  BY DEF GroupInv
<1>1. /\ s \in SpecRow /\ s.first = specs[i].first /\ s.last = specs[i + 1].last
      /\ s.merged = TRUE /\ s.first \in 1 .. s.last
  <2>1. /\ specs[i].first \in 1 .. Len(words) /\ specs[i].last \in 1 .. Len(words)
        /\ specs[i + 1].first \in 1 .. Len(words) /\ specs[i + 1].last \in 1 .. Len(words)
        /\ specs[i].first <= specs[i].last /\ specs[i + 1].first <= specs[i + 1].last
    BY <1>0, SpecIs
  <2>2. specs[i + 1].first = specs[i].last + 1
    BY <1>8 DEF SlicesInOrder, Follows
  <2> QED BY <1>0, <2>1, <2>2 DEF SpecRow
<1>2. specs' = [n \in 1 .. k |-> IF n < i THEN specs[n] ELSE IF n = i THEN s ELSE specs[n + 1]]
  BY DEF Grp!Joined
<1> HIDE DEF s
<1>3. \A n \in 1 .. k : n \in DOMAIN specs /\ n + 1 \in DOMAIN specs
  BY <1>0
<1>4. \A n \in 1 .. k : /\ n < i => specs'[n] = specs[n]
                        /\ n = i => specs'[n] = s
                        /\ n > i => specs'[n] = specs[n + 1]
  BY <1>0, <1>2
<1>5. specs' \in Seq(SpecRow) /\ Len(specs') = k /\ DOMAIN specs' = 1 .. k
  <2>1. \A n \in 1 .. k : specs[n] \in SpecRow /\ specs[n + 1] \in SpecRow
    BY <1>0, <1>3
  <2>2. specs' \in [1 .. k -> SpecRow]
    BY <1>1, <1>2, <2>1
  <2>3. k \in Nat
    BY <1>0
  <2> HIDE DEF k
  <2> QED BY <2>2, <2>3
<1> HIDE DEF k
<1>6. \A n \in 1 .. k : n \in Int
  BY <1>0
<1>7. ASSUME NEW n \in 1 .. k
      PROVE  /\ specs'[n].first \in 1 .. specs'[n].last
             /\ specs'[n].last \in pauses \cup {Len(words)}
             /\ specs'[n].merged \/ NotTooLong(specs'[n])
  <2>1. CASE n < i
    BY <1>3, <1>4, <1>8, <2>1 DEF SlicesInOrder, LegalSoFar
  <2>2. CASE n = i
    BY <1>0, <1>1, <1>4, <1>8, <2>2 DEF SlicesInOrder
  <2>3. CASE n > i
    BY <1>3, <1>4, <1>8, <2>3 DEF SlicesInOrder, LegalSoFar
  <2> QED BY <1>0, <1>6, <2>1, <2>2, <2>3
<1>9. specs'[1].first = 1
  <2>1. 1 \in 1 .. k /\ specs # <<>>
    BY <1>0
  <2>2. i = 1 \/ 1 < i
    BY <1>0
  <2>3. specs[1].first = 1
    BY <1>8, <2>1 DEF SlicesInOrder
  <2>4. CASE i = 1
    BY <1>1, <1>4, <2>1, <2>3, <2>4
  <2>5. CASE 1 < i
    BY <1>4, <2>1, <2>3, <2>5
  <2> QED BY <2>2, <2>4, <2>5
<1>10. specs'[k].last = specs[Len(specs)].last
  <2>0. k \in Nat \ {0} /\ i \in Int /\ i <= k
    BY <1>0
  <2>1. k \in 1 .. k /\ (k = i \/ k > i)
    BY <2>0
  <2>2. k + 1 = Len(specs) /\ i + 1 = i + 1
    BY <1>0 DEF k
  <2>3. CASE k = i
    BY <1>1, <1>4, <2>1, <2>2, <2>3
  <2>4. CASE k > i
    BY <1>4, <2>1, <2>2, <2>4
  <2> QED BY <2>1, <2>3, <2>4
<1>11. ASSUME NEW n \in 1 .. k - 1 PROVE Follows(specs'[n], specs'[n + 1])
  <2>0. /\ n \in 1 .. k /\ n + 1 \in 1 .. k /\ n \in 1 .. Len(specs) - 1
        /\ n + 1 \in 1 .. Len(specs) - 1 /\ n \in Int
    BY <1>0 DEF k
  <2>1. CASE n + 1 < i
    BY <1>0, <1>4, <1>8, <2>0, <2>1 DEF SlicesInOrder
  <2>2. CASE n + 1 = i
    <3>1. Follows(specs[n], specs[n + 1]) /\ n < i
      BY <1>0, <1>8, <2>0, <2>2 DEF SlicesInOrder
    <3>2. specs'[n] = specs[n] /\ specs'[n + 1] = s
      BY <1>4, <2>0, <2>2, <3>1
    <3> QED BY <1>1, <2>2, <3>1, <3>2 DEF Follows
  <2>3. CASE n = i
    <3>1. Follows(specs[n + 1], specs[n + 1 + 1]) /\ n + 1 > i
      BY <1>0, <1>8, <2>0, <2>3 DEF SlicesInOrder
    <3>2. specs'[n] = s /\ specs'[n + 1] = specs[n + 1 + 1]
      BY <1>4, <2>0, <2>3, <3>1
    <3> QED BY <1>1, <2>3, <3>1, <3>2 DEF Follows
  <2>4. CASE n > i
    <3>1. Follows(specs[n + 1], specs[n + 1 + 1]) /\ n + 1 > i
      BY <1>0, <1>8, <2>0, <2>4 DEF SlicesInOrder
    <3>2. specs'[n] = specs[n + 1] /\ specs'[n + 1] = specs[n + 1 + 1]
      BY <1>4, <2>0, <2>4, <3>1
    <3> QED BY <3>1, <3>2
  <2> QED BY <1>0, <2>0, <2>1, <2>2, <2>3, <2>4
<1>12. SlicesInOrder'
  BY <1>5, <1>7, <1>9, <1>11 DEF SlicesInOrder, Follows
<1>13. LegalSoFar'
  <2>1. \A n \in DOMAIN specs' : specs'[n].merged \/ NotTooLong(specs'[n])
    BY <1>5, <1>7
  <2> QED BY <2>1 DEF LegalSoFar, NotTooLong, Grp!Duration, Grp!Lasts, Grp!Legal
<1>14. specs' # <<>>
  BY <1>0, <1>5
<1>15. Len(specs') = Len(specs) - 1
  BY <1>5 DEF k
<1>16. \A n \in DOMAIN specs' : n < i => n \in DOMAIN specs /\ specs'[n] = specs[n]
  BY <1>3, <1>4, <1>5
<1> QED BY <1>5, <1>10, <1>12, <1>13, <1>14, <1>15, <1>16

LEMMA MergeLooks ==
  ASSUME GroupInv, Grp!MergeLook PROVE GroupInv'
<1> USE GroupingAssumption
<1>1. work = "merge" /\ UNCHANGED <<words, pauses, splits>> /\ splits = <<>>
  BY DEF Grp!MergeLook, GroupInv
<1>2. /\ specs \in Seq(SpecRow) /\ DOMAIN specs = 1 .. Len(specs) /\ Len(specs) \in Nat \ {0}
      /\ specs # <<>> /\ specs[Len(specs)].last = Len(words) /\ words # <<>>
      /\ look \in Nat \ {0} /\ look <= Len(specs) + 1
  <2>1. specs \in Seq(SpecRow) /\ specs # <<>> /\ words # <<>> /\ specs[Len(specs)].last = Len(words)
    BY <1>1 DEF GroupInv, SlicesInOrder
  <2>2. look \in Nat \ {0} /\ look <= Len(specs) + 1
    BY DEF GroupInv, LooksSoFar
  <2> QED BY <2>1, <2>2
<1>3. SlicesInOrder /\ LooksSoFar /\ LegalSoFar
  BY DEF GroupInv
<1>4. WordsInOrder' /\ pauses' \subseteq Grp!Wide'
  BY <1>1 DEF GroupInv, WordsInOrder, Grp!Wide, Grp!SafeStart, Grp!SafeEnd
<1>5. specs' = specs => SlicesInOrder' /\ LegalSoFar'
  BY <1>1, <1>3 DEF SlicesInOrder, LegalSoFar, NotTooLong, Grp!Duration, Grp!Lasts, Grp!Legal, Follows
<1>6. specs' = specs => \A n \in DOMAIN specs : Grp!Duration(specs[n])' = Grp!Duration(specs[n])
  BY <1>1 DEF Grp!Duration, Grp!Lasts
<1>7. CASE work' = "cut" /\ UNCHANGED <<specs, look>> /\ (look > Len(specs) \/ Len(specs) = 1)
  <2>1. \A n \in DOMAIN specs : Grp!Duration(specs[n]) >= MinDuration \/ Len(specs) = 1
    BY <1>2, <1>3, <1>7 DEF LooksSoFar
  <2>2. LooksSoFar'
    BY <1>2, <1>3, <1>6, <1>7 DEF LooksSoFar
  <2>3. (\A n \in DOMAIN specs : Grp!Duration(specs[n]) >= MinDuration \/ Len(specs) = 1)'
    BY <1>6, <1>7, <2>1
  <2>4. splits' \in Seq(Int) /\ Len(splits') <= Len(specs') - 1 /\ DOMAIN splits' = {}
    BY <1>1, <1>2, <1>7
  <2> QED BY <1>1, <1>2, <1>4, <1>5, <1>7, <2>2, <2>3, <2>4 DEF GroupInv
<1>8. CASE /\ look \in DOMAIN specs /\ Grp!Duration(specs[look]) >= MinDuration
           /\ look' = look + 1 /\ UNCHANGED <<specs, work>>
  <2>1. \A n \in DOMAIN specs : n < look + 1 => Grp!Duration(specs[n]) >= MinDuration
    BY <1>2, <1>3, <1>8 DEF LooksSoFar
  <2>2. LooksSoFar'
    BY <1>2, <1>6, <1>8, <2>1 DEF LooksSoFar
  <2> QED BY <1>1, <1>2, <1>4, <1>5, <1>8, <2>2 DEF GroupInv
<1>9. ASSUME NEW i \in 1 .. Len(specs) - 1, specs' = Grp!Joined(i), look' = i, work' = work,
             look' <= look
      PROVE  GroupInv'
  <2>1. /\ SlicesInOrder' /\ LegalSoFar'
        /\ Len(specs') = Len(specs) - 1 /\ specs' # <<>>
        /\ specs'[Len(specs')].last = specs[Len(specs)].last
        /\ \A n \in DOMAIN specs' : n < i => n \in DOMAIN specs /\ specs'[n] = specs[n]
    BY <1>1, <1>9, NeighboursJoined
  <2>2. ASSUME NEW n \in DOMAIN specs', n < look'
        PROVE  Grp!Lasts(specs'[n].first, specs'[n].last) >= MinDuration
    <3>1. n \in DOMAIN specs /\ n < look /\ specs'[n] = specs[n]
      BY <1>2, <1>9, <2>1, <2>2
    <3> QED BY <1>3, <3>1 DEF LooksSoFar, Grp!Duration
  <2>3. look' \in Nat \ {0} /\ look' <= Len(specs') + 1
    BY <1>2, <1>9, <2>1
  <2>4. LooksSoFar'
    BY <1>1, <2>1, <2>2, <2>3 DEF LooksSoFar, Grp!Duration, Grp!Lasts
  <2> QED BY <1>1, <1>2, <1>4, <1>9, <2>1, <2>4 DEF GroupInv
<1>10. \/ work' = "cut" /\ UNCHANGED <<specs, look>> /\ (look > Len(specs) \/ Len(specs) = 1)
       \/ /\ ~(look > Len(specs)) /\ Grp!Duration(specs[look]) >= MinDuration
          /\ look' = look + 1 /\ UNCHANGED <<specs, work>>
       \/ /\ ~(look > Len(specs)) /\ Len(specs) # 1
          /\ (look = 1 \/ look < Len(specs))
          /\ specs' = Grp!Joined(look) /\ UNCHANGED <<look, work>>
       \/ /\ ~(look > Len(specs)) /\ Len(specs) # 1
          /\ look # 1
          /\ specs' = Grp!Joined(look - 1) /\ look' = look - 1 /\ UNCHANGED work
  BY DEF Grp!MergeLook
<1>11. look \in DOMAIN specs \/ look > Len(specs)
  BY <1>2
<1>12. (look = 1 /\ Len(specs) # 1) \/ look < Len(specs) => look \in 1 .. Len(specs) - 1
  BY <1>2
<1>13. look # 1 /\ ~(look > Len(specs)) => look - 1 \in 1 .. Len(specs) - 1 /\ look - 1 <= look
  BY <1>2
<1> QED BY <1>2, <1>7, <1>8, <1>9, <1>10, <1>11, <1>12, <1>13

-----------------------------------------------------------------------------
LEMMA GapIs ==
  ASSUME GroupInv, work \in {"cut", "done"}, NEW n \in 1 .. Len(specs) - 1
  PROVE  /\ n \in DOMAIN specs /\ n + 1 \in DOMAIN specs
         /\ specs[n].last \in pauses /\ specs[n + 1].first = specs[n].last + 1
         /\ \A c \in Grp!CutRange(n) :
              /\ c \in Int
              /\ words[specs[n].last].end <= c /\ c <= words[specs[n].last + 1].start
<1> USE GroupingAssumption
<1>1. /\ n \in DOMAIN specs /\ n + 1 \in DOMAIN specs
      /\ specs[n].last \in pauses /\ specs[n + 1].first = specs[n].last + 1
  BY DEF GroupInv, SlicesInOrder, Follows
<1> DEFINE last == specs[n].last
<1>2. last \in 1 .. Len(words) - 1 /\ Grp!SafeEnd(last) - Grp!SafeStart(last) >= MinGap
  BY <1>1 DEF GroupInv, Grp!Wide
<1>3. words[last] \in WordRow /\ words[last + 1] \in WordRow
  <2>1. last \in DOMAIN words /\ last + 1 \in DOMAIN words
    BY <1>2 DEF GroupInv, WordsInOrder
  <2> QED BY <2>1, WideAreWords
<1>4. /\ Grp!SafeStart(last) \in Int /\ Grp!SafeEnd(last) \in Int
      /\ Grp!SafeStart(last) >= words[last].end /\ Grp!SafeEnd(last) <= words[last + 1].start
  <2>1. /\ words[last].start \in Int /\ words[last].end \in Int
        /\ words[last + 1].start \in Int /\ words[last + 1].end \in Int
        /\ Trailing \in Nat /\ Leading \in Nat
    BY <1>3 DEF WordRow
  <2>2. /\ Grp!SafeStart(last) = words[last].end + Trailing
        /\ Grp!SafeEnd(last) = words[last + 1].start - Leading
    BY DEF Grp!SafeStart, Grp!SafeEnd
  <2>3. \A a \in Int, b \in Nat : a + b \in Int /\ a - b \in Int /\ a + b >= a /\ a - b <= a
    OBVIOUS
  <2> HIDE DEF last
  <2> QED BY <2>1, <2>2, <2>3
<1>5. Grp!SafeStart(last) <= Grp!SafeEnd(last)
  BY <1>2, <1>4
<1>6. words[last].end \in Int /\ words[last + 1].start \in Int
  BY <1>3 DEF WordRow
<1>7. Grp!CutRange(n) \subseteq Grp!SafeStart(last) .. Grp!SafeEnd(last)
  BY <1>4, <1>5 DEF Grp!CutRange
<1> HIDE DEF last
<1>8. ASSUME NEW c \in Grp!CutRange(n)
      PROVE  c \in Int /\ words[last].end <= c /\ c <= words[last + 1].start
  BY <1>4, <1>6, <1>7, <1>8
<1> QED BY <1>1, <1>8 DEF last

LEMMA SlicesCut ==
  ASSUME GroupInv, Grp!Refine PROVE GroupInv'
<1>1. work = "cut" /\ UNCHANGED <<words, pauses, specs, look>>
  BY DEF Grp!Refine
<1>2. /\ splits \in Seq(Int) /\ Len(splits) <= Len(specs) - 1
      /\ \A n \in DOMAIN splits : splits[n] \in Grp!CutRange(n)
      /\ Len(specs) \in Nat /\ Len(splits) \in Nat
  BY <1>1 DEF GroupInv, SlicesInOrder
<1>3. /\ WordsInOrder' /\ pauses' \subseteq Grp!Wide' /\ SlicesInOrder' /\ LooksSoFar' /\ LegalSoFar'
      /\ words' # <<>> /\ specs' # <<>> /\ specs'[Len(specs')].last = Len(words')
      /\ (\A n \in DOMAIN specs : Grp!Duration(specs[n]) >= MinDuration \/ Len(specs) = 1)'
  BY <1>1 DEF GroupInv, WordsInOrder, Grp!Wide, Grp!SafeStart, Grp!SafeEnd, SlicesInOrder, LooksSoFar,
              LegalSoFar, NotTooLong, Grp!Duration, Grp!Lasts, Grp!Legal, Follows
<1>4. \A n \in 1 .. Len(specs) : Grp!CutRange(n)' = Grp!CutRange(n)
  BY <1>1 DEF Grp!CutRange, Grp!SafeStart, Grp!SafeEnd
<1>5. DOMAIN splits \subseteq 1 .. Len(specs)
  BY <1>2
<1>6. CASE Len(splits) >= Len(specs) - 1
  <2>1. work' = "done" /\ splits' = splits /\ Len(splits) = Len(specs) - 1
    BY <1>2, <1>6 DEF Grp!Refine
  <2>2. \A n \in DOMAIN splits' : splits'[n] \in Grp!CutRange(n)'
    BY <1>2, <1>4, <1>5, <2>1
  <2> QED BY <1>1, <1>2, <1>3, <2>1, <2>2 DEF GroupInv
<1>7. CASE ~(Len(splits) >= Len(specs) - 1)
  <2>1. PICK c \in Grp!CutRange(Len(splits) + 1) : splits' = Append(splits, c)
    BY <1>7 DEF Grp!Refine
  <2>2. work' = "cut"
    BY <1>1, <1>7 DEF Grp!Refine
  <2>3. Len(splits) + 1 \in 1 .. Len(specs) - 1
    BY <1>2, <1>7
  <2>4. c \in Int
    BY <1>1, <2>1, <2>3, GapIs
  <2>5. /\ splits' \in Seq(Int) /\ Len(splits') = Len(splits) + 1
        /\ DOMAIN splits' = 1 .. Len(splits) + 1 /\ splits'[Len(splits) + 1] = c
        /\ \A n \in DOMAIN splits : splits'[n] = splits[n]
    BY <1>2, <2>1, <2>4
  <2>6. \A n \in DOMAIN splits' : n \in DOMAIN splits \/ n = Len(splits) + 1
    BY <1>2, <2>5
  <2>7. \A n \in DOMAIN splits' : n \in 1 .. Len(specs)
    BY <1>2, <2>3, <2>5
  <2>8. \A n \in DOMAIN splits' : splits'[n] \in Grp!CutRange(n)'
    BY <1>2, <1>4, <2>1, <2>5, <2>6, <2>7
  <2>9. Len(splits') <= Len(specs') - 1
    BY <1>1, <1>2, <2>3, <2>5
  <2> QED BY <1>1, <1>3, <2>2, <2>5, <2>8, <2>9 DEF GroupInv
<1> QED BY <1>6, <1>7

-----------------------------------------------------------------------------
LEMMA GroupInvSuffices ==
  GroupInv => /\ Grp!TypeOK /\ Grp!WordsArePartitioned
              /\ Grp!SlicesHaveLegalLength /\ Grp!CutsAreClean
<1> SUFFICES ASSUME GroupInv
             PROVE  /\ Grp!TypeOK /\ Grp!WordsArePartitioned
                    /\ Grp!SlicesHaveLegalLength /\ Grp!CutsAreClean
  OBVIOUS
<1>1. Grp!TypeOK
  <2>1. DOMAIN words = 1 .. Len(words)
    BY DEF GroupInv, WordsInOrder
  <2>2. \A n \in DOMAIN specs : specs[n].first \in DOMAIN words /\ specs[n].last \in DOMAIN words
    BY <2>1, SpecIs
  <2>3. pauses \subseteq 1 .. Len(words) - 1
    BY WideAreWords
  <2> QED BY <2>2, <2>3 DEF Grp!TypeOK, GroupInv, WordsInOrder
<1>2. Grp!WordsArePartitioned
  <2> SUFFICES ASSUME work \in {"merge", "cut", "done"}
               PROVE  /\ specs # <<>> /\ specs[1].first = 1 /\ Grp!Last(specs).last = Len(words)
                      /\ \A n \in DOMAIN specs : specs[n].first <= specs[n].last
                      /\ \A n \in 1 .. Len(specs) - 1 : specs[n + 1].first = specs[n].last + 1
    BY DEF Grp!WordsArePartitioned
  <2>1. \A n \in DOMAIN specs : specs[n].first <= specs[n].last
    BY SpecIs
  <2> QED BY <2>1 DEF GroupInv, SlicesInOrder, Follows, Grp!Last
<1>3. Grp!SlicesHaveLegalLength
  <2> SUFFICES ASSUME work \in {"cut", "done"}, NEW n \in DOMAIN specs
               PROVE  /\ Grp!Duration(specs[n]) >= MinDuration \/ Len(specs) = 1
                      /\ Grp!Duration(specs[n]) > MaxDuration =>
                           specs[n].merged \/ Grp!Legal(specs[n].first) = {}
    BY DEF Grp!SlicesHaveLegalLength
  <2> QED BY DEF GroupInv, LegalSoFar, NotTooLong
<1>4. Grp!CutsAreClean
  <2> SUFFICES ASSUME work = "done"
               PROVE  /\ \A n \in DOMAIN specs :
                           /\ Grp!From(n) <= words[specs[n].first].start
                           /\ words[specs[n].last].end <= Grp!To(n)
                           /\ n < Len(specs) => specs[n].last \in pauses
                      /\ \A n \in 1 .. Len(specs) - 1 : Grp!To(n) <= Grp!From(n + 1)
    BY DEF Grp!CutsAreClean
  <2>1. /\ DOMAIN specs = 1 .. Len(specs) /\ Len(specs) \in Nat /\ specs # <<>>
        /\ specs[1].first = 1 /\ specs[Len(specs)].last = Len(words) /\ words # <<>>
        /\ splits \in Seq(Int) /\ Len(splits) = Len(specs) - 1
        /\ \A n \in DOMAIN splits : splits[n] \in Grp!CutRange(n)
        /\ words \in Seq(WordRow)
    BY DEF GroupInv, SlicesInOrder, WordsInOrder
  <2>2. DOMAIN splits = 1 .. Len(specs) - 1
    BY <2>1
  <2>3. ASSUME NEW n \in 1 .. Len(specs) - 1
        PROVE  /\ splits[n] \in Int
               /\ words[specs[n].last].end <= splits[n] /\ splits[n] <= words[specs[n + 1].first].start
               /\ specs[n].last \in pauses
               /\ Grp!To(n) = splits[n] /\ Grp!From(n + 1) = splits[n]
    <3>1. splits[n] \in Grp!CutRange(n)
      BY <2>1, <2>2
    <3>0. Len(specs) \in Nat
      BY <2>1
    <3>2. n # Len(specs) /\ n + 1 # 1 /\ n + 1 - 1 = n
      BY <3>0
    <3> QED BY <3>1, <3>2, GapIs DEF Grp!To, Grp!From
  <2>4. ASSUME NEW n \in DOMAIN specs PROVE Grp!From(n) <= words[specs[n].first].start
    <3>1. CASE n = 1
      <4>1. 1 \in DOMAIN words /\ words[1] \in WordRow
        BY <2>1
      <4> QED BY <2>1, <3>1, <4>1 DEF Grp!From, WordRow
    <3>2. CASE n # 1
      <4>1. n - 1 \in 1 .. Len(specs) - 1 /\ n - 1 + 1 = n
        BY <2>1, <3>2
      <4> QED BY <2>3, <4>1
    <3> QED BY <3>1, <3>2
  <2>5. ASSUME NEW n \in DOMAIN specs PROVE words[specs[n].last].end <= Grp!To(n)
    <3>1. CASE n = Len(specs)
      <4>1. Len(words) \in DOMAIN words /\ words[Len(words)] \in WordRow
        BY <2>1
      <4> QED BY <2>1, <3>1, <4>1 DEF Grp!To, Grp!End, Grp!Last, WordRow
    <3>2. CASE n # Len(specs)
      <4>1. n \in 1 .. Len(specs) - 1
        BY <2>1, <3>2
      <4> QED BY <2>3, <4>1
    <3> QED BY <3>1, <3>2
  <2>6. ASSUME NEW n \in DOMAIN specs, n < Len(specs) PROVE specs[n].last \in pauses
    <3>1. n \in 1 .. Len(specs) - 1
      BY <2>1, <2>6
    <3> QED BY <2>3, <3>1
  <2>7. \A n \in 1 .. Len(specs) - 1 : Grp!To(n) <= Grp!From(n + 1)
    BY <2>3
  <2> QED BY <2>4, <2>5, <2>6, <2>7
<1> QED BY <1>1, <1>2, <1>3, <1>4

LEMMA GroupingStep == GroupInv /\ [SmallNext]_small => GroupInv'
<1> SUFFICES ASSUME GroupInv, [SmallNext]_small PROVE GroupInv'
  OBVIOUS
<1>1. CASE UNCHANGED grouping
  BY <1>1 DEF grouping, GroupInv, WordsInOrder, Grp!Wide, Grp!SafeStart, Grp!SafeEnd, SlicesInOrder,
              LooksSoFar, LegalSoFar, NotTooLong, Grp!Duration, Grp!Lasts, Grp!Legal, Follows,
              Grp!CutRange
<1>2. CASE Grp!Next
  BY <1>2, WordParsed, BoundariesFound, SliceGrouped, MergeLooks, SlicesCut DEF Grp!Next
<1> QED BY <1>1, <1>2 DEF SmallNext, small

(* Every word of an alignment is in one slice, in order, however slices    *)
(* are merged; none is too short, unless it is the only one, and a slice   *)
(* is longer than the limit only for a short neighbour or for want of a    *)
(* quiet gap; slices are cut at quiet gaps, hold their words and do not    *)
(* overlap (plan_slices): for any number of words, of any lengths.         *)
THEOREM SlicesStaySound ==
  SmallSpec => [](/\ Grp!WordsArePartitioned /\ Grp!SlicesHaveLegalLength /\ Grp!CutsAreClean)
<1>1. SmallInit => GroupInv
  BY GroupingStarts DEF SmallInit
<1> QED BY <1>1, GroupingStep, GroupInvSuffices, PTL DEF SmallSpec

-----------------------------------------------------------------------------
(* The audio of review clips (ReviewClips, as Rev).                        *)

(* Division, and rounding to the nearest (Python's round on a fraction).   *)
LEMMA Division ==
  ASSUME NEW p \in Nat, NEW q \in Nat \ {0}
  PROVE  /\ p \div q \in Nat /\ p % q \in 0 .. q - 1
         /\ p = q * (p \div q) + (p % q)
<1> DEFINE a == p \div q   r == p % q
<1>1. a \in Int
  OBVIOUS
<1>2. r \in 0 .. q - 1
  OBVIOUS
<1>3. p = q * a + r
  OBVIOUS
<1> HIDE DEF a, r
<1>4. ASSUME a < 0 PROVE FALSE
  <2>1. \A c \in Nat : q * (-1 - c) = -q - q * c /\ q * c \in Nat
    OBVIOUS
  <2>2. -1 - a \in Nat /\ -1 - (-1 - a) = a
    BY <1>1, <1>4
  <2>3. q * a = -q - q * (-1 - a) /\ q * (-1 - a) \in Nat
    BY <2>1, <2>2
  <2> QED BY <1>2, <1>3, <2>3
<1>5. a \in Nat
  BY <1>1, <1>4
<1> QED BY <1>2, <1>3, <1>5 DEF a, r

LEMMA MoreQuotient ==
  ASSUME NEW a \in Nat, NEW b \in Nat, NEW q \in Nat \ {0}, NEW r \in 0 .. q - 1, NEW s \in 0 .. q - 1,
         q * a + r <= q * b + s
  PROVE  a < b \/ (a = b /\ r <= s)
<1>1. CASE a > b
  <2>1. a - b - 1 \in Nat
    BY <1>1
  <2>2. \A c \in Nat : q * (b + 1 + c) = q * b + q + q * c /\ q * c \in Nat
    OBVIOUS
  <2>3. q * a = q * b + q + q * (a - b - 1) /\ q * (a - b - 1) \in Nat
    <3>1. b + 1 + (a - b - 1) = a
      OBVIOUS
    <3> QED BY <2>1, <2>2, <3>1
  <2> QED BY <2>3
<1>2. CASE a = b
  BY <1>2
<1> QED BY <1>1, <1>2

LEMMA Rounded ==
  ASSUME NEW p \in Nat, NEW q \in Nat \ {0}
  PROVE  /\ Rev!Round(p, q) \in Nat
         /\ 2 * (Rev!Round(p, q) * q - p) \in -q .. q
<1> DEFINE a == p \div q   r == p % q
<1>1. a \in Nat /\ r \in 0 .. q - 1 /\ p = q * a + r
  BY Division
<1>2. Rev!Round(p, q) = IF 2 * r > q \/ (2 * r = q /\ a % 2 = 1) THEN a + 1 ELSE a
  BY DEF Rev!Round
<1> HIDE DEF a, r
<1>3. (a + 1) * q = q * a + q /\ a * q = q * a /\ q * a \in Nat
  BY <1>1
<1> QED BY <1>1, <1>2, <1>3

LEMMA RoundedInOrder ==
  ASSUME NEW p \in Nat, NEW t \in Nat, NEW q \in Nat \ {0}, p <= t
  PROVE  Rev!Round(p, q) <= Rev!Round(t, q)
<1> DEFINE a == p \div q   r == p % q   b == t \div q   s == t % q
<1>1. a \in Nat /\ r \in 0 .. q - 1 /\ p = q * a + r
  BY Division
<1>2. b \in Nat /\ s \in 0 .. q - 1 /\ t = q * b + s
  BY Division
<1>3. Rev!Round(p, q) = IF 2 * r > q \/ (2 * r = q /\ a % 2 = 1) THEN a + 1 ELSE a
  BY DEF Rev!Round
<1>4. Rev!Round(t, q) = IF 2 * s > q \/ (2 * s = q /\ b % 2 = 1) THEN b + 1 ELSE b
  BY DEF Rev!Round
<1> HIDE DEF a, r, b, s
<1>5. a < b \/ (a = b /\ r <= s)
  BY <1>1, <1>2, MoreQuotient
<1>6. CASE a < b
  BY <1>1, <1>2, <1>3, <1>4, <1>6
<1>7. CASE a = b /\ r <= s
  BY <1>1, <1>2, <1>3, <1>4, <1>7
<1> QED BY <1>5, <1>6, <1>7

LEMMA SmallerOfTwo ==
  ASSUME NEW a \in Int, NEW b \in Int
  PROVE  Rev!Min({a, b}) = IF a <= b THEN a ELSE b
<1>1. \A x \in {a, b} : (\A y \in {a, b} : x <= y) => x = IF a <= b THEN a ELSE b
  OBVIOUS
<1>2. \E x \in {a, b} : \A y \in {a, b} : x <= y
  OBVIOUS
<1> QED BY <1>1, <1>2 DEF Rev!Min

-----------------------------------------------------------------------------
(* A recording, its rate, and a clip of it: where it was placed, cut out   *)
(* of the channels that were listened to.                                  *)
RecordingRow ==
  /\ recording.length \in Nat /\ recording.channels \in {1, 2, 3}
  /\ recording.rate[1] \in Nat \ {0} /\ recording.rate[2] \in Nat \ {0}

CutAsPlaced(c) ==
  /\ c.place[1] \in Nat /\ c.place[2] \in Nat
  /\ c.span = Rev!ToSource(c.place) /\ c.span[1] < c.span[2]
  /\ c.of = c.heard

ReviewInv ==
  /\ RecordingRow
  /\ copy # Rev!NoCopy => copy.of = Rev!Read(mode) /\ copy.length \in Nat
  /\ worker = "variants" => copy.length \in Nat
  /\ \A k \in DOMAIN scopes : scopes[k][1] \in Nat /\ scopes[k][2] \in Nat
  /\ \A c \in pieces : CutAsPlaced(c)

(* A frame of the recording for a time of the analysis.                    *)
LEMMA FrameOf ==
  ASSUME RecordingRow, NEW c, c[1] \in Nat, c[2] \in Nat, NEW j \in {1, 2}
  PROVE  LET n == recording.rate[1]   d == recording.rate[2]
             frame == Rev!ToSource(c)[j]
             near == Rev!Round(c[j] * n, d)
         IN /\ frame = IF near <= recording.length THEN near ELSE recording.length
            /\ near \in Nat /\ c[j] * n \in Nat
            /\ 2 * (near * d - c[j] * n) \in -d .. d
<1> DEFINE n == recording.rate[1]   d == recording.rate[2]
           near == Rev!Round(c[j] * n, d)
<1>1. n \in Nat \ {0} /\ d \in Nat \ {0} /\ recording.length \in Nat
  BY DEF RecordingRow
<1>2. c[j] \in Nat
  OBVIOUS
<1>3. c[j] * n \in Nat
  <2> HIDE DEF n
  <2> QED BY <1>1, <1>2
<1>4. near \in Nat /\ 2 * (near * d - c[j] * n) \in -d .. d
  <2> HIDE DEF n, d
  <2> QED BY <1>1, <1>3, Rounded
<1>5. Rev!ToSource(c)[j] = Rev!Min({near, recording.length})
  <2>1. CASE j = 1
    BY <2>1 DEF Rev!ToSource
  <2>2. CASE j = 2
    BY <2>2 DEF Rev!ToSource
  <2> QED BY <2>1, <2>2
<1>6. Rev!Min({near, recording.length}) = IF near <= recording.length THEN near ELSE recording.length
  <2> HIDE DEF near
  <2> QED BY <1>1, <1>4, SmallerOfTwo
<1> QED BY <1>3, <1>4, <1>5, <1>6

LEMMA ReviewInvSuffices == ReviewInv => Rev!ClipsAreOfTheRecording
<1> SUFFICES ASSUME ReviewInv PROVE Rev!ClipsAreOfTheRecording
  OBVIOUS
<1> DEFINE n == recording.rate[1]   d == recording.rate[2]
           near(t) == Rev!Round(t * n, d)
           there(frame, t) == \/ 2 * (frame * d - t * n) \in -d .. d
                              \/ frame = recording.length /\ t * n > frame * d
<1>1. /\ n \in Nat \ {0} /\ d \in Nat \ {0} /\ recording.length \in Nat /\ RecordingRow
  BY DEF ReviewInv, RecordingRow
<1>2. ASSUME NEW c \in pieces, NEW j \in {1, 2}
      PROVE  /\ c.place[j] \in Nat /\ c.place[j] * n \in Nat /\ near(c.place[j]) \in Nat
             /\ c.span[j] = IF near(c.place[j]) <= recording.length THEN near(c.place[j])
                            ELSE recording.length
             /\ 2 * (near(c.place[j]) * d - c.place[j] * n) \in -d .. d
  <2>1. c.place[1] \in Nat /\ c.place[2] \in Nat /\ c.span = Rev!ToSource(c.place)
    BY DEF ReviewInv, CutAsPlaced
  <2> QED BY <1>1, <2>1, FrameOf
<1>3. ASSUME NEW c \in pieces, NEW j \in {1, 2} PROVE there(c.span[j], c.place[j])
  <2> DEFINE t == c.place[j]   f == near(t)   p == t * n   length == recording.length
  <2>1. /\ p \in Nat /\ f \in Nat /\ 2 * (f * d - p) \in -d .. d
        /\ c.span[j] = IF f <= length THEN f ELSE length
    BY <1>2
  <2> HIDE DEF n, d, t, f, p, length
  <2>2. CASE f <= length
    BY <1>2, <2>1, <2>2 DEF t, p
  <2>3. CASE ~(f <= length)
    <3>1. d \in Nat \ {0} /\ length \in Nat
      BY <1>1 DEF length
    <3>2. PICK e \in Nat : f = length + 1 + e
      <4>1. f - length - 1 \in Nat /\ f = length + 1 + (f - length - 1)
        BY <2>1, <2>3, <3>1
      <4> QED BY <4>1
    <3>3. f * d = length * d + d + e * d /\ e * d \in Nat /\ length * d \in Nat
      BY <3>1, <3>2
    <3>4. p > length * d
      BY <2>1, <3>1, <3>3
    <3> QED BY <2>1, <2>3, <3>4 DEF t, p, length
  <2> QED BY <2>2, <2>3
<1>4. ASSUME NEW b \in pieces, NEW c \in pieces, b.place[2] <= c.place[1]
      PROVE  b.span[2] <= c.span[1]
  <2> DEFINE f == near(b.place[2])   g == near(c.place[1])
  <2>1. /\ b.place[2] \in Nat /\ b.place[2] * n \in Nat /\ f \in Nat
        /\ b.span[2] = IF f <= recording.length THEN f ELSE recording.length
    BY <1>2
  <2>2. /\ c.place[1] \in Nat /\ c.place[1] * n \in Nat /\ g \in Nat
        /\ c.span[1] = IF g <= recording.length THEN g ELSE recording.length
    BY <1>2
  <2>3. b.place[2] * n <= c.place[1] * n
    <3> HIDE DEF n
    <3>1. PICK e \in Nat : c.place[1] = b.place[2] + e
      <4>1. c.place[1] - b.place[2] \in Nat /\ c.place[1] = b.place[2] + (c.place[1] - b.place[2])
        BY <1>4, <2>1, <2>2
      <4> QED BY <4>1
    <3>2. c.place[1] * n = b.place[2] * n + e * n /\ e * n \in Nat
      BY <1>1, <2>1, <3>1
    <3> QED BY <2>1, <2>2, <3>2
  <2>4. f <= g
    <3> HIDE DEF n, d
    <3> QED BY <1>1, <2>1, <2>2, <2>3, RoundedInOrder
  <2> HIDE DEF f, g
  <2> QED BY <1>1, <2>1, <2>2, <2>4
<1>5. ASSUME NEW c \in pieces
      PROVE  c.span[1] < c.span[2] /\ c.span[2] <= recording.length /\ c.of = c.heard
  <2>1. c.span[1] < c.span[2] /\ c.of = c.heard
    BY DEF ReviewInv, CutAsPlaced
  <2> QED BY <1>1, <1>2, <2>1
<1> HIDE DEF near, n, d
<1> QED BY <1>3, <1>4, <1>5 DEF Rev!ClipsAreOfTheRecording, n, d

-----------------------------------------------------------------------------
LEMMA ReviewStarts == Rev!Init => ReviewInv
<1> USE ReviewAssumption
<1> SUFFICES ASSUME Rev!Init PROVE ReviewInv
  OBVIOUS
<1>1. recording \in Rev!Recordings
  BY DEF Rev!Init
<1>2. RecordingRow
  BY <1>1 DEF Rev!Recordings, RecordingRow
<1>3. copy = Rev!NoCopy /\ scopes = <<>> /\ pieces = {} /\ worker = "none"
  BY DEF Rev!Init, Rev!Idle
<1>4. DOMAIN scopes = {}
  BY <1>3
<1> QED BY <1>2, <1>3, <1>4 DEF ReviewInv

LEMMA VariantsCreated ==
  ASSUME ReviewInv, Rev!CreateVariants PROVE ReviewInv'
<1>1. /\ UNCHANGED <<recording, scopes, pieces>> /\ mode' = Rev!Decision /\ worker' = "variants"
  BY DEF Rev!CreateVariants
<1>2. /\ recording.length \in Nat /\ recording.channels \in {1, 2, 3}
      /\ recording.rate[1] \in Nat \ {0} /\ recording.rate[2] \in Nat \ {0}
  BY DEF ReviewInv, RecordingRow
<1>3. PICK extra \in 0 .. 2 :
        copy' = [length |-> (recording.length * recording.rate[2]) \div recording.rate[1] + extra,
                 of |-> Rev!Panned(Rev!Decision)]
  BY DEF Rev!CreateVariants
<1>4. copy'.length \in Nat
  <2> DEFINE p == recording.length * recording.rate[2]   q == recording.rate[1]
  <2>1. p \in Nat /\ q \in Nat \ {0}
    BY <1>2
  <2> HIDE DEF p, q
  <2>2. p \div q \in Nat
    BY <2>1, Division
  <2>3. copy'.length = p \div q + extra
    BY <1>3 DEF p, q
  <2> QED BY <2>2, <2>3
<1>5. Rev!Panned(Rev!Decision) = Rev!Read(Rev!Decision)
  <2>1. recording.channels # 2 => Rev!Decision = "mono_average"
    BY DEF Rev!Decision
  <2>2. recording.channels = 1 => Rev!Channels = {1}
    BY DEF Rev!Channels
  <2> QED BY <2>1, <2>2 DEF Rev!Panned, Rev!Read
<1>6. Rev!Read(mode)' = Rev!Read(Rev!Decision)
  BY <1>1 DEF Rev!Read, Rev!Channels
<1>7. copy'.of = Rev!Read(mode)'
  BY <1>3, <1>5, <1>6
<1> QED BY <1>1, <1>4, <1>7 DEF ReviewInv, RecordingRow, CutAsPlaced, Rev!ToSource

LEMMA BuffersBuilt ==
  ASSUME ReviewInv, Rev!BuildBuffers PROVE ReviewInv'
<1>1. /\ UNCHANGED <<recording, copy, mode, pieces>> /\ worker' = "buffers" /\ copy.length \in Nat
  BY DEF Rev!BuildBuffers, ReviewInv
<1>2. \A k \in DOMAIN scopes' : scopes'[k][1] \in Nat /\ scopes'[k][2] \in Nat
  <2>1. CASE scopes' = <<>>
    BY <2>1
  <2>2. CASE scopes' = << <<0, copy.length>> >>
    BY <1>1, <2>2
  <2>3. ASSUME NEW m \in 2 .. copy.length - 3, scopes' = << <<0, m>>, <<m + 1, copy.length>> >>
        PROVE  \A k \in DOMAIN scopes' : scopes'[k][1] \in Nat /\ scopes'[k][2] \in Nat
    <3>1. m \in Nat
      BY <1>1
    <3> QED BY <1>1, <2>3, <3>1
  <2> QED BY <2>1, <2>2, <2>3 DEF Rev!BuildBuffers
<1> QED BY <1>1, <1>2 DEF ReviewInv, RecordingRow, CutAsPlaced, Rev!ToSource, Rev!Read, Rev!Channels

LEMMA ClipsAssembled ==
  ASSUME ReviewInv, Rev!Assemble PROVE ReviewInv'
<1>1. UNCHANGED <<recording, mode, scopes>> /\ worker' # "variants"
  BY DEF Rev!Assemble, Rev!Idle
<1>2. (pieces' = {} /\ copy' = copy) \/
      (copy # Rev!NoCopy /\ copy' = Rev!NoCopy /\ \E plan \in Rev!Plans :
         pieces' = {Rev!Cut(c) : c \in plan} /\ \A c \in plan : Rev!ToSource(c)[1] < Rev!ToSource(c)[2])
  BY DEF Rev!Assemble
<1>3. \A plan \in Rev!Plans : \A c \in plan : c[1] \in Nat /\ c[2] \in Nat
  <2> DEFINE C == UNION {Rev!Legal(scopes[k]) : k \in DOMAIN scopes}
  <2>1. ASSUME NEW c \in C PROVE c[1] \in Nat /\ c[2] \in Nat
    <3>1. PICK k \in DOMAIN scopes : c \in Rev!Legal(scopes[k])
      OBVIOUS
    <3>2. scopes[k][1] \in Nat /\ scopes[k][2] \in Nat
      BY DEF ReviewInv
    <3>3. c[1] \in scopes[k][1] + 1 .. scopes[k][2] - 1 /\ c[2] \in scopes[k][1] + 1 .. scopes[k][2] - 1
      BY <3>1 DEF Rev!Legal
    <3> QED BY <3>2, <3>3
  <2>2. \A plan \in Rev!Plans : plan \subseteq C
    <3> HIDE DEF C
    <3> QED BY DEF Rev!Plans, C
  <2> QED BY <2>1, <2>2
<1>4. RecordingRow' /\ \A c : Rev!ToSource(c)' = Rev!ToSource(c) /\ Rev!Read(mode)' = Rev!Read(mode)
  BY <1>1 DEF ReviewInv, RecordingRow, Rev!ToSource, Rev!Read, Rev!Channels
<1>5. \A k \in DOMAIN scopes' : scopes'[k][1] \in Nat /\ scopes'[k][2] \in Nat
  BY <1>1 DEF ReviewInv
<1>6. CASE pieces' = {} /\ copy' = copy
  BY <1>1, <1>4, <1>5, <1>6 DEF ReviewInv
<1>7. ASSUME copy # Rev!NoCopy, copy' = Rev!NoCopy, NEW plan \in Rev!Plans,
             pieces' = {Rev!Cut(c) : c \in plan},
             \A c \in plan : Rev!ToSource(c)[1] < Rev!ToSource(c)[2]
      PROVE  ReviewInv'
  <2>1. copy.of = Rev!Read(mode)
    BY <1>7 DEF ReviewInv
  <2>3. ASSUME NEW e \in pieces' PROVE CutAsPlaced(e)'
    <3>1. PICK c \in plan : e = Rev!Cut(c)
      BY <1>7
    <3>2. c[1] \in Nat /\ c[2] \in Nat /\ Rev!ToSource(c)[1] < Rev!ToSource(c)[2]
      BY <1>3, <1>7
    <3>3. /\ e.place = c /\ e.span = Rev!ToSource(c) /\ e.of = Rev!Read(mode) /\ e.heard = copy.of
      BY <3>1 DEF Rev!Cut
    <3> QED BY <1>4, <2>1, <3>2, <3>3 DEF CutAsPlaced
  <2>4. copy' = Rev!NoCopy'
    BY <1>7 DEF Rev!NoCopy
  <2> QED BY <1>1, <1>4, <1>5, <2>3, <2>4 DEF ReviewInv
<1> QED BY <1>2, <1>6, <1>7

LEMMA ReviewStep == ReviewInv /\ [SmallNext]_small => ReviewInv'
<1> SUFFICES ASSUME ReviewInv, [SmallNext]_small PROVE ReviewInv'
  OBVIOUS
<1>1. CASE UNCHANGED <<recording, copy, mode, scopes>> /\ (pieces' = pieces \/ pieces' = {}) /\
           (worker' = worker \/ worker' # "variants")
  BY <1>1 DEF ReviewInv, RecordingRow, CutAsPlaced, Rev!ToSource, Rev!Read, Rev!Channels, Rev!NoCopy
<1>2. CASE UNCHANGED review
  BY <1>1, <1>2 DEF review
<1>3. CASE Rev!Next
  <2>1. CASE Rev!Promote \/ Rev!ScoreClips \/ Rev!Stop \/ Rev!StartPipeline \/ Rev!StartRerun
    BY <1>1, <2>1 DEF Rev!Promote, Rev!ScoreClips, Rev!Stop, Rev!StartPipeline, Rev!StartRerun,
                      Rev!Launch, Rev!Idle
  <2> QED BY <1>3, <2>1, VariantsCreated, BuffersBuilt, ClipsAssembled DEF Rev!Next
<1> QED BY <1>2, <1>3 DEF SmallNext, small

(* The clips of a run are of its recording: each lies where the analysis   *)
(* placed it, to half a frame, or ends with the recording; clips that were *)
(* apart stay apart; and each holds the channels that were listened to     *)
(* when its place was chosen (assembly.py, channel_resolver.py): for any   *)
(* length, rates and loudness, and whichever worker is killed.             *)
THEOREM ClipsStayOfTheRecording == SmallSpec => []Rev!ClipsAreOfTheRecording
<1>1. SmallInit => ReviewInv
  BY ReviewStarts DEF SmallInit
<1> QED BY <1>1, ReviewStep, ReviewInvSuffices, PTL DEF SmallSpec

=============================================================================
