------------------------ MODULE CandidatePromotion ------------------------
(***************************************************************************)
(* How a dataset worker replaces the candidate clips of a run              *)
(* (workers/dataset/speechcraft_dataset/clip_lab_coordination.py).         *)
(*                                                                         *)
(* The candidates are three artifacts: the clip audio, the manifest and    *)
(* the summaries.  A generation is assembled and validated in a stage      *)
(* directory of its own; under the run's lock the live artifacts are moved *)
(* to a backup directory one by one, the staged ones take their place, and *)
(* the backup is dropped, or put back when a move fails.  The worker may   *)
(* die anywhere; the lock is a file lock and goes with it.                 *)
(*                                                                         *)
(* A generation stands for the sha256 of its manifest: regenerating with   *)
(* the same settings gives the same one.                                   *)
(***************************************************************************)
EXTENDS Naturals

CONSTANT MaxGen  \* bound: generations of candidates

ASSUME MaxGenAssumption == MaxGen \in Nat \ {0}

VARIABLES live,      \* the generation of each live artifact
          backup,    \* the promotion backup directory
          promotion  \* the worker that regenerates the candidates

Part  == 1..3  \* in the order of the moves: audio, manifest, summaries
Audio == 1
Manifest == 2
Gen   == 1..MaxGen
None  == 0
Parts == [Part -> Gen \cup {None}]

NoBackup == [there |-> FALSE, parts |-> [a \in Part |-> None]]
Idle     == [at |-> "idle", part |-> 1, gen |-> None, previous |-> None]

InLock == {"backup", "promote", "restore", "drop", "archive", "clear"}

PromotionTypeOK ==
  /\ live \in Parts
  /\ backup \in [there : BOOLEAN, parts : Parts]
  /\ promotion \in [at : {"idle", "staged", "dropFailed"} \cup InLock, part : 1..4,
                    gen : Gen \cup {None}, previous : Gen \cup {None}]

PromotionInit ==
  /\ live = [a \in Part |-> None]
  /\ backup = NoBackup
  /\ promotion = Idle

(* clip_lab_run_lock, as the other users of the run find it. *)
LockFree == promotion.at \notin InLock \cup {"dropFailed"}

(* Bound: a new generation is one more than any that was live. *)
Fresh == {g \in Gen : g > live[Manifest] /\ \A h \in Gen : h < g => h <= live[Manifest]}

(* The stage directory, assembled and validated. *)
Stage ==
  /\ promotion.at = "idle" /\ ~backup.there
  /\ \E g \in Fresh \cup ({live[Manifest]} \ {None}) :
        promotion' = [Idle EXCEPT !.at = "staged", !.gen = g]
  /\ UNCHANGED <<live, backup>>

Lock ==
  /\ promotion.at = "staged" /\ ~backup.there
  /\ promotion' = [promotion EXCEPT !.at = "backup", !.previous = live[Manifest]]
  /\ backup' = [backup EXCEPT !.there = TRUE]
  /\ UNCHANGED live

(* The move of one part, then the next, then what follows. *)
Steps(at, then) ==
  /\ promotion.at = at
  /\ promotion' = IF promotion.part = 3 THEN [promotion EXCEPT !.at = then, !.part = 1]
                  ELSE [promotion EXCEPT !.part = @ + 1]

(* backup_live. *)
BackUp ==
  /\ Steps("backup", "promote")
  /\ backup' = [backup EXCEPT !.parts[promotion.part] = live[promotion.part]]
  /\ live' = [live EXCEPT ![promotion.part] = None]

Promote ==
  /\ Steps("promote", "drop")
  /\ live' = [live EXCEPT ![promotion.part] = promotion.gen]
  /\ UNCHANGED backup

(* A move raised: what was live is put back, part by part. *)
PromoteFails ==
  /\ promotion.at = "promote"
  /\ promotion' = [promotion EXCEPT !.at = "restore", !.part = 1]
  /\ UNCHANGED <<live, backup>>

(* Mutant: only what has a backup is restored. *)
RestoreBackedUp ==
  /\ Steps("restore", "dropFailed")
  /\ live' = IF backup.parts[promotion.part] = None THEN live
             ELSE [live EXCEPT ![promotion.part] = backup.parts[promotion.part]]
  /\ UNCHANGED backup

(* _restore_live_candidate_artifacts: copies, so the backup stays whole. *)
Restore ==
  /\ Steps("restore", "dropFailed")
  /\ live' = [live EXCEPT ![promotion.part] = backup.parts[promotion.part]]
  /\ UNCHANGED backup

(* rmtree with ignore_errors: the backup goes, or some of it is left.  A   *)
(* promotion that succeeded goes on to finalize_candidate_regeneration.    *)
Drop ==
  /\ promotion.at \in {"drop", "dropFailed"}
  /\ \/ backup' = NoBackup
     \/ \E part \in Part : backup' = [backup EXCEPT !.parts[part] = None]
  /\ promotion' =
       IF promotion.at = "drop" /\ promotion.previous \notin {None, promotion.gen}
       THEN [promotion EXCEPT !.at = "archive"] ELSE Idle
  /\ UNCHANGED live

(* The review state that goes with the previous candidates is moved away,  *)
(* and the cached renderings removed; what they do is the review's.        *)
Archived ==
  /\ promotion.at = "archive"
  /\ promotion' = [promotion EXCEPT !.at = "clear"]
  /\ UNCHANGED <<live, backup>>

Cleared ==
  /\ promotion.at = "clear"
  /\ promotion' = Idle
  /\ UNCHANGED <<live, backup>>

(* The worker dies, or an error outside the try ends it. *)
Dies ==
  /\ promotion.at # "idle"
  /\ promotion' = Idle
  /\ UNCHANGED <<live, backup>>

Promotes == \/ Stage \/ Lock \/ BackUp \/ Promote \/ PromoteFails \/ Restore
            \/ Drop \/ Dies

-----------------------------------------------------------------------------
(* Unless a backup tells that a promotion was cut short, the candidates    *)
(* that users of the lock find are all of one generation.                  *)
CandidatesAreOneGeneration ==
  LockFree /\ ~backup.there => \A a, b \in Part : live[a] = live[b]

(* As long as the backup holds anything, some generation can be put        *)
(* together from it and from the live artifacts.                           *)
CandidatesSurvive ==
  (\E a \in Part : backup.parts[a] # None)
    => \E g \in Gen : \A a \in Part : g \in {live[a], backup.parts[a]}

(* Whatever fails and whenever the worker dies, a reviewer never works on  *)
(* a mixture of candidates, and none are lost.                             *)
CandidatesAreWhole == CandidatesAreOneGeneration /\ CandidatesSurvive

=============================================================================
