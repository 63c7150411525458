------------------------------- MODULE MCParts -------------------------------
(***************************************************************************)
(* Parts of the program that share no state and never wait for one         *)
(* another, checked in one run: the first state picks the part that moves, *)
(* and the others keep their initial state.  The reachable states are the  *)
(* disjoint union of theirs.                                               *)
(*                                                                         *)
(* Alpha, Beta and Gamma are pairs of interchangeable values: each part    *)
(* takes its actors and its items from them; Trio adds a third to Alpha.   *)
(***************************************************************************)
EXTENDS Naturals, Sequences, FiniteSets, TLC

CONSTANTS
  Alpha, Beta, Gamma, Trio, None,
  Upload, Chunk, MaxCrashes,                                      \* Uploads
  Key, Hub, Version, Good, FilePieces, Attempts,                    \* ModelInstall
  Status, Text, Name, Spelling, Colour, Original, Empty, MaxCommits, \* SliceHistory
  Reuse, Crashes, Faults,                                         \* BackendService
  RunId, Asset, Torn,                                             \* ReferenceRuns
  Edition,                                                        \* InstallLinux
  MaxClips, MaxGen,                                               \* DatasetQc
  Lengths, Gap, Solo, Bounds, MaxTurns, SampleCount, SampleLength, \* SpeakerRegions
  Sizes, JobId, MaxPipe                                           \* AsrEnsure

TwoLengths == <<3, 2>>   \* for Lengths of SpeakerRegions

ASSUME NoneAssumption   == None \notin Alpha
ASSUME SwitchAssumption == {Crashes, Faults, Reuse} \subseteq BOOLEAN

VARIABLES
  part,   \* the part that moves
  session, chunk, marker, sources, rows, request, deletion, doomed, lost, up, crashes,
  tree, stage, holder, proc,
  slice, tag, commits, call,
  ctl, stored, disk, svc, open, watch, thread, late, group,
  project, recs, row, dir, worker, asked, asset, reused, deaths,
  lock, release, command, current, tool, shared,
  cand, tq, sp, rank, qc, exp, job, decision, done, beyond,
  count, turns, regions, samples, listed, chosen, known, read, target,
  diarizer, choosing, crossed,
  jobs, active, tending, ensurer, cache, issued, losses

Up   == INSTANCE Uploads WITH Session <- Upload, Recording <- Beta, Request <- Gamma
Inst == INSTANCE ModelInstall WITH Installer <- Alpha, Size <- FilePieces
Hist == INSTANCE SliceHistory WITH Client <- Alpha
Svc  == INSTANCE BackendService WITH Child <- Alpha
Refs == INSTANCE ReferenceRuns WITH
          Recording <- Alpha, Thread <- Beta, Request <- Gamma, MaxCrashes <- 1,
          thread <- worker, request <- asked, crashes <- deaths
Lin  == INSTANCE InstallLinux WITH Process <- Trio, Version <- Edition, proc <- tool
Qual == INSTANCE DatasetQc WITH worker <- job, call <- decision
Spk  == INSTANCE SpeakerRegions WITH
          Speaker <- Alpha, Nobody <- None, worker <- diarizer, request <- choosing
Asr  == INSTANCE AsrEnsure WITH
          Model <- Sizes, Id <- JobId, MaxDeaths <- 1,
          thread <- tending, proc <- ensurer, deaths <- losses

ASSUME ModelsAssumption ==
  /\ None \notin Inst!Stage
  /\ {FilePieces, Attempts} \subseteq Nat /\ Good \in Version

ASSUME EnsureAssumption ==
  /\ JobId \subseteq Nat \ {0} /\ IsFiniteSet(JobId)
  /\ MaxPipe \in Nat

ASSUME SlicesAssumption == MaxCommits \in Nat

ASSUME SpeakersAssumption ==
  /\ Lengths \in Seq(Nat) /\ Gap \in Nat
  /\ Bounds \subseteq Nat
  /\ SampleCount \in Nat \ {0} /\ SampleLength \in Nat

ASSUME UploadsAssumption ==
  /\ MaxCrashes \in Nat
  /\ None \notin Upload \cup Beta \cup Up!Json
  /\ None \notin [rec : Beta, names : SUBSET Up!Names] \cup [u : Upload, names : SUBSET Up!Names]

ASSUME InstallAssumption == None \notin Trio \cup Edition

ASSUME ReferencesAssumption == None \notin Refs!Spaces \cup {"ready", "failed"}

(* The steps of the dataset worker, and its files of scores and decisions  *)
(* (DatasetQc).                                                            *)
StepName == {"-transcript", "-speaker", "-rank", "-qc", "-manifest", "-summary", "-clips",
             "aside", "slice", "+transcript", "+speaker", "+rank", "+clips", "+manifest",
             "+summary"}
TextFile  == [gen : 1 .. MaxGen, good : SUBSET Qual!Clips]
VoiceFile == [gen : 1 .. MaxGen, good : SUBSET Qual!Clips, calibrated : BOOLEAN]
DecisionFile == [gen : 1 .. MaxGen, tq : TextFile, sp : VoiceFile, kept : SUBSET Qual!Clips,
                 accepted : SUBSET Qual!Clips]

ASSUME QualityAssumption ==
  /\ MaxGen \in Nat \ {0} /\ MaxClips \in Nat
  /\ None \notin {"stands", "outdated"}
  /\ None \notin [kind : {"slicer", "scores", "export", "process"}, stop : 1 .. 4,
                  left : Seq(StepName), cut : SUBSET Qual!Clips]
  /\ None \notin [pc : {"write", "writing"}, new : DecisionFile]

uploads   == <<session, chunk, marker, sources, rows, request, deletion, doomed, lost, up,
               crashes>>
models    == <<tree, stage, holder, proc>>
slices    == <<slice, tag, commits, call>>
backend   == <<ctl, stored, disk, svc, open, watch, thread, late, group>>
refs      == <<project, recs, row, dir, worker, asked, asset, reused, deaths>>
installer == <<lock, release, command, current, tool, shared>>
quality   == <<cand, tq, sp, rank, qc, exp, job, decision, done, beyond>>
speakers  == <<count, turns, regions, samples, listed, chosen, known, read, target,
               diarizer, choosing, crossed>>
ensures   == <<jobs, active, tending, ensurer, cache, issued, losses>>
vars == <<part, uploads, models, slices, backend, refs, installer, quality, speakers,
          ensures>>

(* A part that does not move starts in one of its initial states only.     *)
Init ==
  /\ part \in {"uploads", "models", "slices", "backend", "references", "installer",
              "quality", "speakers", "ensure"}
  /\ IF part = "models" THEN TRUE ELSE tree = [k \in Key |-> "none"]
  /\ Up!Init /\ Inst!Init /\ Hist!Init /\ Svc!Init
  /\ Refs!Init /\ Lin!Init /\ Qual!Init /\ Spk!Init /\ Asr!Init
  /\ part # "quality" => cand.clips = 0 /\ done = 1
  /\ part # "speakers" => count = 1 /\ known = {} /\ chosen = Spk!Absent
  /\ part # "ensure" => cache = [m \in Sizes |-> {}]
  /\ part # "slices" =>
       /\ slice.status = CHOOSE s \in Status : TRUE
       /\ tag = <<>>

Next ==
  /\ UNCHANGED part
  /\ \/ part = "uploads" /\ Up!Next
     \/ part # "uploads" /\ UNCHANGED uploads
  /\ \/ part = "models" /\ Inst!Next
     \/ part # "models" /\ UNCHANGED models
  /\ \/ part = "slices" /\ Hist!Next
     \/ part # "slices" /\ UNCHANGED slices
  /\ \/ part = "backend" /\ Svc!Next
     \/ part # "backend" /\ UNCHANGED backend
  /\ \/ part = "references" /\ Refs!Next
     \/ part # "references" /\ UNCHANGED refs
  /\ \/ part = "installer" /\ Lin!Next
     \/ part # "installer" /\ UNCHANGED installer
  /\ \/ part = "quality" /\ Qual!Next
     \/ part # "quality" /\ UNCHANGED quality
  /\ \/ part = "speakers" /\ Spk!Next
     \/ part # "speakers" /\ UNCHANGED speakers
  /\ \/ part = "ensure" /\ Asr!Next
     \/ part # "ensure" /\ UNCHANGED ensures

Spec == Init /\ [][Next]_vars

(* The third process of the installer is not one of a pair.                *)
Alike == Permutations(Alpha) \cup Permutations(Beta) \cup Permutations(Gamma)

-----------------------------------------------------------------------------
(* Each part's state has the shapes its code writes.                       *)
TypeOK ==
  CASE part = "uploads"    -> Up!TypeOK
    [] part = "models"     -> Inst!TypeOK
    [] part = "slices"     -> Hist!TypeOK
    [] part = "backend"    -> Svc!TypeOK
    [] part = "references" -> Refs!TypeOK
    [] part = "installer"  -> Lin!TypeOK
    [] part = "quality"    -> Qual!TypeOK
    [] part = "speakers"   -> Spk!TypeOK
    [] part = "ensure"     -> Asr!TypeOK

(* Uploads: one recording for an upload, every recording has its files,    *)
(* every other file among the sources is named by a marker.                *)
SourcesAreAccounted == part = "uploads" => Up!SourcesAreAccounted

(* Model installation: what a resumed transfer appends to is what its      *)
(* running digest covers, and is of one version of the file.  And a        *)
(* recognition model: what a page is told of its download is so, and       *)
(* somebody tends what is shown as under way (asr_model_ensure.py).        *)
DownloadIsIntact ==
  /\ part = "models" => Inst!DownloadIsIntact
  /\ part = "ensure" => Asr!JobsAreTended

(* Slice history: a slice shows the snapshot of its active commit.         *)
ShownIsActive == part = "slices" => Hist!ShownIsActive

(* Managed backend: one that may write is named in the state file, and     *)
(* none is left when the ownership of the installation is released.        *)
BackendIsOwned == part = "backend" => Svc!ServesIsRecorded /\ Svc!StoppedFirst

(* Model installation: an artifact that stands whole stays.                *)
InstalledStays == Inst!InstalledStays

(* Reference runs: a completed run's files are of one attempt, an asset    *)
(* has its files, and a rerank compares vectors of one space.              *)
ReferencesAreWhole == part = "references" => Refs!ReferencesAreWhole

(* The Linux installer: the pointer names a release that is there, a       *)
(* failed activation is undone, and the lock is released.                  *)
InstallHolds == part = "installer" => Lin!InstallHolds

(* Dataset quality: decisions, exports and the ranking are about the       *)
(* candidates and the scores that stand, unless one of the named courses   *)
(* was taken for which the code makes no provision.                        *)
DecisionsStand == part = "quality" => Qual!DecisionsStand

(* Diarization: a speaker has a region just where that speaker was heard,  *)
(* and the run is about somebody who was, unless the choice of another     *)
(* crossed the diarization.                                                *)
SpeakersAreFound == part = "speakers" => Spk!RegionsAreTrue /\ Spk!TargetIsHeard

=============================================================================
