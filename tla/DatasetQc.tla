------------------------------ MODULE DatasetQc -------------------------------
(***************************************************************************)
(* What becomes of the quality decisions about one dataset run's clips     *)
(* (backend/app/dataset_qc.py and the dataset worker's rerun_slicer.py,    *)
(* generate_qc_scores.py, rerun_export.py, run.py, qc_artifacts.py and     *)
(* export.py).  The worker scores the candidate clips; on the QC page      *)
(* somebody finalizes which of them are accepted; the export cuts those.   *)
(* Each is a JSON file that names clips by their ordinal, which every      *)
(* regeneration gives out again.  The backend finalizes without asking     *)
(* whether a worker runs, neither writes its files atomically, and either  *)
(* may die at any step.                                                    *)
(*                                                                         *)
(* How a worker is launched and noticed to be gone is DatasetRun's, how    *)
(* candidates are replaced CandidatePromotion's.  A score is abstracted to *)
(* whether it passes the threshold of the request.                         *)
(***************************************************************************)
EXTENDS Naturals, Sequences

CONSTANTS
  MaxClips,   \* bound: candidate clips
  MaxGen,     \* bound: generations of candidates that differ
  None, Torn  \* a file that is not there, and one that is being written

VARIABLES
  cand,     \* candidate_review_manifest.json: generation and number of clips
  tq, sp,   \* transcript_qc.json and speaker_purity.json
  rank,     \* reference_quality.json, and whether the scores it ranks still stand
  qc,       \* dataset_qc.json
  exp,      \* export_manifest.json with export_audit.json, export_summary.json and
            \* native_export_clips
  worker,   \* the worker: what it was launched as, the steps it has left, the clips it cut
  call,     \* the finalization under way
  done,     \* the stage the run is completed through
  beyond    \* what happened that the code makes no provision for, if anything

decisions == <<cand, tq, sp, rank, qc, exp, worker, call, done, beyond>>

Clips    == 1 .. MaxClips
Whole(f) == f \notin {None, Torn}
Listed   == IF cand = None THEN {} ELSE 1 .. cand.clips
NoExport == [manifest |-> None, summary |-> None, clips |-> None]
Stages   == <<"candidates", "transcript", "speaker", "export">>

(* A fresh run has been sliced; scores of an earlier release may have been *)
(* calibrated.                                                             *)
Init ==
  /\ \E n \in 0 .. MaxClips : cand = [gen |-> 1, clips |-> n]
  /\ \/ tq = None /\ sp = None /\ done = 1
     \/ /\ tq = [gen |-> 1, good |-> Listed]
        /\ sp = [gen |-> 1, good |-> Listed, calibrated |-> TRUE]
        /\ done = 3
  /\ rank = None /\ qc = None /\ exp = NoExport
  /\ worker = None /\ call = None /\ beyond = "nothing"

-----------------------------------------------------------------------------
(* The worker.  Files are cleared, or written, one after another.  An      *)
(* export has read the candidates and the decisions before it clears.      *)
(* ClearedScores is a mutant of Cleared: the decisions stay.               *)
ClearedExport == <<"-manifest", "-summary", "-clips">>

ClearedScores == <<"-transcript", "-speaker", "-rank">> \o ClearedExport

Cleared == <<"-transcript", "-speaker", "-rank", "-qc">> \o ClearedExport

Sliced   == <<"aside", "slice">>
Scored   == <<"+transcript", "+speaker", "+rank">>
Exported == <<"-clips", "+clips", "+manifest", "+summary">>

(* A slicer rerun and a regeneration of the scores clear what depends on   *)
(* what they make; the stages of a resumed run do not.                     *)
Steps(kind, stop) ==
  CASE kind = "slicer"  -> Cleared \o Sliced \o Scored
    [] kind = "scores"  -> Cleared \o Scored
    [] kind = "export"  -> Exported
    [] kind = "process" -> Sliced \o (CASE stop = 1 -> <<>>
                                        [] stop = 2 -> <<"+transcript">>
                                        [] stop = 3 -> Scored
                                        [] stop = 4 -> Scored \o Exported)

Launch(kind, stop) ==
  /\ worker = None
  /\ worker' = [kind |-> kind, stop |-> stop, left |-> Steps(kind, stop), cut |-> {}]
  /\ done' = 0
  /\ UNCHANGED <<cand, tq, sp, rank, qc, exp, call>>

RerunSlicer == Launch("slicer", 3)
GenerateScores ==
  /\ cand # None
  /\ \E force \in BOOLEAN : (qc # None => force) /\ Launch("scores", 3)
RerunExport == cand # None /\ Launch("export", 4)
Resume == \E stop \in 1 .. 4 : done < stop /\ Launch("process", stop)

At(step) == worker # None /\ worker.left # <<>> /\ Head(worker.left) = step
Goes     == worker' = [worker EXCEPT !.left = Tail(@)] /\ UNCHANGED done
Dies     == worker' = None /\ done' = 0

(* A file is written in place: either all of it, or the worker ends there. *)
Writes(file, S) ==
  \/ Goes /\ file \in S
  \/ Dies /\ file = Torn

Clear ==
  /\ \/ At("-transcript") /\ tq' = None /\ UNCHANGED <<sp, rank, qc, exp>>
     \/ At("-speaker") /\ sp' = None /\ UNCHANGED <<tq, rank, qc, exp>>
     \/ At("-rank") /\ rank' = None /\ UNCHANGED <<tq, sp, qc, exp>>
     \/ At("-qc") /\ qc' = None /\ UNCHANGED <<tq, sp, rank, exp>>
     \/ At("-manifest") /\ exp' = [exp EXCEPT !.manifest = None] /\ UNCHANGED <<tq, sp, rank, qc>>
     \/ At("-summary") /\ exp' = [exp EXCEPT !.summary = None] /\ UNCHANGED <<tq, sp, rank, qc>>
     \/ /\ At("-clips")
        /\ \/ worker.stop # 4 /\ exp' = [exp EXCEPT !.clips = None]
           \/ /\ worker.stop = 4 /\ cand # None /\ qc # Torn
              /\ exp' = [exp EXCEPT !.clips = [gen |-> cand.gen, cut |-> {}]]
        /\ UNCHANGED <<tq, sp, rank, qc>>
  /\ Goes
  /\ UNCHANGED <<cand, call>>

(* Candidates come out as they were, or otherwise after another choice of  *)
(* speaker or of the slicer's settings.                                    *)
Slice ==
  /\ \/ At("aside") /\ cand' = None
     \/ /\ At("slice")
        /\ \E g \in 1 .. MaxGen, n \in 0 .. MaxClips : cand' = [gen |-> g, clips |-> n]
  /\ Goes
  /\ UNCHANGED <<tq, sp, rank, qc, exp, call>>

(* A clip that cannot be transcribed or compared stays in the file without *)
(* a score.  No speaker score is calibrated today, and one that names no   *)
(* scored clip at all is not published.  The ranking is left out if it     *)
(* fails.                                                                  *)
Outdated(r) == IF r = None THEN None ELSE "outdated"

Score ==
  /\ cand # None
  /\ \/ /\ At("+transcript")
        /\ Writes(tq', [gen : {cand.gen}, good : SUBSET Listed])
        /\ rank' = Outdated(rank)
        /\ UNCHANGED sp
     \/ /\ At("+speaker") /\ Listed # {}
        /\ Writes(sp', [gen : {cand.gen}, good : SUBSET Listed, calibrated : {FALSE}])
        /\ rank' = Outdated(rank)
        /\ UNCHANGED tq
     \/ /\ At("+rank")
        /\ rank' \in {rank, "stands"}
        /\ Goes
        /\ UNCHANGED <<tq, sp>>
  /\ UNCHANGED <<cand, qc, exp, call>>

(* export_native_candidate_clips: the accepted among the candidates, or    *)
(* all of them if nothing was decided.  One without its source or without  *)
(* valid coordinates is not cut, and the audit says so beside those that   *)
(* are not accepted.  The directory is made again if it has gone since.    *)
(* The manifest and the audit are written, and cleared, one right after    *)
(* the other, and nothing here reads them: they count as one file, which   *)
(* is torn unless both are whole.                                          *)
Exportable(d) == IF d = None THEN Listed ELSE Listed \cap d.accepted

Cut(made)      == [gen |-> cand.gen, cut |-> made]
Summary(made)  == [gen |-> cand.gen, clips |-> made]
Manifest(made) == [gen |-> cand.gen, clips |-> made, uncut |-> Exportable(qc) \ made]

CutAccepted ==
  /\ At("+clips")
  /\ \/ \E made \in SUBSET Exportable(qc) :
          /\ worker' = [worker EXCEPT !.left = Tail(@), !.cut = made]
          /\ exp' = [exp EXCEPT !.clips = Cut(made)]
          /\ UNCHANGED done
     \/ Dies /\ \E made \in SUBSET Exportable(qc) : exp' = [exp EXCEPT !.clips = Cut(made)]

Export ==
  /\ cand # None /\ qc # Torn
  /\ \/ CutAccepted
     \/ /\ At("+manifest")
        /\ \E m \in {Torn, Manifest(worker.cut)} : exp' = [exp EXCEPT !.manifest = m]
        /\ Writes(exp'.manifest, {Manifest(worker.cut)})
     \/ /\ At("+summary")
        /\ \E m \in {Torn, Summary(worker.cut)} : exp' = [exp EXCEPT !.summary = m]
        /\ Writes(exp'.summary, {Summary(worker.cut)})
  /\ UNCHANGED <<cand, tq, sp, rank, qc, call>>

(* It has nothing left to do.                                              *)
Completes ==
  /\ worker # None /\ worker.left = <<>>
  /\ worker' = None
  /\ done' = worker.stop
  /\ UNCHANGED <<cand, tq, sp, rank, qc, exp, call>>

(* It fails, is cancelled or is killed.  A slicer rerun whose scores fail  *)
(* has completed with its candidates.                                      *)
Stops ==
  /\ worker # None
  /\ worker' = None
  /\ \/ Dies
     \/ worker.kind = "slicer" /\ Len(worker.left) <= Len(Scored) /\ done' = 1
  /\ UNCHANGED <<cand, tq, sp, rank, qc, exp, call>>

-----------------------------------------------------------------------------
(* finalize_dataset_qc: what is there is looked at, then each file is read,*)
(* a file that has gone by then counting as one without rows.              *)
Here(pc)    == call # None /\ call.pc = pc
Moves(new)  == call' = new
Rows(f)     == IF f = None THEN [gen |-> 0, good |-> {}, calibrated |-> TRUE] ELSE f

Finalize ==
  /\ call = None
  /\ cand # None /\ tq # None /\ sp # None
  /\ call' = [pc |-> "manifest", cand |-> None, tq |-> None, sp |-> None]
  /\ UNCHANGED <<cand, tq, sp, rank, qc, exp, worker, done>>

Read ==
  /\ \/ Here("manifest") /\ Moves([call EXCEPT !.pc = "transcript", !.cand = cand])
     \/ Here("transcript") /\ tq # Torn
        /\ Moves([call EXCEPT !.pc = "speaker", !.tq = Rows(tq)])
     \/ Here("speaker") /\ sp # Torn /\ Moves([call EXCEPT !.pc = "judge", !.sp = Rows(sp)])
  /\ UNCHANGED <<cand, tq, sp, rank, qc, exp, worker, done>>

(* A clip without its audio is rejected, whatever is asked for it; others  *)
(* as the reviewer says, or by the thresholds and only if the score, which *)
(* is read a second time for this, is not marked uncalibrated.             *)
Accepted(clips, keep, reject) ==
  LET passed == IF Rows(sp).calibrated THEN call.tq.good \cap call.sp.good ELSE {}
  IN ((clips \cap passed) \cup keep) \ reject

Judge ==
  /\ Here("judge")
  /\ tq # Torn /\ sp # Torn
  /\ LET clips == IF call.cand = None THEN {} ELSE 1 .. call.cand.clips
         heard == clips \cap Listed
     IN \E keep \in SUBSET heard : \E reject \in SUBSET (clips \ keep) :
          Moves([pc |-> "write",
                 new |-> [gen |-> IF call.cand = None THEN 0 ELSE call.cand.gen,
                          tq |-> call.tq, sp |-> call.sp, kept |-> keep,
                          accepted |-> Accepted(heard, keep, reject)]])
  /\ UNCHANGED <<cand, tq, sp, rank, qc, exp, worker, done>>

(* dataset_qc.json is replaced in place, also one that cannot be read;     *)
(* then what was exported is removed.                                      *)
Write ==
  /\ \/ Here("write") /\ qc' = Torn /\ Moves([call EXCEPT !.pc = "writing"])
     \/ Here("writing") /\ qc' = call.new /\ Moves([pc |-> "clear-manifest"])
  /\ UNCHANGED <<cand, tq, sp, rank, exp, worker, done>>

ClearExport ==
  /\ \/ /\ Here("clear-manifest")
        /\ exp' = [exp EXCEPT !.manifest = None]
        /\ Moves([call EXCEPT !.pc = "clear-summary"])
     \/ /\ Here("clear-summary")
        /\ exp' = [exp EXCEPT !.summary = None]
        /\ Moves([call EXCEPT !.pc = "clear-clips"])
     \/ Here("clear-clips") /\ exp' = [exp EXCEPT !.clips = None] /\ Moves(None)
  /\ UNCHANGED <<cand, tq, sp, rank, qc, worker, done>>

(* A file cannot be read, or the backend dies.                             *)
Halfway == {"writing", "clear-manifest", "clear-summary", "clear-clips"}
Abandon ==
  /\ call # None
  /\ call' = None
  /\ UNCHANGED <<cand, tq, sp, rank, qc, exp, worker, done>>

-----------------------------------------------------------------------------
Step ==
  \/ RerunSlicer \/ GenerateScores \/ RerunExport \/ Resume
  \/ Clear \/ Slice \/ Score \/ Export \/ Completes \/ Stops
  \/ Finalize \/ Read \/ Judge \/ Write \/ ClearExport \/ Abandon

(* What the code makes no provision for: a finalization beside a worker,   *)
(* one that the backend did not survive while there was an export, and a   *)
(* run resumed over decisions, or over scores of which it did not replace  *)
(* all.  Nothing is promised after that, so that it is not followed        *)
(* further: to clear all files leads to states that are reached without.   *)
Overlap == worker # None /\ call # None
StandsThrough ==
  IF sp # None \/ rank # None THEN 3 ELSE IF tq # None THEN 2 ELSE 0
ResumedOver ==
  /\ worker # None /\ worker.kind = "process"
  /\ \/ qc # None
     \/ worker' = None /\ done' < StandsThrough
     \/ At("+rank") /\ rank' = "outdated"
Remember ==
  beyond' =
    IF Overlap' THEN "overlap"
    ELSE IF call # None /\ call.pc \in Halfway /\ call' = None /\ exp' # NoExport
      THEN "halfway"
    ELSE IF ResumedOver THEN "resumed"
    ELSE "nothing"

Next == beyond = "nothing" /\ Step /\ Remember

Spec == Init /\ [][Next]_decisions

-----------------------------------------------------------------------------
(* Each file is absent, torn or of the shape its writer gives it.          *)
TypeOK ==
  /\ cand # None => cand.gen \in 1 .. MaxGen /\ cand.clips \in 0 .. MaxClips
  /\ Whole(tq) => tq.good \subseteq Clips
  /\ Whole(sp) => sp.good \subseteq Clips /\ sp.calibrated \in BOOLEAN
  /\ Whole(qc) => qc.accepted \cup qc.kept \subseteq Clips
  /\ Whole(exp.manifest) => exp.manifest.clips \cup exp.manifest.uncut \subseteq Clips
  /\ exp.clips # None => exp.clips.cut \subseteq Clips
  /\ rank \in {None, "stands", "outdated"}
  /\ done \in 0 .. 4

(* get_dataset_qc: the page shows clips once all three files can be read,  *)
(* and on them what the decisions of that name override.                   *)
Ready == cand # None /\ Whole(tq) /\ Whole(sp)
Kept  == IF Ready /\ Whole(qc) THEN Listed \cap qc.kept ELSE {}

(* Decisions are about the clips that stand, and were made from the scores *)
(* that stand; nobody but a reviewer accepts a clip whose scores do not    *)
(* pass or are uncalibrated, and the page shows what a reviewer kept.      *)
DecidedOnWhatStands ==
  Whole(qc) =>
    /\ cand # None => qc.gen = cand.gen
    /\ Whole(tq) => tq.good = qc.tq.good /\ tq.gen = qc.tq.gen
    /\ sp # None => sp = qc.sp
    /\ Ready => Kept = qc.kept
    /\ \A c \in qc.accepted \ qc.kept :
         c \in qc.tq.good \cap qc.sp.good /\ qc.sp.calibrated

(* What is exported once the run is completed through its export, and no   *)
(* finalization is under way, is what was decided, but for the clips of    *)
(* which the audit says that they could not be cut; the manifest, the      *)
(* summary and the directory agree on it.                                  *)
ExportIsDecided ==
  (done = 4 /\ worker = None /\ call = None /\ exp # NoExport) =>
    \E made \in SUBSET Exportable(qc) :
      exp = [manifest |-> Manifest(made), summary |-> Summary(made), clips |-> Cut(made)]

(* The ranking shown for the run was computed from the scores that stand.  *)
RankedByWhatStands ==
  worker = None => rank # "outdated"

DecisionsStand ==
  beyond = "nothing" => DecidedOnWhatStands /\ ExportIsDecided /\ RankedByWhatStands

=============================================================================
