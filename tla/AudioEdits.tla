----------------------------- MODULE AudioEdits -----------------------------
(***************************************************************************)
(* The audio of one candidate clip under edits, sample by sample           *)
(* (clip_lab_audio.py, clip_lab_audio_ops.py): operations on the timeline  *)
(* that earlier operations left, their undo and redo, renderings kept in a *)
(* cache under a key of the source and the operations, the peaks kept      *)
(* under the same key, and what a page is told and served.                 *)
(*                                                                         *)
(* Document and manifest are read and written under the run's file lock,   *)
(* one action a section; rendering and peaks run outside it, while other   *)
(* requests render the same revision and a worker replaces the candidates. *)
(* Who may edit, and acceptance, are in ClipLab.                           *)
(***************************************************************************)
EXTENDS Integers, Sequences, SequencesExt, FiniteSets, FiniteSetsExt

CONSTANTS Renderer,            \* requests that render at once
          Original,            \* the audio of each generation of candidates
          Operation,           \* the operations that pages send
          MaxInsert, MaxExtra, \* MAX_INSERT_SILENCE_SEC, MAX_EXTRA_DURATION_SEC
          MaxEdits             \* bound: edits of the document

VARIABLES
  manifest, audio,  \* the generation of the manifest and of the candidate's file, or Absent
  native,           \* the exported clip that may be played in its place: the
                    \* generation it was cut for, Absent or Torn
  overtaken,        \* history: a resume replaced the candidates and left that clip
  slicer,           \* how far a regeneration of the candidates has come
  doc,              \* the audio_edit of the clip's entry
  wav, peaks,       \* the files of renders and peaks, by key
  job,              \* what each request renders
  edits             \* bound: the edits so far

vars == <<manifest, audio, native, overtaken, slicer, doc, wav, peaks, job, edits>>

Gen    == DOMAIN Original
Absent == 0   \* no file, no document
Torn   == -1  \* a file that is being written

-----------------------------------------------------------------------------
(* The operations, on timelines that start with sample 0. *)
Delete(s, e) == [kind |-> "delete_range", at |-> s, to |-> e]
Insert(a, d) == [kind |-> "insert_silence", at |-> a, to |-> a + d]
Width(op)    == op.to - op.at
Silence      == 0

(* validate_audio_op. *)
Valid(op, length) ==
  /\ 0 <= op.at /\ op.at < op.to
  /\ IF op.kind = "delete_range" THEN op.to <= length
     ELSE op.at <= length /\ Width(op) <= MaxInsert

(* Mutant: the rest begins one sample late. *)
CutLate(samples, op) ==
  IF op.kind = "delete_range"
  THEN SubSeq(samples, 1, op.at) \o SubSeq(samples, op.to + 2, Len(samples))
  ELSE SubSeq(samples, 1, op.at) \o [i \in 1..Width(op) |-> Silence]
       \o SubSeq(samples, op.at + 1, Len(samples))

(* apply_audio_op. *)
Applied(samples, op) ==
  IF op.kind = "delete_range"
  THEN SubSeq(samples, 1, op.at) \o SubSeq(samples, op.to + 1, Len(samples))
  ELSE SubSeq(samples, 1, op.at) \o [i \in 1..Width(op) |-> Silence]
       \o SubSeq(samples, op.at + 1, Len(samples))

(* apply_audio_ops of operations that were validated. *)
Rendered(samples, ops) == FoldLeft(Applied, samples, ops)

(* timeline_length_after_ops. *)
LengthAfter(length, op) == IF op.kind = "delete_range" THEN length - Width(op)
                           ELSE length + Width(op)
TimelineLength(length, ops) == FoldLeft(LengthAfter, length, ops)

(* validate_audio_ops_recipe. *)
Recipe(length, ops) ==
  \A i \in DOMAIN ops :
    LET before == TimelineLength(length, SubSeq(ops, 1, i - 1))
        after  == LengthAfter(before, ops[i])
    IN  Valid(ops[i], before) /\ 0 < after /\ after <= length + MaxExtra

-----------------------------------------------------------------------------
(* The source's hash and compute_audio_revision_hash, as what they hash.   *)
SourceKey(g)    == [source |-> Original[g], ops |-> <<>>]
KeyOf(g, ops)   == [source |-> Original[g], ops |-> ops]

NoEdit == [gen |-> Absent, ops |-> <<>>, redo |-> <<>>, status |-> "ready", sha |-> <<>>]
NoJob  == [at |-> "none", gen |-> Absent, key |-> Absent, samples |-> <<>>]

TypeOK ==
  /\ manifest \in Gen \cup {Absent} /\ audio \in Gen \cup {Absent}
  /\ native \in Gen \cup {Absent, Torn} /\ overtaken \in BOOLEAN
  /\ slicer \in {"idle", "cleared", "resumed", "archived", "renders"}
  /\ doc.ops \in Seq(Operation) /\ doc.redo \in Seq(Operation)
  /\ doc.status \in {"ready", "pending", "failed"}
  /\ \A r \in Renderer : job[r].at \in {"none", "look", "made", "peaks", "rendered", "failed"}
  /\ \A k \in DOMAIN wav \cup DOMAIN peaks : k.ops \in Seq(Operation)
  /\ edits \in 0..MaxEdits

(* The clip as an earlier backend left it: no edit, or an edit and what    *)
(* was undone of it, none of which could be rendered.                      *)
Left == {e \in [gen : {1}, ops : SeqOf(Operation, 1), redo : SeqOf(Operation, 1),
                status : {"failed", "ready"}, sha : {<<>>}] :
           /\ Recipe(Len(Original[1]), e.ops \o e.redo)
           /\ (e.status = "ready") = (e.ops = <<>>)
           /\ e.ops \o e.redo # <<>>}

Init ==
  /\ manifest = 1 /\ audio = 1 /\ native = Absent /\ overtaken = FALSE /\ slicer = "idle"
  /\ doc \in Left \cup {NoEdit} /\ wav = <<>> /\ peaks = <<>> /\ edits = 0
  /\ job = [r \in Renderer |-> NoJob]

-----------------------------------------------------------------------------
(* clip_lab_run_lock, not while a regeneration holds it, and the manifest. *)
Assembles == slicer \in {"cleared", "resumed"}

Locks == (slicer = "idle" \/ Assembles) /\ manifest # Absent

Source == Original[manifest]
Entry  == IF doc.gen = manifest THEN doc ELSE NoEdit

(* effective_revision_key. *)
Key == IF Entry.ops # <<>> /\ Entry.status = "ready" THEN KeyOf(manifest, Entry.ops)
       ELSE SourceKey(manifest)

(* _capture_source_wav_bytes, verify_source_wav_bytes. *)
Captures == audio # Absent /\ Original[audio] = Source

(* An edit: the operations are stored as pending under the key they make,  *)
(* with a job for them; without operations the entry goes, or is ready.    *)
Edits(r, ops, redo) ==
  /\ doc' = IF ops = <<>> /\ redo = <<>> THEN NoEdit
            ELSE [gen |-> manifest, ops |-> ops, redo |-> redo, sha |-> <<>>,
                  status |-> IF ops = <<>> THEN "ready" ELSE "pending"]
  /\ job' = IF ops = <<>> THEN job
            ELSE [job EXCEPT ![r] = [at |-> "look", gen |-> manifest,
                    key |-> KeyOf(manifest, ops), samples |-> Original[audio]]]
  /\ edits' = edits + 1
  /\ UNCHANGED <<manifest, audio, native, overtaken, slicer, wav, peaks>>

Requests(r) == Locks /\ job[r] = NoJob /\ edits < MaxEdits /\ Captures
               /\ doc.gen \in {Absent, manifest}

(* append_clip_audio_operation. *)
AppendOperation(r) ==
  /\ Requests(r)
  /\ \E op \in Operation :
       /\ Valid(op, TimelineLength(Len(Source), Entry.ops))
       /\ Recipe(Len(Source), Append(Entry.ops, op))
       /\ Edits(r, Append(Entry.ops, op), <<>>)

(* undo_clip_audio_operation and redo_clip_audio_operation. *)
Undo(r) == Requests(r) /\ Entry.ops # <<>>
           /\ Edits(r, Front(Entry.ops), Append(Entry.redo, Last(Entry.ops)))
Redo(r) == Requests(r) /\ Entry.redo # <<>>
           /\ Recipe(Len(Source), Append(Entry.ops, Last(Entry.redo)))
           /\ Edits(r, Append(Entry.ops, Last(Entry.redo)), Front(Entry.redo))

-----------------------------------------------------------------------------
Holds(files, key) == key \in DOMAIN files
With(files, key, samples) == [k \in DOMAIN files \cup {key} |->
                                IF k = key THEN samples ELSE files[k]]

Goes(r, at, samples) == job' = [job EXCEPT ![r].at = at, ![r].samples = samples]

(* render_audio_ops_to_cache_from_bytes: a file that is there is loaded,   *)
(* otherwise one is written beside it under a name of its own.             *)
Look(r) ==
  /\ job[r].at = "look"
  /\ IF Holds(wav, job[r].key) THEN Goes(r, "peaks", wav[job[r].key])
     ELSE Goes(r, "made", Rendered(job[r].samples, job[r].key.ops))
  /\ UNCHANGED <<manifest, audio, native, overtaken, slicer, doc, wav, peaks, edits>>

(* It looks again, and renames its own file into place. *)
Publish(r) ==
  /\ job[r].at = "made"
  /\ IF Holds(wav, job[r].key) THEN Goes(r, "peaks", wav[job[r].key]) /\ UNCHANGED wav
     ELSE Goes(r, "peaks", job[r].samples)
          /\ wav' = With(wav, job[r].key, job[r].samples)
  /\ UNCHANGED <<manifest, audio, native, overtaken, slicer, doc, peaks, edits>>

(* build_peaks_payload and atomic_publish_peaks_payload, if none is there. *)
PublishPeaks(r) ==
  /\ job[r].at = "peaks"
  /\ peaks' = IF Holds(peaks, job[r].key) THEN peaks
              ELSE With(peaks, job[r].key, job[r].samples)
  /\ Goes(r, "rendered", job[r].samples)
  /\ UNCHANGED <<manifest, audio, native, overtaken, slicer, doc, wav, edits>>

(* A step fails; another's rendering is taken for it when there is one.    *)
RenderFails(r) ==
  /\ job[r].at \in {"look", "made", "peaks"}
  /\ IF job[r].at # "peaks" /\ Holds(wav, job[r].key)
     THEN Goes(r, "peaks", wav[job[r].key])
     ELSE Goes(r, "failed", job[r].samples)
  /\ UNCHANGED <<manifest, audio, native, overtaken, slicer, doc, wav, peaks, edits>>

(* Mutant: only the manifest is compared. *)
SameManifest(r) == job[r].gen = manifest /\ doc.gen # Absent /\ doc.ops # <<>>

(* _audio_render_guard_matches. *)
StillCurrent(r) ==
  /\ job[r].gen = manifest /\ doc.gen # Absent /\ doc.ops # <<>>
  /\ job[r].key = KeyOf(doc.gen, doc.ops)

(* _finalize_render and _mark_render_failed_if_current; the lock may not   *)
(* be had in time, and then the entry stays pending.                       *)
Finalize(r) ==
  /\ job[r].at \in {"rendered", "failed"}
  /\ doc' = IF ~Locks \/ ~StillCurrent(r) THEN doc
            ELSE IF job[r].at = "failed" THEN [doc EXCEPT !.status = "failed"]
            ELSE [doc EXCEPT !.status = "ready", !.sha = job[r].samples]
  /\ job' = [job EXCEPT ![r] = NoJob]
  /\ UNCHANGED <<manifest, audio, native, overtaken, slicer, wav, peaks, edits>>

(* The backend dies. *)
Dies ==
  /\ \E r \in Renderer : job[r] # NoJob
  /\ job' = [r \in Renderer |-> NoJob]
  /\ UNCHANGED <<manifest, audio, native, overtaken, slicer, doc, wav, peaks, edits>>

-----------------------------------------------------------------------------
(* get_dataset_clip_lab_waveform_peaks of the original audio: captured     *)
(* under the lock, then loaded, or built and published, outside it.        *)
CapturePeaks(r) ==
  /\ Locks /\ job[r] = NoJob /\ Key = SourceKey(manifest) /\ Captures
  /\ ~Holds(peaks, Key)
  /\ job' = [job EXCEPT ![r] = [at |-> "peaks", gen |-> Absent, key |-> Key,
                                samples |-> Original[audio]]]
  /\ UNCHANGED <<manifest, audio, native, overtaken, slicer, doc, wav, peaks, edits>>

-----------------------------------------------------------------------------
(* rerun_slicer: the exported clips go first; the new candidates are       *)
(* promoted under the lock; another manifest archives the review and       *)
(* clears renders and peaks.  A resumed run promotes other candidates, of  *)
(* another speaker or other settings, and clears no export.  It may die    *)
(* between any two; where it dies in the promotion the clips, or they and  *)
(* the manifest, are in the backup, and no other promotion starts          *)
(* (CandidatePromotion).                                                   *)
ClearExports ==
  /\ slicer = "idle" /\ manifest < Len(Original)
  /\ slicer' = "cleared" /\ native' = Absent /\ overtaken' = FALSE
  /\ UNCHANGED <<manifest, audio, doc, wav, peaks, job, edits>>

Resume ==
  /\ slicer = "idle" /\ manifest < Len(Original)
  /\ slicer' = "resumed"
  /\ UNCHANGED <<manifest, audio, native, overtaken, doc, wav, peaks, job, edits>>

Promote ==
  /\ Assembles /\ Absent \notin {manifest, audio} /\ manifest < Len(Original)
  /\ \/ /\ manifest' = manifest + 1 /\ audio' = manifest'
        /\ slicer' = "archived" /\ doc' = NoEdit
        /\ overtaken' = (overtaken \/ (slicer = "resumed" /\ native # Absent))
     \/ /\ manifest' \in {manifest, Absent} /\ audio' = Absent
        /\ slicer' = "idle" /\ UNCHANGED <<overtaken, doc>>
  /\ UNCHANGED <<native, wav, peaks, job, edits>>

ClearRenders ==
  /\ slicer = "archived"
  /\ slicer' = "renders" /\ wav' = <<>>
  /\ UNCHANGED <<manifest, audio, native, overtaken, doc, peaks, job, edits>>

ClearPeaks ==
  /\ slicer = "renders"
  /\ slicer' = "idle" /\ peaks' = <<>>
  /\ UNCHANGED <<manifest, audio, native, overtaken, doc, wav, job, edits>>

SlicerDies ==
  /\ slicer # "idle" /\ slicer' = "idle"
  /\ UNCHANGED <<manifest, audio, native, overtaken, doc, wav, peaks, job, edits>>

(* export_native_candidate_clips removes all exported clips and cuts those *)
(* of the manifest anew.  A clip has the rate of its recording; where that *)
(* is not the rate of the candidates it is never played, as if not there.  *)
ExportNative ==
  /\ slicer = "idle" /\ manifest # Absent
  /\ native' \in IF native = Torn THEN {manifest, Absent} ELSE {Torn}
  /\ overtaken' = FALSE
  /\ UNCHANGED <<manifest, audio, slicer, doc, wav, peaks, job, edits>>

-----------------------------------------------------------------------------
Next ==
  \/ \E r \in Renderer :
       \/ AppendOperation(r) \/ Undo(r) \/ Redo(r) \/ CapturePeaks(r)
       \/ Look(r) \/ Publish(r) \/ PublishPeaks(r) \/ RenderFails(r) \/ Finalize(r)
  \/ Dies \/ ClearExports \/ Resume \/ Promote \/ ClearRenders \/ ClearPeaks \/ SlicerDies
  \/ ExportNative

Spec == Init /\ [][Next]_vars

-----------------------------------------------------------------------------
(* resolve_revision_media_bytes for the current key.  An exported clip at  *)
(* the candidates' rate was cut where the candidate of its day was, and is *)
(* found under the name of the clip alone.                                 *)
Served == IF Key.ops # <<>> THEN wav[Key]
          ELSE Original[IF native # Absent THEN native ELSE audio]

(* current_duration_samples of audio_view_fields. *)
ShownLength == TimelineLength(Len(Source), Key.ops)

(* Where a sample of the timeline was before an operation, traced back to  *)
(* the source; -1 where it is inserted silence.                            *)
Before(op, i) ==
  CASE i < op.at -> i
    [] i >= op.at /\ op.kind = "delete_range" -> i + Width(op)
    [] i >= op.at /\ i < op.to /\ op.kind = "insert_silence" -> -1
    [] i >= op.to /\ op.kind = "insert_silence" -> i - Width(op)

Heard(key, i) ==
  LET origin == FoldRight(Before, key.ops, i) IN
  IF origin = -1 THEN Silence ELSE key.source[origin + 1]

(* The audio a listener of the operations expects: every sample kept is    *)
(* where the later operations moved it, silence where it was inserted, and *)
(* nothing else.                                                           *)
IsEdited(samples, key) ==
  /\ Len(samples) = TimelineLength(Len(key.source), key.ops)
  /\ \A i \in 0..Len(samples) - 1 : samples[i + 1] = Heard(key, i)

(* Whatever renders, dies or is replaced meanwhile: every file under a key *)
(* is the source of that key edited as it says, and its peaks are drawn of *)
(* that audio; what a page is told is ready is on disk with its peaks, of  *)
(* the hash that acceptance and export compare; and what is played is the  *)
(* current source as edited, of the length that the page says.  Excepted   *)
(* is the unedited audio after a promotion that died, while a clip is      *)
(* being exported, and where a resume replaced the candidates and left the *)
(* clips exported of the earlier ones, one of which is then played.        *)
ServedIsEdited ==
  /\ \A key \in DOMAIN wav : IsEdited(wav[key], key)
  /\ \A key \in DOMAIN peaks : IsEdited(peaks[key], key)
  /\ Locks /\ Key.ops # <<>> =>
       Holds(wav, Key) /\ Holds(peaks, Key) /\ doc.sha = wav[Key]
  /\ Locks /\ (Key.ops = <<>> => audio # Absent /\ native # Torn /\ ~overtaken) =>
       /\ IsEdited(Served, Key)
       /\ Len(Served) = ShownLength /\ 0 < ShownLength

=============================================================================
