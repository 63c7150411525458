------------------------------ MODULE ClipLab ------------------------------
(***************************************************************************)
(* The review of one candidate clip (clip_lab_state.py,                    *)
(* clip_lab_audio_ops.py, canonical_export.py), while a dataset worker may *)
(* be replacing the candidates under it (CandidatePromotion).              *)
(*                                                                         *)
(* Every request of the backend reads and rewrites the review document     *)
(* under the run's file lock: one action.  An audio edit renders between   *)
(* two such sections with the lock released, and an export checks the      *)
(* audio after releasing it.                                               *)
(***************************************************************************)
EXTENDS CandidatePromotion, Sequences, SequencesExt

CONSTANTS Client,      \* the pages that review the clip
          Op, Text,    \* the audio operations; the corrected transcripts
          Original,    \* the transcript of the manifest
          SourceOf,    \* the audio that a generation has for the clip
          MaxOps, MaxVersion  \* bounds: operations; edits of a document

ASSUME ClipLabAssumption ==
  SourceOf \in [Gen -> Gen] /\ MaxOps \in Nat /\ MaxVersion \in Nat

VARIABLES doc,       \* the clip's entry of the review document
          cache,     \* the renderings on disk
          seen,      \* what each client was last shown
          call,      \* the client's edit that is rendering
          export,    \* the last export: what it collected, and whether it ended
          approved   \* history: the content that a client last accepted

review == <<doc, cache, seen, call, export, approved>>
vars   == <<live, backup, promotion, review>>

Override  == Text \cup {Original}
Ops       == SeqOf(Op, MaxOps)
Source(g) == IF g = None THEN None ELSE SourceOf[g]

(* compute_content_hash and the revision hash of an edit. *)
Content(e)  == [gen |-> e.gen, text |-> e.text, ops |-> e.ops]
Revision(e) == <<Source(e.gen), e.ops>>

Contents  == [gen : Gen, text : Override, ops : Ops]
NoContent == [gen |-> None, text |-> Original, ops |-> <<>>]

DefaultEntry(g) == [gen |-> g, ver |-> 0, accepted |-> NoContent, text |-> Original,
                    ops |-> <<>>, redo |-> <<>>, render |-> "ready"]
NoDoc  == DefaultEntry(None)
NoView == [gen |-> None, ver |-> 0, text |-> Original, ops |-> <<>>]
NoCall == [at |-> "none", gen |-> None, ops |-> <<>>]
NoExport == [at |-> "none", content |-> NoContent, render |-> "ready", approved |-> NoContent]

TypeOK ==
  /\ PromotionTypeOK
  /\ doc \in [gen : Gen \cup {None}, ver : 0..MaxVersion, accepted : Contents \cup {NoContent},
              text : Override, ops : Ops, redo : Ops, render : {"ready", "pending", "failed"}]
  /\ cache \subseteq (Gen \X Ops)
  /\ seen \in [Client -> [gen : Gen \cup {None}, ver : 0..MaxVersion, text : Override, ops : Ops]]
  /\ call \in [Client -> [at : {"none", "render", "rendered", "failed"},
                          gen : Gen \cup {None}, ops : Ops]]
  /\ export \in [at : {"none", "collected", "written"}, content : Contents \cup {NoContent},
                 render : {"ready", "pending", "failed"}, approved : Contents \cup {NoContent}]
  /\ approved \in Contents \cup {NoContent}

Init ==
  /\ PromotionInit
  /\ doc = NoDoc /\ cache = {} /\ export = NoExport
  /\ seen = [c \in Client |-> NoView] /\ call = [c \in Client |-> NoCall]
  /\ approved = NoContent

-----------------------------------------------------------------------------
(* The lock section of a request begins: there is a manifest to read. *)
Locks == LockFree /\ live[Manifest] # None

(* A document of other candidates is not laid over these. *)
Stale == doc # NoDoc /\ doc.gen # live[Manifest]
Entry == IF doc = NoDoc \/ Stale THEN DefaultEntry(live[Manifest]) ELSE doc

ShownAccepted(e) == e.accepted = Content(e) /\ e.gen # None

(* Mutant: the version is not compared. *)
MayEditAnyVersion(c) ==
  /\ Locks /\ ~Stale /\ call[c] = NoCall
  /\ seen[c].gen = live[Manifest]
  /\ Entry.ver < MaxVersion

(* expected_manifest_sha256, _ensure_state_document, expected_clip_version. *)
MayEdit(c) ==
  /\ Locks /\ ~Stale /\ call[c] = NoCall
  /\ seen[c].gen = live[Manifest] /\ seen[c].ver = Entry.ver
  /\ Entry.ver < MaxVersion

Shows(c, e) == seen' = [seen EXCEPT ![c] = [gen |-> e.gen, ver |-> e.ver, text |-> e.text,
                                            ops |-> e.ops]]

(* get_dataset_clip_lab, and the answer of an edit, read under the lock. *)
View(c) ==
  /\ Locks /\ call[c] = NoCall
  /\ Shows(c, Entry)
  /\ UNCHANGED <<live, backup, promotion, doc, cache, call, export, approved>>

(* assert_clip_audio_acceptable. *)
Acceptable(e) == e.ops # <<>> => e.render = "ready" /\ Revision(e) \in cache

(* _normalize_stale_acceptance, and what follows a change of the content. *)
Kept(e, new) == IF e.accepted = Content(e) /\ Content(new) = Content(e) THEN e.accepted
                ELSE NoContent

Retext(e, t) == LET new == [e EXCEPT !.text = t]
                IN  [new EXCEPT !.accepted = Kept(e, new)]

Accepts(e) == [e EXCEPT !.accepted = Content(e)]

(* patch_clip_lab_clip: a transcript, a status, both, or only tags. *)
Patch(c) ==
  /\ MayEdit(c)
  /\ \E t \in Override :
       LET e == [Retext(Entry, t) EXCEPT !.ver = @ + 1] IN
       \/ /\ doc' = e /\ UNCHANGED approved
       \/ /\ doc' = [e EXCEPT !.accepted = NoContent] /\ UNCHANGED approved
       \/ /\ Acceptable(e) /\ doc' = Accepts(e)
          /\ approved' = [Content(seen[c]) EXCEPT !.text = t]
  /\ Shows(c, doc')
  /\ UNCHANGED <<live, backup, promotion, cache, call, export>>

(* An edit of the operations: the acceptance goes, and what is left to     *)
(* render is a job that runs when the lock is released.                    *)
Edited(c, ops, redo) ==
  /\ doc' = [Entry EXCEPT !.accepted = NoContent, !.ver = @ + 1, !.ops = ops, !.redo = redo,
                          !.render = IF ops = <<>> THEN "ready" ELSE "pending"]
  /\ call' = IF ops = <<>> THEN call
             ELSE [call EXCEPT ![c] = [at |-> "render", gen |-> live[Manifest], ops |-> ops]]
  /\ UNCHANGED <<live, backup, promotion, cache, seen, export, approved>>

(* _capture_source_wav_bytes. *)
SourceVerified == Source(live[Audio]) = Source(live[Manifest])

AppendOp(c) ==
  /\ MayEdit(c) /\ SourceVerified /\ Len(Entry.ops) < MaxOps
  /\ \E op \in Op : Edited(c, Append(Entry.ops, op), <<>>)

Undo(c) ==
  /\ MayEdit(c) /\ SourceVerified /\ Entry.ops # <<>>
  /\ Edited(c, Front(Entry.ops), Append(Entry.redo, Last(Entry.ops)))

Redo(c) ==
  /\ MayEdit(c) /\ SourceVerified /\ Entry.redo # <<>>
  /\ Edited(c, Append(Entry.ops, Last(Entry.redo)), Front(Entry.redo))

-----------------------------------------------------------------------------
(* _perform_sync_render: a cached rendering is used again; a new one is    *)
(* renamed into place; either may fail, the peaks being written after it.  *)
Render(c) ==
  /\ call[c].at = "render"
  /\ \/ /\ cache' = cache \cup {Revision(call[c])}
        /\ \E at \in {"rendered", "failed"} : call' = [call EXCEPT ![c].at = at]
     \/ /\ call' = [call EXCEPT ![c].at = "failed"]
        /\ UNCHANGED cache
  /\ UNCHANGED <<live, backup, promotion, doc, seen, export, approved>>

(* Mutant: the revision is not compared. *)
AnyRevision(c) ==
  /\ doc # NoDoc /\ doc.ops # <<>>
  /\ call[c].gen = live[Manifest]

(* _audio_render_guard_matches. *)
StillCurrent(c) ==
  /\ doc # NoDoc /\ doc.ops # <<>>
  /\ Revision(doc) = Revision(call[c])
  /\ call[c].gen = live[Manifest]

(* Mutant: the outcome of the job is stored as it is named there. *)
FinalizeAsNamed(c) ==
  /\ call[c].at \in {"rendered", "failed"}
  /\ IF Locks /\ StillCurrent(c) THEN doc' = [doc EXCEPT !.render = call[c].at]
     ELSE UNCHANGED doc
  /\ call' = [call EXCEPT ![c] = NoCall]
  /\ UNCHANGED <<live, backup, promotion, cache, seen, export, approved>>

(* _finalize_render and _mark_render_failed_if_current.  The file lock may *)
(* time out: the request fails and the render stays as it is.              *)
Finalize(c) ==
  /\ call[c].at \in {"rendered", "failed"}
  /\ \/ /\ Locks /\ StillCurrent(c)
        /\ doc' = [doc EXCEPT !.render = IF call[c].at = "rendered" THEN "ready" ELSE "failed"]
     \/ /\ Locks /\ ~StillCurrent(c)
        /\ UNCHANGED doc
     \/ /\ ~Locks
        /\ UNCHANGED doc
  /\ call' = [call EXCEPT ![c] = NoCall]
  /\ UNCHANGED <<live, backup, promotion, cache, seen, export, approved>>

-----------------------------------------------------------------------------
(* _collect_export_material, the part under the lock. *)
Collect ==
  /\ Locks /\ ~Stale /\ export.at # "collected"
  /\ ShownAccepted(doc)
  /\ export' = [at |-> "collected", content |-> Content(doc), render |-> doc.render,
                approved |-> approved]
  /\ UNCHANGED <<live, backup, promotion, doc, cache, seen, call, approved>>

(* _build_clip_export_row for the collected clip, the lock released. *)
Exportable(e) ==
  IF e.content.ops = <<>> THEN Source(live[Audio]) = Source(e.content.gen)
  ELSE e.render = "ready" /\ Revision(e.content) \in cache

(* create_canonical_export ends: with a snapshot, or with a conflict. *)
Export ==
  /\ export.at = "collected"
  /\ export' = IF Exportable(export) THEN [export EXCEPT !.at = "written"] ELSE NoExport
  /\ UNCHANGED <<live, backup, promotion, doc, cache, seen, call, approved>>

-----------------------------------------------------------------------------
(* The backend restarts: requests are lost, files are not. *)
Restart ==
  /\ call' = [c \in Client |-> NoCall]
  /\ export' = IF export.at = "collected" THEN NoExport ELSE export
  /\ <<call, export>>' # <<call, export>>
  /\ UNCHANGED <<live, backup, promotion, doc, cache, seen, approved>>

(* finalize_candidate_regeneration. *)
Archive == Archived /\ doc' = NoDoc /\ approved' = NoContent
           /\ UNCHANGED <<cache, seen, call, export>>
Clear   == Cleared /\ cache' = {} /\ UNCHANGED <<doc, seen, call, export, approved>>

Requests(c) == View(c) \/ Patch(c) \/ AppendOp(c) \/ Undo(c) \/ Redo(c)

Next ==
  \/ \E c \in Client : Requests(c) \/ Render(c) \/ Finalize(c)
  \/ Collect \/ Export \/ Restart
  \/ Promotes /\ UNCHANGED review
  \/ Archive \/ Clear

Spec == Init /\ [][Next]_vars

-----------------------------------------------------------------------------
(* What a reviewer is told is accepted, somebody accepted in exactly that  *)
(* form: these candidates, this transcript, these edits; and so was what   *)
(* an export collects and writes, when it was collected.                   *)
AcceptedWasSeen ==
  /\ ShownAccepted(doc) /\ ~Stale => Content(doc) = approved
  /\ export.content = export.approved

(* A rendering that the review calls ready is on disk, for acceptance,     *)
(* playback and export to use, whenever the lock is free.                  *)
ReadyIsOnDisk ==
  LockFree /\ doc.gen = live[Manifest] /\ doc.ops # <<>> /\ doc.render = "ready"
    => Revision(doc) \in cache

(* Both: what the review says of the clip, of its acceptance and of its    *)
(* audio, is so.                                                           *)
ReviewIsTrue == AcceptedWasSeen /\ ReadyIsOnDisk

(* A client changes the transcript, the edits or the status only if its    *)
(* own page shows the transcript and the edits that it changes: no update  *)
(* is lost to a stale page, however many pages edit, undo and redo, and    *)
(* across replaced candidates.                                             *)
Edits(c)        == Patch(c) \/ AppendOp(c) \/ Undo(c) \/ Redo(c)
Changed         == doc' # NoDoc /\ doc'.ver # doc.ver
ShowsCurrent(c) == Content(seen[c]) = Content(Entry)

ChangesWhatWasSeen ==
  [][ \A c \in Client : Changed /\ ~ShowsCurrent(c) => ~Edits(c) ]_vars

=============================================================================
