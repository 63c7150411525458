---------------------------- MODULE ReferenceRuns ----------------------------
(***************************************************************************)
(* Reference runs and reference assets (backend/app/repository.py): a run  *)
(* of a project's recordings builds candidates and their embeddings in a   *)
(* thread, whose only traces are the run's row and the files of its        *)
(* directory; candidates of a completed run are promoted to assets, each a *)
(* row, a media file and an embedding artifact, and may anchor a rerank.   *)
(*                                                                         *)
(* The row, the files of the run and the files of an asset are written one *)
(* after another, with other threads, requests, a deletion of the project  *)
(* and a crash of the backend between any two of them.  A run's identifier *)
(* is the least free one of its project, so that a deleted run's is used   *)
(* again, while its directory and its thread are still there.              *)
(*                                                                         *)
(* There is one project.  A recording has at most one candidate, named by  *)
(* the recording.                                                          *)
(***************************************************************************)
EXTENDS Naturals, FiniteSets

CONSTANTS
  Recording,   \* recordings the project gets over time
  RunId,       \* run identifiers, 1 .. some number
  Thread,      \* threads of process_reference_run
  Request,     \* web requests at work
  Asset,       \* assets promoted over time
  None,        \* no row, file or run
  Torn,        \* a file truncated and not yet written
  MaxCrashes   \* bound: crashes of the backend

VARIABLES
  project,  \* the project has a row
  recs,     \* each recording: "new", "row" or "gone"
  row,      \* the runs' rows
  dir,      \* the runs' directories: the candidates and embeddings files
  thread,   \* the threads
  request,  \* the requests
  asset,    \* the assets: row, media file, artifact's space
  reused,   \* identifiers given out again while a thread of their first run was at work
  crashes

refs == <<project, recs, row, dir, thread, request, asset, reused, crashes>>

Spaces == {"v1", "v2"}   \* the two embedding spaces; assets are in v1

NoThread  == [pc |-> "none", run |-> None, recs |-> {}, cands |-> {}, space |-> None]
NoRequest == [pc |-> "none", run |-> None, cands |-> {}, emb |-> None,
              asset |-> None, cand |-> None, ready |-> FALSE]
NoAsset   == [row |-> None, file |-> FALSE, artifact |-> None]
EmptyDir  == [cands |-> None, emb |-> None]
NoVectors == [space |-> "v1", of |-> {}]

Init ==
  /\ project = TRUE
  /\ recs = [r \in Recording |-> "new"]
  /\ row = [n \in RunId |-> None]
  /\ dir = [n \in RunId |-> EmptyDir]
  /\ thread = [t \in Thread |-> NoThread]
  /\ request = [q \in Request |-> NoRequest]
  /\ asset = [a \in Asset |-> NoAsset]
  /\ reused = {}
  /\ crashes = 0

Present == {r \in Recording : recs[r] = "row"}

-----------------------------------------------------------------------------
CreateRecording(r) ==
  /\ project
  /\ recs[r] = "new"
  /\ recs' = [recs EXCEPT ![r] = "row"]
  /\ UNCHANGED <<project, row, dir, thread, request, asset, reused, crashes>>

(* The row is committed, then the thread is started: a crash between the   *)
(* two leaves the run queued.                                              *)
FreeRunId == {n \in RunId : row[n] = None /\ \A m \in RunId : m < n => row[m] # None}

CreateRun(t) ==
  /\ project
  /\ thread[t].pc = "none"
  /\ \E n \in FreeRunId, S \in SUBSET Present \ {{}} :
       /\ row' = [row EXCEPT ![n] = [status |-> "queued", recs |-> S, space |-> None]]
       /\ thread' = [thread EXCEPT ![t] = [NoThread EXCEPT !.pc = "start", !.run = n]]
       /\ reused' = IF \E u \in Thread : thread[u].run = n THEN reused \cup {n} ELSE reused
  /\ UNCHANGED <<project, recs, dir, request, asset, crashes>>

-----------------------------------------------------------------------------
(* process_reference_run, in its thread.                                   *)
At(t, pc)   == thread[t].pc = pc
Goes(t, pc) == thread' = [thread EXCEPT ![t].pc = pc]
Ends(t)     == thread' = [thread EXCEPT ![t] = NoThread]
RowOf(t)    == row[thread[t].run]

(* A run that was deleted or is completed is left alone.                   *)
Waiting(run) == run # None /\ run.status # "completed"

Start(t) ==
  /\ At(t, "start")
  /\ IF Waiting(RowOf(t))
     THEN /\ row' = [row EXCEPT ![thread[t].run].status = "running"]
          /\ thread' = [thread EXCEPT ![t].pc = "build", ![t].recs = RowOf(t).recs]
     ELSE Ends(t) /\ UNCHANGED row
  /\ UNCHANGED <<project, recs, dir, request, asset, reused, crashes>>

(* With the cutpoints of a dataset run the space is v2, and no candidate   *)
(* at all is an error; without, it is v1.  Each candidate is cropped from  *)
(* its recording and embedded.                                             *)
Build(t) ==
  /\ At(t, "build")
  /\ thread[t].recs \subseteq Present
  /\ \E C \in SUBSET thread[t].recs, s \in Spaces :
       /\ s = "v2" => C # {}
       /\ thread' = [thread EXCEPT ![t] = [@ EXCEPT !.pc = "truncate", !.cands = C, !.space = s]]
  /\ UNCHANGED <<project, recs, row, dir, request, asset, reused, crashes>>

TruncateCandidates(t) ==
  /\ At(t, "truncate")
  /\ dir' = [dir EXCEPT ![thread[t].run].cands = Torn]
  /\ Goes(t, "candidates")
  /\ UNCHANGED <<project, recs, row, request, asset, reused, crashes>>

WriteCandidates(t) ==
  /\ At(t, "candidates")
  /\ dir' = [dir EXCEPT ![thread[t].run].cands = thread[t].cands]
  /\ Goes(t, "embeddings")
  /\ UNCHANGED <<project, recs, row, request, asset, reused, crashes>>

(* The embeddings are written aside and renamed into place.                *)
WriteEmbeddings(t) ==
  /\ At(t, "embeddings")
  /\ dir' = [dir EXCEPT ![thread[t].run].emb = [space |-> thread[t].space, of |-> thread[t].cands]]
  /\ Goes(t, "complete")
  /\ UNCHANGED <<project, recs, row, request, asset, reused, crashes>>

(* Mutant of Complete: the row is committed before the embeddings.         *)
CompleteEarly(t) ==
  /\ At(t, "embeddings")
  /\ IF RowOf(t) = None THEN Ends(t) /\ UNCHANGED row
     ELSE /\ row' = [row EXCEPT ![thread[t].run].status = "completed",
                                ![thread[t].run].space = thread[t].space]
          /\ Ends(t)
  /\ UNCHANGED <<project, recs, dir, request, asset, reused, crashes>>

Complete(t) ==
  /\ At(t, "complete")
  /\ IF RowOf(t) = None THEN Ends(t) /\ UNCHANGED row
     ELSE /\ row' = [row EXCEPT ![thread[t].run].status = "completed",
                                ![thread[t].run].space = thread[t].space]
          /\ Ends(t)
  /\ UNCHANGED <<project, recs, dir, request, asset, reused, crashes>>

(* Any exception on the way: the run fails, if its row is still there.     *)
Fail(t) ==
  /\ thread[t].pc \in {"build", "truncate", "candidates", "embeddings", "complete"}
  /\ row' = IF RowOf(t) = None THEN row ELSE [row EXCEPT ![thread[t].run].status = "failed"]
  /\ Ends(t)
  /\ UNCHANGED <<project, recs, dir, request, asset, reused, crashes>>

-----------------------------------------------------------------------------
(* Requests.                                                               *)
Here(q, pc) == request[q].pc = pc
Sets(q, r) == request' = [request EXCEPT ![q] = r]
Leaves(q)  == Sets(q, NoRequest)

(* Promotion reads the run, the candidate and the recording, ...           *)
PromoteRead(q, n, r, a) ==
  /\ Here(q, "none")
  /\ asset[a] = NoAsset
  /\ \A p \in Request : request[p].asset # a
  /\ row[n] # None
  /\ row[n].status = "completed"
  /\ dir[n].cands \notin {None, Torn}
  /\ r \in dir[n].cands
  /\ recs[r] = "row"
  /\ Sets(q, [NoRequest EXCEPT !.pc = "crop", !.run = n, !.cand = r, !.asset = a])
  /\ UNCHANGED <<project, recs, row, dir, thread, asset, reused, crashes>>

(* ... crops the recording into a media file of its own, ...               *)
PromoteCrop(q) ==
  /\ Here(q, "crop")
  /\ \/ /\ recs[request[q].cand] = "row"
        /\ asset' = [asset EXCEPT ![request[q].asset].file = TRUE]
        /\ Sets(q, [request[q] EXCEPT !.pc = "embed"])
     \/ /\ Leaves(q)
        /\ UNCHANGED asset
  /\ UNCHANGED <<project, recs, row, dir, thread, reused, crashes>>

(* ... embeds it, or notes that it could not (that the database keeps      *)
(* other writers out meanwhile is left out), ...                           *)
PromoteEmbed(q) ==
  /\ Here(q, "embed")
  /\ \E ok \in BOOLEAN :
       /\ asset' = IF ok THEN [asset EXCEPT ![request[q].asset].artifact = "v1"] ELSE asset
       /\ Sets(q, [request[q] EXCEPT !.pc = "commit", !.ready = ok])
  /\ UNCHANGED <<project, recs, row, dir, thread, reused, crashes>>

(* ... and commits the rows, without looking at the project again.         *)
PromoteCommit(q) ==
  /\ Here(q, "commit")
  /\ asset' = [asset EXCEPT ![request[q].asset].row =
                 IF request[q].ready THEN "ready" ELSE "failed"]
  /\ Leaves(q)
  /\ UNCHANGED <<project, recs, row, dir, thread, reused, crashes>>

(* A rerank reads the candidates, ...                                      *)
RerankCandidates(q, n, a) ==
  /\ Here(q, "none")
  /\ row[n] # None
  /\ row[n].status = "completed"
  /\ dir[n].cands # Torn
  /\ Sets(q, [NoRequest EXCEPT !.pc = "vectors", !.run = n, !.asset = a,
                !.cands = IF dir[n].cands = None THEN {} ELSE dir[n].cands])
  /\ UNCHANGED <<project, recs, row, dir, thread, asset, reused, crashes>>

(* ... then their vectors, each of which must be there; ...                *)
RerankVectors(q) ==
  LET emb == IF dir[request[q].run].emb = None THEN NoVectors ELSE dir[request[q].run].emb
  IN /\ Here(q, "vectors")
     /\ IF request[q].cands \subseteq emb.of
        THEN Sets(q, [request[q] EXCEPT !.emb = emb,
                        !.pc = IF request[q].asset = None \/ request[q].cands = {}
                                 THEN "answer" ELSE "anchor"])
        ELSE Leaves(q)
     /\ UNCHANGED <<project, recs, row, dir, thread, asset, reused, crashes>>

(* ... an asset as an anchor must be in the run's space.  One whose        *)
(* embedding failed is embedded again, in the asset's space, if the run    *)
(* has that one.                                                           *)
RerankAnchor(q) ==
  LET a == request[q].asset
  IN /\ Here(q, "anchor")
     /\ \/ /\ asset[a].row = "ready"
           /\ request[q].emb.space = "v1"
           /\ asset[a].artifact = request[q].emb.space
           /\ Sets(q, [request[q] EXCEPT !.pc = "answer"])
           /\ UNCHANGED asset
        \/ /\ asset[a].row = "failed"
           /\ request[q].emb.space = "v1"
           /\ asset' = [asset EXCEPT ![a].artifact = "v1"]
           /\ Sets(q, [request[q] EXCEPT !.pc = "cached"])
        \/ /\ asset[a].row \in {None, "failed"} \/ request[q].emb.space # "v1"
           /\ Leaves(q)
           /\ UNCHANGED asset
     /\ UNCHANGED <<project, recs, row, dir, thread, reused, crashes>>

RerankCommit(q) ==
  LET a == request[q].asset
  IN /\ Here(q, "cached")
     /\ IF asset[a].row = None THEN Leaves(q) /\ UNCHANGED asset
        ELSE /\ asset' = [asset EXCEPT ![a].row = "ready"]
             /\ Sets(q, [request[q] EXCEPT !.pc = "answer"])
     /\ UNCHANGED <<project, recs, row, dir, thread, reused, crashes>>

Answer(q) ==
  /\ Here(q, "answer")
  /\ Leaves(q)
  /\ UNCHANGED <<project, recs, row, dir, thread, asset, reused, crashes>>

-----------------------------------------------------------------------------
(* Deleting the project takes every row of it; run directories, media and  *)
(* artifacts of assets stay, and so do threads and requests at work.       *)
DeleteProject ==
  /\ project
  /\ project' = FALSE
  /\ recs' = [r \in Recording |-> IF recs[r] = "row" THEN "gone" ELSE recs[r]]
  /\ row' = [n \in RunId |-> None]
  /\ asset' = [a \in Asset |-> [asset[a] EXCEPT !.row = None]]
  /\ UNCHANGED <<dir, thread, request, reused, crashes>>

CreateProject ==
  /\ ~project
  /\ project' = TRUE
  /\ UNCHANGED <<recs, row, dir, thread, request, asset, reused, crashes>>

Crash ==
  /\ crashes < MaxCrashes
  /\ crashes' = crashes + 1
  /\ thread' = [t \in Thread |-> NoThread]
  /\ request' = [q \in Request |-> NoRequest]
  /\ UNCHANGED <<project, recs, row, dir, asset, reused>>

Next ==
  \/ \E r \in Recording : CreateRecording(r)
  \/ \E t \in Thread :
       \/ CreateRun(t) \/ Start(t) \/ Build(t) \/ TruncateCandidates(t)
       \/ WriteCandidates(t) \/ WriteEmbeddings(t) \/ Complete(t) \/ Fail(t)
  \/ \E q \in Request :
       \/ \E n \in RunId, r \in Recording, a \in Asset : PromoteRead(q, n, r, a)
       \/ \E n \in RunId, a \in Asset \cup {None} : RerankCandidates(q, n, a)
       \/ PromoteCrop(q) \/ PromoteEmbed(q) \/ PromoteCommit(q)
       \/ RerankVectors(q) \/ RerankAnchor(q) \/ RerankCommit(q) \/ Answer(q)
  \/ DeleteProject \/ CreateProject \/ Crash

Spec == Init /\ [][Next]_refs

-----------------------------------------------------------------------------
Vectors == [space : Spaces, of : SUBSET Recording]

(* Rows, files, threads and requests have the shapes the code writes.      *)
TypeOK ==
  /\ project \in BOOLEAN
  /\ recs \in [Recording -> {"new", "row", "gone"}]
  /\ row \in [RunId -> {None} \cup [status : {"queued", "running", "completed", "failed"},
                                    recs : SUBSET Recording, space : Spaces \cup {None}]]
  /\ \A n \in RunId :
       /\ dir[n].cands \in {None, Torn} \/ dir[n].cands \subseteq Recording
       /\ dir[n].emb = None \/ dir[n].emb \in Vectors
  /\ \A t \in Thread : thread[t].run \in RunId \cup {None}
  /\ asset \in [Asset -> [row : {None, "ready", "failed"}, file : BOOLEAN,
                          artifact : {None, "v1"}]]

(* A completed run's candidates and embeddings are of the same recordings, *)
(* all among those it was created for, in the space its row names,         *)
(* whatever crashed, failed, was deleted or left behind before.  The       *)
(* exception is an identifier that was given out again while a thread of   *)
(* the deleted run was still at work: nothing keeps the two threads apart. *)
CompletedRunIsWhole ==
  \A n \in RunId \ reused :
    (row[n] # None /\ row[n].status = "completed") =>
      /\ dir[n].cands \subseteq row[n].recs
      /\ dir[n].emb = [space |-> row[n].space, of |-> dir[n].cands]

(* An asset with a row has its media file, and its artifact if the row     *)
(* says that it is embedded.                                               *)
AssetsArePlayable ==
  \A a \in Asset : asset[a].row # None =>
    /\ asset[a].file
    /\ asset[a].row = "ready" => asset[a].artifact # None

(* A rerank that answers has a vector for each candidate, and the anchor's *)
(* is in the same space; even if two threads wrote the run's directory.    *)
AnswersAreCoherent ==
  \A q \in Request : request[q].pc = "answer" =>
    /\ request[q].cands \subseteq request[q].emb.of
    /\ (request[q].asset # None /\ request[q].cands # {}) =>
         asset[request[q].asset].artifact = request[q].emb.space

(* The three together.                                                     *)
ReferencesAreWhole == CompletedRunIsWhole /\ AssetsArePlayable /\ AnswersAreCoherent

=============================================================================
