-------------------------- MODULE SourceProcessing --------------------------
(***************************************************************************)
(* What the jobs of ProcessingJobs do to one project's recordings:         *)
(* preparation, transcription and alignment, and the project's deletion    *)
(* (backend/app/repository.py).                                            *)
(*                                                                         *)
(* A prepared recording is a row of its own whose artifact row is copied   *)
(* from its raw recording, so it names the raw recording's files until it  *)
(* is transcribed or aligned itself.  Rows and files are written by        *)
(* separate steps, and a worker may die between any two of them.           *)
(*                                                                         *)
(* <<j, r>> is the recording that preparation job j makes of r, and j also *)
(* names the output group of that job.                                     *)
(***************************************************************************)
EXTENDS ProcessingJobs

CONSTANTS Raw,  \* raw source recordings
          NoRec,
          Direct \* bound: recordings with jobs of their own

ASSUME RecordingsAssumption == /\ NoRec \notin Raw \cup (JobId \X Raw)
                               /\ Raw \cap (JobId \X Raw) = {}
                               /\ Direct \subseteq Raw \cup (JobId \X Raw)

VARIABLES project,  \* "live", then the steps of its deletion
          scan,     \* what delete_project read before it deletes
          crossed,  \* history: prepared recordings whose artifact was being
                    \* copied when the deletion looked what is still named
          rec,      \* rows of sourcerecording
          art,      \* rows of sourcerecordingartifact
          audio,    \* recordings whose WAV file exists
          text,     \* recordings whose directory holds a transcript
          words,    \* recordings whose directory holds an alignment
          active,   \* active_prepared_output_group_id
          task,     \* what each job is to do
          body,     \* how far the work of each worker's job is
          planned   \* history: the raw recordings a preparation found

dataVars == <<project, scan, crossed, rec, art, audio, text, words, active>>
vars     == <<jobVars, dataVars, task, body, planned>>

Prepared  == JobId \X Raw
Recording == Raw \cup Prepared
Kind      == {"none", "prepare", "transcribe", "align"}
Step      == {"none", "write", "parent", "insert", "copy", "saveCopy",
              "activate", "undoRows", "undoFiles", "asr", "saveText", "force",
              "saveWords", "done"}

(* An artifact row: whose directory its transcript and alignment paths are *)
(* in, and alignment_status.                                               *)
Artifact == [text : Recording \cup {NoRec}, words : Recording \cup {NoRec},
             alignment : {"missing", "ok", "stale"}]
NoArtifact == [text |-> NoRec, words |-> NoRec, alignment |-> "none"]
Blank      == [text |-> NoRec, words |-> NoRec, alignment |-> "missing"]
Row        == Artifact \cup {NoArtifact}

NoTask == [kind |-> "none", rec |-> NoRec, checked |-> FALSE]
Prepare == [NoTask EXCEPT !.kind = "prepare"]
Task   == [kind : Kind, rec : Recording \cup {NoRec}, checked : BOOLEAN]

(* todo: raw recordings still to prepare, now: the one in work; wrote and  *)
(* made: the files and rows of this preparation; read: the artifact row an *)
(* alignment, or the copy of an artifact, loaded; own: the row copied to,  *)
(* as it was loaded.                                                       *)
NoBody == [at |-> "none", todo |-> {}, now |-> NoRec, wrote |-> {},
           made |-> {}, read |-> NoArtifact, own |-> NoArtifact]
Body   == [at : Step, todo : SUBSET Raw, now : Raw \cup {NoRec},
           wrote : SUBSET Raw, made : SUBSET Raw, read : Row, own : Row]

(* text and words: the transcripts and alignments to unlink. *)
NoScan == [rec |-> {}, art |-> {}, jobs |-> {}, text |-> {}, words |-> {}]
Scan   == [rec : SUBSET Recording, art : SUBSET Artifact, jobs : SUBSET JobId,
           text : SUBSET Recording, words : SUBSET Recording]

TypeOK ==
  /\ JobsTypeOK
  /\ project \in {"live", "scanned", "cleared", "kept", "gone"}
  /\ scan.rec \subseteq Recording /\ scan.jobs \subseteq JobId
  /\ scan.text \subseteq Recording /\ scan.words \subseteq Recording
  /\ crossed \subseteq Prepared
  /\ \A row \in scan.art : row \in Artifact
  /\ rec \subseteq Recording
  /\ audio \subseteq Recording /\ text \subseteq Recording
  /\ words \subseteq Recording
  /\ art \in [Recording -> Row]
  /\ active \in JobId \cup {NoJobId}
  /\ task \in [JobId -> Task]
  /\ \A w \in Worker : body[w] \in Body
  /\ planned \in [JobId -> SUBSET Raw]

(* A project before the jobs considered here: raw recordings, some         *)
(* transcribed, some of those aligned, and what an earlier preparation,    *)
(* job 1, made of them, if it did not fail.                                *)
Copies(r) == [text  |-> IF r \in text THEN r ELSE NoRec,
              words |-> IF r \in words THEN r ELSE NoRec,
              alignment |-> IF r \in words THEN "ok" ELSE "missing"]

Init ==
  /\ project = "live" /\ scan = NoScan /\ crossed = {}
  /\ \E raw \in SUBSET Raw, done \in BOOLEAN :
        /\ text \in SUBSET raw /\ words \in SUBSET text
        /\ LET made == IF done THEN {1} \X raw ELSE {}
           IN  /\ rec = raw \cup made
               /\ art = [x \in Recording |->
                    IF x \in raw THEN Copies(x)
                    ELSE IF x \in made THEN Copies(x[2]) ELSE NoArtifact]
        /\ done => raw # {}
        /\ active = IF done THEN 1 ELSE NoJobId
        /\ status = [j \in JobId |-> IF j > 1 THEN "none"
                                     ELSE IF done THEN "completed" ELSE "failed"]
        /\ planned = [j \in JobId |-> IF j > 1 THEN {} ELSE raw]
  /\ audio = rec
  /\ claimedBy = [j \in JobId |-> NoWorker]
  /\ worker = [w \in Worker |-> Idle]
  /\ task = [j \in JobId |-> IF j > 1 THEN NoTask ELSE Prepare]
  /\ body = [w \in Worker |-> NoBody]

Job(w)    == worker[w].job
Target(w) == task[Job(w)].rec
HasBatch  == project \in {"live", "scanned"}
HasText(x) == art[x] # NoArtifact /\ art[x].text # NoRec

At(w, step) == worker[w].at = "run" /\ body[w].at = step
To(w, step) == body' = [body EXCEPT ![w].at = step]

-----------------------------------------------------------------------------
(* New jobs with these tasks, one for each recording of S. *)
EnqueueFor(S, kind, checked) ==
  \E new \in {NextIds(Cardinality(S))} :
     \E give \in [new -> S] :
        /\ Enqueue(Cardinality(S))
        /\ \A x \in S : \E j \in new : give[j] = x
        /\ task' = [j \in JobId |->
             IF j \in new
             THEN [kind |-> kind, rec |-> give[j], checked |-> checked]
             ELSE task[j]]
        /\ UNCHANGED <<dataVars, body, planned>>

(* run_project_preparation *)
EnqueuePreparation == HasBatch /\ EnqueueFor({NoRec}, "prepare", FALSE)

Group(g) == {x \in rec \cap Prepared : x[1] = g}

(* enqueue_project_transcription *)
EnqueueTranscription ==
  /\ HasBatch /\ active # NoJobId /\ Group(active) # {}
  /\ EnqueueFor(Group(active), "transcribe", FALSE)

Unfinished(kind, S) == \E j \in In("pending") \cup In("running") :
                          task[j].kind = kind /\ task[j].rec \in S

(* Mutant: enqueue_project_alignment does not look at the transcripts. *)
EnqueueAlignmentUnchecked ==
  /\ HasBatch /\ active # NoJobId /\ Group(active) # {}
  /\ ~Unfinished("transcribe", Group(active))
  /\ EnqueueFor(Group(active), "align", TRUE)

(* enqueue_project_alignment *)
EnqueueAlignment ==
  /\ HasBatch /\ active # NoJobId /\ Group(active) # {}
  /\ ~Unfinished("transcribe", Group(active))
  /\ \A x \in Group(active) : HasText(x)
  /\ EnqueueFor(Group(active), "align", TRUE)

(* enqueue_source_transcription, enqueue_source_alignment *)
EnqueueOne(x, kind) ==
  /\ x \in rec
  /\ EnqueueFor({x}, kind, FALSE)

-----------------------------------------------------------------------------
(* run_claimed_processing_job: a refused claim, or the start of the work.  *)
(* A preparation finds the raw recordings; the other two load their        *)
(* recording, and an alignment also its transcript.                        *)
Refused(w) ==
  /\ At(w, "none") /\ ~Holds(w) /\ Raises(w)
  /\ UNCHANGED <<dataVars, task, body, planned>>

Begins(w) ==
  /\ At(w, "none") /\ Holds(w)
  /\ \/ /\ task[Job(w)].kind = "prepare" /\ HasBatch /\ rec \cap Raw # {}
        /\ body' = [body EXCEPT ![w] =
             [NoBody EXCEPT !.at = "write", !.todo = rec \cap Raw]]
        /\ planned' = [planned EXCEPT ![Job(w)] = rec \cap Raw]
     \/ /\ task[Job(w)].kind = "transcribe" /\ Target(w) \in rec
        /\ To(w, "asr")
        /\ UNCHANGED planned
     \/ /\ task[Job(w)].kind = "align" /\ Target(w) \in rec
        /\ HasText(Target(w)) /\ art[Target(w)].text \in text
        /\ body' = [body EXCEPT ![w].at = "force", ![w].read = art[Target(w)]]
        /\ UNCHANGED planned
  /\ UNCHANGED <<jobVars, dataVars, task>>

(* Any step of the work may raise; a preparation then takes back what it   *)
(* did so far before the job is failed.                                    *)
Throws(w) ==
  /\ worker[w].at = "run" /\ body[w].at \notin {"undoRows", "undoFiles", "done"}
  /\ IF task[Job(w)].kind = "prepare" /\ body[w].at # "none"
     THEN /\ To(w, "undoRows")
          /\ UNCHANGED jobVars
     ELSE /\ Raises(w)
          /\ body' = [body EXCEPT ![w] = NoBody]
  /\ UNCHANGED <<dataVars, task, planned>>

(* The recordings are taken in the order of their ids, which are random.   *)
Now(w)  == body[w].now
Made(w) == <<Job(w), Now(w)>>

(* _write_prepared_wav *)
Take(w, r) == body' = [body EXCEPT ![w].at = "parent", ![w].now = r,
                                   ![w].wrote = @ \cup {r}]

WriteWav(w) ==
  /\ At(w, "write")
  /\ \E r \in body[w].todo \cap audio :
        /\ Take(w, r)
        /\ audio' = audio \cup {<<Job(w), r>>}
  /\ UNCHANGED <<jobVars, project, scan, crossed, rec, art, text, words,
                 active, task, planned>>

(* create_preprocessed_recording: the parent is read ... *)
ReadParent(w) ==
  /\ At(w, "parent") /\ Now(w) \in rec
  /\ To(w, "insert")
  /\ UNCHANGED <<jobVars, dataVars, task, planned>>

(* ... and the rows are committed, the parent's being there or not. *)
InsertRow(w) ==
  /\ At(w, "insert")
  /\ rec' = rec \cup {Made(w)}
  /\ art' = [art EXCEPT ![Made(w)] = Blank]
  /\ body' = [body EXCEPT ![w].at = "copy", ![w].made = @ \cup {Now(w)}]
  /\ UNCHANGED <<jobVars, project, scan, crossed, audio, text, words, active,
                 task, planned>>

(* _copy_prepared_recording_artifact: both rows are read ... *)
ReadArtifact(w) ==
  /\ At(w, "copy") /\ Now(w) \in rec /\ Made(w) \in rec
  /\ body' = [body EXCEPT ![w].at = "saveCopy", ![w].read = art[Now(w)],
                          ![w].own = art[Made(w)]]
  /\ UNCHANGED <<jobVars, dataVars, task, planned>>

(* A session writes the columns that differ from what it loaded. *)
Update(row, old, new) ==
  [text      |-> IF new.text = old.text THEN row.text ELSE new.text,
   words     |-> IF new.words = old.words THEN row.words ELSE new.words,
   alignment |-> IF new.alignment = old.alignment THEN row.alignment
                 ELSE new.alignment]

Copied(w, last) ==
  /\ art[Made(w)] # NoArtifact
  /\ art' = [art EXCEPT ![Made(w)] = Update(@, body[w].own, body[w].read)]
  /\ body' = [body EXCEPT
        ![w].todo = @ \ {Now(w)},
        ![w].at = IF body[w].todo = {Now(w)} THEN last ELSE "write",
        ![w].read = NoArtifact, ![w].own = NoArtifact]

(* Mutant: the group becomes active before its rows are all there. *)
SaveCopyEarly(w) ==
  /\ At(w, "saveCopy") /\ Copied(w, "done")
  /\ active' = Job(w)
  /\ UNCHANGED <<jobVars, project, scan, crossed, rec, audio, text, words,
                 task, planned>>

(* ... and the copy is committed, whatever was deleted in between, unless  *)
(* its own row is gone.                                                    *)
SaveCopy(w) ==
  /\ At(w, "saveCopy") /\ Copied(w, "activate")
  /\ UNCHANGED <<jobVars, project, scan, crossed, rec, audio, text, words,
                 active, task, planned>>

Activate(w) ==
  /\ At(w, "activate") /\ HasBatch
  /\ active' = Job(w)
  /\ To(w, "done")
  /\ UNCHANGED <<jobVars, project, scan, crossed, rec, art, audio, text, words, task,
                 planned>>

OfJob(w, S) == {<<Job(w), r>> : r \in S}

(* _delete_source_recordings, with the artifact and jobs of each row ...   *)
UndoRows(w) ==
  /\ At(w, "undoRows")
  /\ LET dead == OfJob(w, body[w].made) \cap rec
     IN  /\ rec' = rec \ dead
         /\ art' = [x \in Recording |-> IF x \in dead THEN NoArtifact ELSE art[x]]
         /\ SetStatus({j \in JobId : Exists(j) /\ task[j].rec \in dead}, "deleted")
  /\ To(w, "undoFiles")
  /\ UNCHANGED <<claimedBy, worker, project, scan, crossed, audio, text,
                 words, active, task, planned>>

(* ... and the files, after which the exception goes on. *)
UndoFiles(w) ==
  /\ At(w, "undoFiles")
  /\ audio' = audio \ OfJob(w, body[w].wrote)
  /\ Raises(w)
  /\ body' = [body EXCEPT ![w] = NoBody]
  /\ UNCHANGED <<project, scan, crossed, rec, art, text, words, active, task, planned>>

-----------------------------------------------------------------------------
(* Mutant: a row that is not there is not made. *)
RowAsItIs(x) == art[x]

(* _ensure_source_recording_artifact *)
RowOf(x) == IF art[x] = NoArtifact THEN Blank ELSE art[x]

(* _run_source_transcription_job: the transcript is written ...            *)
WriteText(w) ==
  /\ At(w, "asr")
  /\ text' = text \cup {Target(w)}
  /\ To(w, "saveText")
  /\ UNCHANGED <<jobVars, project, scan, crossed, rec, art, audio, words, active, task,
                 planned>>

(* ... then the artifact row is read and saved, or made for a recording    *)
(* that was deleted meanwhile, in which case the job fails afterwards.     *)
SaveText(w) ==
  /\ At(w, "saveText")
  /\ art' = [art EXCEPT ![Target(w)] =
        [RowOf(Target(w)) EXCEPT
           !.text = Target(w),
           !.alignment = IF art[Target(w)].words # NoRec THEN "stale" ELSE @]]
  /\ IF Target(w) \in rec
     THEN /\ To(w, "done")
          /\ UNCHANGED jobVars
     ELSE /\ Raises(w)
          /\ body' = [body EXCEPT ![w] = NoBody]
  /\ UNCHANGED <<project, scan, crossed, rec, audio, text, words, active, task, planned>>

(* _run_source_alignment_job: the alignment is written ...                 *)
WriteWords(w) ==
  /\ At(w, "force")
  /\ words' = words \cup {Target(w)}
  /\ To(w, "saveWords")
  /\ UNCHANGED <<jobVars, project, scan, crossed, rec, art, audio, text, active, task,
                 planned>>

(* ... and the columns that differ from the row read at the start are      *)
(* saved: a status that was "ok" then is not written.                      *)
SaveWords(w) ==
  /\ At(w, "saveWords") /\ art[Target(w)] # NoArtifact
  /\ art' = [art EXCEPT ![Target(w)].words = Target(w),
                        ![Target(w)].alignment =
                           IF body[w].read.alignment = "ok" THEN @ ELSE "ok"]
  /\ To(w, "done")
  /\ UNCHANGED <<jobVars, project, scan, crossed, rec, audio, text, words, active, task,
                 planned>>

Work(w) ==
  \/ Refused(w) \/ Begins(w)
  \/ WriteWav(w) \/ ReadParent(w) \/ InsertRow(w) \/ ReadArtifact(w)
  \/ SaveCopy(w) \/ Activate(w)
  \/ UndoRows(w) \/ UndoFiles(w)
  \/ WriteText(w) \/ SaveText(w) \/ WriteWords(w) \/ SaveWords(w)

Done(w) ==
  /\ At(w, "done") /\ ReadDone(w)
  /\ body' = [body EXCEPT ![w] = NoBody]
  /\ UNCHANGED <<dataVars, task, planned>>

Polls(w) == Poll(w) /\ UNCHANGED <<dataVars, task, body, planned>>

Crashes(w) ==
  /\ Dies(w)
  /\ body' = [body EXCEPT ![w] = NoBody]
  /\ UNCHANGED <<dataVars, task, planned>>


-----------------------------------------------------------------------------
(* delete_project: the rows are read outside any transaction ...           *)
ReadProject ==
  /\ project = "live"
  /\ project' = "scanned"
  /\ scan' = [NoScan EXCEPT
        !.rec = rec, !.art = {art[x] : x \in rec} \ {NoArtifact},
        !.jobs = {j \in JobId : Exists(j) /\ task[j].rec \in rec}]
  /\ UNCHANGED <<jobVars, crossed, rec, art, audio, text, words, active, task, body,
                 planned>>

(* ... those rows are deleted in one ... *)
DeleteRows ==
  /\ project = "scanned"
  /\ project' = "cleared"
  /\ rec' = rec \ scan.rec
  /\ art' = [x \in Recording |-> IF x \in scan.rec THEN NoArtifact ELSE art[x]]
  /\ SetStatus(scan.jobs, "deleted")
  /\ active' = NoJobId
  /\ UNCHANGED <<claimedBy, worker, scan, crossed, audio, text, words, task,
                 body, planned>>

(* ... then it is read which of their files some row left still names ...  *)
Named(column, rows) == {row[column] : row \in rows} \ {NoRec}
Copying == {Made(w) : w \in {v \in Worker : At(v, "saveCopy")}}

(* Mutant: what other rows still name is not looked at. *)
KeepNothing ==
  /\ project = "cleared"
  /\ project' = "kept"
  /\ scan' = [scan EXCEPT !.text  = Named("text", scan.art),
                          !.words = Named("words", scan.art)]
  /\ crossed' = Copying
  /\ UNCHANGED <<jobVars, rec, art, audio, text, words, active, task, body,
                 planned>>

KeepNamed ==
  /\ project = "cleared"
  /\ project' = "kept"
  /\ LET left == {art[x] : x \in Recording}
     IN scan' = [scan EXCEPT
          !.text  = Named("text", scan.art) \ Named("text", left),
          !.words = Named("words", scan.art) \ Named("words", left)]
  /\ crossed' = Copying
  /\ UNCHANGED <<jobVars, rec, art, audio, text, words, active, task, body,
                 planned>>

(* ... and the others are unlinked. *)
DeleteFiles ==
  /\ project = "kept"
  /\ project' = "gone"
  /\ audio' = audio \ scan.rec
  /\ text'  = text \ scan.text
  /\ words' = words \ scan.words
  /\ scan' = NoScan
  /\ UNCHANGED <<jobVars, crossed, rec, art, active, task, body, planned>>

Client ==
  \/ EnqueuePreparation \/ EnqueueTranscription \/ EnqueueAlignment
  \/ \E x \in Direct, kind \in {"transcribe", "align"} : EnqueueOne(x, kind)
  \/ ReadProject \/ DeleteRows \/ KeepNamed \/ DeleteFiles

Next ==
  \/ Client
  \/ \E w \in Worker : Polls(w) \/ Work(w) \/ Done(w) \/ Throws(w) \/ Crashes(w)

Spec == Init /\ [][Next]_vars

-----------------------------------------------------------------------------
(* No row names a file that is not there, whatever preparation failed,     *)
(* died or raced the deletion of the project: neither the audio of a       *)
(* recording nor the transcript and the alignment of its artifact,         *)
(* although prepared recordings share the files of the raw one they were   *)
(* copied from and either may be deleted.  Excepted is one window, in      *)
(* which the code does leave such a row: a copy read before the rows are   *)
(* deleted and committed after it was read which files are still named.    *)
NamedFilesExist ==
  /\ rec \subseteq audio
  /\ \A x \in rec \ crossed : art[x] # NoArtifact =>
       /\ art[x].text \in text \cup {NoRec}
       /\ art[x].words \in words \cup {NoRec}

(* The active output group holds a prepared recording for every raw        *)
(* recording its job found, although a job that was failed as stale, or    *)
(* superseded, may be the one that made it active.                         *)
ActiveGroupIsWhole ==
  active # NoJobId /\ HasBatch => \A r \in planned[active] : <<active, r>> \in rec

(* What enqueue_project_alignment checked is still true when the worker    *)
(* gets to the job: the recording still has a transcript, if not the one   *)
(* it had then.                                                            *)
CheckedAlignmentHasText ==
  \A j \in In("pending") \cup In("running") :
     task[j].checked /\ HasBatch => HasText(task[j].rec)

(* The table of jobs, seen through its status and claim alone, follows the *)
(* life of a job that its readers rely on: one claim, and a verdict that   *)
(* only changes to another.                                                *)
Lifecycle == INSTANCE JobLifecycle
JobsFollowTheirLifecycle == Lifecycle!Spec

(* A job whose heartbeats go on is failed by its own worker or by nobody.  *)
LiveJobIsNotSwept ==
  [][\A w \in Worker, j \in JobId :
       worker[w].job = j /\ worker[w].beating /\ status[j] = "running"
         /\ status'[j] = "failed" => worker'[w].job # j]_vars

=============================================================================
