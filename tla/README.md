# A verification of SpeechCraft in TLA+

SpeechCraft is a local-first tool for preparing speech data sets: a launcher
starts a setup controller (Node), which installs and supervises a FastAPI
backend, which runs data-set workers over a SQLite database and a directory of
artifacts per run. This directory holds TLA+ modules translated from that code,
TLC configurations that check them on small instances, and theorems checked by
TLAPS for every value of the constants.

To check: `tlc -config MCSetupController.cfg MCSetupController` and so on for
each run below; `tlapm SmallPartsProofs.tla`, and the same for
`SetupControllerProofs`, `ProcessingProofs`, `ClipLabProofs`, `DatasetRunProofs`,
`ModelInstallProofs`, `BackendServiceProofs` and `PartsProofs`. The larger runs
take one to three minutes.
`PROJECT.json` lists the runs, the mutants, the source lines of each definition,
the hazards and the theorems.

## Inventory

| Component | State it keeps | Operations | What makes it correct |
| --- | --- | --- | --- |
| Controller ownership lock (`state-store.js`) | `.controller.lock`, `.controller.recovery` | acquire, reclaim of a stale lock, release | one controller per data directory; a live owner never loses its lock; a crash does not block the next start |
| Setup job (`controller.js`) | the job, the active execution, the pending token | start, retry, cancel, preauthorize, run, shutdown, startup | legal transitions only; callbacks of a superseded attempt change nothing; retry waits for the old writers |
| Owned subprocesses (`bootstrap.js`) | `child_process` and `termination_status` in the state file; the process group itself | spawn, identify, feed the credential, terminate, reconcile, recover | at most one writer to the installation; a live one is always recorded; the credential goes only to a recorded child |
| Durable state and event journal (`state-store.js`) | `state.json`, 256 events | commit by atomic rename, read, validate, migrate | memory never gets ahead of the file |
| HTTP API and event stream (`server.js`, `auth.js`) | clients, sessions | requests, SSE replay and snapshot, close | a client misses no revision |
| Managed backend (`backend-service.js`) | `service_process` | start behind a stdin gate, health poll, one automatic restart, stop, reconcile | one backend; none unrecorded; no restart after stop |
| Runtime tasks and restoration (`runtime-tasks.js`) | readiness, the restore in flight | stages after the bootstrap, `restoreManagedServices`, shutdown | a restore and a job never write at once |
| Model manager (`download.py`) | locks, staging directories, checkpoints, quarantine, published trees | install, resume, publish, clean up | a resume never splices; a whole tree is never moved or replaced |
| Recognition model download (`asr_model_ensure.py`, `ensure_asr.py`) | jobs in memory, a thread and a process each, the hub's cache | ask, spawn, read the lines, finish, poll | what a page is told of a job is so; one job at a time |
| Processing jobs (`repository.py`, `worker.py`) | job rows, the worker's session and heartbeat | enqueue, claim, heartbeat, complete, fail, fail stale | a job is claimed once; a job that is alive is not taken for stale |
| Projects and source recordings (`repository.py`) | rows of recordings and artifacts, audio and artifact files, the active output group | prepare, transcribe, align, delete the project | no row names a file that is gone; the active group is whole |
| Uploads (`audio_ingestion.py`, the upload routes of `main.py`) | sessions, chunks, promotion markers | create, put chunk, status, finalize, sweep | one recording for an upload; every source file is accounted for |
| Data-set runs (`dataset_runs.py`, the worker's `run.py`) | run rows, `status.json`, the worker process | create, start, refresh, cancel, select a speaker, resume, rerun | one worker per run; a cancelled run stays cancelled; completion is on disk |
| Clip lab (`clip_lab_state.py`, `clip_lab_audio_ops.py`) | review document, cached renderings | view, patch, audio edit, undo, redo, render, accept | nobody changes or accepts what he was not shown; what is ready is on disk |
| Canonical export (`canonical_export.py`) | export directories | collect, check, write | only accepted clips in the form that was accepted |
| Slice history (`native_cliplab.py`) | slices, transcripts, tags, commits | save, undo, redo | the slice shows its active commit |
| Candidate promotion (`clip_lab_coordination.py`) | live, staged and backup artifacts, run lock | promote, restore, archive the review | old or new candidates, never a mixture, never none |
| Data-set worker algorithms (`buffers.py`, `vr_slicer.py`, ...) | regions, cutpoints, clips | merge, cut, schedule | clips are disjoint, legal, clean of other speakers, and the best choice |
| Dataset QC and export (`dataset_qc.py`, `generate_qc_scores.py`, `rerun_export.py`) | scores, decisions, exports, ranking, a file each | score, finalize, export, rerun | decisions and exports are about the clips and the scores that stand |
| Clip scores (`b1_lj_score.py`, `eval_speaker_purity.py`, `reference_quality.py`) | score tables | judge a transcript, enrol, compare, rank | no better clip has a worse score; another voice is heard |
| Diarization and speaker selection (`diarization.py`, `dataset_runs.py`) | turns, regions, samples, the selection | diarize, list, select | regions are where the speaker was heard; the selected speaker is one of them |
| Review clips (`audio.py`, `channel_resolver.py`, `assembly.py`) | the analysis copy, the clips | decode, place, cut, clean up | clips are cut where the analysis placed them |
| Reference assets and runs (`repository.py`) | run rows, run directories, assets | build candidates, promote, rerank, delete | a completed run's files are of one attempt; an asset has its files |
| Repository start-up and migrations (`repository.py`) | the schema, `user_version` | create, add columns, rename, purge, seed | a start succeeds after any crash, and no row is lost |
| Launcher (`launcher.js`) | ownership file and its lock | start, adopt, stop | one ownership record; no live record lost |
| Installers (`install-linux.py`, `uninstall-linux.js`, Go) | releases, the `current` pointer, the command, the install lock | install, roll back, uninstall | all or nothing; what is active was verified |
| Frontend | view state | rendering, audio-edit mutex | nothing shared by several actors |

They interact as follows. The launcher spawns the controller and records it. The
controller takes the ownership lock, reconciles the processes its predecessor
recorded, recovers the interrupted job, and only then serves HTTP. A job runs
stages; a stage spawns one subprocess at a time, among them the model manager,
and reports through callbacks that commit to the state file. A completed job
starts the backend, whose worker processes claim processing jobs from the
database, and which launches one data-set worker per run and never waits for it:
the two share the run's row, `status.json`, and under a file lock the candidates
and the review of them.

The behaviours that are hard to test:

- *Concurrency.* Several controllers or launchers starting at once; requests
  that arrive while a stage awaits; two sessions on one job row; a worker and a
  reviewer on one run directory.
- *Stale reads.* A session reads rows and commits columns later; a poll reads a
  row, then a file, then asks for a pid; a page edits what it was shown.
- *Crashes.* Every pair of an effect and the record of it: the lock and its
  metadata, spawn and pid, rename and fsync, file and row, backup and promotion.
- *Failure.* A commit that throws before or after its rename; a process that
  survives SIGKILL; a leader that exits and leaves members behind; a reused pid.
- *Ordering.* An abort before the spawn event or between two subprocesses;
  callbacks of an old attempt.

`PROJECT.json` lists each as a hazard at its line, with the properties that
cover it and what they leave open.

## Modules

`ControllerLock` is `acquireOwnership` and `releaseOwnership`. Each process has
a program counter, and one action is one system call on the directory, so that
all interleavings of several starters are explored. A file is its inode, its
creator and whether its JSON was written; `Content` of a file that was not
written is empty, as the parse error of `inspectOwner` is. Inodes are reused
(`FreshInode`). `Throw` is any call that fails with an I/O error and goes where
the code's catch blocks go (`AfterThrow`); `Die` is an exit or kill anywhere.

`InstallationOwnership` is the promise: holders and the processes that will
never hold. `ControllerLock` implements it with `holders` = the processes that
own and `gone` = those that failed, released or died.

`ProcessGroups` is the operating system's side of a subprocess: a group is led
by the process that was spawned, orphaned, gone, or its number belongs to a
stranger. It defines the two things the code can observe: the identity of the
leader, and ESRCH for the whole group. It is external code, modelled from its
use.

`SetupController` is the job, its execution and its subprocess. JavaScript runs
to completion between awaits, so what happens between two awaits is one action,
except that a commit and a spawn are separate steps (`Busy`) since a crash can
fall between them.

| Variable | Code |
| --- | --- |
| `ctl` | where the process is in `createSetupController`: down, reconciling, waiting after SIGTERM or SIGKILL, recovering, up, stopping, or refused to start |
| `job`, `disk` | `store.state.job` and the same in `state.json`; `child` is `child_process`, `uncertain` is `termination_status === 'uncertain'` |
| `exec` | `activeExecution`: attempt id, `AbortController`, authorization |
| `at`, `kid`, `error` | how far `run`, `runProcess` and `runOwnedProcess` have got, the latter's local variables, and the error being thrown |
| `swallowed` | history: children whose uncertain termination a verification caught |
| `pending`, `verifying` | `pendingAuthorization` and a verification in flight |

The actions follow the code: `CommitIntent`, `Spawn`, `ConfirmSpawn` (identity,
durable record, then the credential on stdin), `KillTimer`, `UncertainTimer`,
`Closed` and `SettleChild` are a subprocess; `StageDone`, `StageFails`,
`Swallow`, `WaitForUser`, `RunFails` and `FinishCancelled` are `run`; `Start`,
`Retry`, `Cancel`, `Verify`, `Verified`, `TokenExpires` and `Shutdown` are the
requests; `Boot`, `Confirm`, `Escalate`, `Refuse` and `Serve` the startup. A
commit either is stored (`Saved`) or throws (`Lost`), and then the file may hold
the old job or the new one, since the rename comes before the last fsync.

`InstallationWriters` is the promise: a set of writers that is filled when it is
empty and emptied when all are gone. `SetupController` implements it with
`writers` = `Owned`, the children with a live group.

`Owned` leaves out the `swallowed` children. Several verifications catch the
error of their subprocess, the uncertain termination included, and go on; the
run `SetupSwallowed` shows that the promise is broken there. `Owned` keeps that
one known case out of the other properties, so that they say that there is no
second cause. With `Tolerant = FALSE` the verifications rethrow it and `Owned`
is every live child.

`JobLifecycle` is what the table of processing jobs promises its readers: a job is
claimed by one worker, once, and then only its verdict changes.

`ProcessingJobs` is the queue and its workers. A worker is a process with a
session of its own: it reads rows, and later commits by primary key the columns
it changed; only the claim is a conditional UPDATE. One action is one read or one
commit, and `worker` keeps what was read. `ReadStale` and `FailStale` are
`fail_stale_processing_jobs`, `Claim` the UPDATE, `HeartbeatEnds` the first
exception of the heartbeat thread, after which a job may be overdue, `ReadDone`
and `Complete` the completion, `Raises` and `FailJob` the failure. Time is not
modelled: a running job without heartbeats may be read as overdue at any moment.

`SourceProcessing` extends it with what the jobs do and with the requests.
`EnqueuePreparation`, `EnqueueTranscription`, `EnqueueAlignment` and `EnqueueOne`
are the requests, `WriteWav`, `InsertRow`, `CopyArtifact`, `Activate`, `UndoRows`
and `UndoFiles` a preparation, `WriteText`, `SaveText`, `WriteWords` and
`SaveWords` the two other bodies, `ReadProject`, `DeleteRows` and `DeleteFiles`
the deletion of the project. An artifact row holds whose directory its transcript
and its alignment are in, since a copied row names the raw recording's.

`DatasetRun` is one run. `row` is its database row, `file` its `status.json`,
`selected` whether `speaker_selection.json` selects a speaker, `reached` the last
stage whose artifacts are there, `worker` the worker processes, `call` the local
variables of the requests being served. Stages are four ranks, since
only these four make a difference to a request. A request is split where
something else can come between: the read and the check of the row, the launch
and the commit of the pid (`Start`, `Resume`, `Rerun`, `Launch`, `Launched`); the
row, the file, the pid and the commit of a poll (`Refresh` to `RefreshCommits`);
the check, the kill and the commit of a cancellation; the read and the commit of
a speaker selection. `Commit` writes only the columns that the session changed.
An ended worker is a zombie, which still answers signal 0, until the backend
starts another subprocess (`Reap`, and `Launch` itself). The worker's `Boot`,
`Enter`, `Finish`, `Break` and `Die` write `status.json` and the artifacts.

`CandidatePromotion` replaces three artifacts one by one under the run's lock:
`Lock`, `BackUp`, `Promote`, `PromoteFails`, `Restore`, `Drop`, then `Archived`
and `Cleared`; `Dies` is a death anywhere, which frees the file lock.

`ClipLab` extends it with the review of one clip. A request reads and rewrites the
document under the same lock, which makes it one action: `View`, `Patch`,
`AppendOp`, `Undo`, `Redo`. A rendering runs between two such sections with the
lock released (`Render`, `Finalize`), and an export checks the audio after
releasing it (`Collect`, `Export`). `seen` is what each page was last shown, which
carries the version and the manifest that `MayEdit` compares; `approved` is
history, the content somebody accepted last. A generation stands for the sha256 of
its manifest.

`Uploads` is the upload sessions and their finalization, one file or row a step:
`WriteMarker`, `Move`, `InsertRow`, `ReadMark` and `Complete`, `DropMarker`;
`FindRow` and `Sweep` are what a retry does first, `Recover` the sweep of the next
start. `Crash` loses every request.

`ModelInstall` is the installer. A part file is the sequence of its pieces, each
in the version of the file it was read from; a checkpoint is the digest, that is
the pieces, and the validator. `Whole`, `Partial` and `Refused` are what a server
may answer. The Hugging Face client is external and fills its directory with one
of `Snapshots`. Locks are the kernel's and fall with the process.

`SliceHistory` is save, undo and redo of one slice, each with its SELECTs as steps
of their own: Python's sqlite3 opens the transaction at the first write. Tags are
rows that all slices share (`tag`), found by name with case folded: a slice holds
names, a commit keeps spelling and colour as they were sent, and writing the tags of
any slice (`WriteElsewhere`) recolours the rows it names (`Replaced`). A list that
names a tag twice counts as naming it once.

`ClipPlanning` is a pure computation in three steps: trusted regions from the
diarization rows (`BuildBuffers`), cutpoints from the quiet frames
(`DetectCutpoints`), clips by weighted interval scheduling (`PackClips`, the same
dynamic program and way back as the code's). Its reference is the property: no
other set of disjoint candidates weighs more. Time is in integer steps and
weights in sixths; the code's tolerances of a few microseconds vanish at
this grain, and which frame of a run is cut is left open.

`BackendService` is the backend that the setup controller supervises. Three
threads of control interleave at the awaits: a call of `startServices` or the
reconciliation of a startup (`serve`), the automatic restart that the exit handler
schedules (`restart`), and the close of the controller (`close`).
`PersistIntent`, `Spawn`, `Spawned` and `Health` are `start`; `Stops`,
`Terminates`, `Term`, `Kill` and `Clears` its `stop`, the same termination serving
`reconcileOwnedService` (`Reconciles`, `Check`, `Reconciled`); `ExitSeen` is
`handleExit`; `Serve` is `startServices`, `Boot` and `Reconcile` the startup,
`Close`, `StopBackend` and `Release` the close. `stored` and `disk` are
`service_process` in memory and in the file, `svc` the service object, `open` the
children whose gate was opened by the byte on stdin. A record object stays aliased
in the store until somebody else commits, which is why `Spawned` may change
`stored` without a commit, and why `OtherCommit` is an action.

`AsrEnsure` is the download of a recognition model for a development checkout: a
request makes a job and a thread (`Ask`), the thread spawns a process and applies
its lines to the job (`Begin` to `Finally`), the process fetches and verifies
(`Announce` to `Exit`). A line that cannot be parsed is `Noise`; a pipe holds
`MaxPipe` lines; `Restart` is a backend that died, whose process stops at its next
write. What is in the cache is a set of kinds of file, and only the promise that
a complete job means a valid cache reads it.

`ReferenceRuns` is one project's reference runs and assets: the thread of a run
(`Start` to `Complete`, `Fail`), the promotion of a candidate and the rerank
of candidates by an anchor, each read and write a step, and the deletion of the
project, after which an identifier may be given out again. `ReferenceWindows` is
the computation inside: windows over speech or from cutpoint to cutpoint, and of
those that overlap the better.

`Migrations` is `__post_init__`, one statement at a time in two processes, from a
fresh database or one of `Earlier`. SQLite's implicit transactions are as the
Python driver makes them: only a statement that writes rows opens one.

`InstallLinux` is the installer and the uninstaller, one system call a step, over
a lock directory with a pid file, the releases, the pointer `current` and the
command. A release is none, whole, `bare` (without manifest) or `ragged` (partly
removed). `shared` is history: two processes were inside the lock at once, which
its protocol lets happen.

`SliceGrouping` is `plan_slices`: words are put in order, quiet gaps become
boundaries, slices reach from boundary to boundary, short ones are merged, and
neighbours are cut apart (`ParseWord`, `FindBoundaries`, `GroupNext`, `MergeLook`,
`Refine`).

`DatasetQc` is what becomes of the decisions about clips: the worker's `Slice`,
`Score` and `Export` against the page's `Finalize`, `Read`, `Judge`, `Write` and
`ClearExport`. Every file names clips by ordinal, so each carries, as history, the
generation it was made from. `beyond` records that a course was taken for which
the code makes no provision (a finalization beside a worker, a backend that died in
the middle of one with an export on disk, a resumed run that keeps decisions or
scores of clips that were cut again), and `Next` stops there: the model says what
holds on all other courses, and "What the models show" what happens on these.

`AudioEdits` is the audio of a candidate under edits, sample by sample: operations
on the timeline that earlier ones left, undo and redo, renderings and peaks in a
cache under a key of source and operations (`Look`, `Publish`, `PublishPeaks`,
`Finalize`), the replacement of the candidates (`ClearExports` to `ClearPeaks`) and a
native export. Its reference, `Heard`, traces a sample back through the operations
without applying them.

`SpeakerRegions` lays several recordings on one timeline, diarizes them, brings the
turns back and writes regions, samples and the selection; the backend writes the
selection too (`Ask`, `Truncate`, `Save`). `crossed` is history: a selection was
under way while a worker diarized.

`ReviewClips` is the analysis copy of a recording, its channel decision, and the
clips cut from the recording at its own rate. `ClipScores` is what becomes of the
certainties of words and of the likeness of voices: scores, buckets, the
voiceprint with its outliers dropped, and the ranking.

`MCSetupController`, `MCProcessing` and `MCDatasetRun` add the symmetry sets for
TLC, and `MCProcessing` narrows the initial states. `MCClipLab` is the disjoint
union of `ClipLab` and `AudioEdits`, `MCParts` that of the nine modules `Uploads`,
`ModelInstall`, `SliceHistory`, `BackendService`, `ReferenceRuns`, `InstallLinux`,
`DatasetQc`, `SpeakerRegions` and `AsrEnsure`, and `MCSmallParts` that of
`ControllerLock` (with faults and without), `SetupController`, `ClipPlanning`,
`ReferenceWindows`, `Migrations`, `SliceGrouping`, `ReviewClips` and `ClipScores`:
the first state picks the part that moves. `MCReviewClips` and `MCInstallLinux`
serve one finding each. The modules whose names end in `Proofs` hold the theorems.
The operators named after "Mutant" comments are variants with a plausible bug;
nothing uses them, they serve to show that each property notices its bug.

## Runs

| Run | Instance | What it shows |
| --- | --- | --- |
| `SetupController` | 4 attempts, 3 children, 1 session, all switches on; 783k states | `WritersAreSafe` (one writer, recorded while it lives, none once the job has settled), `ExecutionIsCurrent`, `CredentialIsOwned`, `LegalTransitions`, and that the controller implements `InstallationWriters` |
| `SetupStranded`, `SetupSwallowed`, `SetupDeadEnd` | 4 attempts, 2 children; no fault, and a crash in the last only | findings 1 to 3, with counterexamples of 13, 13 and 29 states |
| `Processing` | 2 workers, 3 jobs, 2 raw recordings, commits that fail; 3.3M states | `NamedFilesExist`, `ActiveGroupIsWhole`, `CheckedAlignmentHasText`, `LiveJobIsNotSwept`, and that the jobs implement `JobLifecycle` |
| `DatasetRun` | 3 workers, one call at a time, the backend may die; 2.6M states | `CompletedStageIsOnDisk`, `ResumeFindsTheWorker`, `CancelSticks`, `GoneIsNoticed` |
| `DatasetRunOverlap` | 3 workers, two overlapping calls | finding 4 |
| `ClipLab` | the review of a clip: 2 pages, 2 generations of candidates with the same audio, 1 operation, 1 corrected transcript, stacks of 2, 3 edits of a document; beside it its audio, sample by sample | `CandidatesAreWhole` (one generation, and never none), `ReviewIsTrue` (what is accepted was seen, what is ready is on disk), `ChangesWhatWasSeen`, `ServedIsEdited` |
| `Parts` | nine components, one after the other; 4.1M states | uploads: `SourcesAreAccounted`; model installation and the download of a recognition model: `DownloadIsIntact`, `InstalledStays`; slice history: `ShownIsActive`; managed backend: `BackendIsOwned`; reference runs: `ReferencesAreWhole`; the Linux installer: `InstallHolds`; dataset QC: `DecisionsStand`; diarization: `SpeakersAreFound` |
| `InstallPartial` | 3 processes of the installer and the uninstaller | finding 5 |
| `SmallParts` | nine small parts, without symmetry; 1.1M states | the ownership lock with faults, 3 processes and 3 inodes: `LockIsSafe`, `FilesAreRespected`, and that it implements `InstallationOwnership`; without faults `LoneRestartSucceeds`; the setup job with 2 attempts: `CancelSettles`; the algorithms: `CutsAreSound`; the migrations: `StartsRecover` |
| `SlicerRerun` | one recording, two workers, nothing killed | finding 6 |

*Why these bounds.* The lock: a reclaim involves the crashed owner, the
reclaimer, and a contender that passed the recovery check early or finds either
file in any state. Three inodes are two for
the two files and one to be reused while another is remembered. The setup
controller: a new attempt needs an id that neither the job in memory, nor the one
in the file, nor the record of either names; in every reachable state these name
at most two attempts, so four ids leave a fresh one everywhere. Of the children
one can be recorded in memory, another in the file and a third be spawned; a
spawn waits in the model only while strangers or swallowed children hold every
number. Ids are reused as soon as nothing names them, so the bounds limit how many
are in use at once, and not how long a behaviour is: no counter is capped there.
One session suffices because a second one can only be refused. The theorems then
hold for every number of each.

The backend. `Processing`: a preparation, the job it is mistaken for and one
more; two workers are the one that is slow and the one that sweeps. Two raw
recordings are the least at which a group can be incomplete. A project starts
with no recordings, or with all of them, alike and prepared. `DatasetRun`: a
worker that ended, the one that is alive and one launched by mistake; one call at
a time keeps the fair graph small, two calls are in the overlap run. `ClipLab`:
with two generations of the same audio a rendering stays valid and an acceptance
does not; two pages are the one that is behind and the one that is ahead; stacks
of two have a top and a rest. Its audio: a clip of three samples and one of two,
operations that take all of it, its inside, more than is left, and silence inside,
at the end and too much of it, two edits and two renderers.

`Parts`. Two upload requests, two recordings and two
deaths let a retry, a recovery and a second request meet over an upload, and one
chunk suffices as chunks are never compared with each other. Two installers over
two artifacts, one of each source, with two versions of a file of two pieces, are
the least that can be spliced. Two clients with three commits make siblings and
two baselines. Of two backend
children one is recorded, or a stranger, while the other is launched, and numbers
are reused; a call of `startServices` during a restart, which replaces the service
object under it, is not among these behaviours. One identifier of a reference run
is enough to be reused; its two threads and two requests are what can meet over
its directory and its asset. Three processes of the installer are the one inside,
the one that judges its lock and the one that has taken it; one edition suffices to be
adopted. Quality decisions need two generations of one clip, since the second
reuses its ordinal. Of a diarization, a recording of three steps and one of two, a gap of one between
them, and turns that begin and end at the edges of the
recordings and inside; two turns of two speakers overlap or not. Two jobs of
one recognition model are the one that is shown and the next, with a pipe that one line
fills and one death of the backend.

`SmallParts`. The recording of 19 steps has room for a clip of each length from
the shortest to the longest (3 and 15), for two clips that touch, for a region that
ends past the audio and for every quiet subset of six frames. Windows: two
durations over five marks, with equal and unequal scores. Grouping: five words are
the least with a slice to merge on either side and one beyond; gaps are none or
wide, words short or longer than a gap. Review clips: rates that are not
multiples of the analysis rate, above and below it. Scores: certainties at both
ends of both scales and the value that means unknown; clips of up to five frames of
silence, own and other voice, and regions of two to six. Migrations: every database that a release or an interrupted
start leaves, two processes, one column that the runs have gained and two that the
jobs have, as these are added one by one.

`MaxVersion`, `MaxCommits`, `MaxCrashes`, `MaxDeaths`, `MaxJobs`, `MaxGen`,
`MaxEdits`, `JobId`, `RunId` and `MaxWorkers` cap what would grow for ever:
behaviours stop there, which is why deadlock is not checked.

`CHECK_DEADLOCK` is off because the systems may stop: all processes of the lock
end, a controller without crashes may be refused for ever, a plan is made once,
and the bounds above end the others.

*Fairness.* `LoneRestartSucceeds` assumes WF of `Acquire(p)` for each process while
the part "lock" moves: `acquireOwnership` is synchronous, and a process that is not
killed runs it to the end. `CancelSettles` assumes WF of `Subprocess \/ Running` while
the part "setup" moves: the kill timers are set by the code, file operations end,
and a stage's own awaits either listen
to the signal or are bounded. Nothing is assumed of the subprocess, of requests,
of restarts or of the rest of the system: a group may ignore SIGKILL for ever,
and the job then settles as interrupted. `GoneIsNoticed` assumes that a call
which was accepted is served (WF of `Serves(c)`: each step of it is a file or
database operation that returns), that the page which shows a run goes on polling
it (SF of `Refresh(c)`, since other calls and a lost page may keep interrupting
it), and that the backend does not die for ever. Nothing is assumed of workers.
The other components have no liveness property: a file lock waits a limited time
and then refuses, a queue has a worker or has none.

## Findings

1. `SetupStranded`. A cancel or shutdown that falls between two subprocesses,
   where nothing listens to the signal, lets the next `runProcess` persist a
   launch intent for a process that is never spawned (`bootstrap.js:541`). At
   every later start `terminateRecoveredProcess` refuses a record without a
   pid, so the controller cannot start any more, although nothing ever ran. No
   crash and no I/O error is needed. `RefusedForCause` fails.
2. `SetupSwallowed`. `verifyUv` and four other verifications turn an uncertain
   termination into "not verified" (`bootstrap.js:1269`). The next subprocess
   overwrites and then clears the record of a group that is alive, where the
   README of the controller says ownership remains recorded.
   `OwnershipRetained` fails.
3. `SetupDeadEnd`. A job that waits for a token is resumed without the look at
   `child_process` that start and retry make otherwise (`controller.js:225`).
   It can end flagged as uncertain with nothing recorded; retry then asks for a
   restart, and no restart clears the flag. `UncertainIsReconcilable` fails.
4. `DatasetRunOverlap`. The comment of `_resume_dataset_run_processing`
   (`dataset_runs.py:619-621`) promises that overlapping resumes re-check the live
   worker. The lock that is meant covers resumes only: a start or a speaker
   selection that read the row before a resume and commits after it brings back
   the old `worker_pid`. Once a poll has taken an earlier `status.json` for the
   present worker's, the next resume sees no live worker and launches a second
   one. `ResumesDoNotOverlap` fails.

5. `InstallPartial`. The installer adopts a release directory that is there already
   if its manifest is that of the archive (`install-linux.py:379-382`). An
   uninstallation that failed among the files of a release leaves such a
   directory; the next installation activates it, although `DISTRIBUTION.md:106`
   has the pointer switched "after verification". `ActiveIsWhole` fails.
6. `SlicerRerun`. A run that has cut its clips is offered to be sliced again
   (`dataset_runs.py:670`), but the assembly removes the analysis audio that a rerun
   reads (`assembly.py:285`). The rerun fails after it has removed the QC artifacts
   of the clips that stay. `RerunFindsAudio` fails.

What the models show beside these, and no document denies:

- `dataset_runs.py`: two concurrent starts of a pending run launch two workers;
  slicer, QC and export reruns look at the row's status and not for a worker; a
  poll that read before a cancellation can overwrite it; between a launch and the
  worker's first status a poll may show the run as completed. `CancelSticks` and
  `ResumeFindsTheWorker` are therefore checked, and proved, with one call at a time
  (each in its separate steps, with workers and deaths between them); with two
  that overlap TLC finds both violated. The states after
  two workers were alive at once are excepted by the history variable
  `overlapped`. A backend that dies twice between launching a rerun and committing
  its row can have it remove artifacts of a run that the row shows completed: why
  `CompletedStageIsOnDisk` asks that the last worker is the recorded one.
- `backend-service.js`: `close()` waits for the restore and for the stop of the
  recorded backend, and not for an automatic restart that is between `clear` and
  its launch intent (line 122). `stop` then finds no record, the ownership is
  released, and the restart launches a backend afterwards, although `API.md`
  (255-256) has the backend stopped first. `StoppedFirst` excepts exactly that
  window with the history variable `late`, so that it says there is no other.
  A launch whose identity cannot be read leaves a record with a pid and without
  identity; once another commit writes it, every later startup refuses.
- `repository.py`: a job that was failed as stale while its worker was silent can
  be completed by it afterwards (`JobLifecycle` allows this). A preparation that
  was failed as stale still activates its group. Prepared recordings share the
  artifact files of their raw recording, so the words stored need not be those of
  the text stored. Deleting a project does not wait for running jobs, which can
  leave files behind. The identifier of a deleted reference run is given out again
  while its thread may still be writing; a promotion that loses against the deletion
  of its project leaves an asset. Two simultaneous first starts can refuse each other a
  statement, or leave a copy of the seeded recording that was cut short.
- `clip_lab_coordination.py`: a worker that dies between backup and promotion
  leaves a backup which blocks later regenerations; readers do not look for it, and
  the clips in it cannot be played.
- `clip_lab_audio_ops.py`: a backend that dies while rendering leaves "pending"
  for ever, and a late failure of an older rendering of the same revision marks
  the clip as failed. A native export is served while it is being written (748). A
  manifest that returned to an earlier content would let the rendering of the
  earlier one be called ready.
- `dataset_qc.py` and the worker: a resumed run keeps decisions whose ordinals now
  name other clips; a finalization that crosses a scoring can accept clips by
  uncalibrated scores; an export that is killed leaves the old summary beside some
  of the new clips; a backend that dies between writing the decisions and clearing the
  exports leaves exports of the earlier decisions; a ranking that fails in a resumed
  run leaves the one of the earlier scores.
- `dataset_runs.py`, `diarization.py`: a speaker selected while a worker diarizes can
  be overwritten by it, or name somebody who is gone; a selection that was cut short by
  a death fails the stage.
- `assembly.py`: the analysis audio is removed before the clips are promoted, so that a
  failed promotion can only be repeated from the start of the pipeline.
- `asr_model_ensure.py`: after a restart of the backend the process of the previous one
  may still download beside the new one's. Without a network the hub returns
  what it has, and a snapshot without its vocabulary passes the check.
- Clip scores: the tail of a clip that is shorter than a hop is not listened to
  (`eval_speaker_purity.py:191`); certainties of both scales in one transcript
  make it unreadable (`b1_lj_score.py:46`); a clip is compared with its region in
  seconds at two rates (`reference_quality.py:46`).
- `install-linux.py`, `uninstall-linux.js`: two processes can be inside the install
  lock at once, when a third removes a lock it judged stale after another has retaken
  it; a release whose manifest was removed first blocks its reinstallation. Nothing
  refuses a lower version, though `DISTRIBUTION.md:106` says that it is.
- `launcher.js`, which is not modelled: an empty lock file left by a launcher that
  died blocks all later ones; `stop` removes the ownership file without the lock (507).
- `audio_ingestion.py`: two creations with one `client_upload_id` may make two
  sessions; `mark_completed` and a verification may lose a chunk's entry, which
  is then uploaded again.
- `download.py`: a death between the two renames of a publication leaves nothing
  under the key until the next installation.
- `native_cliplab.py`: two overlapping saves of a slice lose one of the updates. A tag
  is shown with the spelling of its first use and the colour of its last, on whatever
  slice, not with those of the slice's active commit; a save that leaves the tags alone
  writes back the colours it read before its transaction.

## Proofs

What is proved holds for every set of processes, inodes, attempts, children,
sessions, workers, recordings, pages, operations, installers, clients and jobs, and
for every value of the switches. The proofs assume only the named assumptions of
the modules: null values are not members of the sets, the
switches are Booleans, numbers are natural numbers. No set is assumed to be finite,
but for the identifiers of download jobs, of which the newest is looked up.
`ClipLabProofs`, `PartsProofs` and `DatasetRunProofs` say below what else they need.

`SmallPartsProofs`. `MutualExclusion` alone is not inductive: it says
nothing of the process that is about to become owner. `IInv` adds that a process
that created the lock and has not given it up finds its own file at the path
(`LockIsMine`), the same of the recovery marker (`MarkerIsMine`), that an owner
found stale is dead (`StaleIsDead`), and that under the marker the stale lock
stays until the reclaimer removes it (`StaleLockStays`): its creator is dead, a
contender only removes its own lock, and another reclaimer would need the
marker. `NobodyOwnsVacantLock` covers the window of the reclaim. Theorems:
`TypeCorrect`, `OwnerIsOnDisk`, `Mutex`, `ReclaimAlone`, `RemovalJustified`,
`MarkerStays`, of which `LockSafety` and `FilesRespected` are the conjunctions
that `SmallParts` checks, and `ImplementsOwnership`.

Its other subject is the start-up of the database, for any processes and columns.
`StartsRecover` says of a lone start that no statement of it is refused, which
depends on what it found when it last looked. `DatabaseInv` therefore says what
every database is, whoever has migrated it and how far (`Sound`: the version number is
never ahead of the tables, the keys and the media it stands for), what the
statements before a start's place have made true (`Done`), and that a start which is
alone still finds what it has read (`Knows`). `Done` is carried across the steps of the
other process by one lemma, `DoneLater`: no start takes anything back (`Later`). A
second start ends the promise to the first, and each of the two that meet loses it;
a file that was cut short is one that no row names yet, one that is being copied, or the
doing of such an overlap (`lost`). Theorem: `StartsAlwaysRecover`.

Then the slices of an alignment, for any number of words, of any lengths, and any
limits. A merge may join slices that were legal, and a cut is made long after the gap
was found. `GroupInv` says at every stage that the words are in order and apart
(`WordsInOrder`), that a slice begins where the one before ended, at a quiet gap
(`SlicesInOrder`), that what the merging has looked at is long enough (`LooksSoFar`),
that only a merged slice or one without a legal boundary is too long (`LegalSoFar`), and
that the cuts so far lie in the gaps between the words (`GapIs`). `NeighboursJoined` is the
lemma about a merge. Theorem: `SlicesStaySound`, three of the four conjuncts of
`SlicesAreSound`; the fourth, `TimeIsCountedOnce`, is about a fold.

Last the audio of review clips, for any recording, any pair of rates and any deaths of
workers. `ReviewInv`: as long as the copy exists it holds the channels that the mode in
the manifest stands for, and each clip is cut as it was placed (`CutAsPlaced`). What
follows from it is arithmetic: rounding errs by half a frame at most (`Rounded`) and keeps
the order (`RoundedInOrder`), also where the recording ends before the clip (`FrameOf`).
Theorem: `ClipsStayOfTheRecording`. For these two, `GroupingAssumption` says that lengths
and limits are natural numbers, and `ReviewAssumption` that a rate is a pair of positive
ones.

`SetupControllerProofs`. `IInv` says, of each place `run` can be at, what may be
alive there: nothing before a spawn, between two subprocesses or after an error
other than an uncertain termination (`NothingRuns`), else only the current child
(`OnlyTheKid`), nothing once the job is at rest (`RestIsQuiet`); and that both
records cover what is alive, by naming it or by being a launch intent
(`RecordsCover`, `IntentFirst`). `ExecutionIsCurrent` and two smaller facts
about control carry these across the requests; `FedIsRecorded` and `StatesAgree`
serve the credential and the transitions. Theorems: `TypeCorrect`,
`SingleWriter`, `NoLostChild`, `SettledIsQuiet`, their conjunction `WritersSafe`,
`NoStaleExecution`, `CredentialHeldByOwned`, `TransitionsAreLegal`,
`ImplementsWriters`.

`ProcessingProofs`. Everything that the run `Processing` checks, from the module's
own `Init`, which is wider than the run's. A job that was claimed is never pending
again, so no two workers hold one (`JobsInv`), and a job that a worker has read as
silent stays silent, which gives `LiveJobsAreLeft` and `ImplementsLifecycle`. A
prepared recording is unborn until its job inserts the row, and nobody has heard
of one (`UnbornAreUnknown`): so a preparation that is undone takes away nothing
that a row, a queue or a worker still names. `WorkIsSound` says at each step of a
preparation what its rows and files have become, `NamesAreNear` that a row names its own
artifacts or those of its raw recording, `ScanCovers` that a deletion that has read
the project has read all that it must delete, `GroupsAreSettled` that the active
group's job has ended or is at its last step. Theorems: `TypeCorrect`, `FilesAreThere`,
`GroupIsWhole`, `AlignmentHasText`, `LiveJobsAreLeft`, `ImplementsLifecycle`.

`ClipLabProofs`. `PromotionInv` says at each step of a promotion which parts are
live, which are backed up, and that a death in between leaves the candidates whole or
gone with their backup (`CutShort`). The review adds that a page was shown a generation
no later than the live one (`Earliest`), that a page whose generation and version
are the document's has seen it (`Knows`, `PagesAreSound`), that what a document
has accepted was approved in that form (`DocIsSound`) and that a call
renders candidates that were there (`RendersCandidates`). The bound
on stacks is inductive with undo and redo together: `Len(ops) + Len(redo) <= MaxOps`.
Theorems: `Invariant`, `TypeCorrect`, `WholeCandidates`, `TrueReview`, `SeenIsChanged`.

The audio of a clip, for any clients, insertions and number of edits, over the two
recordings of `MCClipLab`: `EditInv` says that a file of the cache holds what its key
says (`FilesAreMade`), though several renderers publish under one key; that what a
renderer has in hand is its key's, and that as long as the candidates are those it
began with, what it has published is still there (`JobSound`); and that a document
marked as ready names a rendering and peaks that are on disk (`EditSound`), which the
clearing after a regeneration keeps because the document is archived first. Theorems:
`LabInvariant`, `LabIsTyped` and `CacheStaysTrue`, the half of `ServedIsEdited` that
concerns the cache. That the samples are those the operations ask for (`Heard`) is a
fold over the operations, and stays with TLC.

`DatasetRunProofs`. `TypeCorrect` holds for any calls. The other theorems say
`Call = {k}` in their hypothesis: with overlapping calls TLC finds
`ResumeFindsTheWorker`, `CancelSticks` and, with three workers,
`CompletedStageIsOnDisk` violated, so that the hypothesis is what the code needs, and
not a convenience. It still lets the backend die between any two steps of a call,
the next call begin after it, and workers end at any moment. `IInv` says that a
request which has read the row finds it unchanged, that only the worker launched
last is alive unless workers overlapped, that `reached` is lowered by a slicer or
QC rerun only, and that "starting" was written by a pipeline worker. Theorems:
`TypeCorrect`, `CompletedIsOnDisk`, `ResumeIsAlone`, `CancelHolds`.

`ModelInstallProofs`. The holder of a key's lock is alone in the tree and the staging
directory of that key (`HoldsItsKey`, and `OwnStep` for what others leave alone). A
digest with a strong validator covers pieces of the version that the validator
names, in memory, among the durable pieces, and in the record that an earlier
process left (`TransferIsSound`, `RecordIsSound`), and without a validator nothing
is resumed. `Parameters` are the assumptions, here as a hypothesis, since the module
is instantiated.

`BackendServiceProofs`. A child whose gate is open and that lives is named in the
file, in memory once the file was read, and by the service object once the
controller is up (`Recording`); nobody starts another beside it, and who ends
something ends it (`OnlyOne`). A start goes from a recorded intent
(`StartsFromIntent`). `ThreadsAreOrdered` says which threads may be under way at
once and what each relies on while it waits: at most one of them starts or ends a
child. `StaysStopped` is the window of the close.

`PartsProofs` proves all ten properties of `Parts`, for `MCParts` itself: each
part's invariant holds from the first state whatever part moves. A section each:

- `SliceHistory`: what a call has read so far was the slice's at its baseline, and the
  baseline is a commit.
- `AsrEnsure`: after the result a pipe holds nothing but noise, a job is shown as open
  only while its thread tends it or has not begun, and `active` names the one open job.
- Model installation and the managed backend: the invariants are those of `Kept`
  (`ModelInstallProofs`) and `Owned` (`BackendServiceProofs`); `ModelsAreTheSame` and
  `BackendIsTheSame` prove that their definitions are those of the parts of `MCParts`.
- `Uploads`, `UploadInv`: what a finalization has moved, inserted or found so far, at each
  of its points; two requests are never inside the finalization of one session; the marker names
  the recording of whoever is moving files, and every file moved.
- `InstallLinux`, `InstallInv`: as long as no two processes were inside the lock at once,
  what one of them has read of the command and the pointer is still so, and its undo leads
  back to it (`shared` ends that promise). Whoever is inside, a lock with a pid is that of a
  process on its way with it, and an empty one that of a process which is about to fill or
  remove it, or of one that died.
- `ReferenceRuns`, `ReferenceInv`: a run whose identifier was given out once has one thread,
  whose row, candidates and embeddings are, at each of its points, those it wrote; what a
  request has put on disk of an asset stays.
- `DatasetQc`, `QualityInv`: what is left of a worker's steps is the end of the list it was
  launched with (`JobIsPlanned`); what it has cleared is gone until it is made again
  (`JobHasCleared`), what it has exported is what was decided (`JobHasExported`); and what a
  finalization has read is what stands (`CallIsTrue`), as no worker runs beside one.
  `Followed` is what `beyond` leaves of a step: it is why the theorem, like the property,
  ends where the code makes no provision.
- `SpeakerRegions`, `SpeakersHold`: the regions, in each order in which a run writes them, lie
  in the recording and are what the turns leave of it (`OffsetIsPlace` is the place of a
  recording on the timeline, from which a turn is mapped back); the sample of a speaker is
  cut from one of the longest regions (`LongestIsSampled`); and what a page
  has asked for, and what the worker has read of the selection at each of its points, is
  a speaker who was heard (`SpeakersAreAsked`, `ChoiceIsHeard`).
- `PartsAreTyped` gathers the types of all nine.

Assumptions: `NoneAssumption`, `SwitchAssumption`, `ModelsAssumption`,
`EnsureAssumption`, `SlicesAssumption`, `SpeakersAssumption`, `UploadsAssumption`,
`InstallAssumption`, `ReferencesAssumption` and `QualityAssumption`, all of which say
that a bound is a number or that the value for "nothing there" is no value of the kind
that could be there. Theorems:
`SliceShowsItsCommit`, `BackendStaysOwned`, `InstalledModelStays`, `DownloadsAreIntact`,
`SourcesStayAccounted`, `InstallerHolds`, `ReferencesStayWhole`, `DecisionsStayTrue`,
`SpeakersStayFound`, `PartsAreTyped`.

Only model-checked:

- `LoneRestartSucceeds`, `CancelSettles` and `GoneIsNoticed`, since liveness under
  fairness is out of the prover's reach;
- of `CutsAreSound`, what is not in `SlicesStaySound` and `ClipsStayOfTheRecording`:
  planning, windows, scores and `TimeIsCountedOnce` are recursive functions, maxima and
  folds over data, that is, need induction over data; and `SmallTypeOK`, whose conjuncts for the
  algorithms are what these functions return;
- of `ClipLab`, `ServedIsEdited`, but for what `CacheStaysTrue` says of the cache: it
  compares a fold over the operations with a trace back through them;
- the six findings, which are counterexamples.

## What is left out, and why

Of the modelled components: the commits of `onProgress` and of component
status, which change nothing that a decision reads; what a stage downloads or
installs, and the eleven stage names, folded into the stages before
`install_models`, that stage and those after it, since only `install_models`
waits and resumes; validation and migration of the state file; the simulated
executor; the wording of errors, of which the code is kept. A record whose
fields are malformed is not a state the program writes. The subprocesses of
`restoreManagedServices` are not in `WritersAreSafe` yet. Of the managed backend:
the validation of paths, the port, the environment and the status shown to the
page; a health check is one of its outcomes.

Of the backend: time, except for its order (a job may be overdue, a session a day
old, a staging directory a week old at any moment after the event that counts);
power loss (what was written survives the death of a process); import batches, the
cleanup of unreferenced media and orphan files, the removal of old quarantines, the
QC subset of a view, the numbering of export directories, and logs, samples and
waveforms that are only read. In `ClipLab` the parameters of an audio edit are
abstract (they are concrete in `AudioEdits`), and so are the words of a transcript. A
project has one set of recordings, a run one clip: requests on
others share no state with them, except the queue, which has all jobs. A thread that
cannot be started is not modelled: `thread.start()` that raises would leave a job
of `AsrEnsure` "queued" for ever.

Of the installers: the data purge, the profile of the shell, the macOS and Windows
installers, and pids that are used again. Of the algorithms: embeddings, scores,
loudness and voice activity are inputs, any value of which may occur.

## Not modelled

The restoration of services (except `startServices`), the event stream and the
launcher keep state that several actors share and could be modelled in the
same way; their hazards are listed without a property. Request parsing, static
responses, progress parsing, platform probing, the frontend, the
manifest and catalogue of models, media conversion, signal processing,
embeddings, speech recognition, and the evaluation and tournament
scripts are input and output, numeric heuristics, or
sequential programs that run once; they make up most of the
lines of the repository and hold no state of this kind.

## Plan

Done: the ownership lock, the setup job, processing jobs and recordings, data-set
runs, candidates and their review with runs and theorems for all their safety
properties; model installation, the managed backend, slice history, the
recognition model download, uploads, reference runs, the Linux installer and dataset
QC, the same within `Parts`; diarization, audio edits, migrations and the algorithms
with their runs.

Next, proofs:

1. `TypeOK` of `MCParts`, part by part, from the lemmas `TypedUploads`, `TypedInstall`
   and `TypedReferences` and their like for the other parts.
2. `SpeakerRegions`: of `SpeakersAreFound`, that the target that is read is one that was heard.
3. `Migrations`: `StartsRecover`; `AudioEdits`: `ServedIsEdited`, as far as its folds
   allow.

After the proofs, if there is room: `RestoreServices`,
composed with `SetupController` over `child_process`; `LauncherOwnership`;
`EventStream`; `QuietFrames`, the choice of quiet frames that `ClipPlanning` takes as
given.
