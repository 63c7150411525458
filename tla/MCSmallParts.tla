----------------------------- MODULE MCSmallParts -----------------------------
(***************************************************************************)
(* Parts of the program with small state graphs, which share no state: the *)
(* first state picks the part that moves, and the others keep an initial   *)
(* state.  None of them is reduced by symmetry, so that the liveness of    *)
(* the controller's ownership lock and of its setup job can be checked     *)
(* here, beside the algorithms and the start-up of the database.           *)
(*                                                                         *)
(* The lock is the module's own: as part "race" with the failures that the *)
(* configuration allows, as part "lock" without any.                       *)
(***************************************************************************)
EXTENDS ControllerLock, Integers, TLC

CONSTANTS
  Attempt, Child, Session, NoAttempt, Nobody, NoSession,     \* SetupController
  Length, Second, Frames, HalfWindow, MinRun, Bounds, MaxTarget, MaxOther,  \* ClipPlanning
  Marks, Shortest, Slack, CutStride, Score, Cap,             \* ReferenceWindows
  Starter, RunCols, JobCols,                                 \* Migrations
  MaxWords, Gap, Long, Back, MinDuration, TargetDuration, MaxDuration,
  MinGap, Trailing, Leading,                                 \* SliceGrouping
  Lengths, Rates, Loudness, MaxWorkers                       \* ReviewClips

Durations == <<4, 6>>   \* of ReferenceWindows
ThreeRates == {<<3, 2>>, <<2, 3>>, <<11, 4>>}   \* for Rates of ReviewClips

ASSUME GroupingAssumption ==
  /\ Gap \cup Long \subseteq Nat
  /\ {Back, MinDuration, TargetDuration, MaxDuration, MinGap, Trailing, Leading} \subseteq Nat
ASSUME ReviewAssumption ==
  Lengths \subseteq Nat /\ Rates \subseteq (Nat \ {0}) \X (Nat \ {0})

(* Of ClipScores: what two clips may be transcribed as, with every         *)
(* certainty the scale's reading could confuse; the second clip and the    *)
(* regions as they may sound; one clip inside the other; and where the     *)
(* recognizer may run.                                                     *)
Certain  == {0, 60, 100, 5000, 9900, -1}
Word(p)  == [p |-> p, lexical |-> TRUE]
Stop     == [p |-> -1, lexical |-> FALSE]      \* a punctuation mark
Said(ws) == [audio |-> TRUE, works |-> TRUE, words |-> ws, odd |-> FALSE]
Words(P, n) == {[i \in 1 .. n |-> Word(f[i])] : f \in [1 .. n -> P]}
Known    == {Said(ws) : ws \in UNION {Words(Certain, n) : n \in 0 .. 2} \cup Words({60, 100}, 3)}
Readings == Known \cup
  {Said(<<Word(12000)>>), Said(<<Word(9900), Stop>>), Said(<<Stop>>),
   [Said(<<Word(100)>>) EXCEPT !.odd = TRUE], [Said(<<Word(100)>>) EXCEPT !.works = FALSE],
   [Said(<<Word(100)>>) EXCEPT !.audio = FALSE]}
Plain    == {Said(ws) : ws \in UNION {Words(Certain \ {-1}, n) : n \in 1 .. 2} \cup Words({60, 100}, 3)}
Own(n)   == [i \in 1 .. n |-> "own"]
Sounds   == UNION {[1 .. n -> {"silence", "own", "other"}] : n \in 0 .. 5}
Talk(s)  == [sound |-> s, past |-> 0, source |-> "its", where |-> "analysis"]
Talks    == {Talk(Own(n)) : n \in {2, 4, 5, 6}} \cup
  {Talk([i \in 1 .. 4 |-> "other"]), Talk(<<"own", "other", "own", "own">>),
   Talk(<<"other", "other", "own", "own", "own", "own">>),
   [Talk(Own(3)) EXCEPT !.past = 2], [Talk(Own(6)) EXCEPT !.where = "unlisted"],
   [Talk(Own(4)) EXCEPT !.where = "nowhere"], [Talk(Own(4)) EXCEPT !.where = "source"]}
Spans    == {[from |-> a, to |-> b] : a \in 3 .. 12, b \in 3 .. 12}
Nested   == {s \in Spans \X Spans :
               s[1].from <= s[2].from /\ s[2].from < s[2].to /\ s[2].to <= s[1].to}
Runtimes == [managed : BOOLEAN, platform : {"linux", "wsl2", "macos", "other"},
             asked : {"", "mlx", "ctranslate2", "other"},
             files : SUBSET {"weights.npz", "config.json", "model.bin"}]
Ordinary == [engine  |-> [managed |-> TRUE, platform |-> "linux", asked |-> "",
                          files |-> {"model.bin"}],
             texts   |-> [i \in 1 .. 2 |-> Said(<<Word(90), Word(95)>>)],
             takes   |-> <<Own(4), Own(4)>>,
             places  |-> <<[from |-> 3, to |-> 6], [from |-> 4, to |-> 8]>>,
             spoken  |-> <<Talk(Own(4)), Talk(Own(5)), Talk(Own(6))>>,
             elsewhere |-> <<[Talk(Own(6)) EXCEPT !.source = "another"]>>,
             stretch |-> [from |-> 2, to |-> 7]]

VARIABLES
  part,   \* the part that moves
  ctl, job, disk, exec, at, kid, error, swallowed, pending, verifying, group,
  target, other, quiet, regions, cuts, clips, step,
  speech, points, raw, score, kept, phase,
  db, start, lost, was,
  aligned, words, pauses, specs, look, splits, work,
  recording, copy, mode, scopes, pieces, scored, worker, started,
  asr, entries, enrolled, transcripts, voiceprint, purity, ranking, pass

Lock  == INSTANCE ControllerLock WITH Faults <- FALSE
Setup == INSTANCE SetupController WITH
           Tolerant <- TRUE, Crashes <- FALSE, Faults <- FALSE, Reuse <- FALSE
Plan  == INSTANCE ClipPlanning
Win   == INSTANCE ReferenceWindows WITH regions <- speech, cuts <- points, stage <- phase
Mig   == INSTANCE Migrations WITH Process <- Starter, proc <- start
Grp   == INSTANCE SliceGrouping WITH
           quiet <- pauses, cuts <- splits, stage <- work, at <- look
Rev   == INSTANCE ReviewClips WITH clips <- pieces, Killed <- TRUE
Sco   == INSTANCE ClipScores WITH
           Engines <- Runtimes, Texts <- Readings \X Plain, Takes <- {<<Own(4), s>> : s \in Sounds},
           Places <- Nested, Spoken <- [1 .. 3 -> Talks],
           Stretch <- {[from |-> 4, to |-> b] : b \in {6, 8}}, Usual <- Ordinary,
           Rate <- 3, AnalysisRate <- 2, MinRegion <- 3, Chunk <- 2, MaxChunks <- 6,
           Window <- 3, Hop <- 2, HalfSecond <- 1,
           engine <- asr, clips <- entries, regions <- enrolled, rows <- transcripts,
           voice <- voiceprint, marks <- purity, ranks <- ranking, stage <- pass

locking  == vars
setup    == <<ctl, job, disk, exec, at, kid, error, swallowed, pending, verifying, group>>
planning == <<target, other, quiet, regions, cuts, clips, step>>
windows  == <<speech, points, raw, score, kept, phase>>
database == <<db, start, lost, was>>
grouping == <<aligned, words, pauses, specs, look, splits, work>>
review   == <<recording, copy, mode, scopes, pieces, scored, worker, started>>
scoring  == <<asr, entries, enrolled, transcripts, voiceprint, purity, ranking, pass>>
small == <<part, locking, setup, planning, windows, database, grouping, review,
           scoring>>

(* A part that does not move starts in one of its initial states only.     *)
SmallInit ==
  /\ part \in {"race", "lock", "setup", "planning", "windows", "database", "grouping",
              "review", "scores"}
  /\ Lock!Init /\ Setup!Init /\ Grp!Init
  /\ IF part = "planning" THEN Plan!Init
     ELSE /\ target = {} /\ other = {} /\ quiet = {} /\ step = "diarized"
          /\ regions = <<>> /\ cuts = {} /\ clips = <<>>
  /\ IF part = "windows" THEN Win!Init
     ELSE /\ speech = <<>> /\ points = <<>> /\ phase = "input"
          /\ raw = <<>> /\ score = <<>> /\ kept = <<>>
  /\ IF part = "database" THEN Mig!Init
     ELSE /\ db = Mig!Fresh /\ start = [p \in Starter |-> Mig!Down]
          /\ lost = FALSE /\ was = "fresh"
  /\ Rev!Init
  /\ IF part = "scores" THEN Sco!Init
     ELSE /\ asr = Ordinary.engine /\ entries = <<>> /\ enrolled = <<>> /\ transcripts = <<>> /\ voiceprint = <<>>
          /\ purity = <<>> /\ ranking = <<>> /\ pass = "load"
  /\ part # "review" => recording.channels = 1 /\ recording.rate = CHOOSE r \in Rates : TRUE

SmallNext ==
  /\ UNCHANGED part
  /\ \/ part = "race" /\ Next
     \/ part = "lock" /\ Lock!Next
     \/ part \notin {"race", "lock"} /\ UNCHANGED locking
  /\ \/ part = "setup" /\ Setup!Next
     \/ part # "setup" /\ UNCHANGED setup
  /\ \/ part = "planning" /\ Plan!Next
     \/ part # "planning" /\ UNCHANGED planning
  /\ \/ part = "windows" /\ Win!Next
     \/ part # "windows" /\ UNCHANGED windows
  /\ \/ part = "database" /\ Mig!Next
     \/ part # "database" /\ UNCHANGED database
  /\ \/ part = "grouping" /\ Grp!Next
     \/ part # "grouping" /\ UNCHANGED grouping
  /\ \/ part = "review" /\ Rev!Next
     \/ part # "review" /\ UNCHANGED review
  /\ \/ part = "scores" /\ Sco!Next
     \/ part # "scores" /\ UNCHANGED scoring

(* The fairness of the lock and of the setup job, each while it is the one *)
(* that moves; the other parts may stop at any time.                       *)
Fairness ==
  /\ \A p \in Proc : WF_locking(part = "lock" /\ Lock!Acquire(p))
  /\ WF_setup(part = "setup" /\ (Setup!Subprocess \/ Setup!Running))

SmallSpec == SmallInit /\ [][SmallNext]_small /\ Fairness

-----------------------------------------------------------------------------
(* Each part's state has the shapes its code writes.                       *)
SmallTypeOK ==
  CASE part \in {"race", "lock"} -> TypeOK
    [] part = "setup"    -> Setup!TypeOK
    [] part = "planning" -> Plan!TypeOK
    [] part = "windows"  -> Win!TypeOK
    [] part = "database" -> Mig!TypeOK
    [] part = "grouping" -> Grp!TypeOK
    [] part = "review"   -> Rev!TypeOK
    [] part = "scores"   -> Sco!TypeOK

(* What the algorithms return, at every boundary of their inputs: clips    *)
(* are disjoint, legal, inside a region and clean of other speakers, and   *)
(* no other set of them weighs more; windows miss no stretch of speech and *)
(* of those that overlap the best remain; every word is in one slice, of a *)
(* legal length and cut at a quiet gap (buffers.py, vr_slicer.py,          *)
(* repository.py, slicer_algo.py).  The clips of a review are cut from the *)
(* recording where the analysis placed them (assembly.py); and they are    *)
(* scored by their words, by who is heard in them and by where they lie,   *)
(* whatever the order and the scale of the words and the rates of the      *)
(* files (b1_lj_score.py, eval_speaker_purity.py, reference_quality.py).   *)
CutsAreSound ==
  /\ part = "planning" => Plan!ClipsAreClean /\ Plan!PlanIsBest
  /\ part = "windows" => Win!CandidatesAreSound
  /\ part = "grouping" => Grp!SlicesAreSound
  /\ part = "review" => Rev!ClipsAreOfTheRecording
  /\ part = "scores" => Sco!ScoresAreSound

(* Migrations: a start that is alone succeeds after any crash, and leaves  *)
(* the database current with its rows (SpeechcraftRepository.__post_init__). *)
StartsRecover == part = "database" => Mig!StartsRecover

(* A controller that starts alone over a crashed owner's complete lock     *)
(* becomes the owner, unless it is killed (acquireOwnership).              *)
LoneRestartSucceeds == part = "lock" => RestartSucceeds

(* A cancelled setup job settles as cancelled or interrupted, whatever its *)
(* subprocess does (SetupController.cancel).                               *)
CancelSettles == Setup!CancelSettles

=============================================================================
