--------------------------- MODULE SpeakerRegions ---------------------------
(***************************************************************************)
(* Who speaks where in the recordings of a dataset run, and whom the run   *)
(* is about (workers/dataset/speechcraft_dataset/diarization.py and        *)
(* save_dataset_speaker_selection of backend/app/dataset_runs.py).         *)
(*                                                                         *)
(* Several recordings are laid out on one timeline, silence between them,  *)
(* so that a voice has one label in all of them; the turns found there are *)
(* brought back to the recordings.  The worker then writes its artifacts   *)
(* one after another, and the speaker selection, which it reads before it  *)
(* writes it, is written by the backend too, at any time and not at once.  *)
(*                                                                         *)
(* Time is in samples of the analysis audio, to which the code rounds each *)
(* turn; a gap is a whole number of them, so that the layout in seconds    *)
(* and the silence in samples agree.  The turns found are any.             *)
(***************************************************************************)
EXTENDS Integers, FiniteSets, FiniteSetsExt, Sequences, SequencesExt

CONSTANTS
  Lengths,      \* the lengths of the recordings, in order
  Gap,          \* the silence between two of them
  Speaker,      \* the labels the diarization gives
  Solo,         \* speaker_0, of a run of a single speaker
  Bounds,       \* where turns may begin and end
  MaxTurns,     \* bound: turns found
  SampleCount,  \* speech samples kept of a speaker
  SampleLength, \* the longest of them
  Nobody        \* no speaker

VARIABLES
  count,    \* how many recordings the run has
  turns,    \* what the diarization, or the voice activity, found
  regions,  \* speaker_regions.jsonl, once this worker has written it
  samples,  \* the speech samples this worker has cut
  listed,   \* the speakers of speaker_samples_manifest.json
  chosen,   \* speaker_selection.json
  known,    \* the speakers of speaker_regions_summary.json
  read,     \* the selection the worker has read, then the one it made
  target,   \* the speaker whose regions become buffers
  worker,   \* where the worker is
  request,  \* a call of save_dataset_speaker_selection
  crossed   \* history: a selection was under way during a diarization

diarization == <<count, turns, regions, samples, listed, chosen, known, read, target,
                 worker, request, crossed>>

Labels  == Speaker \cup {Solo}
Pending == [by |-> "pending", target |-> Nobody]
Choice(who, s) == [by |-> who, target |-> s]
TornFile == [by |-> "torn", target |-> Nobody]     \* truncated, not yet written
Absent  == [by |-> "absent", target |-> Nobody]
Idle    == [at |-> "idle", target |-> Nobody]

Sources   == 1 .. count
Offset[k \in DOMAIN Lengths] == IF k = 1 THEN 0 ELSE Offset[k - 1] + Lengths[k - 1] + Gap
Whole     == Offset[count] + Lengths[count]
(* A last turn may run a little past the audio.                            *)
Turns(labels) == {u \in labels \X Bounds \X Bounds : u[2] <= u[3] /\ u[3] <= Whole + 1}
Region(s, k, from, to) == [speaker |-> s, source |-> k, from |-> from, to |-> to]
Size(r) == r.to - r.from
Quiet   == {"start", "ended", "failed", "buffers"}   \* no worker is alive

(* A run's first diarization, or a later one over the artifacts it left.   *)
Init ==
  /\ count \in 1 .. Len(Lengths)
  /\ turns = {} /\ regions = {} /\ samples = {} /\ read = Absent
  /\ known \in SUBSET Speaker
  /\ chosen \in {Absent, Pending} \cup {Choice("user", s) : s \in known}
  /\ listed = known
  /\ chosen = Absent => known = {}
  /\ target = Nobody /\ worker = "start" /\ request = Idle /\ crossed = FALSE

-----------------------------------------------------------------------------
(* One recording: the turns are its regions.  Several: each turn is cut to *)
(* every recording it reaches into, and what lies in a gap is dropped.     *)

AsFound == {Region(u[1], 1, u[2], u[3]) : u \in {v \in turns : v[2] < v[3]}}

(* Mutant of Remapped: the part of a turn in its first recording only.     *)
RemappedFirst ==
  LET part(u, k) == Region(u[1], k, Max({u[2], Offset[k]}) - Offset[k],
                           Min({u[3], Offset[k] + Lengths[k]}) - Offset[k])
      reached(u) == {k \in Sources : Size(part(u, k)) > 0}
  IN {part(u, Min(reached(u))) : u \in {v \in turns : reached(v) # {}}}

Remapped ==
  LET part(u, k) == Region(u[1], k, Max({u[2], Offset[k]}) - Offset[k],
                           Min({u[3], Offset[k] + Lengths[k]}) - Offset[k])
  IN {r \in {part(u, k) : u \in turns, k \in Sources} : Size(r) > 0}

(* The longest regions of each speaker, cut to the sample length.          *)
Sampled(rows) ==
  LET of(s) == {r \in rows : r.speaker = s}
      rank(r) == Cardinality({q \in of(r.speaker) :
                   \/ Size(q) > Size(r)
                   \/ Size(q) = Size(r) /\ q.source < r.source
                   \/ Size(q) = Size(r) /\ q.source = r.source /\ q.from < r.from})
  IN {[r EXCEPT !.to = Min({@, r.from + SampleLength})] :
        r \in {q \in rows : rank(q) < SampleCount}}

Fail == worker' = "failed" /\ UNCHANGED <<regions, samples, listed, chosen, known, read, target>>
Crossing == crossed' = (crossed \/ request # Idle)

(* The model labels the timeline, or the voice activity of a single        *)
(* speaker is taken as it is, recording by recording.  Samples are cut     *)
(* from the recordings, and the regions and the samples' list are written. *)
Diarize ==
  /\ worker = "start"
  /\ \E n \in 0 .. MaxTurns :
       \E found \in [1 .. n -> Turns(Speaker)] : turns' = ToSet(found)
  /\ worker' = "found"
  /\ Crossing
  /\ UNCHANGED <<count, regions, samples, listed, chosen, known, read, target, request>>

DetectSpeech ==
  /\ worker = "start" /\ known = {} /\ chosen = Absent
  /\ \E n \in 0 .. MaxTurns :
       \E found \in [1 .. n -> {u \in Turns({Solo}) : u[2] < u[3] /\ \E k \in Sources :
                  Offset[k] <= u[2] /\ u[3] <= Offset[k] + Lengths[k]}] :
         turns' = ToSet(found)
  /\ worker' = "heard"
  /\ UNCHANGED <<count, regions, samples, listed, chosen, known, read, target, request, crossed>>

WriteRegions ==
  /\ worker \in {"found", "heard"}
  /\ regions' = IF worker = "found" /\ count = 1 THEN AsFound ELSE Remapped
  /\ samples' = Sampled(regions')
  /\ listed' = {m.speaker : m \in samples'}
  /\ worker' = IF worker = "found" THEN "regions" ELSE "single"
  /\ Crossing
  /\ UNCHANGED <<count, turns, chosen, known, read, target, request>>

Available == {r.speaker : r \in regions}

(* The run of a single speaker selects it.                                 *)
SelectSolo ==
  /\ worker = "single"
  /\ read' = Choice("auto", Solo) /\ chosen' = read'
  /\ worker' = "selected"
  /\ UNCHANGED <<count, turns, regions, samples, listed, known, target, request, crossed>>

(* A selection that is half written cannot be read, and the stage fails.   *)
ReadSelection ==
  /\ worker = "regions"
  /\ IF chosen = TornFile THEN Fail
     ELSE /\ read' = chosen /\ worker' = "read"
          /\ UNCHANGED <<regions, samples, listed, chosen, known, target>>
  /\ Crossing
  /\ UNCHANGED <<count, turns, request>>

(* Mutant of WriteSelection: an earlier choice is kept whoever is there.   *)
KeepSelection ==
  /\ worker = "read"
  /\ read' = (IF read.target # Nobody THEN read ELSE Pending) /\ chosen' = read'
  /\ worker' = "selected"
  /\ Crossing
  /\ UNCHANGED <<count, turns, regions, samples, listed, known, target, request>>

(* An earlier choice is kept if that speaker is there again.               *)
WriteSelection ==
  /\ worker = "read"
  /\ read' = (IF read.target \in Available THEN read ELSE Pending) /\ chosen' = read'
  /\ worker' = "selected"
  /\ Crossing
  /\ UNCHANGED <<count, turns, regions, samples, listed, known, target, request>>

(* The summary is written last.  A run that was to stop here ends, and one *)
(* whose selection is pending does too, whatever the file says by now.     *)
WriteSummary ==
  /\ worker = "selected"
  /\ known' = Available
  /\ worker' \in {"ended"} \cup
       {w \in {"summary"} : read # Pending}
  /\ Crossing
  /\ UNCHANGED <<count, turns, regions, samples, listed, chosen, read, target, request>>

(* The stage that builds the buffers reads the selection again.            *)
BuildBuffers ==
  /\ worker = "summary"
  /\ IF chosen.target = Nobody THEN Fail
     ELSE /\ target' = chosen.target /\ worker' = "buffers"
          /\ UNCHANGED <<regions, samples, listed, chosen, known, read>>
  /\ Crossing
  /\ UNCHANGED <<count, turns, request>>

(* A resume: the worker starts over, now that somebody is selected.        *)
Resume ==
  /\ worker \in Quiet \ {"start"} /\ chosen.by = "user"
  /\ worker' = "start"
  /\ turns' = {} /\ regions' = {} /\ samples' = {} /\ read' = Absent
  /\ crossed' = (request # Idle)
  /\ UNCHANGED <<count, listed, chosen, known, target, request>>

-----------------------------------------------------------------------------
(* The user chooses among the speakers of the samples and of the summary;  *)
(* the file is truncated and then written.  Runs of a single speaker       *)
(* refuse.  Nothing asks whether a worker is at work.                      *)

Ask ==
  /\ request = Idle
  /\ chosen.by # "auto" /\ worker \notin {"heard", "single"}
  /\ \E s \in known \cup listed :
       request' = [at |-> "checked", target |-> s]
  /\ crossed' = (crossed \/ worker \notin Quiet)
  /\ UNCHANGED <<count, turns, regions, samples, listed, chosen, known, read, target, worker>>

Truncate ==
  /\ request.at = "checked"
  /\ chosen' = TornFile
  /\ request' = [request EXCEPT !.at = "writing"]
  /\ UNCHANGED <<count, turns, regions, samples, listed, known, read, target, worker, crossed>>

Save ==
  /\ request.at = "writing"
  /\ chosen' = Choice("user", request.target)
  /\ request' = Idle
  /\ UNCHANGED <<count, turns, regions, samples, listed, known, read, target, worker, crossed>>

Next ==
  \/ Diarize \/ DetectSpeech \/ WriteRegions \/ SelectSolo \/ ReadSelection
  \/ WriteSelection \/ WriteSummary \/ BuildBuffers \/ Resume
  \/ Ask \/ Truncate \/ Save

-----------------------------------------------------------------------------
(* Regions and samples are of the run's recordings.                        *)
TypeOK ==
  /\ turns \subseteq Turns(Labels)
  /\ \A r \in regions \cup samples :
       r.speaker \in Labels /\ r.source \in Sources /\ r.from \in Nat /\ r.to \in Nat
  /\ chosen \in {Absent, TornFile, Pending, Choice("auto", Solo)} \cup
               {Choice("user", s) : s \in Speaker}
  /\ known \subseteq Labels /\ listed \subseteq Labels
  /\ target \in Labels \cup {Nobody}
  /\ request \in {Idle} \cup [at : {"checked", "writing"}, target : Speaker]
  /\ worker \in Quiet \cup {"found", "heard", "regions", "single", "read", "selected",
                           "summary"}

(* A speaker has a region at a sample of a recording just where a turn of  *)
(* that speaker covers its place on the timeline; with several recordings  *)
(* none leaves its own.  Whoever has a region can be listened to, in a     *)
(* stretch of one, the longest first.                                      *)
RegionsAreTrue ==
  worker \notin {"start", "found", "heard"} =>
    /\ \A k \in Sources : \A t \in 0 .. Lengths[k] - 1 :
         {r.speaker : r \in {q \in regions : q.source = k /\ q.from <= t /\ t < q.to}}
           = {u[1] : u \in {v \in turns : v[2] <= Offset[k] + t
                                                 /\ Offset[k] + t < v[3]}}
    /\ count > 1 => \A r \in regions : r.from < r.to /\ r.to <= Lengths[r.source]
    /\ \A s \in Available : \E m \in samples :
         /\ m.speaker = s
         /\ \A r \in regions : r.speaker = s => Size(m) >= Min({Size(r), SampleLength})
    /\ \A m \in samples : \E r \in regions :
         /\ r.speaker = m.speaker /\ r.source = m.source
         /\ r.from = m.from /\ m.to <= r.to

(* Buffers are built of a speaker who has regions, or of the only one, but *)
(* where a selection was under way while the worker diarized.              *)
TargetIsHeard ==
  worker = "buffers" => crossed \/ target \in Available \cup {Solo}

=============================================================================
