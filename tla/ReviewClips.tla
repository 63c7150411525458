----------------------------- MODULE ReviewClips -----------------------------
(***************************************************************************)
(* The audio of a dataset run's review clips                               *)
(* (workers/dataset/speechcraft_dataset/audio.py, channel_resolver.py and  *)
(* assembly.py): a copy of the recording at the analysis rate, of the      *)
(* channel that was found to carry the speech, is what the stages listen   *)
(* to; the clips they place on it are cut from the recording itself, at    *)
(* its own rate, and the copy is removed.                                  *)
(*                                                                         *)
(* One recording, since each is treated alike.  Where speech lies and      *)
(* where it may be cut is SpeakerRegions and ClipPlanning, so here any     *)
(* regions and any clips inside them; how the staged clips replace the     *)
(* live ones is CandidatePromotion, so here one step.                      *)
(***************************************************************************)
EXTENDS Integers, FiniteSets, FiniteSetsExt, Sequences

CONSTANTS
  Lengths,    \* lengths of recordings, in frames
  Rates,      \* <<n, d>>: n frames of the recording last as long as d samples
  Loudness,   \* levels of speech in a channel
  Shortest,   \* the shortest clip, in samples
  MaxWorkers, \* bound: workers started on the run
  Killed      \* TRUE: a worker may fail or be killed at any step

VARIABLES
  recording,  \* the source WAV
  copy,       \* the analysis WAV
  mode,       \* channel_mode in audio_variants_manifest.json
  scopes,     \* processing_buffers.json
  clips,      \* the clips this worker has cut, live once they are promoted
  scored,     \* whether there are QC artifacts
  worker,     \* the worker, if one runs
  started     \* workers started so far

review == <<recording, copy, mode, scopes, clips, scored, worker, started>>

NoCopy   == [length |-> 0, of |-> {}]
Idle     == "none"
Channels == 1 .. recording.channels
Recordings ==
  [length : Lengths, rate : Rates, channels : {1, 2, 3},
   alike : BOOLEAN, loud : Loudness \X Loudness]

Init ==
  /\ recording \in {r \in Recordings :
       r.channels # 2 => r.alike /\ r.loud = <<Max(Loudness), Max(Loudness)>>}
  /\ copy = NoCopy /\ mode = "none" /\ scopes = <<>>
  /\ clips = {} /\ scored = FALSE
  /\ worker = Idle /\ started = 0

-----------------------------------------------------------------------------
(* The channel with the speech, if the two differ and one is half as loud  *)
(* again as the other; if that is open, both, and the user may be asked.   *)

Decision ==
  LET left == recording.loud[1]   right == recording.loud[2]
      hi == Max({left, right})   lo == Min({left, right})
  IN IF recording.channels # 2 THEN "mono_average"
     ELSE IF recording.alike \/ hi = 0 THEN "downmix"
     ELSE IF lo = 0 \/ 2 * hi >= 3 * lo
            THEN IF left >= right THEN "left" ELSE "right"
     ELSE "prompt"

(* What ffmpeg leaves in the copy for a decision.                          *)
Panned(decision) ==
  CASE decision = "left"  -> {1}
    [] decision = "right" -> {2}
    [] OTHER -> Channels

(* Mutant of Read: all channels unless the first is asked for.             *)
ReadLeftOrAll(m) ==
  IF recording.channels = 1 \/ m = "left" THEN {1} ELSE Channels

(* What is read of the recording for a clip.                               *)
Read(m) ==
  IF recording.channels = 1 \/ m = "left" THEN {1}
  ELSE IF m = "right" THEN {2}
  ELSE Channels

(* The copy has as many samples as its rate gives, or a little more.       *)
CreateVariants ==
  /\ worker = "sources"
  /\ \E extra \in 0 .. 2 :
       copy' = [length |-> (recording.length * recording.rate[2]) \div recording.rate[1] + extra,
                of |-> Panned(Decision)]
  /\ mode' = Decision
  /\ worker' = "variants"
  /\ UNCHANGED <<recording, scopes, clips, scored, started>>

(* The regions of the target speaker; there may be none.                   *)
BuildBuffers ==
  /\ worker = "variants"
  /\ \/ scopes' = <<>>
     \/ scopes' = << <<0, copy.length>> >>
     \/ \E m \in 2 .. copy.length - 3 :
          scopes' = << <<0, m>>, <<m + 1, copy.length>> >>
  /\ worker' = "buffers"
  /\ UNCHANGED <<recording, copy, mode, clips, scored, started>>

-----------------------------------------------------------------------------
(* Halves go to the even neighbour.                                        *)
Round(p, q) ==
  LET low == p \div q
  IN IF 2 * (p % q) > q \/ (2 * (p % q) = q /\ low % 2 = 1) THEN low + 1 ELSE low

(* Mutant of ToSource: the duration is mapped instead of the end.          *)
ToSourceByDuration(c) ==
  LET n == recording.rate[1]  d == recording.rate[2]
      start == Round(c[1] * n, d)
  IN <<start, start + Round((c[2] - c[1]) * n, d)>>

(* A clip's bounds in frames of the recording, kept inside it.             *)
ToSource(c) ==
  LET frame(t) == Min({Round(t * recording.rate[1], recording.rate[2]), recording.length})
  IN <<frame(c[1]), frame(c[2])>>

Legal(scope) == {c \in (scope[1] + 1 .. scope[2] - 1) \X (scope[1] + 1 .. scope[2] - 1) :
                   c[2] - c[1] >= Shortest}

(* Any two clips the slicer may place one after the other.                 *)
Plans ==
  LET C == UNION {Legal(scopes[k]) : k \in DOMAIN scopes}
  IN {{}} \cup {{c} : c \in C} \cup {{p[1], p[2]} : p \in {q \in C \X C : q[1][2] <= q[2][1]}}

Cut(c) == [place |-> c, span |-> ToSource(c), of |-> Read(mode), heard |-> copy.of]

(* With buffers the copy is sliced, the clips are cut, and the copy is     *)
(* removed; without any there is nothing to read and nothing is removed.   *)
(* No copy to slice, or a span of which nothing is left, is an error.      *)
Assemble ==
  /\ worker \in {"buffers", "rerun"}
  /\ IF scopes = <<>>
       THEN clips' = {} /\ copy' = copy /\ worker' = "staged"
     ELSE IF copy = NoCopy
       THEN clips' = {} /\ copy' = copy /\ worker' = IF worker = "rerun" THEN "deaf" ELSE Idle
     ELSE \E plan \in Plans :
            IF \A c \in plan : ToSource(c)[1] < ToSource(c)[2]
              THEN /\ clips' = {Cut(c) : c \in plan}
                   /\ copy' = NoCopy /\ worker' = "staged"
              ELSE clips' = {} /\ copy' = copy /\ worker' = Idle
  /\ UNCHANGED <<recording, mode, scopes, scored, started>>

Promote ==
  /\ worker = "staged"
  /\ worker' = "promoted"
  /\ UNCHANGED <<recording, copy, mode, scopes, clips, scored, started>>

(* The QC stages; each may fail, and leaves the clips.                     *)
ScoreClips ==
  /\ worker = "promoted"
  /\ scored' \in BOOLEAN
  /\ worker' = Idle
  /\ UNCHANGED <<recording, copy, mode, scopes, clips, started>>

(* A worker that fails or is killed leaves what it has written.            *)
Stop ==
  /\ Killed /\ worker # Idle
  /\ worker' = Idle
  /\ clips' = IF worker = "staged" THEN {} ELSE clips
  /\ UNCHANGED <<recording, copy, mode, scopes, scored, started>>

-----------------------------------------------------------------------------
Launch(first) ==
  /\ worker = Idle /\ started < MaxWorkers
  /\ started' = started + 1 /\ worker' = first
  /\ clips' = {}   \* the live ones stay where they are

(* A start or a resume takes the run from its sources again.               *)
StartPipeline ==
  /\ Launch("sources")
  /\ UNCHANGED <<recording, copy, mode, scopes, scored>>

(* Slicing again asks for the buffers and the variants' manifest only, and *)
(* first removes the QC artifacts.                                         *)
StartRerun ==
  /\ Launch("rerun")
  /\ mode # "none" /\ scopes # <<>>
  /\ scored' = FALSE
  /\ UNCHANGED <<recording, copy, mode, scopes>>

Next ==
  \/ CreateVariants \/ BuildBuffers \/ Assemble \/ Promote \/ ScoreClips \/ Stop
  \/ StartPipeline \/ StartRerun

Spec == Init /\ [][Next]_review

-----------------------------------------------------------------------------
(* Clips and copies have the shapes their manifests give them.             *)
TypeOK ==
  /\ recording \in Recordings
  /\ copy.length \in Nat /\ copy.of \subseteq Channels
  /\ mode \in {"none", "mono_average", "downmix", "left", "right", "prompt"}
  /\ scopes \in Seq(Nat \X Nat)
  /\ \A c \in clips : c.place \in Nat \X Nat /\ c.of \subseteq Channels
  /\ scored \in BOOLEAN
  /\ worker \in {Idle, "sources", "variants", "buffers", "rerun", "staged", "promoted", "deaf"}
  /\ started \in 0 .. MaxWorkers

(* The clips of a run are of its recording: each lies where the analysis   *)
(* placed it, to half a frame, and ends with the recording at the latest;  *)
(* clips that were apart stay apart; and each holds the channels that were *)
(* listened to when its place was chosen.                                  *)
ClipsAreOfTheRecording ==
  LET n == recording.rate[1]  d == recording.rate[2]
      there(frame, t) == \/ 2 * (frame * d - t * n) \in -d .. d
                         \/ frame = recording.length /\ t * n > frame * d
  IN /\ \A c \in clips :
          /\ c.span[1] < c.span[2] /\ c.span[2] <= recording.length
          /\ there(c.span[1], c.place[1]) /\ there(c.span[2], c.place[2])
          /\ c.of = c.heard
     /\ \A b, c \in clips : b.place[2] <= c.place[1] => b.span[2] <= c.span[1]

(* A run that is offered to be sliced again has the audio to slice         *)
(* (rerun_dataset_slicer, "Dataset run is not slicer-ready").              *)
RerunFindsAudio == worker # "deaf"

=============================================================================
