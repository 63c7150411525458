---------------------------- MODULE ClipPlanning -----------------------------
(***************************************************************************)
(* How the dataset worker cuts one recording into clips                    *)
(* (workers/dataset/speechcraft_dataset/buffers.py and vr_slicer.py): the  *)
(* target speaker's diarization rows are merged into trusted regions, the  *)
(* quiet stretches inside each region give cutpoints, and of all pairs of  *)
(* cutpoints a legal clip apart a best set of disjoint clips is scheduled. *)
(*                                                                         *)
(* Time is counted in steps of the analysis grid (in the code 64 samples,  *)
(* 4 ms, of which every cutpoint is a multiple, so that the tolerances the *)
(* code compares with play no part).  Which frames pass the VAD and RMS    *)
(* thresholds, and where the lowest of a quiet stretch lies, is any.       *)
(***************************************************************************)
EXTENDS Integers, FiniteSets, FiniteSetsExt, Sequences, SequencesExt

CONSTANTS
  Length,       \* steps of the recording
  Second,       \* steps per second: the geometry is locked in seconds
  Frames,       \* the centres of the analysis frames
  HalfWindow,   \* half the width of a frame
  MinRun,       \* the shortest quiet stretch that may be cut
  Bounds,       \* where diarization rows may start and end
  MaxTarget,    \* bound: rows of the target speaker
  MaxOther      \* bound: rows of other speakers

VARIABLES
  target,   \* the target speaker's rows
  other,    \* the other speakers' rows
  quiet,    \* the frames, by centre, below both thresholds
  regions,  \* the trusted regions, in order
  cuts,     \* the cutpoints
  clips,    \* the scheduled clips, in order
  step      \* the stage the worker has finished

planning == <<target, other, quiet, regions, cuts, clips, step>>

MinClip == 3 * Second
MaxClip == 15 * Second
Spans   == {s \in Bounds \X Bounds : s[1] < s[2]}

Init ==
  /\ target \in UNION {kSubset(n, Spans) : n \in 0 .. MaxTarget}
  /\ other \in UNION {kSubset(n, Spans) : n \in 0 .. MaxOther}
  /\ quiet \in SUBSET Frames
  /\ regions = <<>>
  /\ cuts = {}
  /\ clips = <<>>
  /\ step = "diarized"

(* The spans of S, ordered by their k-th bound and then by the other one.  *)
Sorted(S, k) ==
  LET before(a, b) == a[k] < b[k] \/ (a[k] = b[k] /\ a[3 - k] < b[3 - k])
  IN [i \in 1 .. Cardinality(S) |->
        CHOOSE c \in S : Cardinality({d \in S : before(d, c)}) = i - 1]
Overlap(a, b) == a[1] < b[2] /\ b[1] < a[2]

-----------------------------------------------------------------------------
(* The rows of the target are merged in order; a gap between two of them   *)
(* is bridged unless somebody else speaks in it.                           *)

Intruded(from, to) == from < to /\ \E s \in other : Overlap(<<from, to>>, s)

Merge(merged, row) ==
  IF merged = <<>> \/ Intruded(Last(merged)[2], row[1])
  THEN Append(merged, row)
  ELSE [merged EXCEPT ![Len(merged)] = <<@[1], Max({@[2], row[2]})>>]

(* Mutant of Clamp: regions are left as the rows had them.                 *)
AsDiarized(s) == s

(* Regions are kept inside the audio; what nothing is left of is dropped.  *)
Clamp(s) == <<Min({s[1], Length}), Min({s[2], Length})>>
Bounded(merged) ==
  SelectSeq([n \in DOMAIN merged |-> Clamp(merged[n])], LAMBDA s : s[1] < s[2])

(* A run of a single speaker without rows is one region: from the first    *)
(* voice activity to the last.                                             *)
BuildBuffers ==
  /\ step = "diarized"
  /\ LET merged == Bounded(FoldLeft(Merge, <<>>, Sorted(target, 1)))
     IN \/ regions' = merged
        \/ /\ merged = <<>> /\ other = {}
           /\ \E s \in Spans : regions' = Bounded(<<s>>)
  /\ step' = "buffers"
  /\ UNCHANGED <<target, other, quiet, cuts, clips>>

-----------------------------------------------------------------------------
(* Only frames centred strictly inside a region count.  Frames whose       *)
(* windows touch form a run, and a long enough run is cut at one frame.    *)
(* A region shorter than a run is not searched.                            *)

Inside(region) == {t \in quiet : region[1] < t /\ t < region[2]}
Joined(S, s, t) == \A u \in s .. t - 1 : \E v \in S : u < v /\ v <= u + 2 * HalfWindow
Run(S, t)  == {s \in S : Joined(S, Min({s, t}), Max({s, t}))}
Runs(S)    == {R \in {Run(S, t) : t \in S} : Max(R) - Min(R) + 2 * HalfWindow >= MinRun}
AllRuns    ==
  UNION {Runs(Inside(regions[n])) :
           n \in {m \in DOMAIN regions : regions[m][2] - regions[m][1] >= MinRun}}

DetectCutpoints ==
  /\ step = "buffers"
  /\ LET runs == AllRuns
     IN \E C \in SUBSET UNION runs :
          /\ \A R \in runs : Cardinality(C \cap R) = 1
          /\ cuts' = C
  /\ step' = "cutpoints"
  /\ UNCHANGED <<target, other, quiet, regions, clips>>

-----------------------------------------------------------------------------
(* Every pair of a region's cutpoints a legal clip apart is a candidate.   *)
(* Its weight prefers six to eight seconds (in units of 1 / 6 Second).     *)

Candidates(region) ==
  {c \in (cuts \cap Inside(region)) \X (cuts \cap Inside(region)) :
     c[2] - c[1] >= MinClip /\ c[2] - c[1] <= MaxClip}

Weight(c) ==
  LET d == c[2] - c[1]
  IN CASE 6 * Second <= d /\ d <= 8 * Second -> 60 * Second - 9 * (8 * Second - d)
       [] d > 8 * Second -> 39 * Second - 6 * Max({0, d - 9 * Second})
       [] d < 6 * Second -> 2 * d

(* Mutant of Schedule: clips that touch count as overlapping.              *)
ScheduleApart(C) ==
  LET row  == Sorted(C, 2)
      prev == [i \in DOMAIN row |-> Max({0} \cup {j \in DOMAIN row : row[j][2] < row[i][1]})]
      best[i \in 0 .. Len(row)] ==
        IF i = 0 THEN 0 ELSE Max({Weight(row[i]) + best[prev[i]], best[i - 1]})
      back[i \in 0 .. Len(row)] ==
        IF i = 0 THEN <<>>
        ELSE IF Weight(row[i]) + best[prev[i]] >= best[i - 1]
          THEN Append(back[prev[i]], row[i])
          ELSE back[i - 1]
  IN back[Len(row)]

(* The weighted interval schedule of a region: candidates by their ends,   *)
(* the last that ends before each begins, the best of each prefix, and the *)
(* way back, which takes a candidate when taking it loses nothing.         *)
Schedule(C) ==
  LET row  == Sorted(C, 2)
      prev == [i \in DOMAIN row |-> Max({0} \cup {j \in DOMAIN row : row[j][2] <= row[i][1]})]
      best[i \in 0 .. Len(row)] ==
        IF i = 0 THEN 0 ELSE Max({Weight(row[i]) + best[prev[i]], best[i - 1]})
      back[i \in 0 .. Len(row)] ==
        IF i = 0 THEN <<>>
        ELSE IF Weight(row[i]) + best[prev[i]] >= best[i - 1]
          THEN Append(back[prev[i]], row[i])
          ELSE back[i - 1]
  IN back[Len(row)]

PackClips ==
  /\ step = "cutpoints"
  /\ clips' = FlattenSeq([n \in DOMAIN regions |-> Schedule(Candidates(regions[n]))])
  /\ step' = "clips"
  /\ UNCHANGED <<target, other, quiet, regions, cuts>>

Next == BuildBuffers \/ DetectCutpoints \/ PackClips

Spec == Init /\ [][Next]_planning

-----------------------------------------------------------------------------
(* Regions, cutpoints and clips lie inside the recording.                  *)
TypeOK ==
  /\ target \subseteq Spans /\ other \subseteq Spans
  /\ quiet \subseteq Frames
  /\ regions \in Seq((0 .. Length) \X (0 .. Length))
  /\ cuts \subseteq quiet
  /\ clips \in Seq(cuts \X cuts)
  /\ step \in {"diarized", "buffers", "cutpoints", "clips"}

(* The clips of a recording follow one another without overlap, each of a  *)
(* length the assembly accepts and inside one trusted region; and where a  *)
(* region was made from the target's rows, nobody else is heard in a clip  *)
(* but where the target speaks too.                                        *)
ClipsAreClean ==
  /\ \A m, n \in DOMAIN clips : m < n => clips[m][2] <= clips[n][1]
  /\ \A n \in DOMAIN clips :
       LET c == clips[n]
       IN /\ c[2] - c[1] \in MinClip .. MaxClip
          /\ \E r \in DOMAIN regions : regions[r][1] < c[1] /\ c[2] < regions[r][2]
          /\ target # {} => \A t \in c[1] .. c[2] - 1 :
               (\E s \in other : Overlap(<<t, t + 1>>, s))
                  => \E s \in target : Overlap(<<t, t + 1>>, s)

(* Of all sets of disjoint legal clips of a region, none weighs more than  *)
(* the scheduled one.                                                      *)
Total(S) == MapThenSumSet(Weight, S)
PlanIsBest ==
  step = "clips" =>
    \A n \in DOMAIN regions :
      LET C == Candidates(regions[n])
      IN \A S \in SUBSET C :
           (\A a, b \in S : a # b => ~Overlap(a, b)) => Total(S) <= Total(ToSet(clips) \cap C)

=============================================================================
