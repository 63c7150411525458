--------------------------- MODULE ReferenceWindows ---------------------------
(***************************************************************************)
(* How a reference run finds the candidates of a recording                 *)
(* (backend/app/repository.py, reference_cutpoint_assembly.py and          *)
(* reference_acoustic_signature.py).  Without a dataset run, windows of a  *)
(* few durations slide over the speech regions; with one, they reach from  *)
(* cutpoint to cutpoint of each buffer.  The windows are scored, of two    *)
(* that overlap too much the better stays, and the best are returned.      *)
(*                                                                         *)
(* Time is counted in steps that divide every duration and stride; a score *)
(* is any.  Which windows overlap across recordings plays no part, so that *)
(* there is one recording, with one buffer.                                *)
(***************************************************************************)
EXTENDS Integers, FiniteSets, FiniteSetsExt, Sequences, SequencesExt

CONSTANTS
  Marks,        \* where regions may begin and end, and cutpoints may lie
  Durations,    \* the target durations, in increasing order
  Shortest,     \* one second: shorter windows are left out
  Slack,        \* two seconds: what a cutpoint window may exceed the targets by
  CutStride,    \* every so many cutpoints begin a window
  Score,        \* the scores
  Cap           \* how many candidates are returned

VARIABLES
  regions,  \* the speech regions, in order
  cuts,     \* the buffer's cutpoints, in order
  raw,      \* the windows, in the order they are found
  score,    \* the score of each
  kept,     \* indices of those that stay, in the order they were taken
  stage     \* "input", "vad", "cut", "kept vad" or "kept cut"

windows == <<regions, cuts, raw, score, kept, stage>>

(* The members of S in the order given.                                    *)
Sorted(S, before(_, _)) ==
  [n \in 1 .. Cardinality(S) |->
     CHOOSE s \in S : Cardinality({r \in S : before(r, s)}) = n - 1]
Increasing(S) == Sorted(S, <)
Spans(S) == {s \in S \X S : s[1] < s[2]}

(* Regions are disjoint: none, one or two of them.                         *)
Init ==
  /\ regions \in {<<>>} \cup {<<s>> : s \in Spans(Marks)}
       \cup {r \in Spans(Marks) \X Spans(Marks) : r[1][2] < r[2][1]}
  /\ cuts \in {Increasing(S) : S \in SUBSET Marks}
  /\ raw = <<>> /\ score = <<>> /\ kept = <<>>
  /\ stage = "input"

Size(w) == w[2] - w[1]
LongEnough(seq) == SelectSeq(seq, LAMBDA w : Size(w) >= Shortest)

-----------------------------------------------------------------------------
(* The windows of one duration over one region: steps of half a window     *)
(* from the region's start, and one that ends with the region.             *)
Stride(d) == Max({d \div 2, 1})

OverRegion(region, d) ==
  IF Size(region) <= d THEN <<region>>
  ELSE LET last  == region[2] - d
           steps == {s \in region[1] .. last - 1 : (s - region[1]) % Stride(d) = 0}
       IN [n \in 1 .. Cardinality(steps) + 1 |->
             LET s == Min({region[1] + (n - 1) * Stride(d), last}) IN <<s, s + d>>]

SpeechWindows ==
  LongEnough(FlattenSeq([i \in DOMAIN Durations |->
    FlattenSeq([n \in DOMAIN regions |-> OverRegion(regions[n], Durations[i])])]))

(* From every CutStride-th cutpoint to the one whose distance is legal and *)
(* nearest to the duration, the earlier of two as near.                    *)
Ends(i) ==
  {j \in i + 1 .. Len(cuts) :
     /\ cuts[j] - cuts[i] >= Min(ToSet(Durations))
     /\ cuts[j] - cuts[i] <= Max(ToSet(Durations)) + Slack}
Off(i, j, d) == IF cuts[j] - cuts[i] >= d THEN cuts[j] - cuts[i] - d ELSE d - (cuts[j] - cuts[i])
Nearest(i, d) ==
  CHOOSE j \in Ends(i) :
    \A k \in Ends(i) : Off(i, j, d) < Off(i, k, d) \/ (Off(i, j, d) = Off(i, k, d) /\ j <= k)

FromCutpoints(d) ==
  LET starts == {i \in DOMAIN cuts : (i - 1) % CutStride = 0 /\ Ends(i) # {}}
      order  == Increasing(starts)
  IN [n \in DOMAIN order |-> <<cuts[order[n]], cuts[Nearest(order[n], d)]>>]

CutWindows ==
  LongEnough(FlattenSeq([i \in DOMAIN Durations |-> FromCutpoints(Durations[i])]))

FindSpeech ==
  /\ stage = "input"
  /\ raw' = SpeechWindows
  /\ score' \in [DOMAIN raw' -> Score]
  /\ stage' = "vad"
  /\ UNCHANGED <<regions, cuts, kept>>

(* A dataset run without any window is an error.                           *)
FindCuts ==
  /\ stage = "input"
  /\ raw' = CutWindows
  /\ raw' # <<>>
  /\ score' \in [DOMAIN raw' -> Score]
  /\ stage' = "cut"
  /\ UNCHANGED <<regions, cuts, kept>>

-----------------------------------------------------------------------------
(* Two windows overlap too much when the overlap is 82 per cent of the     *)
(* shorter, 60 per cent between cutpoints.                                 *)
Common(v, w)   == Min({v[2], w[2]}) - Max({v[1], w[1]})
TooMuch(v, w, percent) ==
  Common(v, w) > 0 /\ 100 * Common(v, w) >= percent * Min({Size(v), Size(w)})
Percent == IF stage \in {"vad", "kept vad"} THEN 82 ELSE 60

(* By score; of equals, the earlier start where "byStart", then the order  *)
(* they were found in.                                                     *)
Ranked(S, byStart) ==
  Sorted(S, LAMBDA i, j :
    \/ score[i] > score[j]
    \/ /\ score[i] = score[j]
       /\ IF byStart /\ raw[i][1] # raw[j][1] THEN raw[i][1] < raw[j][1] ELSE i < j)

Keep(taken, i) ==
  IF \E k \in DOMAIN taken : TooMuch(raw[i], raw[taken[k]], Percent)
  THEN taken ELSE Append(taken, i)

Suppress ==
  /\ stage \in {"vad", "cut"}
  /\ kept' = FoldLeft(Keep, <<>>, Ranked(DOMAIN raw, stage = "vad"))
  /\ stage' = IF stage = "vad" THEN "kept vad" ELSE "kept cut"
  /\ UNCHANGED <<regions, cuts, raw, score>>

(* What the run writes: the best of those kept.                            *)
Returned ==
  LET order == Ranked(ToSet(kept), TRUE)
  IN SubSeq(order, 1, Min({Cap, Len(order)}))

Next == FindSpeech \/ FindCuts \/ Suppress

Spec == Init /\ [][Next]_windows

-----------------------------------------------------------------------------
(* Windows lie within the marks, and as many are scored as are found.      *)
TypeOK ==
  /\ \A n \in DOMAIN raw : raw[n] \in (0 .. Max(Marks)) \X (0 .. Max(Marks))
  /\ DOMAIN score = DOMAIN raw
  /\ ToSet(kept) \subseteq DOMAIN raw

(* No stretch of speech a second long is missed: the windows of each       *)
(* duration cover every region, and none reaches over its ends.            *)
SpeechIsCovered ==
  stage = "vad" =>
    /\ \A n \in DOMAIN regions, t \in 0 .. Max(Marks) :
         (/\ Size(regions[n]) >= Shortest
          /\ regions[n][1] <= t /\ t < regions[n][2]) =>
           \A i \in DOMAIN Durations :
             \E k \in DOMAIN raw :
               /\ raw[k][1] <= t /\ t < raw[k][2]
               /\ Size(raw[k]) = Min({Durations[i], Size(regions[n])})
    /\ \A k \in DOMAIN raw : \E n \in DOMAIN regions :
         regions[n][1] <= raw[k][1] /\ raw[k][2] <= regions[n][2]

(* Two candidates returned never overlap too much, so that none is there   *)
(* twice; one that was dropped overlaps too much with one kept that is at  *)
(* least as good; and none kept is better than one returned.               *)
BestRemain ==
  stage \in {"kept vad", "kept cut"} =>
    /\ \A m, n \in DOMAIN kept :
         m # n => ~TooMuch(raw[kept[m]], raw[kept[n]], Percent)
    /\ \A i \in DOMAIN raw : \E k \in DOMAIN kept :
         /\ score[kept[k]] >= score[i]
         /\ kept[k] = i \/ TooMuch(raw[i], raw[kept[k]], Percent)
    /\ \A i \in ToSet(kept) \ ToSet(Returned), j \in ToSet(Returned) : score[j] >= score[i]

(* The two together.                                                       *)
CandidatesAreSound == SpeechIsCovered /\ BestRemain

=============================================================================
