----------------------------- MODULE SliceGrouping -----------------------------
(***************************************************************************)
(* How the aligned words of a recording become slices                      *)
(* (backend/app/slicer_algo.py, plan_slices): the alignment is put in      *)
(* order, the wide and quiet gaps between words become boundaries, slices  *)
(* reach greedily from boundary to boundary, slices that are too short are *)
(* merged with a neighbour, and each pair of neighbours is cut apart       *)
(* inside the gap between them.                                            *)
(*                                                                         *)
(* Time is counted in steps.  What is heard decides which gap is quiet,    *)
(* which of the legal boundaries scores best and where inside a gap the    *)
(* cut falls: each is any.                                                 *)
(***************************************************************************)
EXTENDS Integers, FiniteSets, FiniteSetsExt, Sequences, SequencesExt

CONSTANTS
  MaxWords,       \* bound: words of the alignment
  Gap, Long,      \* from the word before to a word, and a word's length, as aligned
  Back,           \* how far a word may be aligned to start before its predecessor ends
  MinDuration, TargetDuration, MaxDuration,
  MinGap,         \* the least safe gap at a boundary
  Trailing, Leading   \* what a gap keeps clear of the words around it

VARIABLES
  aligned,   \* words of the alignment read so far
  words,     \* the words kept: [start, end]
  quiet,     \* boundaries: indices of the words before them
  specs,     \* the slices: their first and last word, and whether they were merged
  at,        \* index of the slice that the merging looks at
  cuts,      \* where a slice is cut from the next
  stage

slicing == <<aligned, words, quiet, specs, at, cuts, stage>>

Init ==
  /\ aligned = 0 /\ words = <<>> /\ quiet = {} /\ specs = <<>> /\ at = 1 /\ cuts = <<>>
  /\ stage = "align"

-----------------------------------------------------------------------------
(* parse_alignment: a word that starts before its predecessor ends is      *)
(* moved there, and left out if nothing remains of it.                     *)
End == IF words = <<>> THEN 0 ELSE Last(words).end

ParseWord ==
  /\ stage = "align"
  /\ aligned < MaxWords
  /\ \E g \in Gap, l \in Long :
       LET start == IF words = <<>> THEN g ELSE End + g - Back
           from  == Max({start, End})
       IN words' = IF start + l <= from THEN words
                   ELSE Append(words, [start |-> from, end |-> start + l])
  /\ aligned' = aligned + 1
  /\ UNCHANGED <<quiet, specs, at, cuts, stage>>

(* find_candidate_boundaries: gaps that are wide enough, and quiet.        *)
SafeStart(i) == words[i].end + Trailing
SafeEnd(i)   == words[i + 1].start - Leading
Wide == {i \in 1 .. Len(words) - 1 : SafeEnd(i) - SafeStart(i) >= MinGap}

FindBoundaries ==
  /\ stage = "align"
  /\ words # <<>>
  /\ quiet' \in SUBSET Wide
  /\ stage' = "group"
  /\ UNCHANGED <<aligned, words, specs, at, cuts>>

-----------------------------------------------------------------------------
(* _find_slice_end: the best boundary at a legal duration, or else the     *)
(* first one beyond, or else the end of the recording.                     *)
Lasts(first, last) == words[last].end - words[first].start

Legal(first)  == {i \in quiet : i >= first /\ Lasts(first, i) \in MinDuration .. MaxDuration}
Beyond(first) == {i \in quiet : i >= first /\ Lasts(first, i) > MaxDuration}

SliceEnds(first) ==
  IF Legal(first) # {} THEN Legal(first)
  ELSE IF Beyond(first) # {} THEN {Min(Beyond(first))}
  ELSE {Len(words)}

GroupNext ==
  LET first == IF specs = <<>> THEN 1 ELSE Last(specs).last + 1
  IN /\ stage = "group"
     /\ IF first > Len(words) THEN stage' = "merge" /\ UNCHANGED specs
        ELSE /\ \E last \in SliceEnds(first) :
                  specs' = Append(specs, [first |-> first, last |-> last, merged |-> FALSE])
             /\ UNCHANGED stage
     /\ UNCHANGED <<aligned, words, quiet, at, cuts>>

-----------------------------------------------------------------------------
(* _merge_short_clips, one look at a time.                                 *)
Duration(s) == Lasts(s.first, s.last)
Apart(d)    == IF d > TargetDuration THEN d - TargetDuration ELSE TargetDuration - d
Together(i) == Apart(Duration(specs[i]) + Duration(specs[i + 1]))

Joined(i) ==
  [n \in 1 .. Len(specs) - 1 |->
     IF n < i THEN specs[n]
     ELSE IF n = i THEN [first |-> specs[i].first, last |-> specs[i + 1].last, merged |-> TRUE]
     ELSE specs[n + 1]]

MergeLook ==
  /\ stage = "merge"
  /\ IF at > Len(specs) THEN stage' = "cut" /\ UNCHANGED <<specs, at>>
     ELSE IF Duration(specs[at]) >= MinDuration THEN at' = at + 1 /\ UNCHANGED <<specs, stage>>
     ELSE IF Len(specs) = 1 THEN stage' = "cut" /\ UNCHANGED <<specs, at>>
     ELSE IF at = 1 \/ (at < Len(specs) /\ Together(at) < Together(at - 1))
     THEN specs' = Joined(at) /\ UNCHANGED <<at, stage>>
     ELSE specs' = Joined(at - 1) /\ at' = at - 1 /\ UNCHANGED stage
  /\ UNCHANGED <<aligned, words, quiet, cuts>>

-----------------------------------------------------------------------------
(* apply_acoustic_refinement: one cut between two slices, inside the safe  *)
(* gap between their words.                                                *)
CutRange(i) ==
  LET last == specs[i].last
  IN IF SafeEnd(last) <= SafeStart(last) THEN {SafeStart(last)}
     ELSE SafeStart(last) .. SafeEnd(last)

Refine ==
  /\ stage = "cut"
  /\ IF Len(cuts) >= Len(specs) - 1 THEN stage' = "done" /\ UNCHANGED cuts
     ELSE /\ \E c \in CutRange(Len(cuts) + 1) : cuts' = Append(cuts, c)
          /\ UNCHANGED stage
  /\ UNCHANGED <<aligned, words, quiet, specs, at>>

(* What a slice takes of the recording.                                    *)
From(i) == IF i = 1 THEN words[1].start ELSE cuts[i - 1]
To(i)   == IF i = Len(specs) THEN End ELSE cuts[i]

(* _compute_interval_union, over the slices in order.                      *)
Unique ==
  LET step(acc, i) ==
        IF From(i) <= acc.to THEN [acc EXCEPT !.to = Max({@, To(i)})]
        ELSE [sum |-> acc.sum + (acc.to - acc.from), from |-> From(i), to |-> To(i)]
      whole == FoldLeft(step, [sum |-> 0, from |-> From(1), to |-> To(1)],
                        [i \in 1 .. Len(specs) |-> i])
  IN whole.sum + (whole.to - whole.from)

Next == ParseWord \/ FindBoundaries \/ GroupNext \/ MergeLook \/ Refine

Spec == Init /\ [][Next]_slicing

-----------------------------------------------------------------------------
(* Words are in order and none is empty; slices and boundaries name words. *)
TypeOK ==
  /\ \A i \in DOMAIN words : words[i].start < words[i].end
  /\ \A i \in 1 .. Len(words) - 1 : words[i].end <= words[i + 1].start
  /\ quiet \subseteq 1 .. Len(words) - 1
  /\ \A n \in DOMAIN specs : {specs[n].first, specs[n].last} \subseteq DOMAIN words

(* Every word is in one slice, in order, however slices were merged.       *)
WordsArePartitioned ==
  stage \in {"merge", "cut", "done"} =>
    /\ specs # <<>>
    /\ specs[1].first = 1 /\ Last(specs).last = Len(words)
    /\ \A n \in DOMAIN specs : specs[n].first <= specs[n].last
    /\ \A n \in 1 .. Len(specs) - 1 : specs[n + 1].first = specs[n].last + 1

(* No slice is too short, unless it is the only one; one that is too long  *)
(* took in a short one, or there was no quiet gap at which to end it.      *)
SlicesHaveLegalLength ==
  stage \in {"cut", "done"} =>
    \A n \in DOMAIN specs :
      /\ Duration(specs[n]) >= MinDuration \/ Len(specs) = 1
      /\ Duration(specs[n]) > MaxDuration =>
           specs[n].merged \/ Legal(specs[n].first) = {}

(* Slices are cut at quiet gaps only, cover their words and do not         *)
(* overlap.                                                                *)
CutsAreClean ==
  stage = "done" =>
    /\ \A n \in DOMAIN specs :
         /\ From(n) <= words[specs[n].first].start
         /\ words[specs[n].last].end <= To(n)
         /\ n < Len(specs) => specs[n].last \in quiet
    /\ \A n \in 1 .. Len(specs) - 1 : To(n) <= From(n + 1)

(* They last as long together as the time they cover.                      *)
TimeIsCountedOnce ==
  stage = "done" => Unique = MapThenSumSet(LAMBDA n : To(n) - From(n), DOMAIN specs)

(* The four together.                                                      *)
SlicesAreSound ==
  WordsArePartitioned /\ SlicesHaveLegalLength /\ CutsAreClean /\ TimeIsCountedOnce

=============================================================================
