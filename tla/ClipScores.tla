------------------------------ MODULE ClipScores ------------------------------
(***************************************************************************)
(* How the candidate clips of a dataset run get their scores (the dataset  *)
(* worker's asr.py, b1_lj_score.py, analyze_whisper_b1_transcript_qc.py,   *)
(* eval_speaker_purity.py and reference_quality.py): each clip is          *)
(* transcribed and judged by its two least certain words; stretches of the *)
(* selected speaker are enrolled, those least like the others are dropped, *)
(* and each clip is compared with the mean of what remains, window by      *)
(* window; clips are ranked by both, by their length and by their place.   *)
(*                                                                         *)
(* Time is counted in steps, a step being a frame that is silent or has    *)
(* one voice, loud enough to be scored when three tenths of a window have  *)
(* it.  An embedding is a vector of length 100 that points to the voices   *)
(* in the proportion in which they are heard; it is the embedding model's, *)
(* what is done with it the code's.  Similarities and shares are in        *)
(* hundredths, scores of transcripts in hundredths of a percent.           *)
(***************************************************************************)
EXTENDS Integers, FiniteSets, FiniteSetsExt, Sequences, SequencesExt

CONSTANTS
  Engines,    \* the runtime, the backend asked for, the files of the model
  Texts,      \* what the clips are transcribed as, one sequence for the clips
  Takes,      \* what is heard in them
  Places,     \* where they are in the recording: [from, to], in its samples
  Spoken,     \* the regions of the selected speaker, but for where they are
  Stretch,    \* where such regions are: [from, to], in samples of the analysis
  Usual,      \* one of each, and regions that are elsewhere than the clips
  Rate, AnalysisRate,
  MinRegion, Chunk, MaxChunks,     \* enrolment
  Window, Hop, HalfSecond          \* comparison

VARIABLES
  engine,   \* the input: where the recognizer runs
  clips,    \* the input: text, take and place of each clip
  regions,  \* the input: the regions of the selected speaker
  rows,     \* transcript_qc.json
  voice,    \* the chunks of the enrolment, and which were kept
  marks,    \* speaker_purity.json
  ranks,    \* reference_quality.json
  stage

scoring == <<engine, clips, regions, rows, voice, marks, ranks, stage>>

None == -1   \* a value that is missing

(* One respect varies at a time, the others are as usual.  A region's      *)
(* sound may be shorter than the region, which then runs past the audio.   *)
Clips(ts, ks, ps) == [i \in 1 .. 2 |-> [text |-> ts[i], take |-> ks[i], place |-> ps[i]]]
Heard(ss, r) ==
  [i \in DOMAIN ss |-> [sound |-> ss[i].sound, past |-> ss[i].past, source |-> ss[i].source,
                        where |-> ss[i].where, from |-> r.from, to |-> r.to]]

Input(e, ts, ks, ps, ss, r) ==
  engine = e /\ clips = Clips(ts, ks, ps) /\ regions = Heard(ss, r)

Init ==
  /\ LET u == Usual IN
     \/ \E e \in Engines : Input(e, u.texts, u.takes, u.places, u.spoken, u.stretch)
     \/ \E ts \in Texts : Input(u.engine, ts, u.takes, u.places, u.spoken, u.stretch)
     \/ \E ks \in Takes : Input(u.engine, u.texts, ks, u.places, u.spoken, u.stretch)
     \/ \E ss \in Spoken : Input(u.engine, u.texts, u.takes, u.places, ss, u.stretch)
     \/ \E ps \in Places, r \in Stretch : Input(u.engine, u.texts, u.takes, ps, u.spoken, r)
     \/ \E ps \in Places : Input(u.engine, u.texts, u.takes, ps, u.elsewhere, u.stretch)
  /\ rows = <<>> /\ voice = <<>> /\ marks = <<>> /\ ranks = <<>>
  /\ stage = "load"

-----------------------------------------------------------------------------
(* select_asr_backend and load_asr_engine: a managed runtime has the       *)
(* backend of its platform; elsewhere the model's files tell, unless one   *)
(* is asked for.                                                           *)
Platforms(b) == IF b = "mlx" THEN {"macos"} ELSE {"linux", "wsl2"}

Loads(e, b) ==
  /\ e.asked \in {"", b}
  /\ e.managed => e.platform \in Platforms(b)
  /\ IF b = "mlx"
     THEN {"weights.npz", "config.json"} \subseteq e.files /\ "model.bin" \notin e.files
     ELSE /\ "model.bin" \in e.files
          /\ ~e.managed /\ e.asked = "" => "weights.npz" \notin e.files

Load ==
  /\ stage = "load"
  /\ stage' = IF \E b \in {"mlx", "ctranslate2"} : Loads(engine, b) THEN "transcribe" ELSE "refused"
  /\ UNCHANGED <<engine, clips, regions, rows, voice, marks, ranks>>

-----------------------------------------------------------------------------
(* The transcript is a sequence of words, lexical or only punctuation,     *)
(* with their certainties in hundredths of the scale that the recognizer   *)
(* used, 0..1 or 0..100, or missing.                                       *)

(* extract_lexical_words                                                   *)
Lexical(t) ==
  LET ws == SelectSeq(t.words, LAMBDA w : w.lexical) IN [i \in DOMAIN ws |-> ws[i].p]
Known(ps) == \A i \in DOMAIN ps : ps[i] # None

(* detect_probability_scale: the clip's words decide it together.          *)
UnitOnly(ps)    == \A i \in DOMAIN ps : ps[i] <= 100
PercentOnly(ps) == \A i \in DOMAIN ps : 100 < ps[i] /\ ps[i] <= 10000
OneScale(ps)    == UnitOnly(ps) \/ PercentOnly(ps)

(* normalize_probabilities_0_100, in hundredths of a percent.              *)
Percent(ps) == [i \in DOMAIN ps |-> IF UnitOnly(ps) THEN 100 * ps[i] ELSE ps[i]]

(* m1_m2_gap_from_probs: the least, and the least of the others.           *)
Least(ps) == Min(ToSet(ps))
Runner(ps) ==
  IF Len(ps) = 1 THEN Least(ps)
  ELSE LET i == CHOOSE j \in DOMAIN ps : ps[j] = Least(ps)
       IN Min({ps[j] : j \in DOMAIN ps \ {i}})

(* predict_b1_lj_score.  The harmful probability is the logistic function  *)
(* of 2.3169 - 0.025947 m1 - 0.038505 m2, the score 100 times what it      *)
(* lacks of 1.  Strength is what is subtracted, in thousandths; the scores *)
(* at every quarter of it are listed, and between two of them it is        *)
(* interpolated, which is off by less than a tenth of a percent.           *)
Strength(ps) == (25947 * Least(ps) + 38505 * Runner(ps)) \div 100000
Logistic ==
  <<897, 1124, 1398, 1727, 2113, 2560, 3064, 3620, 4214, 4833, 5456, 6066, 6644, 7177,
    7655, 8074, 8433, 8736, 8987, 9193, 9360, 9495, 9602, 9687, 9755, 9808, 9850>>
Match(ps) ==
  LET k == Min({Strength(ps) \div 250, Len(Logistic) - 2}) + 1
  IN Logistic[k] + ((Strength(ps) % 250) * (Logistic[k + 1] - Logistic[k])) \div 250

Bucket(s) ==
  CASE s = None -> "unscored"
    [] s # None /\ s >= 8500 -> "pass"
    [] s # None /\ s < 8500 /\ s >= 7000 -> "review"
    [] s # None /\ s < 7000 -> "fail"

(* A clip without its audio, whose transcription fails or takes too long,  *)
(* or whose certainties make no sense.                                     *)

(* Mutant of Unreadable: scales may be mixed.                              *)
UnreadableUnlessKnown(t) == ~t.audio \/ ~t.works \/ ~Known(Lexical(t))

Unreadable(t) ==
  \/ ~t.audio
  \/ ~t.works
  \/ ~Known(Lexical(t))
  \/ ~OneScale(Lexical(t))

(* _metadata_gaps: no word at all, or one without its certainty.           *)
Gaps(t) == t.words = <<>> \/ \E i \in DOMAIN t.words : t.words[i].p = None

(* score_candidate_clip and apply_review_policy: `odd` is whether there    *)
(* was speech the recognizer doubts, or did not judge, a number or a       *)
(* symbol.                                                                 *)
Row(t) ==
  IF Unreadable(t) THEN [score |-> None, bucket |-> "unscored", review |-> TRUE]
  ELSE LET s == IF Lexical(t) = <<>> THEN None ELSE Match(Percent(Lexical(t)))
       IN [score |-> s, bucket |-> Bucket(s), review |-> s = None \/ t.odd \/ Gaps(t)]

Transcribe ==
  /\ stage = "transcribe"
  /\ rows' = Append(rows, Row(clips[Len(rows) + 1].text))
  /\ stage' = IF Len(rows') = Len(clips) THEN "enroll" ELSE "transcribe"
  /\ UNCHANGED <<engine, clips, regions, voice, marks, ranks>>

-----------------------------------------------------------------------------
(* Embeddings, embedding_vector and cosine_similarity.                     *)

Dot(v, w) == v[1] * w[1] + v[2] * w[2] + v[3] * w[3]
Root(n)   == FoldLeft(LAMBDA x, k : (x + n \div x) \div 2, 5000, [k \in 1 .. 12 |-> k])
Unit(v)   == LET n == Root(10000 * Dot(v, v)) IN [a \in 1 .. 3 |-> (10000 * v[a]) \div n]
Cosine(v, w) == Dot(v, w) \div 100

(* embed_segment.  Two voices are less than unlike; silence is like none.  *)
Count(s, x) == Cardinality({i \in DOMAIN s : s[i] = x})
Embedding(s) ==
  LET own == Count(s, "own")  other == Count(s, "other")
  IN Unit(IF own + other = 0 THEN <<0, 0, 10>> ELSE <<10 * own - 2 * other, 10 * other, 0>>)

-----------------------------------------------------------------------------
(* The enrolment, build_sanitized_target_voiceprint.                       *)

(* The longest regions first, none that is too short or of a recording     *)
(* that the run does not have, each cut in whole chunks, up to a number of *)
(* them.                                                                   *)
Claimed(r)      == Len(r.sound) + r.past
LongEnough(rs)  == SelectSeq(rs, LAMBDA r : Claimed(r) >= MinRegion /\ r.where # "unlisted")
Longest(rs) ==
  LET is == SetToSortSeq(DOMAIN rs, LAMBDA i, j : Claimed(rs[i]) > Claimed(rs[j])
                                     \/ (Claimed(rs[i]) = Claimed(rs[j]) /\ i < j))
  IN [k \in DOMAIN is |-> rs[is[k]]]

ChunksOf(s) ==
  [k \in 1 .. Len(s) \div Chunk |-> Embedding(SubSeq(s, (k - 1) * Chunk + 1, k * Chunk))]

AllChunks(rs) == FlattenSeq([k \in DOMAIN rs |-> ChunksOf(rs[k].sound)])
Chunks ==
  LET all == AllChunks(Longest(LongEnough(regions)))
  IN SubSeq(all, 1, Min({Len(all), MaxChunks}))

(* load_region: a region that is still wanted must be in the analysis      *)
(* audio or, when that is gone, in the recording itself.                   *)
IsMissed ==
  LET rs == Longest(LongEnough(regions))
  IN \E k \in DOMAIN rs : /\ rs[k].where = "nowhere"
                          /\ Len(AllChunks(SubSeq(rs, 1, k - 1))) < MaxChunks

(* outlier_guillotine: how like the others each is, and the quarter of     *)
(* them below which it is dropped (numpy's percentile, between two values  *)
(* by their share).  In quarters of the sum over the others.               *)
Alike(cs, i) == 4 * MapThenSumSet(LAMBDA j : Cosine(cs[i], cs[j]), DOMAIN cs \ {i})
Ordered(cs) == SortSeq([i \in DOMAIN cs |-> Alike(cs, i)], LAMBDA a, b : a < b)
(* Mutant of Cutoff: the value at the quarter, rounded down.               *)
CutoffBelow(cs) == Ordered(cs)[(Len(cs) - 1) \div 4 + 1]

Cutoff(cs) ==
  LET n    == Len(cs)
      low  == Ordered(cs)[(n - 1) \div 4 + 1]
      high == Ordered(cs)[Min({(n - 1) \div 4 + 2, n})]
  IN low + (((n - 1) % 4) * (high - low)) \div 4

Kept(cs) ==
  LET least == Cutoff(cs) IN {i \in DOMAIN cs : Len(cs) = 1 \/ Alike(cs, i) >= least}

Enroll ==
  /\ stage = "enroll"
  /\ LET cs == Chunks IN
     IF IsMissed \/ cs = <<>> THEN stage' = "refused" /\ UNCHANGED voice
     ELSE /\ voice' = [cs |-> cs, kept |-> Kept(cs)]
          /\ stage' = "compare"
  /\ UNCHANGED <<engine, clips, regions, rows, marks, ranks>>

(* The mean of what was kept, brought to length.                           *)
Centroid ==
  Unit([a \in 1 .. 3 |->
          MapThenSumSet(LAMBDA i : voice.cs[i][a], voice.kept) \div Cardinality(voice.kept)])

-----------------------------------------------------------------------------
(* The comparison, score_candidate_clip of eval_speaker_purity.py.         *)

(* iter_sliding_windows: what follows the last whole window is not looked  *)
(* at; a clip shorter than a window is one.                                *)
WindowsOf(s) ==
  IF s = <<>> THEN <<>>
  ELSE IF Len(s) < Window THEN <<s>>
  ELSE [k \in 1 .. (Len(s) - Window) \div Hop + 1 |->
          SubSeq(s, (k - 1) * Hop + 1, (k - 1) * Hop + Window)]

(* window_is_scorable, after a short one was filled up with silence: less  *)
(* than seven tenths of it are silent.                                     *)
Sounds(w) == Len(w) - Count(w, "silence")
Scorable(w) == Len(w) >= HalfSecond /\ 10 * (Window - Sounds(w)) < 7 * Window

Compared(s) ==
  LET ws   == SelectSeq(WindowsOf(s), Scorable)
      mean == Centroid
  IN [k \in DOMAIN ws |-> Cosine(Embedding(ws[k]), mean)]

Clamp(x) == Max({0, Min({100, x})})

(* _percentile of a tenth: of n values the one at a tenth of n - 1,        *)
(* rounded to the nearest, or to the even one of two.                      *)
Tenth(ls) ==
  LET m  == Len(ls) - 1
      up == m % 10 > 5 \/ (m % 10 = 5 /\ (m \div 10) % 2 = 1)
  IN SortSeq(ls, LAMBDA a, b : a < b)[m \div 10 + (IF up THEN 1 ELSE 0) + 1]

(* The least similarity is the score, and is never more than something to  *)
(* review: the values are not calibrated.  Only the audio counts, not      *)
(* whether it could be transcribed.                                        *)
Unscored == [score |-> None, sum |-> 0, n |-> 0, tenth |-> 0, bucket |-> "unscored"]
Mark(t, s) ==
  LET ls == Compared(s) IN
  IF ~t.audio \/ ls = <<>> THEN Unscored
  ELSE [score |-> Clamp(Min(ToSet(ls))), sum |-> MapThenSumSet(LAMBDA k : ls[k], DOMAIN ls),
        n |-> Len(ls), tenth |-> Tenth(ls), bucket |-> "review"]

Compare ==
  /\ stage = "compare"
  /\ LET i == Len(marks) + 1
     IN marks' = Append(marks, Mark(clips[i].text, clips[i].take))
  /\ stage' = IF Len(marks') < Len(clips) THEN "compare" ELSE "publish"
  /\ UNCHANGED <<engine, clips, regions, rows, voice, ranks>>

(* run_speaker_purity: a file that scores no clip is not published.        *)
Publish ==
  /\ stage = "publish"
  /\ stage' = IF \E i \in DOMAIN marks : marks[i].score # None THEN "rank" ELSE "refused"
  /\ UNCHANGED <<engine, clips, regions, rows, voice, marks, ranks>>

-----------------------------------------------------------------------------
(* The ranking, calculate_reference_quality.  Each part is in hundredths.  *)

Representative(m) == Clamp((7 * m.sum + 3 * m.tenth * m.n) \div (10 * m.n))

Confidence(r) == r.score \div 100

(* duration_preference, of samples at the rate of the recording.           *)
Duration(p) ==
  LET d == p.to - p.from IN
  Clamp(100 - (8 * Max({0, 6 * Rate - d}) + 4 * Max({0, d - 9 * Rate})) \div Rate)

(* position_preference: the clip and the regions are counted at different  *)
(* rates.  The room a clip has inside a region counts up to two seconds; a *)
(* clip that no region of the selected speaker contains has none; where    *)
(* none is known in its recording, its place is neither good nor bad.      *)
(* Mutant of Room: as if the rates were the same.                          *)
RoomInSamples(p, r) == Min({p.from - r.from, r.to - p.to}) * Rate * AnalysisRate

Room(p, r) ==
  LET before == p.from * AnalysisRate - r.from * Rate
      after  == r.to * Rate - p.to * AnalysisRate
  IN Min({before, after})

OfSource == {k \in DOMAIN regions : regions[k].source = "its"}
Position(p) ==
  LET rooms == {Room(p, regions[k]) : k \in OfSource}
  IN IF rooms = {} THEN 50
     ELSE IF Max(rooms) < 0 THEN 0 ELSE Clamp((50 * Max(rooms)) \div (Rate * AnalysisRate))

Quality(i) ==
  IF marks[i].score = None \/ rows[i].score = None THEN None
  ELSE 75 * Representative(marks[i]) + 5 * Duration(clips[i].place)
       + 10 * Position(clips[i].place) + 10 * Confidence(rows[i])

Rank ==
  /\ stage = "rank"
  /\ ranks' = [i \in DOMAIN clips |-> Quality(i)]
  /\ stage' = "end"
  /\ UNCHANGED <<engine, clips, regions, rows, voice, marks>>

Next == Load \/ Transcribe \/ Enroll \/ Compare \/ Publish \/ Rank

-----------------------------------------------------------------------------
(* Every file has the shape its stage gives it.                            *)
Buckets == {"unscored", "pass", "review", "fail"}
TypeOK ==
  /\ stage \in {"load", "transcribe", "enroll", "compare", "publish", "rank", "end", "refused"}
  /\ \A i \in DOMAIN rows : rows[i].score \in None .. 10000 /\ rows[i].bucket \in Buckets
  /\ \A i \in DOMAIN marks : marks[i].score \in None .. 100
  /\ \A i \in DOMAIN ranks : ranks[i] \in None .. 10000

(* A certainty by itself, as a share of its scale.                         *)
Worth(ps) == [i \in DOMAIN ps |-> IF UnitOnly(ps) THEN ps[i] ELSE ps[i] \div 100]

(* Every certainty of the one is at least that of a word of the other, one *)
(* for one, whatever the order of the words.                               *)
NoWorse(a, b) ==
  /\ Len(a) = Len(b)
  /\ \E f \in [DOMAIN a -> DOMAIN b] :
       /\ {f[i] : i \in DOMAIN a} = DOMAIN b
       /\ \A i \in DOMAIN a : a[i] >= b[f[i]]

(* Transcripts: words that are at least as certain never make a worse      *)
(* score, in whatever order, on whichever scale and between whatever       *)
(* punctuation they come; a clip that cannot be judged is left to review   *)
(* and has no part in the others.                                          *)
TranscriptsAreFair ==
  stage = "enroll" => \A i, j \in DOMAIN rows :
    LET t == clips[i].text  a == Lexical(t)  b == Lexical(clips[j].text) IN
    /\ rows[i].score = None => rows[i].review /\ rows[i].bucket = "unscored"
    /\ rows[i].score # None <=> t.audio /\ t.works /\ a # <<>> /\ Known(a) /\ OneScale(a)
    /\ (rows[i].score # None /\ rows[j].score # None /\ NoWorse(Worth(a), Worth(b)))
          => rows[i].score >= rows[j].score

(* Enrolment: some chunk always remains, none that is less like the others *)
(* than one that was dropped, and if all but few chunks are of one voice,  *)
(* the other voice is not in what remains.                                 *)
Of(v) == {i \in DOMAIN voice.cs : voice.cs[i] = Embedding(<<v>>)}
VoiceIsSound ==
  stage = "compare" =>
    /\ voice.kept # {}
    /\ \A i \in voice.kept, j \in DOMAIN voice.cs \ voice.kept :
         Alike(voice.cs, i) > Alike(voice.cs, j)
    /\ (/\ Of("own") \cup Of("other") = DOMAIN voice.cs
        /\ Cardinality(Of("other")) < Cardinality(Of("own"))
        /\ 4 * (Cardinality(Of("other")) - 1) < Len(voice.cs) - 1)
          => voice.kept \subseteq Of("own")

(* Comparison: somebody else who is heard for a window and a hop is heard  *)
(* by a window, wherever in the clip; a clip of the enrolled voice alone   *)
(* has the best score, if it has one; a score wants the audio, not its     *)
(* transcript.                                                             *)
IntruderIsHeard ==
  stage = "publish" => \A i \in DOMAIN marks :
    LET s == clips[i].take IN
    /\ voice.kept \subseteq Of("own") /\ marks[i].score # None =>
         /\ (\E a \in DOMAIN s : /\ a + Window + Hop - 2 <= Len(s)
                                 /\ \A k \in a .. a + Window + Hop - 2 : s[k] = "other")
              => marks[i].score = 0
         /\ ToSet(s) \subseteq {"own", "silence"} => marks[i].score = 100
    /\ clips[i].text.audio /\ Len(s) >= Window /\ Count(s, "silence") = 0 => marks[i].score # None

(* Ranking: a clip is ranked if and only if both stages scored it; it gets *)
(* nothing for its place unless a region of the speaker contains it in     *)
(* time, or none is known, and what lies inside it gets no less.           *)
Inside(p, r) == p.from * AnalysisRate >= r.from * Rate /\ p.to * AnalysisRate <= r.to * Rate
RankIsSound ==
  \A i, j \in DOMAIN ranks :
    LET p == clips[i].place  q == clips[j].place IN
    /\ (ranks[i] = None) <=> (rows[i].score = None \/ marks[i].score = None)
    /\ OfSource # {} /\ (\A k \in OfSource : ~Inside(p, regions[k])) => Position(p) = 0
    /\ p.from <= q.from /\ q.to <= p.to => Position(p) <= Position(q)

ScoresAreSound == TranscriptsAreFair /\ VoiceIsSound /\ IntruderIsHeard /\ RankIsSound

=============================================================================
