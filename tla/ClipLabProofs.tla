--------------------------- MODULE ClipLabProofs ---------------------------
(***************************************************************************)
(* Theorems about the review of a clip while its candidates are replaced   *)
(* (ClipLab, CandidatePromotion), for any clients, operations, transcripts *)
(* and generations; and, at the end, about the audio that the reviewed     *)
(* edits make of it (MCClipLab, AudioEdits), for any clients and operations*)
(* and any number of them.                                                 *)
(***************************************************************************)
EXTENDS MCClipLab, SequenceTheorems, TLAPS

-----------------------------------------------------------------------------
(* The replacement of the candidates.  Where each part is follows from the *)
(* step and from the part that moves next.                                 *)
Moving == {"backup", "promote", "restore", "drop", "dropFailed"}

LiveIs(a, g)   == live[a] = g
BackedUp(a, g) == backup.parts[a] = g

PartsAreWhere ==
  LET k == promotion.part
      g == promotion.gen
      p == promotion.previous
  IN  /\ promotion.at = "backup" =>
           \A a \in Part : IF a < k THEN LiveIs(a, None) /\ BackedUp(a, p)
                           ELSE LiveIs(a, p) /\ BackedUp(a, None)
      /\ promotion.at = "promote" =>
           \A a \in Part : BackedUp(a, p) /\ LiveIs(a, IF a < k THEN g ELSE None)
      /\ promotion.at = "restore" =>
           \A a \in Part : BackedUp(a, p) /\ live[a] \in (IF a < k THEN {p} ELSE {None, g})
      /\ promotion.at = "drop" => \A a \in Part : BackedUp(a, p) /\ LiveIs(a, g)
      /\ promotion.at = "dropFailed" => \A a \in Part : BackedUp(a, p) /\ LiveIs(a, p)
      /\ promotion.at \in {"archive", "clear"} => \A a \in Part : LiveIs(a, g)

PromotionInv ==
  /\ PromotionTypeOK
  /\ promotion.part \in Part
  /\ ~backup.there => backup = NoBackup
  /\ promotion.at \in Moving => backup.there
  /\ promotion.at = "staged" => ~backup.there /\ promotion.part = 1
  /\ promotion.at # "idle" => promotion.gen \in Gen
  /\ promotion.at = "staged" => promotion.gen >= live[Manifest]
  /\ promotion.at \in Moving => promotion.previous <= promotion.gen
  /\ promotion.at = "archive" => promotion.previous < promotion.gen
  /\ PartsAreWhere
  /\ CandidatesAreWhole

(* No manifest of an earlier generation than this one will be found any    *)
(* more, unless the worker died when none was in place: then nothing can   *)
(* be reviewed again.                                                      *)
Earliest == IF promotion.at \in Moving \cup {"archive"} THEN promotion.previous
            ELSE live[Manifest]

CutShort == promotion.at = "idle" /\ live[Manifest] = None /\ backup.there

-----------------------------------------------------------------------------
(* The review.  A version of a document stands for one content: whoever    *)
(* was shown it knows what is edited, as long as its candidates are live.  *)
Knows(c) ==
  /\ doc # NoDoc /\ doc.gen = seen[c].gen /\ seen[c].ver <= doc.ver
  /\ seen[c].ver = doc.ver => seen[c].ops = doc.ops /\ seen[c].text = doc.text

SeenIsSound(c) ==
  /\ seen[c].gen <= Earliest
  /\ IF seen[c].ver = 0 THEN seen[c].ops = <<>> /\ seen[c].text = Original
     ELSE Knows(c) \/ seen[c].gen < Earliest

CallIsSound(c) ==
  /\ call[c].at # "none" => call[c].gen <= Earliest
  /\ call[c].at # "none" /\ promotion.at = "clear" => call[c].gen < Earliest
  /\ call[c].at = "rendered" => Revision(call[c]) \in cache \/ call[c].gen < Earliest

DocIsSound ==
  /\ doc # NoDoc => doc.gen \in Gen /\ doc.ver > 0
  /\ Len(doc.ops) + Len(doc.redo) <= MaxOps
  /\ promotion.at = "clear" => doc = NoDoc
  /\ doc.ops # <<>> /\ doc.render = "ready" => Revision(doc) \in cache
  /\ ShownAccepted(doc) => Content(doc) = approved
  /\ ~CutShort => doc.gen <= Earliest

PagesAreSound == ~CutShort => \A c \in Client : SeenIsSound(c) /\ CallIsSound(c)

RendersCandidates == \A c \in Client : call[c].at # "none" => call[c].gen \in Gen

ReviewInv == /\ DocIsSound /\ PagesAreSound /\ RendersCandidates
             /\ export.content = export.approved

IInv == TypeOK /\ PromotionInv /\ ReviewInv
-----------------------------------------------------------------------------
(* Sequences of operations, and the constants. *)
LEMMA Gens == None = 0 /\ None \notin Gen /\ Gen \subseteq Nat /\ Manifest \in Part
  BY MaxGenAssumption DEF None, Gen, Manifest, Part

LEMMA OpsAre == Ops = {s \in Seq(Op) : Len(s) <= MaxOps}
<1>1. ASSUME NEW s \in Ops PROVE s \in Seq(Op) /\ Len(s) <= MaxOps
  <2>1. PICK m \in 0..MaxOps : s \in [1..m -> Op]
    BY <1>1 DEF Ops, SeqOf
  <2>2. m \in Nat /\ s \in Seq(Op) /\ Len(s) = m
    BY <2>1, ClipLabAssumption
  <2> QED  BY <2>1, <2>2, ClipLabAssumption
<1>2. ASSUME NEW s \in Seq(Op), Len(s) <= MaxOps PROVE s \in Ops
  <2>1. Len(s) \in 0..MaxOps /\ s \in [1..Len(s) -> Op]
    BY <1>2, ClipLabAssumption
  <2> QED  BY <2>1 DEF Ops, SeqOf
<1> QED  BY <1>1, <1>2

LEMMA EmptyIsOps == <<>> \in Ops /\ Len(<<>>) = 0
  BY OpsAre, ClipLabAssumption

LEMMA LongerIsOps ==
  ASSUME NEW s \in Ops, NEW op \in Op, Len(s) < MaxOps
  PROVE  Append(s, op) \in Ops /\ Len(Append(s, op)) = Len(s) + 1
  BY OpsAre, ClipLabAssumption

LEMMA ShorterIsOps ==
  ASSUME NEW s \in Ops, s # <<>>
  PROVE  Front(s) \in Ops /\ Len(Front(s)) = Len(s) - 1 /\ Last(s) \in Op /\ Len(s) > 0
<1>1. s \in Seq(Op) /\ Len(s) \in Nat /\ Len(s) # 0 /\ Len(s) <= MaxOps
  BY OpsAre
<1>2. Front(s) \in Seq(Op) /\ Len(Front(s)) = Len(s) - 1
  <2>1. 1 \in Int /\ Len(s) - 1 \in Int /\ \A i \in 1..(Len(s) - 1) : s[i] \in Op
    BY <1>1
  <2>2. SubSeq(s, 1, Len(s) - 1) \in Seq(Op)
        /\ Len(SubSeq(s, 1, Len(s) - 1)) = IF 1 <= Len(s) - 1 THEN (Len(s) - 1) - 1 + 1 ELSE 0
    BY <2>1, SubSeqProperties
  <2>3. Front(s) = SubSeq(s, 1, Len(s) - 1)
    BY DEF Front
  <2>4. Front(s) \in Seq(Op)
    BY <2>2, <2>3
  <2>5. \A n \in Nat : n # 0 => (IF 1 <= n - 1 THEN (n - 1) - 1 + 1 ELSE 0) = n - 1
    OBVIOUS
  <2> QED  BY <1>1, <2>2, <2>3, <2>4, <2>5, Zenon
<1>3. Len(s) \in 1..Len(s) /\ s \in [1..Len(s) -> Op]
  BY <1>1
<1>4. Last(s) \in Op
  BY <1>3 DEF Last
<1> QED  BY <1>1, <1>2, <1>4, OpsAre, ClipLabAssumption

-----------------------------------------------------------------------------
(* The replacement of the candidates, step by step. *)
PromotionRecord == [at : {"idle", "staged", "dropFailed"} \cup InLock, part : 1..4,
                    gen : Gen \cup {None}, previous : Gen \cup {None}]

LEMMA Typed ==
  ASSUME PromotionInv
  PROVE  /\ promotion.part \in {1, 2, 3}
         /\ promotion.gen \in Nat /\ promotion.previous \in Nat
         /\ \A a \in Part : live[a] \in Nat
  BY Gens DEF PromotionInv, PromotionTypeOK, Part, Parts, Gen, None

(* A generation can be put together when every part is live, or backed up. *)
LEMMA Survival ==
  ASSUME NEW g \in Gen \cup {None}, backup \in [there : BOOLEAN, parts : Parts],
         g # None => \A a \in Part : BackedUp(a, g) \/ LiveIs(a, g),
         g = None => \A a \in Part : BackedUp(a, None)
  PROVE  CandidatesSurvive
  BY DEF CandidatesSurvive, LiveIs, BackedUp

LEMMA StageStep ==
  ASSUME PromotionInv, Stage
  PROVE  PromotionInv'
<1>1. PICK g \in Fresh \cup ({live[Manifest]} \ {None}) :
        promotion' = [Idle EXCEPT !.at = "staged", !.gen = g]
  BY DEF Stage
<1>2. promotion.at = "idle" /\ ~backup.there /\ UNCHANGED <<live, backup>>
  BY DEF Stage
<1>3. g \in Gen /\ g >= live[Manifest]
  BY <1>1, Typed, Gens DEF Fresh, PromotionInv, PromotionTypeOK, Parts
<1>4. /\ promotion'.at = "staged" /\ promotion'.gen = g
      /\ promotion'.part = 1 /\ promotion'.previous = None
      /\ promotion' \in PromotionRecord
  <2>1. promotion' = [at |-> "staged", part |-> 1, gen |-> g, previous |-> None]
    BY <1>1 DEF Idle
  <2> QED  BY <2>1, <1>3 DEF PromotionRecord
<1>5. PromotionTypeOK'
  BY <1>2, <1>4 DEF PromotionInv, PromotionTypeOK, PromotionRecord
<1>6. CandidatesAreWhole'
  BY <1>2, <1>4 DEF PromotionInv, CandidatesAreWhole, CandidatesAreOneGeneration,
     CandidatesSurvive, LockFree, InLock
<1>7. PartsAreWhere'
  BY <1>4 DEF PartsAreWhere
<1> QED  BY <1>2, <1>3, <1>4, <1>5, <1>6, <1>7 DEF PromotionInv, Moving, Part

LEMMA LockStep ==
  ASSUME PromotionInv, Lock
  PROVE  PromotionInv'
<1>1. /\ promotion.at = "staged" /\ ~backup.there /\ UNCHANGED live
      /\ promotion' = [promotion EXCEPT !.at = "backup", !.previous = live[Manifest]]
      /\ backup' = [backup EXCEPT !.there = TRUE]
  BY DEF Lock
<1>2. /\ backup = NoBackup /\ promotion.part = 1
      /\ \A a \in Part : live[a] = live[Manifest]
  BY <1>1, Gens DEF PromotionInv, CandidatesAreWhole, CandidatesAreOneGeneration, LockFree, InLock
<1>3. /\ promotion'.at = "backup" /\ promotion'.gen = promotion.gen
      /\ promotion'.part = 1 /\ promotion'.previous = live[Manifest]
      /\ backup'.there /\ backup'.parts = backup.parts
      /\ PromotionTypeOK'
  BY <1>1, <1>2, Gens DEF PromotionInv, PromotionTypeOK, InLock, Parts
<1>4. \A a \in Part : (LiveIs(a, live[Manifest]) /\ BackedUp(a, None))'
  BY <1>1, <1>2, <1>3 DEF LiveIs, BackedUp, NoBackup
<1>5. PartsAreWhere'
  BY <1>1, <1>3, <1>4 DEF PartsAreWhere, LiveIs, Part
<1>6. CandidatesAreWhole'
  BY <1>1, <1>3, <1>4 DEF CandidatesAreWhole, CandidatesAreOneGeneration, CandidatesSurvive, LockFree, BackedUp
<1> QED  BY <1>1, <1>2, <1>3, <1>5, <1>6 DEF PromotionInv, Moving

(* A move of one part: the next one, or the step that follows. *)
LEMMA Moved ==
  ASSUME PromotionInv, NEW at \in Moving, NEW next \in Moving, Steps(at, next)
  PROVE  /\ promotion.at = at
         /\ promotion'.gen = promotion.gen /\ promotion'.previous = promotion.previous
         /\ promotion'.part \in Part
         /\ promotion' \in PromotionRecord
         /\ \/ promotion.part = 3 /\ promotion'.at = next /\ promotion'.part = 1
            \/ promotion.part < 3 /\ promotion'.at = at /\ promotion'.part = promotion.part + 1
<1>1. promotion.at = at /\ promotion' = IF promotion.part = 3 THEN [promotion EXCEPT !.at = next, !.part = 1]
                  ELSE [promotion EXCEPT !.part = @ + 1]
  BY DEF Steps
<1>2. promotion \in PromotionRecord
      /\ promotion.part \in {1, 2, 3} /\ next \in {"idle", "staged", "dropFailed"} \cup InLock
  BY Typed DEF PromotionInv, PromotionTypeOK, Moving, InLock, PromotionRecord
<1>3. CASE promotion.part = 3
  <2>1. promotion' = [promotion EXCEPT !.at = next, !.part = 1]
    BY <1>1, <1>3
  <2>2. promotion'.at = next /\ promotion'.part = 1 /\ promotion'.gen = promotion.gen
        /\ promotion'.previous = promotion.previous
    BY <1>2, <2>1 DEF PromotionRecord
  <2> DEFINE renamed == [promotion EXCEPT !.at = next]
  <2>3. renamed \in PromotionRecord /\ promotion' = [renamed EXCEPT !.part = 1]
    BY <1>2, <2>1 DEF PromotionRecord
  <2> HIDE DEF renamed
  <2>4. promotion' \in PromotionRecord
    BY <2>3 DEF PromotionRecord
  <2> QED  BY <1>1, <1>3, <2>2, <2>4 DEF Part
<1>4. CASE promotion.part < 3
  BY <1>1, <1>2, <1>4 DEF Part, PromotionRecord
<1> QED  BY <1>2, <1>3, <1>4

LEMMA BackUpStep ==
  ASSUME PromotionInv, BackUp
  PROVE  PromotionInv'
<1>1. /\ Steps("backup", "promote")
      /\ backup' = [backup EXCEPT !.parts[promotion.part] = live[promotion.part]]
      /\ live' = [live EXCEPT ![promotion.part] = None]
  BY DEF BackUp
<1>2. /\ promotion.at = "backup"
      /\ promotion'.gen = promotion.gen /\ promotion'.previous = promotion.previous
      /\ promotion'.part \in Part
      /\ promotion' \in PromotionRecord
      /\ \/ promotion.part = 3 /\ promotion'.at = "promote" /\ promotion'.part = 1
         \/ promotion.part < 3 /\ promotion'.at = "backup" /\ promotion'.part = promotion.part + 1
  BY <1>1, Moved DEF Moving
<1>3. backup'.there /\ backup' \in [there : BOOLEAN, parts : Parts] /\ live' \in Parts
      /\ \A a \in Part : /\ LiveIs(a, None)' <=> (LiveIs(a, None) \/ a = promotion.part)
                         /\ a # promotion.part => live'[a] = live[a] /\ backup'.parts[a] = backup.parts[a]
                         /\ a = promotion.part => live'[a] = None /\ backup'.parts[a] = live[a]
  BY <1>1, <1>2, Gens DEF PromotionInv, PromotionTypeOK, Parts, LiveIs, Moving
<1>4. \A a \in Part : IF a < promotion.part THEN LiveIs(a, None) /\ BackedUp(a, promotion.previous)
                      ELSE LiveIs(a, promotion.previous) /\ BackedUp(a, None)
  BY <1>2 DEF PromotionInv, PartsAreWhere
<1>5. \A a \in Part : IF a <= promotion.part
                      THEN live'[a] = None /\ backup'.parts[a] = promotion.previous
                      ELSE live'[a] = promotion.previous /\ backup'.parts[a] = None
  BY <1>3, <1>4, Typed DEF LiveIs, BackedUp, Part
<1>6. PartsAreWhere'
  BY <1>2, <1>5, Typed DEF PartsAreWhere, LiveIs, BackedUp, Part
<1>7. CandidatesSurvive'
  BY <1>2, <1>5, Typed, Gens DEF CandidatesSurvive, PromotionInv, PromotionTypeOK
<1>8. CandidatesAreWhole'
  BY <1>2, <1>7 DEF CandidatesAreWhole, CandidatesAreOneGeneration, LockFree, InLock
<1> QED  BY <1>2, <1>3, <1>6, <1>8 DEF PromotionInv, PromotionTypeOK, PromotionRecord, Moving

LEMMA PromoteStep ==
  ASSUME PromotionInv, Promote
  PROVE  PromotionInv'
<1>1. /\ Steps("promote", "drop") /\ UNCHANGED backup
      /\ live' = [live EXCEPT ![promotion.part] = promotion.gen]
  BY DEF Promote
<1>2. /\ promotion.at = "promote"
      /\ promotion'.gen = promotion.gen /\ promotion'.previous = promotion.previous
      /\ promotion'.part \in Part
      /\ promotion' \in PromotionRecord
      /\ \/ promotion.part = 3 /\ promotion'.at = "drop" /\ promotion'.part = 1
         \/ promotion.part < 3 /\ promotion'.at = "promote" /\ promotion'.part = promotion.part + 1
  BY <1>1, Moved DEF Moving
<1>3. promotion.gen \in Gen /\ backup.there
  BY <1>2 DEF PromotionInv, Moving
<1>4. live' \in Parts /\ \A a \in Part : live'[a] = IF a = promotion.part THEN promotion.gen ELSE live[a]
  BY <1>1, <1>3 DEF PromotionInv, PromotionTypeOK, Parts
<1>5. \A a \in Part : /\ backup'.parts[a] = promotion.previous
                      /\ live'[a] = IF a <= promotion.part THEN promotion.gen ELSE None
  BY <1>1, <1>2, <1>4, Typed DEF PromotionInv, PartsAreWhere, LiveIs, BackedUp, Part
<1>6. PartsAreWhere'
  BY <1>2, <1>5, Typed DEF PartsAreWhere, LiveIs, BackedUp, Part
<1>7. CandidatesSurvive'
  BY <1>1, <1>2, <1>5, Typed, Gens DEF CandidatesSurvive, PromotionInv, PromotionTypeOK
<1>8. CandidatesAreWhole'
  BY <1>2, <1>7 DEF CandidatesAreWhole, CandidatesAreOneGeneration, LockFree, InLock
<1> QED  BY <1>1, <1>2, <1>3, <1>4, <1>6, <1>8 DEF PromotionInv, PromotionTypeOK, PromotionRecord, Moving

LEMMA PromoteFailsStep ==
  ASSUME PromotionInv, PromoteFails
  PROVE  PromotionInv'
<1>1. /\ promotion.at = "promote" /\ UNCHANGED <<live, backup>>
      /\ promotion' = [promotion EXCEPT !.at = "restore", !.part = 1]
  BY DEF PromoteFails
<1> DEFINE renamed == [promotion EXCEPT !.at = "restore"]
<1>2. renamed \in PromotionRecord /\ promotion' = [renamed EXCEPT !.part = 1]
      /\ promotion'.at = "restore" /\ promotion'.part = 1
      /\ promotion'.gen = promotion.gen /\ promotion'.previous = promotion.previous
  BY <1>1 DEF PromotionInv, PromotionTypeOK, PromotionRecord, InLock
<1> HIDE DEF renamed
<1>3. promotion' \in PromotionRecord
  BY <1>2 DEF PromotionRecord
<1>4. \A a \in Part : BackedUp(a, promotion.previous) /\ live[a] \in {None, promotion.gen}
  BY <1>1 DEF PromotionInv, PartsAreWhere, LiveIs
<1>5. PartsAreWhere'
  BY <1>1, <1>2, <1>4 DEF PartsAreWhere, BackedUp, Part
<1>6. CandidatesAreWhole'
  BY <1>1, <1>2 DEF PromotionInv, CandidatesAreWhole, CandidatesAreOneGeneration, CandidatesSurvive,
     LockFree, InLock
<1> QED  BY <1>1, <1>2, <1>3, <1>5, <1>6 DEF PromotionInv, PromotionTypeOK, PromotionRecord, Moving, Part

LEMMA RestoreStep ==
  ASSUME PromotionInv, Restore
  PROVE  PromotionInv'
<1>1. /\ Steps("restore", "dropFailed") /\ UNCHANGED backup
      /\ live' = [live EXCEPT ![promotion.part] = backup.parts[promotion.part]]
  BY DEF Restore
<1>2. /\ promotion.at = "restore"
      /\ promotion'.gen = promotion.gen /\ promotion'.previous = promotion.previous
      /\ promotion'.part \in Part
      /\ promotion' \in PromotionRecord
      /\ \/ promotion.part = 3 /\ promotion'.at = "dropFailed" /\ promotion'.part = 1
         \/ promotion.part < 3 /\ promotion'.at = "restore" /\ promotion'.part = promotion.part + 1
  BY <1>1, Moved DEF Moving
<1>3. /\ backup.there /\ promotion.part \in Part /\ promotion.previous \in Gen \cup {None}
      /\ \A a \in Part : BackedUp(a, promotion.previous)
      /\ \A a \in Part : live[a] \in (IF a < promotion.part THEN {promotion.previous}
                                      ELSE {None, promotion.gen})
  BY <1>2 DEF PromotionInv, PromotionTypeOK, PartsAreWhere, Moving
<1>4. live' \in Parts /\ \A a \in Part : live'[a] = IF a = promotion.part THEN promotion.previous ELSE live[a]
  BY <1>1, <1>3 DEF PromotionInv, PromotionTypeOK, Parts, BackedUp
<1>5. \A a \in Part : /\ a <= promotion.part => live'[a] = promotion.previous
                      /\ a > promotion.part => live'[a] \in {None, promotion.gen}
  BY <1>3, <1>4, Typed DEF Part
<1>6. PartsAreWhere'
  BY <1>1, <1>2, <1>3, <1>5, Typed DEF PartsAreWhere, LiveIs, BackedUp, Part
<1>7. CandidatesSurvive'
  BY <1>1, <1>3, Gens DEF CandidatesSurvive, BackedUp
<1>8. CandidatesAreWhole'
  BY <1>2, <1>7 DEF CandidatesAreWhole, CandidatesAreOneGeneration, LockFree, InLock
<1> QED  BY <1>1, <1>2, <1>3, <1>4, <1>6, <1>8 DEF PromotionInv, PromotionTypeOK, PromotionRecord, Moving

LEMMA IdleIsTyped == Idle \in PromotionRecord /\ Idle.at = "idle" /\ Idle.part = 1
  BY DEF Idle, PromotionRecord

LEMMA DropStep ==
  ASSUME PromotionInv, Drop
  PROVE  PromotionInv'
<1>1. /\ promotion.at \in {"drop", "dropFailed"} /\ UNCHANGED live
      /\ \/ backup' = NoBackup
         \/ \E a \in Part : backup' = [backup EXCEPT !.parts[a] = None]
      /\ promotion' =
           IF promotion.at = "drop" /\ promotion.previous \notin {None, promotion.gen}
           THEN [promotion EXCEPT !.at = "archive"] ELSE Idle
  BY DEF Drop
<1>2. PICK g \in Gen \cup {None} :
        /\ \A a \in Part : live[a] = g
        /\ promotion.at = "drop" => g = promotion.gen
        /\ g = None => \A a \in Part : backup.parts[a] = None
  <2>1. CASE promotion.at = "drop"
    BY <2>1, Gens DEF PromotionInv, PartsAreWhere, LiveIs
  <2>2. CASE promotion.at = "dropFailed"
    <3>1. promotion.previous \in Gen \cup {None}
          /\ \A a \in Part : live[a] = promotion.previous /\ backup.parts[a] = promotion.previous
      BY <2>2 DEF PromotionInv, PromotionTypeOK, PartsAreWhere, LiveIs, BackedUp
    <3> QED  BY <2>2, <3>1
  <2> QED  BY <1>1, <2>1, <2>2
<1>3. /\ backup' \in [there : BOOLEAN, parts : Parts]
      /\ ~backup'.there => backup' = NoBackup
      /\ g = None => \A a \in Part : backup'.parts[a] = None
  <2>1. backup.there /\ backup \in [there : BOOLEAN, parts : Parts]
    BY <1>1 DEF PromotionInv, PromotionTypeOK, Moving
  <2>2. CASE backup' = NoBackup
    BY <2>2 DEF NoBackup, Parts
  <2>3. ASSUME NEW a \in Part, backup' = [backup EXCEPT !.parts[a] = None]
        PROVE  /\ backup' \in [there : BOOLEAN, parts : Parts] /\ backup'.there
               /\ \A b \in Part : backup'.parts[b] \in {backup.parts[b], None}
    BY <2>1, <2>3 DEF Parts
  <2> QED  BY <1>1, <1>2, <2>2, <2>3 
<1>4. CandidatesAreOneGeneration' /\ CandidatesSurvive'
  BY <1>1, <1>2, <1>3 DEF CandidatesAreOneGeneration, CandidatesSurvive
<1>5. CASE promotion.at = "drop" /\ promotion.previous \notin {None, promotion.gen}
  <2>1. promotion' \in PromotionRecord /\ promotion'.at = "archive" /\ promotion'.part = promotion.part
        /\ promotion'.gen = promotion.gen /\ promotion'.previous = promotion.previous
    BY <1>1, <1>5 DEF PromotionInv, PromotionTypeOK, PromotionRecord, InLock
  <2>2. promotion.previous < promotion.gen
    BY <1>5, Typed DEF PromotionInv, Moving
  <2>3. PartsAreWhere'
    BY <1>1, <1>2, <1>5, <2>1 DEF PartsAreWhere, LiveIs
  <2> QED  BY <1>1, <1>3, <1>4, <2>1, <2>2, <2>3
           DEF PromotionInv, PromotionTypeOK, PromotionRecord, CandidatesAreWhole, Moving
<1>6. CASE ~(promotion.at = "drop" /\ promotion.previous \notin {None, promotion.gen})
  <2>1. promotion' = Idle
    BY <1>1, <1>6
  <2>2. PartsAreWhere'
    BY <2>1, IdleIsTyped DEF PartsAreWhere
  <2> QED  BY <1>1, <1>3, <1>4, <2>1, <2>2, IdleIsTyped
           DEF PromotionInv, PromotionTypeOK, PromotionRecord, CandidatesAreWhole, Moving, Part
<1> QED  BY <1>5, <1>6

LEMMA ArchivedStep ==
  ASSUME PromotionInv, Archived
  PROVE  PromotionInv'
<1>1. /\ promotion.at = "archive" /\ UNCHANGED <<live, backup>>
      /\ promotion' = [promotion EXCEPT !.at = "clear"]
  BY DEF Archived
<1>2. promotion' \in PromotionRecord /\ promotion'.at = "clear" /\ promotion'.part = promotion.part
      /\ promotion'.gen = promotion.gen
  BY <1>1 DEF PromotionInv, PromotionTypeOK, PromotionRecord, InLock
<1>3. PartsAreWhere' /\ CandidatesAreWhole'
  BY <1>1, <1>2 DEF PromotionInv, PartsAreWhere, LiveIs, BackedUp, CandidatesAreWhole,
     CandidatesAreOneGeneration, CandidatesSurvive, LockFree, InLock
<1> QED  BY <1>1, <1>2, <1>3 DEF PromotionInv, PromotionTypeOK, PromotionRecord, Moving

LEMMA EndsIdle ==
  ASSUME PromotionInv, promotion.at # "idle", promotion' = Idle, UNCHANGED <<live, backup>>
  PROVE  PromotionInv'
<1>1. PartsAreWhere'
  BY IdleIsTyped DEF PartsAreWhere
<1>2. ASSUME ~backup.there PROVE \A a, b \in Part : live[a] = live[b]
  <2>1. promotion.at \notin Moving
    BY <1>2 DEF PromotionInv
  <2>2. promotion.at \in {"staged", "archive", "clear"}
    BY <2>1 DEF PromotionInv, PromotionTypeOK, Moving, InLock
  <2>3. CASE promotion.at = "staged"
    BY <1>2, <2>3 DEF PromotionInv, CandidatesAreWhole, CandidatesAreOneGeneration, LockFree, InLock
  <2>4. CASE promotion.at \in {"archive", "clear"}
    BY <2>4 DEF PromotionInv, PartsAreWhere, LiveIs
  <2> QED  BY <2>2, <2>3, <2>4
<1>3. CandidatesAreWhole'
  BY <1>2 DEF PromotionInv, CandidatesAreWhole, CandidatesAreOneGeneration, CandidatesSurvive
<1> QED  BY <1>1, <1>3, IdleIsTyped DEF PromotionInv, PromotionTypeOK, PromotionRecord, Moving, Part

LEMMA PromotionStep ==
  ASSUME PromotionInv, Promotes \/ Archived \/ Cleared
  PROVE  PromotionInv'
<1>1. ASSUME Dies \/ Cleared PROVE PromotionInv'
  BY <1>1, EndsIdle DEF Dies, Cleared
<1> QED  BY <1>1, StageStep, LockStep, BackUpStep, PromoteStep, PromoteFailsStep, RestoreStep,
            DropStep, ArchivedStep DEF Promotes

-----------------------------------------------------------------------------
(* The review document, and what a request finds under the lock. *)
DocRecord == [gen : Gen \cup {None}, ver : 0..MaxVersion, accepted : Contents \cup {NoContent},
              text : Override, ops : Ops, redo : Ops, render : {"ready", "pending", "failed"}]
SeenRecord == [gen : Gen \cup {None}, ver : 0..MaxVersion, text : Override, ops : Ops]
CallRecord == [at : {"none", "render", "rendered", "failed"}, gen : Gen \cup {None}, ops : Ops]

LEMMA DocTyped ==
  ASSUME TypeOK
  PROVE  /\ doc \in DocRecord /\ seen \in [Client -> SeenRecord] /\ call \in [Client -> CallRecord]
         /\ doc.ver \in Nat /\ doc.gen \in Nat /\ MaxVersion \in Nat
         /\ \A c \in Client : seen[c].ver \in Nat /\ seen[c].gen \in Nat /\ call[c].gen \in Nat
<1>1. /\ doc \in DocRecord /\ seen \in [Client -> SeenRecord] /\ call \in [Client -> CallRecord]
  BY DEF TypeOK, DocRecord, SeenRecord, CallRecord
<1>2. MaxVersion \in Nat /\ Gen \cup {None} \subseteq Nat
  BY Gens, ClipLabAssumption
<1>3. doc.ver \in Nat /\ doc.gen \in Nat
  BY <1>1, <1>2 DEF DocRecord
<1>4. ASSUME NEW c \in Client
      PROVE  seen[c].ver \in Nat /\ seen[c].gen \in Nat /\ call[c].gen \in Nat
  <2>1. seen[c] \in SeenRecord /\ call[c] \in CallRecord
    BY <1>1
  <2> QED  BY <1>2, <2>1 DEF SeenRecord, CallRecord
<1> QED  BY <1>1, <1>2, <1>3, <1>4

LEMMA DefaultIsTyped ==
  ASSUME NEW g \in Gen \cup {None}
  PROVE  /\ DefaultEntry(g) \in DocRecord
         /\ DefaultEntry(g).gen = g /\ DefaultEntry(g).ver = 0
         /\ DefaultEntry(g).accepted = NoContent /\ DefaultEntry(g).text = Original
         /\ DefaultEntry(g).ops = <<>> /\ DefaultEntry(g).redo = <<>>
         /\ DefaultEntry(g).render = "ready"
  BY EmptyIsOps, ClipLabAssumption DEF DefaultEntry, DocRecord, Override

LEMMA LockedIsCurrent ==
  ASSUME PromotionInv, Locks
  PROVE  /\ ~CutShort /\ Earliest = live[Manifest] /\ live[Manifest] \in Gen
         /\ promotion.at \in {"idle", "staged"}
<1>1. promotion.at \notin InLock \cup {"dropFailed"} /\ live[Manifest] # None
  BY DEF Locks, LockFree
<1>2. promotion.at \in {"idle", "staged"} /\ live[Manifest] \in Gen
  BY <1>1, Gens DEF PromotionInv, PromotionTypeOK, Parts
<1> QED  BY <1>1, <1>2 DEF CutShort, Earliest, Moving

LEMMA EntryIs ==
  ASSUME TypeOK, PromotionInv, DocIsSound, Locks
  PROVE  /\ Entry \in DocRecord /\ Entry.gen = live[Manifest] /\ Entry.ver \in Nat
         /\ Len(Entry.ops) + Len(Entry.redo) <= MaxOps
         /\ ~Stale /\ doc # NoDoc => Entry = doc
         /\ doc = NoDoc \/ Stale => Entry = DefaultEntry(live[Manifest])
<1>1. live[Manifest] \in Gen
  BY LockedIsCurrent
<1>2. CASE ~Stale /\ doc # NoDoc
  BY <1>1, <1>2, DocTyped DEF Entry, Stale, DocIsSound
<1>3. CASE doc = NoDoc \/ Stale
  <2>1. Entry = DefaultEntry(live[Manifest])
    BY <1>3 DEF Entry
  <2>2. /\ Entry \in DocRecord /\ Entry.gen = live[Manifest] /\ Entry.ver = 0
        /\ Entry.ops = <<>> /\ Entry.redo = <<>>
    BY <1>1, <2>1, DefaultIsTyped
  <2>3. Len(Entry.ops) + Len(Entry.redo) <= MaxOps
    BY <2>2, EmptyIsOps, ClipLabAssumption
  <2> QED  BY <1>3, <2>1, <2>2, <2>3
<1> QED  BY <1>2, <1>3

(* Whoever may edit was shown what is edited. *)
LEMMA EditorKnows ==
  ASSUME IInv, NEW c \in Client, MayEdit(c)
  PROVE  /\ seen[c].gen = Entry.gen /\ seen[c].ver = Entry.ver
         /\ seen[c].ops = Entry.ops /\ seen[c].text = Entry.text
         /\ Content(seen[c]) = Content(Entry)
         /\ doc = NoDoc \/ Entry = doc
         /\ Locks /\ Entry.ver < MaxVersion
<1>1. /\ Locks /\ ~Stale /\ seen[c].gen = live[Manifest] /\ seen[c].ver = Entry.ver
      /\ Entry.ver < MaxVersion
  BY DEF MayEdit
<1>2. ~CutShort /\ Earliest = live[Manifest] /\ live[Manifest] \in Gen
  BY <1>1, LockedIsCurrent DEF IInv
<1>3. SeenIsSound(c)
  BY <1>2 DEF IInv, ReviewInv, PagesAreSound
<1>4. Entry.gen = live[Manifest] /\ (doc # NoDoc => Entry = doc)
      /\ (doc = NoDoc => Entry = DefaultEntry(live[Manifest]))
  BY <1>1, EntryIs DEF IInv, ReviewInv
<1>5. seen[c].ops = Entry.ops /\ seen[c].text = Entry.text
  <2>1. CASE doc = NoDoc
    BY <1>1, <1>2, <1>3, <1>4, <2>1, DefaultIsTyped DEF SeenIsSound
  <2>2. CASE doc # NoDoc
    <3>1. seen[c].ver # 0 /\ ~(seen[c].gen < Earliest)
      BY <1>1, <1>2, <1>4, <2>2, DocTyped, Gens DEF IInv, ReviewInv, DocIsSound
    <3> QED  BY <1>1, <1>3, <1>4, <2>2, <3>1 DEF SeenIsSound, Knows
  <2> QED  BY <2>1, <2>2
<1> QED  BY <1>1, <1>4, <1>5 DEF Content

-----------------------------------------------------------------------------
(* What a step of the review that leaves the candidates alone keeps. *)
SameCandidates == UNCHANGED <<live, backup, promotion>>

LEMMA CandidatesKept ==
  ASSUME PromotionInv, SameCandidates
  PROVE  /\ PromotionInv' /\ PromotionTypeOK'
         /\ Earliest' = Earliest /\ CutShort' = CutShort /\ promotion' = promotion
<1>1. live' = live /\ backup' = backup /\ promotion' = promotion
  BY DEF SameCandidates
<1> QED  BY <1>1 DEF PromotionInv, PromotionTypeOK, PartsAreWhere, LiveIs, BackedUp, CandidatesAreWhole,
            CandidatesAreOneGeneration, CandidatesSurvive, LockFree, Earliest, CutShort

LEMMA SeenKept ==
  ASSUME SameCandidates, PromotionInv, NEW c \in Client, SeenIsSound(c), doc' = doc, seen'[c] = seen[c]
  PROVE  SeenIsSound(c)'
  BY CandidatesKept DEF SeenIsSound, Knows

LEMMA CallKept ==
  ASSUME SameCandidates, PromotionInv, NEW c \in Client, CallIsSound(c), cache \subseteq cache',
         call'[c] = call[c]
  PROVE  CallIsSound(c)'
  BY CandidatesKept DEF CallIsSound, Revision

(* The document advances by one version; nobody has seen the new one. *)
LEMMA SeenBefore ==
  ASSUME IInv, SameCandidates, NEW c \in Client, MayEdit(c),
         doc' \in DocRecord, doc'.gen = Entry.gen, doc'.ver = Entry.ver + 1,
         NEW d \in Client, seen'[d] = seen[d]
  PROVE  SeenIsSound(d)'
<1>1. Locks /\ (doc = NoDoc \/ Entry = doc) /\ (doc = NoDoc => Entry.ver = 0)
  <2>1. Locks /\ (doc = NoDoc \/ Entry = doc)
    BY EditorKnows
  <2> QED  BY <2>1, EntryIs, LockedIsCurrent, DefaultIsTyped DEF IInv, ReviewInv
<1>2. /\ ~CutShort /\ Earliest' = Earliest /\ Entry.gen = Earliest
      /\ Entry.ver \in Nat /\ Earliest \in Gen
  BY <1>1, EntryIs, LockedIsCurrent, CandidatesKept DEF IInv, ReviewInv
<1>3. SeenIsSound(d)
  BY <1>2 DEF IInv, ReviewInv, PagesAreSound
<1>4. /\ seen[d].ver \in Nat /\ seen[d].gen \in Nat /\ doc.ver \in Nat /\ NoDoc.gen = None
      /\ NoDoc.ver = 0
  BY DocTyped, DefaultIsTyped, Gens DEF IInv, NoDoc
<1>5. doc' # NoDoc
  BY <1>2, <1>4
<1>6. ASSUME seen[d].ver # 0, ~(seen[d].gen < Earliest) PROVE Knows(d)'
  <2>1. Knows(d)
    BY <1>3, <1>6 DEF SeenIsSound
  <2>2. Entry = doc /\ seen[d].ver <= doc.ver /\ doc.gen = seen[d].gen
    BY <1>1, <2>1 DEF Knows
  <2> QED  BY <1>2, <1>4, <1>5, <2>2 DEF Knows
<1> QED  BY <1>2, <1>3, <1>6 DEF SeenIsSound

(* Whoever is shown the document knows it. *)
LEMMA ShownKnows ==
  ASSUME PromotionInv, SameCandidates, NEW e \in DocRecord, e.gen \in Gen, e.gen = Earliest,
         e.ver = 0 => e.ops = <<>> /\ e.text = Original,
         e.ver = 0 \/ doc' = e, NEW c \in Client, seen \in [Client -> SeenRecord],
         Shows(c, e)
  PROVE  seen' \in [Client -> SeenRecord] /\ SeenIsSound(c)' /\ \A d \in Client \ {c} : seen'[d] = seen[d]
<1> DEFINE s == [gen |-> e.gen, ver |-> e.ver, text |-> e.text, ops |-> e.ops]
<1>1. s \in SeenRecord /\ s.gen = e.gen /\ s.ver = e.ver /\ s.text = e.text /\ s.ops = e.ops
  BY DEF DocRecord, SeenRecord
<1>2. seen' = [seen EXCEPT ![c] = s]
  BY DEF Shows
<1> HIDE DEF s
<1>3. seen' \in [Client -> SeenRecord] /\ seen'[c] = s /\ \A d \in Client \ {c} : seen'[d] = seen[d]
  BY <1>1, <1>2
<1>4. Earliest' = Earliest /\ e.ver \in Nat /\ e.gen \in Nat
  <2>1. Earliest' = Earliest
    BY CandidatesKept
  <2>2. e.ver \in 0..MaxVersion
    BY DEF DocRecord
  <2>3. e.ver \in Nat
    BY <2>2, ClipLabAssumption
  <2>4. e.gen \in Nat
    BY Gens
  <2> QED  BY <2>1, <2>3, <2>4
<1>5. ASSUME e.ver # 0 PROVE Knows(c)'
  <2>1. doc' = e
    BY <1>5
  <2>2. doc' # NoDoc
    BY <1>5, <2>1, Gens, DefaultIsTyped DEF NoDoc
  <2> QED  BY <1>1, <1>3, <1>4, <2>1, <2>2 DEF Knows
<1> QED  BY <1>1, <1>3, <1>4, <1>5 DEF SeenIsSound

LEMMA ViewStep ==
  ASSUME IInv, NEW c \in Client, View(c)
  PROVE  IInv'
<1>1. /\ Locks /\ Shows(c, Entry) /\ SameCandidates
      /\ UNCHANGED <<doc, cache, call, export, approved>>
  BY DEF View, SameCandidates
<1>2. TypeOK /\ PromotionInv /\ DocIsSound /\ PagesAreSound /\ RendersCandidates /\ export.content = export.approved
  BY DEF IInv, ReviewInv
<1>3. PromotionInv' /\ PromotionTypeOK' /\ Earliest' = Earliest /\ CutShort' = CutShort /\ promotion' = promotion
  BY <1>1, <1>2, CandidatesKept
<1>4. /\ Entry \in DocRecord /\ Entry.gen = Earliest /\ Earliest \in Gen
      /\ Entry.ver = 0 => Entry.ops = <<>> /\ Entry.text = Original
      /\ Entry.ver = 0 \/ doc' = Entry
  <2>1. /\ Entry \in DocRecord /\ Entry.gen = live[Manifest]
        /\ Earliest = live[Manifest] /\ live[Manifest] \in Gen
    BY <1>1, <1>2, EntryIs, LockedIsCurrent
  <2>2. CASE doc = NoDoc \/ Stale
    <3>1. Entry = DefaultEntry(live[Manifest])
      BY <1>1, <1>2, <2>2, EntryIs
    <3> QED  BY <2>1, <3>1, DefaultIsTyped
  <2>3. CASE ~(doc = NoDoc \/ Stale)
    <3>1. Entry = doc /\ doc.ver > 0 /\ doc.ver \in Nat
      BY <1>1, <1>2, <2>3, EntryIs, DocTyped DEF DocIsSound
    <3> QED  BY <1>1, <2>1, <3>1
  <2> QED  BY <2>2, <2>3
<1>5. seen' \in [Client -> SeenRecord] /\ SeenIsSound(c)' /\ \A d \in Client \ {c} : seen'[d] = seen[d]
  BY <1>1, <1>2, <1>4, ShownKnows, DocTyped
<1>6. TypeOK'
  BY <1>1, <1>2, <1>3, <1>5 DEF TypeOK, SeenRecord
<1>7. DocIsSound'
  BY <1>1, <1>2, <1>3 DEF DocIsSound, Revision, ShownAccepted, Content
<1>8. PagesAreSound'
  BY <1>1, <1>2, <1>3, <1>5, SeenKept, CallKept DEF PagesAreSound
<1> QED  BY <1>1, <1>2, <1>3, <1>6, <1>7, <1>8 DEF IInv, ReviewInv, RendersCandidates

-----------------------------------------------------------------------------
(* Edits of the document: one field of it changes. *)
AlikeBut(field, e, f) ==
  /\ f \in DocRecord
  /\ field # "gen" => f.gen = e.gen
  /\ field # "ver" => f.ver = e.ver
  /\ field # "accepted" => f.accepted = e.accepted
  /\ field # "text" => f.text = e.text
  /\ field # "ops" => f.ops = e.ops
  /\ field # "redo" => f.redo = e.redo
  /\ field # "render" => f.render = e.render

LEMMA DocWith ==
  ASSUME NEW e \in DocRecord
  PROVE  /\ \A x \in 0..MaxVersion : LET f == [e EXCEPT !.ver = x]
                                     IN  AlikeBut("ver", e, f) /\ f.ver = x
         /\ \A x \in Contents \cup {NoContent} : LET f == [e EXCEPT !.accepted = x]
                                                 IN  AlikeBut("accepted", e, f) /\ f.accepted = x
         /\ \A x \in Override : LET f == [e EXCEPT !.text = x]
                                IN  AlikeBut("text", e, f) /\ f.text = x
         /\ \A x \in Ops : LET f == [e EXCEPT !.ops = x]
                           IN  AlikeBut("ops", e, f) /\ f.ops = x
         /\ \A x \in Ops : LET f == [e EXCEPT !.redo = x]
                           IN  AlikeBut("redo", e, f) /\ f.redo = x
         /\ \A x \in {"ready", "pending", "failed"} :
              LET f == [e EXCEPT !.render = x] IN AlikeBut("render", e, f) /\ f.render = x
<1>1. ASSUME NEW x \in 0..MaxVersion
      PROVE  AlikeBut("ver", e, [e EXCEPT !.ver = x]) /\ [e EXCEPT !.ver = x].ver = x
  BY DEF DocRecord, AlikeBut
<1>2. ASSUME NEW x \in Contents \cup {NoContent}
      PROVE  AlikeBut("accepted", e, [e EXCEPT !.accepted = x]) /\ [e EXCEPT !.accepted = x].accepted = x
  BY DEF DocRecord, AlikeBut
<1>3. ASSUME NEW x \in Override
      PROVE  AlikeBut("text", e, [e EXCEPT !.text = x]) /\ [e EXCEPT !.text = x].text = x
  BY DEF DocRecord, AlikeBut
<1>4. ASSUME NEW x \in Ops
      PROVE  AlikeBut("ops", e, [e EXCEPT !.ops = x]) /\ [e EXCEPT !.ops = x].ops = x
  BY DEF DocRecord, AlikeBut
<1>5. ASSUME NEW x \in Ops
      PROVE  AlikeBut("redo", e, [e EXCEPT !.redo = x]) /\ [e EXCEPT !.redo = x].redo = x
  BY DEF DocRecord, AlikeBut
<1>6. ASSUME NEW x \in {"ready", "pending", "failed"}
      PROVE  AlikeBut("render", e, [e EXCEPT !.render = x]) /\ [e EXCEPT !.render = x].render = x
  BY DEF DocRecord, AlikeBut
<1> QED  BY <1>1, <1>2, <1>3, <1>4, <1>5, <1>6, Zenon

LEMMA ContentIs ==
  ASSUME NEW e \in DocRecord, e.gen \in Gen
  PROVE  Content(e) \in Contents /\ Content(e).gen = e.gen /\ Content(e) # NoContent
  BY Gens DEF Content, Contents, DocRecord, NoContent

(* A transcript: an acceptance only stays with the content it is of. *)
LEMMA RetextIs ==
  ASSUME NEW e \in DocRecord, NEW t \in Override, e.ver + 1 \in 0..MaxVersion
  PROVE  LET f == [Retext(e, t) EXCEPT !.ver = @ + 1]
         IN  /\ f \in DocRecord /\ f.gen = e.gen /\ f.ver = e.ver + 1 /\ f.text = t
             /\ f.ops = e.ops /\ f.redo = e.redo /\ f.render = e.render
             /\ f.accepted # NoContent =>
                  f.accepted = e.accepted /\ e.accepted = Content(e) /\ Content(f) = Content(e)
<1> DEFINE g == [e EXCEPT !.text = t]
           h == [g EXCEPT !.accepted = Kept(e, g)]
           f == [h EXCEPT !.ver = h.ver + 1]
<1>1. AlikeBut("text", e, g) /\ g.text = t
  BY DocWith
<1>2. /\ Kept(e, g) \in Contents \cup {NoContent}
      /\ Kept(e, g) # NoContent => /\ Kept(e, g) = e.accepted /\ e.accepted = Content(e)
                                   /\ Content(g) = Content(e)
  BY DEF Kept, DocRecord
<1>3. g \in DocRecord
  BY <1>1 DEF AlikeBut
<1> HIDE DEF g
<1>4. AlikeBut("accepted", g, h) /\ h.accepted = Kept(e, g)
  BY <1>2, <1>3, DocWith
<1>5. h \in DocRecord /\ h.ver = e.ver
  BY <1>1, <1>4 DEF AlikeBut
<1> HIDE DEF h
<1>6. AlikeBut("ver", h, f) /\ f.ver = h.ver + 1
  BY <1>5, DocWith
<1>7. f = [Retext(e, t) EXCEPT !.ver = @ + 1]
  BY DEF f, h, g, Retext
<1> HIDE DEF f
<1>8. Content(f) = Content(g)
  BY <1>4, <1>6 DEF AlikeBut, Content
<1> QED  BY <1>1, <1>2, <1>4, <1>5, <1>6, <1>7, <1>8 DEF AlikeBut

(* What is kept when a document of the same candidates, one version later, *)
(* is stored.                                                              *)
LEMMA StoredStep ==
  ASSUME IInv, SameCandidates, NEW c \in Client, MayEdit(c),
         doc' \in DocRecord, doc'.gen = Entry.gen, doc'.ver = Entry.ver + 1,
         Len(doc'.ops) + Len(doc'.redo) <= MaxOps,
         doc'.ops # <<>> /\ doc'.render = "ready" => Revision(doc') \in cache',
         ShownAccepted(doc') => Content(doc') = approved'
  PROVE  DocIsSound' /\ doc'.gen \in Gen /\ doc'.gen = Earliest /\ ~CutShort
<1>1. /\ Locks /\ Entry.gen \in Gen /\ Entry.gen = Earliest /\ ~CutShort /\ Entry.ver \in Nat
      /\ promotion.at \in {"idle", "staged"}
  BY EditorKnows, EntryIs, LockedIsCurrent DEF IInv, ReviewInv
<1>2. Earliest' = Earliest /\ promotion' = promotion
  BY CandidatesKept DEF IInv
<1>3. doc'.gen <= Earliest' /\ doc'.ver > 0
  <2>1. Earliest' \in Nat
    BY <1>1, <1>2, Gens
  <2> QED  BY <1>1, <1>2, <2>1
<1> QED  BY <1>1, <1>2, <1>3 DEF DocIsSound

LEMMA NothingAccepted ==
  ASSUME NEW e \in DocRecord, e.accepted = NoContent, e.gen \in Gen
  PROVE  ~ShownAccepted(e)
  BY ContentIs DEF ShownAccepted

LEMMA EntryWasApproved ==
  ASSUME TypeOK, DocIsSound, PromotionInv, Locks, ~Stale, ShownAccepted(Entry)
  PROVE  Content(Entry) = approved
<1>1. doc = NoDoc \/ Entry = doc
  BY EntryIs
<1>2. ASSUME doc = NoDoc PROVE FALSE
  BY <1>2, EntryIs, DefaultIsTyped, LockedIsCurrent, NothingAccepted
<1> QED  BY <1>1, <1>2 DEF DocIsSound

LEMMA PatchStep ==
  ASSUME IInv, NEW c \in Client, Patch(c)
  PROVE  IInv'
<1>1. PICK t \in Override :
        LET e == [Retext(Entry, t) EXCEPT !.ver = @ + 1] IN
        \/ doc' = e /\ UNCHANGED approved
        \/ doc' = [e EXCEPT !.accepted = NoContent] /\ UNCHANGED approved
        \/ doc' = Accepts(e) /\ approved' = [Content(seen[c]) EXCEPT !.text = t]
  BY DEF Patch
<1> DEFINE e == [Retext(Entry, t) EXCEPT !.ver = @ + 1]
<1>2. MayEdit(c) /\ Shows(c, doc') /\ UNCHANGED <<cache, call, export>> /\ SameCandidates
  BY DEF Patch, SameCandidates
<1>3. TypeOK /\ PromotionInv /\ DocIsSound /\ PagesAreSound /\ RendersCandidates /\ export.content = export.approved
      /\ Locks /\ ~Stale
  BY <1>2 DEF IInv, ReviewInv, MayEdit
<1>4. /\ Entry \in DocRecord /\ Entry.gen \in Gen /\ Entry.gen = Earliest /\ Entry.ver + 1 \in 0..MaxVersion
      /\ Len(Entry.ops) + Len(Entry.redo) <= MaxOps /\ ~CutShort
      /\ Entry.ops # <<>> /\ Entry.render = "ready" => Revision(Entry) \in cache
  <2>1. /\ Entry \in DocRecord /\ Entry.gen = live[Manifest] /\ Entry.ver \in Nat
        /\ Len(Entry.ops) + Len(Entry.redo) <= MaxOps
        /\ ~CutShort /\ Earliest = live[Manifest] /\ live[Manifest] \in Gen
    BY <1>3, EntryIs, LockedIsCurrent
  <2>2. Entry.ver + 1 \in 0..MaxVersion
    BY <1>2, <2>1, ClipLabAssumption DEF MayEdit
  <2>3. Entry.ops # <<>> => Entry = doc
    BY <1>3, <2>1, EntryIs, DefaultIsTyped
  <2> QED  BY <1>3, <2>1, <2>2, <2>3 DEF DocIsSound
<1>5. /\ e \in DocRecord /\ e.gen = Entry.gen /\ e.ver = Entry.ver + 1 /\ e.text = t
      /\ e.ops = Entry.ops /\ e.redo = Entry.redo /\ e.render = Entry.render
      /\ e.accepted # NoContent =>
           e.accepted = Entry.accepted /\ Entry.accepted = Content(Entry) /\ Content(e) = Content(Entry)
  BY <1>4, RetextIs
<1>6. \/ doc' = e /\ UNCHANGED approved
      \/ doc' = [e EXCEPT !.accepted = NoContent] /\ UNCHANGED approved
      \/ doc' = [e EXCEPT !.accepted = Content(e)] /\ approved' = [Content(seen[c]) EXCEPT !.text = t]
  BY <1>1 DEF Accepts
<1> HIDE DEF e
<1>7. Content(e) \in Contents /\ Content(e) # NoContent
  BY <1>4, <1>5, ContentIs
<1>8. AlikeBut("accepted", e, doc')
  <2>1. CASE doc' = e
    BY <1>5, <2>1 DEF AlikeBut
  <2>2. ASSUME NEW x \in Contents \cup {NoContent}, doc' = [e EXCEPT !.accepted = x]
        PROVE  AlikeBut("accepted", e, doc')
    BY <1>5, <2>2, DocWith
  <2> QED  BY <1>6, <1>7, <2>1, <2>2
<1>9. /\ doc' \in DocRecord /\ doc'.gen = Entry.gen /\ doc'.ver = Entry.ver + 1 /\ doc'.text = t
      /\ doc'.ops = Entry.ops /\ doc'.redo = Entry.redo /\ doc'.render = Entry.render
      /\ Content(doc') = Content(e) /\ Revision(doc') = Revision(Entry)
  BY <1>5, <1>8 DEF AlikeBut, Content, Revision
<1>10. /\ ShownAccepted(doc') => Content(doc') = approved'
       /\ approved' \in Contents \cup {NoContent}
  <2>1. CASE doc' = e /\ UNCHANGED approved
    <3>1. approved \in Contents \cup {NoContent}
      BY <1>3 DEF TypeOK
    <3>2. ASSUME ShownAccepted(e) PROVE Content(e) = approved
      BY <1>3, <1>4, <1>5, <1>7, <3>2, EntryWasApproved DEF ShownAccepted
    <3> QED  BY <2>1, <3>1, <3>2
  <2>2. CASE doc' = [e EXCEPT !.accepted = NoContent] /\ UNCHANGED approved
    <3>1. doc'.accepted = NoContent
      BY <1>5, <2>2, DocWith
    <3> QED  BY <1>3, <1>4, <1>9, <2>2, <3>1, NothingAccepted DEF TypeOK
  <2>3. CASE approved' = [Content(seen[c]) EXCEPT !.text = t]
    <3>1. Content(seen[c]) = Content(Entry)
      BY <1>2, EditorKnows
    <3>2. approved' = Content(e)
      BY <1>5, <2>3, <3>1 DEF Content
    <3> QED  BY <1>7, <1>9, <3>2
  <2> QED  BY <1>6, <2>1, <2>2, <2>3
<1>11. DocIsSound' /\ doc'.gen \in Gen /\ doc'.gen = Earliest
  BY <1>2, <1>4, <1>9, <1>10, StoredStep DEF Revision
<1>12. seen' \in [Client -> SeenRecord] /\ SeenIsSound(c)' /\ \A d \in Client \ {c} : seen'[d] = seen[d]
  <2>1. Entry.ver \in Nat
    BY <1>3, EntryIs
  <2>2. doc'.ver # 0
    BY <1>9, <2>1
  <2> QED  BY <1>2, <1>3, <1>9, <1>11, <2>2, ShownKnows, DocTyped
<1>13. \A d \in Client \ {c} : SeenIsSound(d)'
  BY <1>2, <1>9, <1>12, SeenBefore
<1>14. PromotionInv' /\ PromotionTypeOK' /\ CutShort' = CutShort
  BY <1>2, <1>3, CandidatesKept
<1>15. PagesAreSound'
  BY <1>2, <1>3, <1>12, <1>13, <1>14, CallKept DEF PagesAreSound
<1>16. TypeOK'
  BY <1>2, <1>3, <1>9, <1>10, <1>12, <1>14 DEF TypeOK, DocRecord, SeenRecord
<1> QED  BY <1>2, <1>3, <1>11, <1>14, <1>15, <1>16 DEF IInv, ReviewInv, RendersCandidates

(* An edit of the operations. *)
LEMMA EditedStep ==
  ASSUME IInv, NEW c \in Client, MayEdit(c), call[c] = NoCall,
         NEW ops \in Ops, NEW redo \in Ops, Len(ops) + Len(redo) <= MaxOps, Edited(c, ops, redo)
  PROVE  IInv'
<1> DEFINE render == IF ops = <<>> THEN "ready" ELSE "pending"
           e1 == [Entry EXCEPT !.accepted = NoContent]
           e2 == [e1 EXCEPT !.ver = Entry.ver + 1]
           e3 == [e2 EXCEPT !.ops = ops]
           e4 == [e3 EXCEPT !.redo = redo]
           e5 == [e4 EXCEPT !.render = render]
<1>1. doc' = [Entry EXCEPT !.accepted = NoContent, !.ver = @ + 1, !.ops = ops, !.redo = redo,
                           !.render = IF ops = <<>> THEN "ready" ELSE "pending"]
  BY DEF Edited
<1>2. doc' = e5 /\ render \in {"ready", "pending", "failed"}
  BY <1>1
<1>3. /\ call' = IF ops = <<>> THEN call
                ELSE [call EXCEPT ![c] = [at |-> "render", gen |-> live[Manifest], ops |-> ops]]
      /\ UNCHANGED <<cache, seen, export, approved>> /\ SameCandidates
  BY DEF Edited, SameCandidates
<1>4. TypeOK /\ PromotionInv /\ DocIsSound /\ PagesAreSound /\ RendersCandidates /\ export.content = export.approved
      /\ Locks
  BY EditorKnows DEF IInv, ReviewInv
<1>5. /\ Entry \in DocRecord /\ Entry.gen = live[Manifest] /\ live[Manifest] \in Gen
      /\ Entry.ver + 1 \in 0..MaxVersion
      /\ Earliest = live[Manifest] /\ ~CutShort /\ promotion.at \in {"idle", "staged"}
  <2>1. Entry.ver \in Nat /\ Entry.ver < MaxVersion
    BY <1>4, EntryIs, EditorKnows
  <2> QED  BY <1>4, <2>1, EntryIs, LockedIsCurrent, ClipLabAssumption
<1> HIDE DEF render
<1>6. AlikeBut("accepted", Entry, e1) /\ e1.accepted = NoContent
  BY <1>5, DocWith
<1>7. e1 \in DocRecord
  BY <1>6 DEF AlikeBut
<1> HIDE DEF e1
<1>8. AlikeBut("ver", e1, e2) /\ e2.ver = Entry.ver + 1
  BY <1>5, <1>7, DocWith
<1>9. e2 \in DocRecord
  BY <1>8 DEF AlikeBut
<1> HIDE DEF e2
<1>10. AlikeBut("ops", e2, e3) /\ e3.ops = ops
  BY <1>9, DocWith
<1>11. e3 \in DocRecord
  BY <1>10 DEF AlikeBut
<1> HIDE DEF e3
<1>12. AlikeBut("redo", e3, e4) /\ e4.redo = redo
  BY <1>11, DocWith
<1>13. e4 \in DocRecord
  BY <1>12 DEF AlikeBut
<1> HIDE DEF e4
<1>14. AlikeBut("render", e4, doc') /\ doc'.render = render
  BY <1>2, <1>13, DocWith
<1>15. /\ doc' \in DocRecord /\ doc'.gen = Entry.gen /\ doc'.ver = Entry.ver + 1
       /\ doc'.accepted = NoContent /\ doc'.ops = ops /\ doc'.redo = redo /\ doc'.render = render
  BY <1>6, <1>8, <1>10, <1>12, <1>14 DEF AlikeBut
<1>16. ~ShownAccepted(doc')
  BY <1>5, <1>15, NothingAccepted
<1>17. ops # <<>> => render # "ready"
  BY DEF render
<1>18. DocIsSound'
  BY <1>3, <1>15, <1>16, <1>17, StoredStep
<1>19. PromotionInv' /\ PromotionTypeOK' /\ CutShort' = CutShort /\ Earliest' = Earliest /\ promotion' = promotion
  BY <1>3, <1>4, CandidatesKept
<1>20. \A d \in Client : SeenIsSound(d)'
  BY <1>3, <1>15, SeenBefore
<1>21. /\ call' \in [Client -> CallRecord] /\ RendersCandidates'
       /\ \A d \in Client : CallIsSound(d)'
  <2>1. call \in [Client -> CallRecord] /\ \A d \in Client : CallIsSound(d)
    BY <1>4, <1>5, DocTyped DEF PagesAreSound
  <2>2. CASE ops = <<>>
    BY <1>3, <1>4, <2>1, <2>2, CallKept DEF RendersCandidates
  <2>3. CASE ops # <<>>
    <3> DEFINE r == [at |-> "render", gen |-> live[Manifest], ops |-> ops]
    <3>1. r \in CallRecord /\ r.at = "render" /\ r.gen = live[Manifest]
      BY <1>5 DEF CallRecord
    <3>2. call' = [call EXCEPT ![c] = r]
      BY <1>3, <2>3
    <3> HIDE DEF r
    <3>3. call' \in [Client -> CallRecord] /\ call'[c] = r /\ \A d \in Client \ {c} : call'[d] = call[d]
      BY <2>1, <3>1, <3>2
    <3>4. CallIsSound(c)'
      <4>1. Earliest' = live[Manifest] /\ Earliest' \in Nat /\ promotion'.at # "clear"
        BY <1>5, <1>19, Gens
      <4>2. call'[c].at = "render" /\ call'[c].gen = live[Manifest] /\ call'[c].gen <= Earliest'
        BY <3>1, <3>3, <4>1
      <4> QED  BY <1>5, <4>1, <4>2 DEF CallIsSound
    <3>5. RendersCandidates'
      BY <1>4, <1>5, <3>1, <3>3 DEF RendersCandidates
    <3> QED  BY <1>3, <1>4, <2>1, <3>3, <3>4, <3>5, CallKept
  <2> QED  BY <2>2, <2>3
<1>22. TypeOK'
  BY <1>3, <1>4, <1>15, <1>19, <1>21 DEF TypeOK, DocRecord, CallRecord
<1> QED  BY <1>3, <1>4, <1>18, <1>19, <1>20, <1>21, <1>22 DEF IInv, ReviewInv, PagesAreSound

LEMMA AppendOpStep ==
  ASSUME IInv, NEW c \in Client, AppendOp(c)
  PROVE  IInv'
<1>1. PICK op \in Op : Edited(c, Append(Entry.ops, op), <<>>)
  BY DEF AppendOp
<1>2. MayEdit(c) /\ call[c] = NoCall /\ Len(Entry.ops) < MaxOps
  BY DEF AppendOp, MayEdit
<1>3. Entry.ops \in Ops
  BY <1>2, EntryIs DEF IInv, ReviewInv, MayEdit, DocRecord
<1>4. /\ Append(Entry.ops, op) \in Ops /\ <<>> \in Ops
      /\ Len(Append(Entry.ops, op)) + Len(<<>>) <= MaxOps
  <2>1. Len(Entry.ops) \in Nat
    BY <1>3, OpsAre
  <2> QED  BY <1>2, <1>3, <2>1, LongerIsOps, EmptyIsOps, ClipLabAssumption
<1> QED  BY <1>1, <1>2, <1>4, EditedStep

LEMMA Shifted ==
  ASSUME NEW from \in Ops, NEW to \in Ops, from # <<>>, Len(from) + Len(to) <= MaxOps
  PROVE  /\ Front(from) \in Ops /\ Append(to, Last(from)) \in Ops
         /\ Len(Front(from)) + Len(Append(to, Last(from))) <= MaxOps
<1>1. Front(from) \in Ops /\ Len(Front(from)) = Len(from) - 1 /\ Last(from) \in Op /\ Len(from) > 0
  BY ShorterIsOps
<1>2. Len(from) \in Nat /\ Len(to) \in Nat
  BY OpsAre
<1>3. Len(to) < MaxOps
  BY <1>1, <1>2, ClipLabAssumption
<1>4. Append(to, Last(from)) \in Ops /\ Len(Append(to, Last(from))) = Len(to) + 1
  BY <1>1, <1>3, LongerIsOps
<1> QED  BY <1>1, <1>2, <1>4, ClipLabAssumption

LEMMA UndoRedoStep ==
  ASSUME IInv, NEW c \in Client, Undo(c) \/ Redo(c)
  PROVE  IInv'
<1>1. MayEdit(c) /\ call[c] = NoCall
  BY DEF Undo, Redo, MayEdit
<1>2. Entry.ops \in Ops /\ Entry.redo \in Ops /\ Len(Entry.ops) + Len(Entry.redo) <= MaxOps
      /\ Len(Entry.ops) \in Nat /\ Len(Entry.redo) \in Nat
  BY <1>1, EntryIs, OpsAre DEF IInv, ReviewInv, MayEdit, DocRecord
<1>3. CASE Undo(c)
  BY <1>1, <1>2, <1>3, Shifted, EditedStep DEF Undo
<1>4. CASE Redo(c)
  <2>0. \A m, n \in Nat : m + n = n + m
    OBVIOUS
  <2>1. /\ Entry.redo # <<>> /\ Len(Entry.redo) + Len(Entry.ops) <= MaxOps
        /\ Edited(c, Append(Entry.ops, Last(Entry.redo)), Front(Entry.redo))
    BY <2>0, <1>2, <1>4 DEF Redo
  <2>2. /\ Front(Entry.redo) \in Ops /\ Append(Entry.ops, Last(Entry.redo)) \in Ops
        /\ Len(Front(Entry.redo)) + Len(Append(Entry.ops, Last(Entry.redo))) <= MaxOps
    BY <1>2, <2>1, Shifted
  <2>3. \A s \in Ops : Len(s) \in Nat
    BY OpsAre
  <2>5. Len(Append(Entry.ops, Last(Entry.redo))) + Len(Front(Entry.redo)) <= MaxOps
    BY <2>0, <2>2, <2>3, Zenon
  <2> QED  BY <1>1, <2>1, <2>2, <2>5, EditedStep
<1> QED  BY <1>3, <1>4

-----------------------------------------------------------------------------
(* Renderings, exports and restarts. *)
LEMMA CallMoves ==
  ASSUME IInv, NEW c \in Client, NEW at \in {"none", "render", "rendered", "failed"}, at # "none",
         call[c].at # "none", call' = [call EXCEPT ![c].at = at], cache \subseteq cache',
         at = "rendered" => Revision(call[c]) \in cache', SameCandidates
  PROVE  /\ call' \in [Client -> CallRecord] /\ RendersCandidates'
         /\ ~CutShort => \A d \in Client : CallIsSound(d)'
<1>1. call \in [Client -> CallRecord]
  BY DocTyped DEF IInv
<1>2. call[c] \in CallRecord
  BY <1>1
<1>3. /\ call' \in [Client -> CallRecord] /\ call'[c].at = at
      /\ call'[c].gen = call[c].gen /\ call'[c].ops = call[c].ops
      /\ \A d \in Client \ {c} : call'[d] = call[d]
  BY <1>1, <1>2 DEF CallRecord
<1>4. ASSUME ~CutShort, NEW d \in Client PROVE CallIsSound(d)'
  <2>1. CallIsSound(d) /\ PromotionInv
    BY <1>4 DEF IInv, ReviewInv, PagesAreSound
  <2>2. CASE d # c
    BY <1>3, <2>1, <2>2, CallKept
  <2>3. CASE d = c
    BY <1>3, <2>1, <2>3, CandidatesKept DEF CallIsSound, Revision
  <2> QED  BY <2>2, <2>3
<1>5. RendersCandidates'
  BY <1>3 DEF IInv, ReviewInv, RendersCandidates
<1> QED  BY <1>3, <1>4, <1>5

LEMMA RenderStep ==
  ASSUME IInv, NEW c \in Client, Render(c)
  PROVE  IInv'
<1>1. /\ call[c].at = "render" /\ SameCandidates /\ UNCHANGED <<doc, seen, export, approved>>
      /\ \/ /\ cache' = cache \cup {Revision(call[c])}
            /\ \E at \in {"rendered", "failed"} : call' = [call EXCEPT ![c].at = at]
         \/ call' = [call EXCEPT ![c].at = "failed"] /\ cache' = cache
  BY DEF Render, SameCandidates
<1>2. TypeOK /\ PromotionInv /\ DocIsSound /\ PagesAreSound /\ RendersCandidates
      /\ export.content = export.approved
  BY DEF IInv, ReviewInv
<1>3. cache \subseteq cache'
  BY <1>1
<1>4. /\ call' \in [Client -> CallRecord] /\ RendersCandidates'
      /\ ~CutShort => \A d \in Client : CallIsSound(d)'
  <2>1. CASE /\ cache' = cache \cup {Revision(call[c])}
             /\ \E at \in {"rendered", "failed"} : call' = [call EXCEPT ![c].at = at]
    BY <1>1, <1>3, <2>1, CallMoves
  <2>2. CASE call' = [call EXCEPT ![c].at = "failed"]
    BY <1>1, <1>3, <2>2, CallMoves
  <2> QED  BY <1>1, <2>1, <2>2
<1>5. PromotionInv' /\ PromotionTypeOK' /\ Earliest' = Earliest /\ CutShort' = CutShort /\ promotion' = promotion
  BY <1>1, <1>2, CandidatesKept
<1>6. cache' \subseteq Gen \X Ops
  <2>1. cache \subseteq Gen \X Ops
    BY <1>2 DEF TypeOK
  <2>2. call[c].gen \in Gen /\ call[c].ops \in Ops
    BY <1>1, <1>2, DocTyped DEF RendersCandidates, CallRecord
  <2>3. Revision(call[c]) \in Gen \X Ops
    BY <2>2, Gens, ClipLabAssumption DEF Revision, Source
  <2> QED  BY <1>1, <2>1, <2>3
<1>7. TypeOK'
  BY <1>1, <1>2, <1>4, <1>5, <1>6 DEF TypeOK, CallRecord
<1>8. DocIsSound'
  BY <1>1, <1>2, <1>3, <1>5 DEF DocIsSound, Revision, ShownAccepted, Content
<1>9. PagesAreSound'
  BY <1>1, <1>2, <1>4, <1>5, SeenKept DEF PagesAreSound
<1> QED  BY <1>1, <1>2, <1>4, <1>5, <1>7, <1>8, <1>9 DEF IInv, ReviewInv

LEMMA NoCallIsSound ==
  /\ NoCall \in CallRecord /\ NoCall.at = "none"
  BY EmptyIsOps DEF NoCall, CallRecord

LEMMA CallEnds ==
  ASSUME NEW c \in Client, call'[c] = NoCall
  PROVE  CallIsSound(c)'
  BY NoCallIsSound DEF CallIsSound

LEMMA FinalizeStep ==
  ASSUME IInv, NEW c \in Client, Finalize(c)
  PROVE  IInv'
<1> DEFINE render == IF call[c].at = "rendered" THEN "ready" ELSE "failed"
<1>1. /\ call[c].at \in {"rendered", "failed"} /\ SameCandidates
      /\ UNCHANGED <<cache, seen, export, approved>>
      /\ call' = [call EXCEPT ![c] = NoCall]
      /\ \/ Locks /\ StillCurrent(c) /\ doc' = [doc EXCEPT !.render = render]
         \/ doc' = doc
  BY DEF Finalize, SameCandidates
<1>2. TypeOK /\ PromotionInv /\ DocIsSound /\ PagesAreSound /\ RendersCandidates
      /\ export.content = export.approved
  BY DEF IInv, ReviewInv
<1>3. PromotionInv' /\ PromotionTypeOK' /\ Earliest' = Earliest /\ CutShort' = CutShort /\ promotion' = promotion
  BY <1>1, <1>2, CandidatesKept
<1>4. /\ call' \in [Client -> CallRecord] /\ call'[c] = NoCall
      /\ \A d \in Client \ {c} : call'[d] = call[d]
  BY <1>1, <1>2, DocTyped, NoCallIsSound
<1>5. RendersCandidates' /\ (~CutShort => \A d \in Client : CallIsSound(d)')
  BY <1>1, <1>2, <1>4, NoCallIsSound, CallEnds, CallKept DEF RendersCandidates, PagesAreSound
<1>6. /\ doc' \in DocRecord /\ doc'.gen = doc.gen /\ doc'.ver = doc.ver /\ doc'.text = doc.text
      /\ doc'.ops = doc.ops /\ doc'.redo = doc.redo /\ doc'.accepted = doc.accepted
      /\ doc'.render # doc.render => doc' # NoDoc /\ doc # NoDoc
      /\ doc'.render = doc.render => doc' = doc
      /\ doc'.ops # <<>> /\ doc'.render = "ready" => Revision(doc') \in cache
  <2>1. doc \in DocRecord
    BY <1>2, DocTyped
  <2>2. CASE doc' = doc
    BY <1>2, <2>1, <2>2 DEF DocIsSound, Revision
  <2>3. CASE Locks /\ StillCurrent(c) /\ doc' = [doc EXCEPT !.render = render]
    <3>1. AlikeBut("render", doc, doc') /\ doc'.render = render
      BY <2>1, <2>3, DocWith
    <3>2. /\ doc # NoDoc /\ doc.ops # <<>> /\ Revision(doc) = Revision(call[c])
          /\ call[c].gen = live[Manifest]
      BY <2>3 DEF StillCurrent
    <3>3. ~CutShort /\ Earliest = live[Manifest] /\ live[Manifest] \in Gen
      BY <1>2, <2>3, LockedIsCurrent
    <3>4. render = "ready" => Revision(call[c]) \in cache
      BY <1>1, <1>2, <3>2, <3>3, Gens DEF PagesAreSound, CallIsSound
    <3>5. doc' # NoDoc
      BY <3>1, <3>2, DefaultIsTyped DEF AlikeBut, NoDoc
    <3>6. doc'.render = doc.render => doc' = doc
      BY <2>1, <2>3, <3>1 DEF DocRecord
    <3>7. Revision(doc') = Revision(doc)
      BY <3>1 DEF AlikeBut, Revision
    <3> HIDE DEF render
    <3> QED  BY <3>1, <3>2, <3>4, <3>5, <3>6, <3>7 DEF AlikeBut
  <2> QED  BY <1>1, <2>2, <2>3
<1>7. DocIsSound'
  BY <1>1, <1>2, <1>3, <1>6 DEF DocIsSound, ShownAccepted, Content
<1>8. (doc' = NoDoc) = (doc = NoDoc)
  BY <1>6
<1>9. ASSUME NEW d \in Client, SeenIsSound(d) PROVE SeenIsSound(d)'
  BY <1>1, <1>3, <1>6, <1>8, <1>9 DEF SeenIsSound, Knows
<1>10. PagesAreSound'
  BY <1>2, <1>3, <1>5, <1>9 DEF PagesAreSound
<1>11. TypeOK'
  BY <1>1, <1>2, <1>3, <1>4, <1>6 DEF TypeOK, CallRecord, DocRecord
<1> QED  BY <1>1, <1>2, <1>3, <1>5, <1>7, <1>10, <1>11 DEF IInv, ReviewInv

LEMMA ExportStep ==
  ASSUME IInv, Collect \/ Export
  PROVE  IInv'
<1>1. SameCandidates /\ UNCHANGED <<doc, cache, seen, call, approved>>
  BY DEF Collect, Export, SameCandidates
<1>2. TypeOK /\ PromotionInv /\ DocIsSound /\ PagesAreSound /\ RendersCandidates
      /\ export.content = export.approved
  BY DEF IInv, ReviewInv
<1>3. PromotionInv' /\ PromotionTypeOK' /\ Earliest' = Earliest /\ CutShort' = CutShort /\ promotion' = promotion
  BY <1>1, <1>2, CandidatesKept
<1> DEFINE Exported == [at : {"none", "collected", "written"}, content : Contents \cup {NoContent},
                        render : {"ready", "pending", "failed"}, approved : Contents \cup {NoContent}]
<1>4. export' \in Exported /\ export'.content = export'.approved
  <2>1. CASE Collect
    <3>1. ShownAccepted(doc)
      BY <2>1 DEF Collect
    <3>2. doc # NoDoc /\ doc.gen \in Gen /\ Content(doc) = approved
      BY <1>2, <3>1, DefaultIsTyped DEF DocIsSound, ShownAccepted, NoDoc
    <3>3. Content(doc) \in Contents /\ doc.render \in {"ready", "pending", "failed"}
      BY <1>2, <3>2, ContentIs, DocTyped DEF DocRecord
    <3> QED  BY <2>1, <3>2, <3>3 DEF Collect
  <2>2. CASE Export
    <3>1. export \in Exported
      BY <1>2 DEF TypeOK
    <3>2. export' \in {[export EXCEPT !.at = "written"], NoExport}
      BY <2>2 DEF Export
    <3> QED  BY <1>2, <3>1, <3>2 DEF NoExport
  <2> QED  BY <2>1, <2>2
<1>5. TypeOK'
  BY <1>1, <1>2, <1>3, <1>4 DEF TypeOK
<1>6. DocIsSound' /\ PagesAreSound' /\ RendersCandidates'
  BY <1>1, <1>2, <1>3, SeenKept, CallKept
     DEF DocIsSound, PagesAreSound, RendersCandidates, Revision, ShownAccepted, Content
<1> QED  BY <1>3, <1>4, <1>5, <1>6 DEF IInv, ReviewInv

LEMMA RestartStep ==
  ASSUME IInv, Restart
  PROVE  IInv'
<1>1. /\ SameCandidates /\ UNCHANGED <<doc, cache, seen, approved>>
      /\ call' = [c \in Client |-> NoCall]
      /\ export' \in {export, NoExport}
  BY DEF Restart, SameCandidates
<1>2. TypeOK /\ PromotionInv /\ DocIsSound /\ PagesAreSound /\ RendersCandidates
      /\ export.content = export.approved
  BY DEF IInv, ReviewInv
<1>3. PromotionInv' /\ PromotionTypeOK' /\ Earliest' = Earliest /\ CutShort' = CutShort /\ promotion' = promotion
  BY <1>1, <1>2, CandidatesKept
<1>4. call' \in [Client -> CallRecord] /\ \A c \in Client : call'[c] = NoCall /\ CallIsSound(c)'
  BY <1>1, NoCallIsSound, CallEnds
<1>5. TypeOK' /\ export'.content = export'.approved
  BY <1>1, <1>2, <1>3, <1>4 DEF TypeOK, CallRecord, NoExport
<1>6. DocIsSound' /\ PagesAreSound' /\ RendersCandidates'
  BY <1>1, <1>2, <1>3, <1>4, NoCallIsSound, SeenKept
     DEF DocIsSound, PagesAreSound, RendersCandidates, Revision, ShownAccepted, Content
<1> QED  BY <1>3, <1>5, <1>6 DEF IInv, ReviewInv

-----------------------------------------------------------------------------
(* The replacement of the candidates never goes back to earlier ones. *)
LEMMA ManifestIs ==
  ASSUME PromotionInv
  PROVE  /\ promotion.at \in Moving =>
              /\ backup.there /\ promotion.previous <= promotion.gen
              /\ live[Manifest] \in {None, promotion.previous, promotion.gen}
         /\ promotion.at = "drop" => live[Manifest] = promotion.gen
         /\ promotion.at = "dropFailed" => live[Manifest] = promotion.previous
         /\ promotion.at \in {"archive", "clear"} => live[Manifest] = promotion.gen
         /\ promotion.at = "archive" => promotion.previous < promotion.gen
<1>1. Manifest \in Part
  BY Gens
<1>2. CASE promotion.at = "backup"
  BY <1>1, <1>2 DEF PromotionInv, PartsAreWhere, LiveIs, Moving
<1>3. CASE promotion.at \in {"promote", "restore"}
  BY <1>1, <1>3 DEF PromotionInv, PartsAreWhere, LiveIs, Moving
<1>4. CASE promotion.at \notin {"backup", "promote", "restore"}
  BY <1>1, <1>4 DEF PromotionInv, PartsAreWhere, LiveIs, Moving
<1> QED  BY <1>2, <1>3, <1>4

LEMMA NeverEarlier ==
  ASSUME PromotionInv, Promotes
  PROVE  ~CutShort' => ~CutShort /\ Earliest <= Earliest' /\ promotion'.at # "clear"
<1>1. promotion.gen \in Nat /\ promotion.previous \in Nat /\ live[Manifest] \in Nat /\ Earliest \in Nat
  BY Typed, Gens DEF Earliest
<1>2. CASE Stage
  BY <1>1, <1>2 DEF Stage, Idle, Earliest, CutShort, Moving
<1>3. CASE Lock
  <2>1. promotion.at = "staged" /\ promotion'.at = "backup" /\ promotion'.previous = live[Manifest]
    BY <1>3 DEF Lock, PromotionInv, PromotionTypeOK
  <2> QED  BY <1>1, <2>1 DEF Earliest, CutShort, Moving
<1>4. CASE BackUp \/ Promote \/ Restore
  <2>1. /\ promotion.at \in Moving /\ promotion'.at \in Moving
        /\ promotion'.previous = promotion.previous
    BY <1>4, Moved DEF BackUp, Promote, Restore, Moving
  <2> QED  BY <1>1, <2>1 DEF Earliest, CutShort, Moving
<1>5. CASE PromoteFails
  <2>1. promotion.at = "promote" /\ promotion'.at = "restore" /\ promotion'.previous = promotion.previous
    BY <1>5 DEF PromoteFails, PromotionInv, PromotionTypeOK
  <2> QED  BY <1>1, <2>1 DEF Earliest, CutShort, Moving
<1>6. CASE Drop
  <2>1. promotion.at \in {"drop", "dropFailed"} /\ live' = live
    BY <1>6 DEF Drop
  <2>2. /\ live[Manifest] >= promotion.previous /\ Earliest = promotion.previous
        /\ promotion.at # "idle"
    BY <1>1, <2>1, ManifestIs DEF Earliest, Moving
  <2>3. \/ promotion'.at = "archive" /\ promotion'.previous = promotion.previous
        \/ promotion'.at = "idle"
    BY <1>6 DEF Drop, Idle, PromotionInv, PromotionTypeOK
  <2> QED  BY <1>1, <2>1, <2>2, <2>3 DEF Earliest, CutShort, Moving
<1>7. CASE Dies
  <2>1. promotion.at # "idle" /\ promotion'.at = "idle" /\ live' = live /\ backup' = backup
    BY <1>7 DEF Dies, Idle
  <2>2. ASSUME promotion.at \in Moving \cup {"archive"}, ~CutShort'
        PROVE  live[Manifest] >= promotion.previous
    <3>1. promotion.at = "archive" \/ live[Manifest] # None
      BY <2>1, <2>2, ManifestIs DEF CutShort
    <3> QED  BY <1>1, <2>2, <3>1, ManifestIs
  <2> QED  BY <1>1, <2>1, <2>2 DEF Earliest, CutShort, Moving
<1> QED  BY <1>2, <1>3, <1>4, <1>5, <1>6, <1>7 DEF Promotes

LEMMA PromotesStep ==
  ASSUME IInv, Promotes, UNCHANGED review
  PROVE  IInv'
<1>1. UNCHANGED <<doc, cache, seen, call, export, approved>>
  BY DEF review
<1>2. TypeOK /\ PromotionInv /\ DocIsSound /\ PagesAreSound /\ RendersCandidates
      /\ export.content = export.approved
  BY DEF IInv, ReviewInv
<1>3. PromotionInv'
  BY <1>2, PromotionStep
<1>4. ~CutShort' => ~CutShort /\ Earliest <= Earliest' /\ promotion'.at # "clear"
  BY <1>2, NeverEarlier
<1>5. Earliest \in Nat /\ Earliest' \in Nat
  <2>1. Earliest \in Nat
    BY <1>2, Typed, Gens DEF Earliest
  <2>2. promotion'.previous \in Nat /\ live'[Manifest] \in Nat
    <3>1. promotion'.previous \in Gen \cup {None} /\ live' \in [Part -> Gen \cup {None}]
      BY <1>3 DEF PromotionInv, PromotionTypeOK, Parts
    <3>2. Gen \cup {None} \subseteq Nat /\ Manifest \in Part
      BY Gens
    <3>3. live'[Manifest] \in Gen \cup {None}
      BY <3>1, <3>2
    <3> QED  BY <3>1, <3>2, <3>3
  <2> QED  BY <2>1, <2>2 DEF Earliest
<1>6. TypeOK' /\ RendersCandidates'
  BY <1>1, <1>2, <1>3 DEF TypeOK, PromotionInv, RendersCandidates
<1>7. ~(promotion'.at = "clear")
  BY <1>4 DEF CutShort
<1>8. DocIsSound'
  <2>1. doc.gen \in Nat
    BY <1>2, DocTyped
  <2>2. ~CutShort' => doc.gen <= Earliest'
    BY <1>2, <1>4, <1>5, <2>1 DEF DocIsSound
  <2> QED  BY <1>1, <1>2, <1>7, <2>2 DEF DocIsSound, Revision, ShownAccepted, Content
<1>9. ASSUME ~CutShort', NEW c \in Client PROVE SeenIsSound(c)' /\ CallIsSound(c)'
  <2>1. SeenIsSound(c) /\ CallIsSound(c) /\ Earliest <= Earliest'
    BY <1>2, <1>4, <1>9 DEF PagesAreSound
  <2>2. seen[c].gen \in Nat /\ call[c].gen \in Nat
    BY <1>2, DocTyped
  <2>3. SeenIsSound(c)'
    BY <1>1, <1>5, <2>1, <2>2 DEF SeenIsSound, Knows
  <2>4. CallIsSound(c)'
    BY <1>1, <1>5, <1>7, <2>1, <2>2 DEF CallIsSound, Revision
  <2> QED  BY <2>3, <2>4
<1>10. PagesAreSound'
  BY <1>9 DEF PagesAreSound
<1> QED  BY <1>1, <1>2, <1>3, <1>6, <1>8, <1>10 DEF IInv, ReviewInv

LEMMA ArchiveStep ==
  ASSUME IInv, Archive
  PROVE  IInv'
<1>1. /\ Archived /\ doc' = NoDoc /\ approved' = NoContent
      /\ UNCHANGED <<cache, seen, call, export>>
  BY DEF Archive
<1>2. TypeOK /\ PromotionInv /\ DocIsSound /\ PagesAreSound /\ RendersCandidates
      /\ export.content = export.approved
  BY DEF IInv, ReviewInv
<1>3. PromotionInv'
  BY <1>1, <1>2, PromotionStep
<1>4. /\ promotion.at = "archive" /\ promotion'.at = "clear" /\ live' = live
  BY <1>1, <1>2 DEF Archived, PromotionInv, PromotionTypeOK
<1>5. /\ promotion.previous \in Nat /\ promotion.gen \in Nat
      /\ live[Manifest] = promotion.gen /\ promotion.previous < promotion.gen
  BY <1>2, <1>4, Typed, ManifestIs
<1>6. /\ ~CutShort /\ Earliest \in Nat /\ Earliest' \in Nat /\ Earliest < Earliest'
  BY <1>4, <1>5 DEF CutShort, Earliest, Moving
<1>7. /\ NoDoc \in DocRecord /\ NoDoc.ops = <<>> /\ NoDoc.redo = <<>> /\ NoDoc.gen = None
  BY DefaultIsTyped DEF NoDoc
<1>8. DocIsSound'
  BY <1>1, <1>6, <1>7, EmptyIsOps, ClipLabAssumption, Gens DEF DocIsSound, ShownAccepted
<1>9. ASSUME NEW c \in Client PROVE SeenIsSound(c)' /\ CallIsSound(c)'
  <2>1. /\ SeenIsSound(c) /\ CallIsSound(c)
        /\ seen[c].gen \in Nat /\ call[c].gen \in Nat /\ doc.gen \in Nat
        /\ doc.gen <= Earliest
    BY <1>2, <1>6, DocTyped DEF PagesAreSound, DocIsSound
  <2>2. seen[c].gen < Earliest'
    BY <1>6, <2>1 DEF SeenIsSound
  <2>3. SeenIsSound(c)'
    BY <1>1, <1>6, <2>1, <2>2 DEF SeenIsSound
  <2>4. call[c].at # "none" => call[c].gen < Earliest'
    BY <1>6, <2>1 DEF CallIsSound
  <2>5. CallIsSound(c)'
    BY <1>1, <1>6, <2>1, <2>4 DEF CallIsSound
  <2> QED  BY <2>3, <2>5
<1>10. PagesAreSound' /\ RendersCandidates'
  BY <1>1, <1>2, <1>9 DEF PagesAreSound, RendersCandidates
<1>11. TypeOK'
  BY <1>1, <1>2, <1>3, <1>7 DEF TypeOK, PromotionInv, DocRecord
<1> QED  BY <1>1, <1>2, <1>3, <1>8, <1>10, <1>11 DEF IInv, ReviewInv

LEMMA ClearStep ==
  ASSUME IInv, Clear
  PROVE  IInv'
<1>1. /\ Cleared /\ cache' = {} /\ UNCHANGED <<doc, seen, call, export, approved>>
  BY DEF Clear
<1>2. TypeOK /\ PromotionInv /\ DocIsSound /\ PagesAreSound /\ RendersCandidates
      /\ export.content = export.approved
  BY DEF IInv, ReviewInv
<1>3. PromotionInv'
  BY <1>1, <1>2, PromotionStep
<1>4. promotion.at = "clear" /\ promotion'.at = "idle" /\ live' = live
  BY <1>1 DEF Cleared, Idle
<1>5. /\ ~CutShort /\ Earliest' = Earliest /\ doc = NoDoc
  BY <1>2, <1>4 DEF CutShort, Earliest, Moving, DocIsSound
<1>6. NoDoc.ops = <<>>
  BY DefaultIsTyped DEF NoDoc
<1>7. DocIsSound'
  BY <1>1, <1>2, <1>4, <1>5, <1>6 DEF DocIsSound, ShownAccepted, Content
<1>8. ASSUME NEW c \in Client PROVE SeenIsSound(c)' /\ CallIsSound(c)'
  <2>1. /\ SeenIsSound(c) /\ CallIsSound(c)
    BY <1>2, <1>5 DEF PagesAreSound
  <2>2. SeenIsSound(c)'
    BY <1>1, <1>5, <2>1 DEF SeenIsSound, Knows
  <2>3. CallIsSound(c)'
    BY <1>1, <1>4, <1>5, <2>1 DEF CallIsSound
  <2> QED  BY <2>2, <2>3
<1>9. PagesAreSound' /\ RendersCandidates'
  BY <1>1, <1>2, <1>8 DEF PagesAreSound, RendersCandidates
<1>10. TypeOK'
  BY <1>1, <1>2, <1>3 DEF TypeOK, PromotionInv
<1> QED  BY <1>1, <1>2, <1>3, <1>7, <1>9, <1>10 DEF IInv, ReviewInv

-----------------------------------------------------------------------------
(* The inductive invariant. *)
LEMMA InitIsSound == Init => IInv
<1> SUFFICES ASSUME Init PROVE IInv
  OBVIOUS
<1>1. /\ live = [a \in Part |-> None] /\ backup = NoBackup /\ promotion = Idle
      /\ doc = NoDoc /\ cache = {} /\ export = NoExport
      /\ seen = [c \in Client |-> NoView] /\ call = [c \in Client |-> NoCall]
      /\ approved = NoContent
  BY DEF Init, PromotionInit
<1>2. /\ NoDoc \in DocRecord /\ NoDoc.ops = <<>> /\ NoDoc.redo = <<>> /\ NoDoc.gen = None
      /\ NoDoc.accepted = NoContent
  BY DefaultIsTyped DEF NoDoc
<1>3. /\ NoView \in SeenRecord /\ NoView.gen = None /\ NoView.ver = 0
      /\ NoView.ops = <<>> /\ NoView.text = Original
  BY EmptyIsOps, ClipLabAssumption DEF NoView, SeenRecord, Override
<1>4. PromotionTypeOK
  BY <1>1, IdleIsTyped DEF PromotionTypeOK, PromotionRecord, Parts, NoBackup
<1>5. CandidatesAreWhole
  BY <1>1 DEF CandidatesAreWhole, CandidatesAreOneGeneration, CandidatesSurvive, NoBackup
<1>6. PromotionInv
  BY <1>1, <1>4, <1>5, IdleIsTyped DEF PromotionInv, PartsAreWhere, Moving, Part
<1>7. TypeOK
  <2>1. doc \in DocRecord /\ seen \in [Client -> SeenRecord] /\ call \in [Client -> CallRecord]
    BY <1>1, <1>2, <1>3, NoCallIsSound
  <2> QED  BY <1>1, <1>4, <2>1 DEF TypeOK, DocRecord, SeenRecord, CallRecord, NoExport
<1>8. Earliest = None /\ None = 0
  BY <1>1, IdleIsTyped, Gens DEF Earliest, Moving, Manifest, Part
<1>9. DocIsSound
  BY <1>1, <1>2, <1>8, EmptyIsOps, ClipLabAssumption, IdleIsTyped DEF DocIsSound, ShownAccepted
<1>10. PagesAreSound /\ RendersCandidates
  BY <1>1, <1>3, <1>8, NoCallIsSound DEF PagesAreSound, RendersCandidates, SeenIsSound, CallIsSound
<1> QED  BY <1>1, <1>6, <1>7, <1>9, <1>10 DEF IInv, ReviewInv, NoExport

LEMMA Unchanged ==
  ASSUME IInv, UNCHANGED vars
  PROVE  IInv'
<1>1. /\ SameCandidates
      /\ UNCHANGED <<doc, cache, seen, call, export, approved>>
  BY DEF vars, review, SameCandidates
<1>2. TypeOK /\ PromotionInv /\ DocIsSound /\ PagesAreSound /\ RendersCandidates
      /\ export.content = export.approved
  BY DEF IInv, ReviewInv
<1>3. PromotionInv' /\ PromotionTypeOK' /\ Earliest' = Earliest /\ CutShort' = CutShort /\ promotion' = promotion
  BY <1>1, <1>2, CandidatesKept
<1>4. DocIsSound' /\ PagesAreSound' /\ RendersCandidates'
  BY <1>1, <1>2, <1>3, SeenKept, CallKept
     DEF DocIsSound, PagesAreSound, RendersCandidates, Revision, ShownAccepted, Content
<1> QED  BY <1>1, <1>2, <1>3, <1>4 DEF IInv, ReviewInv, TypeOK

LEMMA Inductive == IInv /\ [Next]_vars => IInv'
<1> SUFFICES ASSUME IInv, [Next]_vars PROVE IInv'
  OBVIOUS
<1>1. ASSUME NEW c \in Client, Requests(c) \/ Render(c) \/ Finalize(c) PROVE IInv'
  BY <1>1, ViewStep, PatchStep, AppendOpStep, UndoRedoStep, RenderStep, FinalizeStep DEF Requests
<1> QED  BY <1>1, ExportStep, RestartStep, PromotesStep, ArchiveStep, ClearStep, Unchanged DEF Next

(* The review and the promotion stay as IInv describes them, step by step  *)
(* of both (clip_lab_state.py, clip_lab_coordination.py).                  *)
THEOREM Invariant == Spec => []IInv
  BY InitIsSound, Inductive, PTL DEF Spec

-----------------------------------------------------------------------------
(* Every variable of the review and of the promotion keeps its type; in    *)
(* particular the operations, done and undone, never exceed their bound    *)
(* (clip_lab_audio_ops.py).                                                *)
THEOREM TypeCorrect == Spec => []TypeOK
<1>1. IInv => TypeOK
  BY DEF IInv
<1> QED  BY <1>1, Invariant, PTL

(* Wherever a move fails or the worker dies, whoever takes the lock and    *)
(* finds no backup works on one generation, and none is lost               *)
(* (clip_lab_coordination.py).                                             *)
THEOREM WholeCandidates == Spec => []CandidatesAreWhole
<1>1. IInv => CandidatesAreWhole
  BY DEF IInv, PromotionInv
<1> QED  BY <1>1, Invariant, PTL

(* What is shown or exported as accepted was accepted in that form, and a  *)
(* rendering that is called ready is on disk (clip_lab_state.py,           *)
(* clip_lab_audio_ops.py, canonical_export.py).                            *)
THEOREM TrueReview == Spec => []ReviewIsTrue
<1>1. IInv => ReviewIsTrue
  BY DEF IInv, ReviewInv, DocIsSound, ReviewIsTrue, AcceptedWasSeen, ReadyIsOnDisk
<1> QED  BY <1>1, Invariant, PTL

-----------------------------------------------------------------------------
(* A client that changes the transcript, the edits or the status has a     *)
(* page that shows what it changes: the version and the manifest that its  *)
(* request names are those of the entry it edits (clip_lab_state.py), and  *)
(* a version and a manifest stand for one transcript and one list of edits *)
(* (EditorKnows).                                                          *)
THEOREM SeenIsChanged == Spec => ChangesWhatWasSeen
<1> DEFINE Seen == \A c \in Client : Changed /\ ~ShowsCurrent(c) => ~Edits(c)
<1>1. ASSUME IInv PROVE Seen
  <2>1. ASSUME NEW c \in Client, Edits(c) PROVE MayEdit(c)
    BY <2>1 DEF Edits, Patch, AppendOp, Undo, Redo
  <2> QED  BY <1>1, <2>1, EditorKnows DEF ShowsCurrent
<1>2. IInv => [Seen]_vars
  BY <1>1
<1> QED  BY <1>2, Invariant, PTL DEF Spec, ChangesWhatWasSeen

-----------------------------------------------------------------------------
(* The audio of a clip (Edit is the module AudioEdits).                    *)
Recipes == Seq(Sent)
Keys    == [source : {Samples[g] : g \in Edit!Gen}, ops : Recipes]
Made(k) == IF k.ops = <<>> THEN k.source ELSE Edit!Rendered(k.source, k.ops)
Sounds  == {Made(k) : k \in Keys} \cup {<<>>}

Generations == Edit!Gen \cup {Edit!Absent}
EditRecord == [gen : Generations, ops : Recipes, redo : Recipes,
               status : {"ready", "pending", "failed"}, sha : Sounds]
JobRecord  == [at : {"none", "look", "made", "peaks", "rendered", "failed"},
               gen : Generations, key : Keys \cup {Edit!Absent}, samples : Sounds]

EditTypes ==
  /\ manifest \in Generations /\ audio \in Generations
  /\ native \in Generations \cup {Edit!Torn} /\ overtaken \in BOOLEAN
  /\ slicer \in {"idle", "cleared", "resumed", "archived", "renders"}
  /\ edit \in EditRecord /\ job \in [Client -> JobRecord]
  /\ DOMAIN wav \subseteq Keys /\ DOMAIN peaks \subseteq Keys
  /\ edits \in 0 .. MaxEdits

(* Every file holds what its key says.                                     *)
FilesAreMade ==
  /\ \A k \in DOMAIN wav : k.ops # <<>> /\ wav[k] = Made(k)
  /\ \A k \in DOMAIN peaks : peaks[k] = Made(k)

(* What a request has in hand; and, as long as the candidates are those it *)
(* began with, what it has published.                                      *)
JobSound(j) ==
  /\ j.at # "none" => j.key \in Keys
  /\ j.at \in {"look", "made"} => j.gen # Edit!Absent
  /\ j.gen # Edit!Absent =>
       j.at # "none" /\ j.key.source = Samples[j.gen] /\ j.key.ops # <<>>
  /\ j.at = "look" => j.samples = j.key.source
  /\ j.at \in {"made", "peaks", "rendered"} => j.samples = Made(j.key)
  /\ j.gen # Edit!Absent /\ j.gen = manifest =>
       /\ j.at \in {"peaks", "rendered"} => j.key \in DOMAIN wav
       /\ j.at = "rendered" => j.key \in DOMAIN peaks
  /\ manifest # Edit!Absent => j.gen <= manifest
  /\ slicer \in {"archived", "renders"} => j.gen # manifest

(* What the review's entry says of the audio.                              *)
EditSound ==
  /\ manifest # Edit!Absent => edit.gen \in {Edit!Absent, manifest}
  /\ slicer \in {"archived", "renders"} => edit = Edit!NoEdit /\ manifest # Edit!Absent
  /\ edit.gen = Edit!Absent => edit.ops = <<>>
  /\ edit.ops # <<>> /\ edit.status = "ready" =>
       /\ Edit!KeyOf(edit.gen, edit.ops) \in DOMAIN wav
       /\ Edit!KeyOf(edit.gen, edit.ops) \in DOMAIN peaks
       /\ edit.sha = Made(Edit!KeyOf(edit.gen, edit.ops))

EditInv == /\ EditTypes /\ FilesAreMade /\ EditSound
           /\ \A r \in Client : JobSound(job[r])

-----------------------------------------------------------------------------
LEMMA GenerationsAre ==
  /\ Edit!Absent = 0 /\ Edit!Gen = 1 .. 2 /\ Len(Samples) = 2
  /\ Edit!Absent \notin Edit!Gen /\ Generations = 0 .. 2
<1>1. Len(Samples) = 2 /\ DOMAIN Samples = 1 .. 2
  BY DEF Samples
<1> QED BY <1>1 DEF Edit!Absent, Edit!Gen, Generations

LEMMA KeysAre ==
  ASSUME NEW g \in Edit!Gen, NEW ops \in Recipes
  PROVE  /\ Edit!KeyOf(g, ops) \in Keys
         /\ Edit!KeyOf(g, ops).source = Samples[g] /\ Edit!KeyOf(g, ops).ops = ops
BY DEF Edit!KeyOf, Keys

LEMMA SourceIsMade ==
  ASSUME NEW k \in Keys
  PROVE  Made(k) \in Sounds /\ k.source \in Sounds
<1> DEFINE e == [k EXCEPT !.ops = <<>>]
<1>1. <<>> \in Recipes
  BY DEF Recipes
<1>2. e \in Keys /\ e.ops = <<>> /\ e.source = k.source
  BY <1>1 DEF Keys
<1>3. Made(e) = k.source
  BY <1>2 DEF Made
<1> HIDE DEF e
<1> QED BY <1>2, <1>3 DEF Sounds

(* A step of a request: j is what it becomes.                              *)
LEMMA JobStep ==
  ASSUME EditInv, NEW r \in Client, NEW j \in JobRecord, job' = [job EXCEPT ![r] = j],
         UNCHANGED <<manifest, audio, native, overtaken, slicer, edit, edits>>,
         DOMAIN wav \subseteq DOMAIN wav', DOMAIN wav' \subseteq Keys,
         DOMAIN peaks \subseteq DOMAIN peaks', DOMAIN peaks' \subseteq Keys,
         FilesAreMade', JobSound(j)'
  PROVE  EditInv'
<1>1. /\ job' \in [Client -> JobRecord] /\ job'[r] = j
      /\ \A q \in Client \ {r} : job'[q] = job[q]
  BY DEF EditInv, EditTypes
<1>2. \A q \in Client \ {r} : JobSound(job[q])'
  BY <1>1 DEF EditInv, JobSound
<1>3. EditSound'
  BY DEF EditInv, EditSound
<1>4. EditTypes'
  BY <1>1 DEF EditInv, EditTypes
<1>5. \A q \in Client : JobSound(job[q])'
  BY <1>1, <1>2
<1> QED BY <1>3, <1>4, <1>5 DEF EditInv

LEMMA GoesForm ==
  ASSUME EditInv, NEW r \in Client, NEW to \in {"peaks", "made", "rendered", "failed"},
         NEW s \in Sounds, Edit!Goes(r, to, s)
  PROVE  \E j \in JobRecord : /\ job' = [job EXCEPT ![r] = j] /\ j.at = to /\ j.samples = s
                              /\ j.gen = job[r].gen /\ j.key = job[r].key
<1> DEFINE j == [job[r] EXCEPT !.at = to, !.samples = s]
<1>1. job[r] \in JobRecord
  BY DEF EditInv, EditTypes
<1>2. /\ j \in JobRecord /\ j.at = to /\ j.samples = s
      /\ j.gen = job[r].gen /\ j.key = job[r].key
  BY <1>1 DEF JobRecord
<1>3. job' = [job EXCEPT ![r] = j]
  BY <1>1 DEF Edit!Goes, EditInv, EditTypes, JobRecord
<1> QED BY <1>2, <1>3

LEMMA RequestIs ==
  ASSUME EditInv, NEW r \in Client
  PROVE  /\ job[r] \in JobRecord /\ JobSound(job[r]) /\ edit \in EditRecord
         /\ job[r].at # "none" => job[r].key \in Keys /\ Made(job[r].key) \in Sounds
<1>1. job[r] \in JobRecord /\ JobSound(job[r]) /\ edit \in EditRecord
  BY DEF EditInv, EditTypes
<1> QED BY <1>1, SourceIsMade DEF JobSound

LEMMA FoundInFiles ==
  ASSUME EditInv, NEW k \in Keys, Edit!Holds(wav, k)
  PROVE  wav[k] = Made(k)
BY DEF EditInv, FilesAreMade, Edit!Holds

LEMMA LookedStep ==
  ASSUME EditInv, NEW r \in Client, Edit!Look(r) PROVE EditInv'
<1> DEFINE k == job[r].key
           to == IF Edit!Holds(wav, k) THEN "peaks" ELSE "made"
<1>1. job[r].at = "look" /\ k \in Keys /\ Made(k) \in Sounds
      /\ job[r].gen # Edit!Absent /\ k.ops # <<>> /\ job[r].samples = k.source
  BY RequestIs DEF Edit!Look, JobSound
<1>2. Edit!Goes(r, to, Made(k))
  <2>1. CASE Edit!Holds(wav, k)
    BY <1>1, <2>1, FoundInFiles DEF Edit!Look
  <2>2. CASE ~Edit!Holds(wav, k)
    <3>1. Made(k) = Edit!Rendered(job[r].samples, k.ops)
      BY <1>1 DEF Made
    <3> QED BY <2>2, <3>1 DEF Edit!Look
  <2> QED BY <2>1, <2>2
<1>3. UNCHANGED <<manifest, audio, native, overtaken, slicer, edit, wav, peaks, edits>>
  BY DEF Edit!Look
<1>4. PICK j \in JobRecord : /\ job' = [job EXCEPT ![r] = j] /\ j.at = to /\ j.samples = Made(k)
                             /\ j.gen = job[r].gen /\ j.key = k
  BY <1>1, <1>2, GoesForm
<1>5. JobSound(j)
  BY <1>1, <1>4, RequestIs DEF JobSound, Edit!Holds
<1>6. JobSound(j)' /\ FilesAreMade'
  BY <1>3, <1>5 DEF JobSound, FilesAreMade, EditInv
<1> HIDE DEF k, to
<1> QED BY <1>3, <1>4, <1>6, JobStep DEF EditInv, EditTypes

LEMMA PublishedStep ==
  ASSUME EditInv, NEW r \in Client, Edit!Publish(r) PROVE EditInv'
<1> DEFINE k == job[r].key
<1>1. job[r].at = "made" /\ k \in Keys /\ Made(k) \in Sounds
      /\ job[r].gen # Edit!Absent /\ k.ops # <<>> /\ job[r].samples = Made(k)
  BY RequestIs DEF Edit!Publish, JobSound
<1>2. Edit!Goes(r, "peaks", Made(k))
  <2>1. CASE Edit!Holds(wav, k)
    BY <1>1, <2>1, FoundInFiles DEF Edit!Publish
  <2>2. CASE ~Edit!Holds(wav, k)
    BY <1>1, <2>2 DEF Edit!Publish
  <2> QED BY <2>1, <2>2
<1>3. /\ UNCHANGED <<manifest, audio, native, overtaken, slicer, edit, peaks, edits>>
      /\ wav' = IF Edit!Holds(wav, k) THEN wav ELSE Edit!With(wav, k, Made(k))
  BY <1>1 DEF Edit!Publish
<1>4. PICK j \in JobRecord : /\ job' = [job EXCEPT ![r] = j] /\ j.at = "peaks"
                             /\ j.samples = Made(k) /\ j.gen = job[r].gen /\ j.key = k
  BY <1>1, <1>2, GoesForm
<1>5. /\ DOMAIN wav' = DOMAIN wav \cup {k}
      /\ \A q \in DOMAIN wav' : q.ops # <<>> /\ wav'[q] = Made(q)
  <2>1. CASE Edit!Holds(wav, k)
    BY <1>3, <2>1 DEF Edit!Holds, EditInv, FilesAreMade
  <2>2. CASE ~Edit!Holds(wav, k)
    <3>0. wav' = Edit!With(wav, k, Made(k))
      BY <1>3, <2>2
    <3>1. k.ops # <<>>
      BY <1>1
    <3> HIDE DEF k
    <3>2. /\ DOMAIN wav' = DOMAIN wav \cup {k} /\ wav'[k] = Made(k)
          /\ \A q \in DOMAIN wav : q # k => wav'[q] = wav[q]
      BY <3>0 DEF Edit!With
    <3>3. \A q \in DOMAIN wav : q.ops # <<>> /\ wav[q] = Made(q)
      BY DEF EditInv, FilesAreMade
    <3> QED BY <3>1, <3>2, <3>3
  <2> QED BY <2>1, <2>2
<1>6. FilesAreMade'
  BY <1>3, <1>5 DEF EditInv, FilesAreMade
<1>7. JobSound(j)'
  BY <1>1, <1>3, <1>4, <1>5, RequestIs DEF JobSound
<1>8. DOMAIN wav \subseteq DOMAIN wav' /\ DOMAIN wav' \subseteq Keys
      /\ DOMAIN peaks \subseteq DOMAIN peaks' /\ DOMAIN peaks' \subseteq Keys
  BY <1>1, <1>3, <1>5 DEF EditInv, EditTypes
<1> HIDE DEF k
<1> QED BY <1>3, <1>4, <1>6, <1>7, <1>8, JobStep

LEMMA PeaksStep ==
  ASSUME EditInv, NEW r \in Client, Edit!PublishPeaks(r) PROVE EditInv'
<1> DEFINE k == job[r].key
<1>1. job[r].at = "peaks" /\ k \in Keys /\ Made(k) \in Sounds /\ job[r].samples = Made(k)
  BY RequestIs DEF Edit!PublishPeaks, JobSound
<1>2. Edit!Goes(r, "rendered", Made(k))
  BY <1>1 DEF Edit!PublishPeaks
<1>3. /\ UNCHANGED <<manifest, audio, native, overtaken, slicer, edit, wav, edits>>
      /\ peaks' = IF Edit!Holds(peaks, k) THEN peaks ELSE Edit!With(peaks, k, Made(k))
  BY <1>1 DEF Edit!PublishPeaks
<1>4. PICK j \in JobRecord : /\ job' = [job EXCEPT ![r] = j] /\ j.at = "rendered"
                             /\ j.samples = Made(k) /\ j.gen = job[r].gen /\ j.key = k
  BY <1>1, <1>2, GoesForm
<1>5. /\ DOMAIN peaks' = DOMAIN peaks \cup {k}
      /\ \A q \in DOMAIN peaks' : peaks'[q] = Made(q)
  <2>1. CASE Edit!Holds(peaks, k)
    BY <1>3, <2>1 DEF Edit!Holds, EditInv, FilesAreMade
  <2>2. CASE ~Edit!Holds(peaks, k)
    <3>0. peaks' = Edit!With(peaks, k, Made(k))
      BY <1>3, <2>2
    <3> HIDE DEF k
    <3>2. /\ DOMAIN peaks' = DOMAIN peaks \cup {k} /\ peaks'[k] = Made(k)
          /\ \A q \in DOMAIN peaks : q # k => peaks'[q] = peaks[q]
      BY <3>0 DEF Edit!With
    <3>3. \A q \in DOMAIN peaks : peaks[q] = Made(q)
      BY DEF EditInv, FilesAreMade
    <3> QED BY <3>2, <3>3
  <2> QED BY <2>1, <2>2
<1>6. FilesAreMade'
  BY <1>3, <1>5 DEF EditInv, FilesAreMade
<1>7. JobSound(j)'
  BY <1>1, <1>3, <1>4, <1>5, RequestIs DEF JobSound
<1>8. DOMAIN wav \subseteq DOMAIN wav' /\ DOMAIN wav' \subseteq Keys
      /\ DOMAIN peaks \subseteq DOMAIN peaks' /\ DOMAIN peaks' \subseteq Keys
  BY <1>1, <1>3, <1>5 DEF EditInv, EditTypes
<1> HIDE DEF k
<1> QED BY <1>3, <1>4, <1>6, <1>7, <1>8, JobStep

LEMMA FailedStep ==
  ASSUME EditInv, NEW r \in Client, Edit!RenderFails(r) PROVE EditInv'
<1> DEFINE k == job[r].key
           taken == job[r].at # "peaks" /\ Edit!Holds(wav, k)
           to == IF taken THEN "peaks" ELSE "failed"
           s  == IF taken THEN wav[k] ELSE job[r].samples
<1>1. job[r].at \in {"look", "made", "peaks"} /\ k \in Keys /\ Made(k) \in Sounds
  BY RequestIs DEF Edit!RenderFails
<1>2. Edit!Goes(r, to, s)
  BY DEF Edit!RenderFails
<1>3. UNCHANGED <<manifest, audio, native, overtaken, slicer, edit, wav, peaks, edits>>
  BY DEF Edit!RenderFails
<1>4. s \in Sounds /\ (taken => s = Made(k))
  BY <1>1, FoundInFiles, RequestIs DEF JobRecord
<1>5. taken => k \in DOMAIN wav
  BY DEF Edit!Holds
<1> HIDE DEF k, taken, s
<1>6. PICK j \in JobRecord : /\ job' = [job EXCEPT ![r] = j] /\ j.at = to /\ j.samples = s
                             /\ j.gen = job[r].gen /\ j.key = k
  <2>1. to \in {"peaks", "made", "rendered", "failed"}
    OBVIOUS
  <2> HIDE DEF to
  <2> QED BY <1>2, <1>4, <2>1, GoesForm DEF k
<1>7. JobSound(j)
  <2>1. CASE taken
    BY <1>1, <1>4, <1>5, <1>6, <2>1, RequestIs DEF JobSound, k
  <2>2. CASE ~taken
    BY <1>1, <1>6, <2>2, RequestIs DEF JobSound, k
  <2> QED BY <2>1, <2>2
<1>8. JobSound(j)' /\ FilesAreMade'
  BY <1>3, <1>7 DEF JobSound, FilesAreMade, EditInv
<1> HIDE DEF to
<1> QED BY <1>3, <1>6, <1>8, JobStep DEF EditInv, EditTypes

LEMMA CapturedStep ==
  ASSUME EditInv, NEW r \in Client, Edit!CapturePeaks(r) PROVE EditInv'
<1> DEFINE k == Edit!Key
           j == [at |-> "peaks", gen |-> Edit!Absent, key |-> k, samples |-> Samples[audio]]
<1>1. /\ k = Edit!SourceKey(manifest) /\ manifest \in Edit!Gen
      /\ Samples[audio] = Samples[manifest]
      /\ job' = [job EXCEPT ![r] = j]
      /\ UNCHANGED <<manifest, audio, native, overtaken, slicer, edit, wav, peaks, edits>>
      /\ slicer \in {"idle", "cleared", "resumed"}
  BY GenerationsAre
     DEF Edit!CapturePeaks, Edit!Captures, Edit!Locks, Edit!Assembles, Edit!Source, EditInv, EditTypes, Generations
<1>2. <<>> \in Recipes
  BY DEF Recipes
<1>3. k \in Keys /\ k.source = Samples[manifest] /\ k.ops = <<>>
  BY <1>1, <1>2 DEF Edit!SourceKey, Keys
<1>4. Made(k) = Samples[audio] /\ Samples[audio] \in Sounds
  BY <1>1, <1>3, SourceIsMade DEF Made
<1> HIDE DEF k
<1>5. j \in JobRecord
  BY <1>3, <1>4 DEF JobRecord, Generations
<1>6. j.at = "peaks" /\ j.gen = Edit!Absent /\ j.key = k /\ j.samples = Samples[audio]
  OBVIOUS
<1> HIDE DEF j
<1>7. PICK x \in JobRecord : x = j
  BY <1>5
<1>8. JobSound(x)'
  <2>1. manifest' = manifest /\ slicer' = slicer /\ Edit!Absent <= manifest
    BY <1>1, GenerationsAre
  <2>2. x.at = "peaks" /\ x.gen = Edit!Absent /\ x.key \in Keys /\ x.samples = Made(x.key)
    BY <1>3, <1>4, <1>6, <1>7
  <2>3. slicer \in {"idle", "cleared", "resumed"}
    BY <1>1
  <2> QED BY <2>1, <2>2, <2>3 DEF JobSound
<1>9. FilesAreMade'
  BY <1>1 DEF EditInv, FilesAreMade
<1>10. job' = [job EXCEPT ![r] = x]
  BY <1>1, <1>7
<1>11. DOMAIN wav \subseteq Keys /\ DOMAIN peaks \subseteq Keys /\ wav' = wav /\ peaks' = peaks
  BY <1>1 DEF EditInv, EditTypes
<1>12. UNCHANGED <<manifest, audio, native, overtaken, slicer, edit, edits>>
  BY <1>1
<1> QED BY <1>8, <1>9, <1>10, <1>11, <1>12, JobStep

LEMMA NothingIsSound ==
  /\ Edit!NoEdit \in EditRecord /\ Edit!NoEdit.gen = Edit!Absent /\ Edit!NoEdit.ops = <<>>
  /\ Edit!NoJob \in JobRecord /\ Edit!NoJob.at = "none" /\ Edit!NoJob.gen = Edit!Absent
<1>1. <<>> \in Recipes /\ <<>> \in Sounds /\ Edit!Absent \in Generations
  BY DEF Recipes, Sounds, Generations
<1>2. Edit!NoEdit \in EditRecord /\ Edit!NoEdit.gen = Edit!Absent /\ Edit!NoEdit.ops = <<>>
  BY <1>1 DEF Edit!NoEdit, EditRecord
<1>3. Edit!NoJob \in JobRecord /\ Edit!NoJob.at = "none" /\ Edit!NoJob.gen = Edit!Absent
  BY <1>1 DEF Edit!NoJob, JobRecord
<1> QED BY <1>2, <1>3

LEMMA NoJobIsSound ==
  ASSUME EditInv PROVE JobSound(Edit!NoJob)
<1>1. manifest \in Generations /\ (slicer \in {"archived", "renders"} => manifest # Edit!Absent)
  BY DEF EditInv, EditTypes, EditSound
<1>2. Edit!Absent <= manifest
  BY <1>1, GenerationsAre
<1> QED BY <1>1, <1>2, NothingIsSound DEF JobSound

(* A section under the lock: the entry becomes e, the job of r becomes j.  *)
LEMMA SectionStep ==
  ASSUME EditInv, NEW r \in Client, NEW e \in EditRecord, NEW j \in JobRecord,
         edit' = e, job' = [job EXCEPT ![r] = j], JobSound(j),
         UNCHANGED <<manifest, audio, native, overtaken, slicer, wav, peaks>>,
         edits' \in 0 .. MaxEdits, EditSound'
  PROVE  EditInv'
<1>1. /\ job' \in [Client -> JobRecord] /\ job'[r] = j
      /\ \A q \in Client \ {r} : job'[q] = job[q]
  BY DEF EditInv, EditTypes
<1>2. \A q \in Client \ {r} : JobSound(job[q])'
  BY <1>1 DEF EditInv, JobSound
<1>3. JobSound(j)'
  BY DEF JobSound
<1>4. EditTypes' /\ FilesAreMade'
  BY <1>1 DEF EditInv, EditTypes, FilesAreMade
<1>5. \A q \in Client : JobSound(job[q])'
  BY <1>1, <1>2, <1>3
<1> QED BY <1>4, <1>5 DEF EditInv

LEMMA EditedEntry ==
  ASSUME EditInv, NEW r \in Client, Edit!Requests(r), NEW ops \in Recipes, NEW redo \in Recipes,
         Edit!Edits(r, ops, redo)
  PROVE  EditInv'
<1>1. /\ slicer \in {"idle", "cleared", "resumed"} /\ manifest \in Edit!Gen /\ manifest \in Generations
      /\ manifest # Edit!Absent /\ Samples[audio] = Samples[manifest]
      /\ edits \in 0 .. MaxEdits /\ edits < MaxEdits
  BY GenerationsAre
     DEF Edit!Requests, Edit!Captures, Edit!Locks, Edit!Assembles, Edit!Source, EditInv, EditTypes, Generations
<1>2. /\ UNCHANGED <<manifest, audio, native, overtaken, slicer, wav, peaks>>
      /\ edits' \in 0 .. MaxEdits
  BY <1>1, EditsAssumption DEF Edit!Edits
<1>3. <<>> \in Sounds
  BY DEF Sounds
<1>4. PICK e \in EditRecord : /\ edit' = e /\ e.gen \in {Edit!Absent, manifest}
                              /\ e.gen = Edit!Absent => e.ops = <<>>
                              /\ e.ops # <<>> => e.status # "ready"
  <2>1. CASE ops = <<>> /\ redo = <<>>
    BY <2>1, NothingIsSound DEF Edit!Edits
  <2>2. CASE ~(ops = <<>> /\ redo = <<>>)
    <3> DEFINE status == IF ops = <<>> THEN "ready" ELSE "pending"
               e == [gen |-> manifest, ops |-> ops, redo |-> redo, sha |-> <<>>,
                     status |-> status]
    <3>1. edit' = e
      BY <2>2 DEF Edit!Edits
    <3>2. status \in {"ready", "pending", "failed"} /\ (ops # <<>> => status # "ready")
      OBVIOUS
    <3> HIDE DEF status
    <3>3. e \in EditRecord
      BY <1>1, <1>3, <3>2 DEF EditRecord
    <3> QED BY <1>1, <3>1, <3>2, <3>3
  <2> QED BY <2>1, <2>2
<1>5. EditSound'
  <2>1. slicer' \in {"idle", "cleared", "resumed"} /\ manifest' = manifest /\ edit' = e
    BY <1>1, <1>2, <1>4
  <2> QED BY <1>4, <2>1 DEF EditSound
<1>6. CASE ops = <<>>
  <2>1. job' = [job EXCEPT ![r] = job[r]] /\ JobSound(job[r]) /\ job[r] \in JobRecord
    BY <1>6, RequestIs DEF Edit!Edits, EditInv, EditTypes
  <2> QED BY <1>2, <1>4, <1>5, <2>1, SectionStep
<1>7. CASE ops # <<>>
  <2> DEFINE k == Edit!KeyOf(manifest, ops)
             j == [at |-> "look", gen |-> manifest, key |-> k, samples |-> Samples[audio]]
  <2>1. job' = [job EXCEPT ![r] = j]
    BY <1>7 DEF Edit!Edits
  <2>2. k \in Keys /\ k.source = Samples[manifest] /\ k.ops = ops
    BY <1>1, KeysAre
  <2>3. Samples[audio] \in Sounds
    BY <1>1, <2>2, SourceIsMade
  <2> HIDE DEF k
  <2>4. /\ j \in JobRecord
        /\ j.at = "look" /\ j.gen = manifest /\ j.key = k /\ j.samples = Samples[audio]
    BY <1>1, <2>2, <2>3 DEF JobRecord
  <2> HIDE DEF j
  <2>5. PICK x \in JobRecord : x = j
    BY <2>4
  <2>6. manifest <= manifest
    BY <1>1, GenerationsAre
  <2>7. JobSound(x)
    BY <1>1, <1>7, <2>2, <2>4, <2>5, <2>6 DEF JobSound
  <2> QED BY <1>2, <1>4, <1>5, <2>1, <2>5, <2>7, SectionStep
<1> QED BY <1>6, <1>7

LEMMA ShorterRecipe ==
  ASSUME NEW s \in Recipes, s # <<>>
  PROVE  Edit!Front(s) \in Recipes /\ Edit!Last(s) \in Sent
<1>1. s \in Seq(Sent) /\ Len(s) \in Nat /\ Len(s) # 0
  BY DEF Recipes
<1>2. Len(s) \in 1 .. Len(s) /\ \A i \in 1 .. (Len(s) - 1) : s[i] \in Sent
  BY <1>1
<1>3. 1 \in Int /\ Len(s) - 1 \in Int
  BY <1>1
<1>4. SubSeq(s, 1, Len(s) - 1) \in Seq(Sent)
  BY <1>1, <1>2, <1>3, SubSeqProperties
<1> QED BY <1>1, <1>2, <1>4 DEF Edit!Front, Edit!Last, Recipes

LEMMA EntryIsTyped ==
  ASSUME EditInv PROVE Edit!Entry.ops \in Recipes /\ Edit!Entry.redo \in Recipes
<1>1. edit \in EditRecord
  BY DEF EditInv, EditTypes
<1> QED BY <1>1, NothingIsSound DEF Edit!Entry, EditRecord

LEMMA OperatedStep ==
  ASSUME EditInv, NEW r \in Client, Edit!AppendOperation(r) \/ Edit!Undo(r) \/ Edit!Redo(r)
  PROVE  EditInv'
<1>1. Edit!Requests(r)
  BY DEF Edit!AppendOperation, Edit!Undo, Edit!Redo
<1>2. \A s \in Recipes : \A op \in Sent : Append(s, op) \in Recipes
  BY DEF Recipes
<1>3. <<>> \in Recipes
  BY DEF Recipes
<1>4. PICK ops \in Recipes, redo \in Recipes : Edit!Edits(r, ops, redo)
  <2>1. CASE Edit!AppendOperation(r)
    BY <1>2, <1>3, <2>1, EntryIsTyped DEF Edit!AppendOperation
  <2>2. CASE Edit!Undo(r)
    BY <1>2, <2>2, EntryIsTyped, ShorterRecipe DEF Edit!Undo
  <2>3. CASE Edit!Redo(r)
    BY <1>2, <2>3, EntryIsTyped, ShorterRecipe DEF Edit!Redo
  <2> QED BY <2>1, <2>2, <2>3
<1> QED BY <1>1, <1>4, EditedEntry

LEMMA EditFinalizes ==
  ASSUME EditInv, NEW r \in Client, Edit!Finalize(r) PROVE EditInv'
<1>1. /\ job' = [job EXCEPT ![r] = Edit!NoJob]
      /\ UNCHANGED <<manifest, audio, native, overtaken, slicer, wav, peaks, edits>>
      /\ edits \in 0 .. MaxEdits
      /\ job[r].at \in {"rendered", "failed"}
  BY DEF Edit!Finalize, EditInv, EditTypes
<1>2. JobSound(Edit!NoJob) /\ Edit!NoJob \in JobRecord
  BY NoJobIsSound, NothingIsSound
<1>3. edit \in EditRecord /\ EditSound
  BY DEF EditInv, EditTypes
<1>4. PICK e \in EditRecord : edit' = e /\ EditSound'
  <2>1. CASE ~Edit!Locks \/ ~Edit!StillCurrent(r)
    <3>1. edit' = edit
      BY <2>1 DEF Edit!Finalize
    <3>2. EditSound'
      BY <1>1, <1>3, <3>1 DEF EditSound
    <3> QED BY <1>3, <3>1, <3>2
  <2>2. CASE Edit!Locks /\ Edit!StillCurrent(r) /\ job[r].at = "failed"
    <3> DEFINE e == [edit EXCEPT !.status = "failed"]
    <3>1. edit' = e
      BY <2>2 DEF Edit!Finalize
    <3>2. /\ e \in EditRecord /\ e.status = "failed" /\ e.gen = edit.gen
          /\ e.ops = edit.ops
      BY <1>3 DEF EditRecord
    <3>3. slicer' \notin {"archived", "renders"} /\ manifest' = manifest
      BY <1>1, <2>2 DEF Edit!Locks, Edit!Assembles
    <3> HIDE DEF e
    <3>4. EditSound'
      BY <1>3, <3>1, <3>2, <3>3 DEF EditSound
    <3> QED BY <3>1, <3>2, <3>4
  <2>3. CASE Edit!Locks /\ Edit!StillCurrent(r) /\ job[r].at = "rendered"
    <3> DEFINE e == [edit EXCEPT !.status = "ready", !.sha = job[r].samples]
               k == Edit!KeyOf(edit.gen, edit.ops)
    <3>1. edit' = e
      BY <2>3 DEF Edit!Finalize
    <3>2. /\ job[r].gen = manifest /\ job[r].gen # Edit!Absent /\ job[r].key = k
          /\ slicer \in {"idle", "cleared", "resumed"}
      BY <2>3 DEF Edit!StillCurrent, Edit!Locks, Edit!Assembles
    <3>3. k \in DOMAIN wav /\ k \in DOMAIN peaks /\ job[r].samples = Made(k)
          /\ job[r].samples \in Sounds
      BY <2>3, <3>2, RequestIs DEF JobSound, JobRecord
    <3>4. /\ e \in EditRecord /\ e.status = "ready" /\ e.gen = edit.gen
          /\ e.ops = edit.ops /\ e.sha = job[r].samples
      BY <1>3, <3>3 DEF EditRecord
    <3>5. slicer' \notin {"archived", "renders"} /\ manifest' = manifest
          /\ wav' = wav /\ peaks' = peaks
      BY <1>1, <3>2
    <3>6. Edit!KeyOf(edit.gen, edit.ops)' = k /\ Made(Edit!KeyOf(edit.gen, edit.ops))' = Made(k)
      BY <3>1, <3>4 DEF Edit!KeyOf
    <3> HIDE DEF e, k
    <3>7. EditSound'
      BY <1>3, <3>1, <3>3, <3>4, <3>5, <3>6 DEF EditSound
    <3> QED BY <3>1, <3>4, <3>7
  <2> QED BY <1>1, <2>1, <2>2, <2>3
<1> QED BY <1>1, <1>2, <1>4, SectionStep

-----------------------------------------------------------------------------
LEMMA EditDies == ASSUME EditInv, Edit!Dies PROVE EditInv'
<1>1. /\ job' = [r \in Client |-> Edit!NoJob]
      /\ UNCHANGED <<manifest, audio, native, overtaken, slicer, edit, wav, peaks, edits>>
  BY DEF Edit!Dies
<1>2. JobSound(Edit!NoJob) /\ Edit!NoJob \in JobRecord
  BY NoJobIsSound, NothingIsSound
<1>3. \A r \in Client : JobSound(job[r])'
  <2>1. JobSound(Edit!NoJob)'
    BY <1>1, <1>2 DEF JobSound, Edit!NoJob
  <2>2. \A r \in Client : job'[r] = Edit!NoJob
    BY <1>1
  <2> QED BY <2>1, <2>2 DEF JobSound
<1>4. EditTypes' /\ FilesAreMade' /\ EditSound'
  BY <1>1, <1>2 DEF EditInv, EditTypes, FilesAreMade, EditSound
<1> QED BY <1>3, <1>4 DEF EditInv

LEMMA SlicerMoves ==
  ASSUME EditInv,
         \/ Edit!ClearExports \/ Edit!Resume \/ Edit!ClearRenders \/ Edit!ClearPeaks
         \/ Edit!SlicerDies \/ Edit!ExportNative
  PROVE  EditInv'
<1>1. /\ UNCHANGED <<manifest, audio, edit, job, edits>>
      /\ slicer' \in {"idle", "cleared", "resumed", "renders"} \cup {slicer}
      /\ native' \in Generations \cup {Edit!Torn} /\ overtaken' \in BOOLEAN
      /\ slicer' \in {"archived", "renders"} => slicer \in {"archived", "renders"}
  BY DEF Edit!ClearExports, Edit!Resume, Edit!ClearRenders, Edit!ClearPeaks, Edit!SlicerDies,
         Edit!ExportNative, EditInv, EditTypes, Generations
<1>2. \/ wav' = wav /\ peaks' = peaks
      \/ /\ slicer \in {"archived", "renders"}
         /\ wav' \in {wav, <<>>} /\ peaks' \in {peaks, <<>>}
  BY DEF Edit!ClearExports, Edit!Resume, Edit!ClearRenders, Edit!ClearPeaks, Edit!SlicerDies,
         Edit!ExportNative
<1>3. DOMAIN <<>> = {}
  OBVIOUS
<1>4. EditTypes' /\ FilesAreMade'
  <2>1. /\ DOMAIN wav' \subseteq Keys /\ DOMAIN peaks' \subseteq Keys
        /\ \A k \in DOMAIN wav' : k.ops # <<>> /\ wav'[k] = Made(k)
        /\ \A k \in DOMAIN peaks' : peaks'[k] = Made(k)
    BY <1>2, <1>3 DEF EditInv, EditTypes, FilesAreMade
  <2> QED BY <1>1, <2>1 DEF EditInv, EditTypes, FilesAreMade
<1>5. CASE wav' = wav /\ peaks' = peaks
  BY <1>1, <1>4, <1>5 DEF EditInv, EditSound, JobSound
<1>6. CASE slicer \in {"archived", "renders"}
  <2>1. edit = Edit!NoEdit /\ edit.ops = <<>> /\ manifest # Edit!Absent
        /\ edit' = edit /\ manifest' = manifest
    BY <1>1, <1>6, NothingIsSound DEF EditInv, EditSound
  <2>2. EditSound'
    BY <2>1, NothingIsSound DEF EditSound
  <2>3. ASSUME NEW r \in Client PROVE JobSound(job[r])'
    BY <1>1, <1>6 DEF EditInv, JobSound
  <2> QED BY <1>4, <2>2, <2>3 DEF EditInv
<1> QED BY <1>2, <1>5, <1>6

LEMMA PromotedStep == ASSUME EditInv, Edit!Promote PROVE EditInv'
<1>0. overtaken' \in BOOLEAN
  <2>1. CASE overtaken' = (overtaken \/ (slicer = "resumed" /\ native # Edit!Absent))
    BY <2>1
  <2>2. CASE UNCHANGED overtaken
    BY <2>2 DEF EditInv, EditTypes
  <2> QED BY <2>1, <2>2 DEF Edit!Promote
<1>1. /\ manifest \in 1 .. 2 /\ manifest < 2 /\ audio # Edit!Absent
      /\ slicer \in {"cleared", "resumed"} /\ overtaken' \in BOOLEAN
      /\ UNCHANGED <<native, wav, peaks, job, edits>>
  BY <1>0, GenerationsAre DEF Edit!Promote, Edit!Assembles, EditInv, EditTypes
<1>2. \A r \in Client : job[r].gen \in 0 .. 2
  BY GenerationsAre DEF EditInv, EditTypes, JobRecord
<1>3. CASE /\ manifest' = manifest + 1 /\ audio' = manifest'
           /\ slicer' = "archived" /\ edit' = Edit!NoEdit
  <2>1. manifest' \in 1 .. 2 /\ manifest < manifest' /\ manifest' # Edit!Absent
    BY <1>1, <1>3, GenerationsAre
  <2>2. EditTypes' /\ FilesAreMade' /\ EditSound'
    <3>1. EditTypes'
      BY <1>1, <1>3, <2>1, NothingIsSound, GenerationsAre DEF EditInv, EditTypes
    <3>2. FilesAreMade'
      BY <1>1 DEF EditInv, FilesAreMade
    <3>3. EditSound'
      BY <1>3, <2>1, NothingIsSound DEF EditSound
    <3> QED BY <3>1, <3>2, <3>3
  <2>3. ASSUME NEW r \in Client PROVE JobSound(job[r])'
    <3>1. job'[r] = job[r] /\ JobSound(job[r])
      BY <1>1 DEF EditInv
    <3>2. job[r].gen <= manifest /\ job[r].gen # manifest' /\ job[r].gen <= manifest'
      BY <1>1, <1>2, <1>3, <3>1, GenerationsAre DEF JobSound
    <3> QED BY <3>1, <3>2 DEF JobSound
  <2> QED BY <2>2, <2>3 DEF EditInv
<1>4. CASE /\ manifest' \in {manifest, Edit!Absent} /\ audio' = Edit!Absent
           /\ slicer' = "idle" /\ UNCHANGED edit
  <2>1. EditTypes' /\ FilesAreMade' /\ EditSound'
    <3>1. EditTypes'
      BY <1>1, <1>4, GenerationsAre DEF EditInv, EditTypes
    <3>2. FilesAreMade'
      BY <1>1 DEF EditInv, FilesAreMade
    <3>3. EditSound'
      BY <1>1, <1>4 DEF EditInv, EditSound
    <3> QED BY <3>1, <3>2, <3>3
  <2>2. ASSUME NEW r \in Client PROVE JobSound(job[r])'
    BY <1>1, <1>4 DEF EditInv, JobSound
  <2> QED BY <2>1, <2>2 DEF EditInv
<1> QED BY <1>3, <1>4 DEF Edit!Promote

LEMMA EditInit == Edit!Init => EditInv
<1> SUFFICES ASSUME Edit!Init PROVE EditInv
  OBVIOUS
<1>1. /\ manifest = 1 /\ audio = 1 /\ native = Edit!Absent /\ slicer = "idle" /\ edits = 0
      /\ overtaken = FALSE /\ Edit!Absent \in Generations
      /\ wav = <<>> /\ peaks = <<>> /\ job = [r \in Client |-> Edit!NoJob]
      /\ edit \in Edit!Left \cup {Edit!NoEdit}
  BY DEF Edit!Init, Generations
<1>2. /\ edit \in EditRecord /\ edit.gen \in {Edit!Absent, 1}
      /\ edit.gen = Edit!Absent => edit.ops = <<>>
      /\ edit.ops # <<>> => edit.status # "ready"
  <2>1. CASE edit = Edit!NoEdit
    BY <2>1, NothingIsSound
  <2>2. CASE edit \in Edit!Left
    <3>1. /\ edit \in [gen : {1}, ops : Edit!SeqOf(Sent, 1), redo : Edit!SeqOf(Sent, 1),
                       status : {"failed", "ready"}, sha : {<<>>}]
          /\ (edit.status = "ready") = (edit.ops = <<>>)
      BY <2>2 DEF Edit!Left
    <3>2. ASSUME NEW s \in Edit!SeqOf(Sent, 1) PROVE s \in Recipes
      <4>1. PICK m \in 0 .. 1 : s \in [1 .. m -> Sent]
        BY DEF Edit!SeqOf
      <4>2. m \in Nat
        OBVIOUS
      <4>3. s \in Seq(Sent)
        BY <4>1, <4>2, SeqDef
      <4> QED BY <4>3 DEF Recipes
    <3>3. <<>> \in Sounds /\ 1 \in Generations /\ 1 # Edit!Absent
      BY GenerationsAre DEF Sounds
    <3>4. edit \in EditRecord /\ edit.gen = 1
      BY <3>1, <3>2, <3>3 DEF EditRecord
    <3> QED BY <3>1, <3>3, <3>4
  <2> QED BY <1>1, <2>1, <2>2
<1>3. 1 \in Generations /\ 1 # Edit!Absent /\ Edit!Absent <= 1 /\ Edit!Absent # 1
  BY GenerationsAre
<1>4. /\ DOMAIN wav = {} /\ DOMAIN peaks = {} /\ edits \in 0 .. MaxEdits
  BY <1>1, EditsAssumption
<1>5. EditTypes
  BY <1>1, <1>2, <1>3, <1>4, NothingIsSound DEF EditTypes
<1>6. FilesAreMade /\ EditSound
  BY <1>1, <1>2, <1>4 DEF FilesAreMade, EditSound
<1>7. \A r \in Client : JobSound(job[r])
  <2>1. JobSound(Edit!NoJob)
    BY <1>1, <1>3, NothingIsSound DEF JobSound
  <2> QED BY <1>1, <2>1
<1> QED BY <1>5, <1>6, <1>7 DEF EditInv

LEMMA EditStep == EditInv /\ [Edit!Next]_editing => EditInv'
<1> SUFFICES ASSUME EditInv, [Edit!Next]_editing PROVE EditInv'
  OBVIOUS
<1>1. CASE UNCHANGED editing
  <2>1. UNCHANGED <<manifest, audio, native, overtaken, slicer, edit, wav, peaks, job, edits>>
    BY <1>1 DEF editing
  <2>2. EditTypes' /\ FilesAreMade' /\ EditSound'
    BY <2>1 DEF EditInv, EditTypes, FilesAreMade, EditSound
  <2>3. \A r \in Client : JobSound(job[r])'
    BY <2>1 DEF EditInv, JobSound
  <2> QED BY <2>2, <2>3 DEF EditInv
<1>2. CASE Edit!Next
  <2>1. ASSUME NEW r \in Client,
               \/ Edit!AppendOperation(r) \/ Edit!Undo(r) \/ Edit!Redo(r) \/ Edit!CapturePeaks(r)
               \/ Edit!Look(r) \/ Edit!Publish(r) \/ Edit!PublishPeaks(r)
               \/ Edit!RenderFails(r) \/ Edit!Finalize(r)
        PROVE  EditInv'
    BY <2>1, OperatedStep, CapturedStep, LookedStep, PublishedStep, PeaksStep,
       FailedStep, EditFinalizes
  <2> QED BY <1>2, <2>1, EditDies, PromotedStep, SlicerMoves DEF Edit!Next
<1> QED BY <1>1, <1>2

LEMMA LabStarts == LabInit => IInv /\ EditInv
  BY InitIsSound, EditInit DEF LabInit

LEMMA LabSteps == ASSUME IInv, EditInv, [LabNext]_<<part, vars, editing>> PROVE IInv' /\ EditInv'
<1>1. [Next]_vars /\ [Edit!Next]_editing
  BY DEF LabNext
<1> QED BY <1>1, Inductive, EditStep

(* What a cache of renderings holds: under every key the source with the   *)
(* operations of that key applied, whatever renders, fails or is replaced  *)
(* meanwhile; and what a page is told is ready is there, with its peaks,   *)
(* of the hash that is compared.                                           *)
CacheIsTrue ==
  part = "editing" =>
    /\ \A k \in DOMAIN wav : wav[k] = Edit!Rendered(k.source, k.ops)
    /\ \A k \in DOMAIN peaks :
         peaks[k] = IF k.ops = <<>> THEN k.source ELSE Edit!Rendered(k.source, k.ops)
    /\ Edit!Locks /\ Edit!Key.ops # <<>> =>
         /\ Edit!Holds(wav, Edit!Key) /\ Edit!Holds(peaks, Edit!Key)
         /\ edit.sha = wav[Edit!Key]

LEMMA EditInvSuffices == EditInv => Edit!TypeOK /\ CacheIsTrue
<1> SUFFICES ASSUME EditInv PROVE Edit!TypeOK /\ CacheIsTrue
  OBVIOUS
<1>1. Edit!TypeOK
  <2>1. \A k \in DOMAIN wav \cup DOMAIN peaks : k.ops \in Seq(Sent)
    BY DEF EditInv, EditTypes, Keys, Recipes
  <2>2. edit.ops \in Seq(Sent) /\ edit.redo \in Seq(Sent)
        /\ edit.status \in {"ready", "pending", "failed"}
    BY DEF EditInv, EditTypes, EditRecord, Recipes
  <2>3. \A r \in Client :
          job[r].at \in {"none", "look", "made", "peaks", "rendered", "failed"}
    BY DEF EditInv, EditTypes, JobRecord
  <2> QED BY <2>1, <2>2, <2>3 DEF EditInv, EditTypes, Generations, Edit!TypeOK
<1>2. ASSUME Edit!Locks, Edit!Key.ops # <<>>
      PROVE  /\ Edit!Holds(wav, Edit!Key) /\ Edit!Holds(peaks, Edit!Key)
             /\ edit.sha = wav[Edit!Key]
  <2>1. Edit!SourceKey(manifest).ops = <<>>
    BY DEF Edit!SourceKey
  <2>2. /\ Edit!Entry.ops # <<>> /\ Edit!Entry.status = "ready"
        /\ Edit!Key = Edit!KeyOf(manifest, Edit!Entry.ops)
    BY <1>2, <2>1 DEF Edit!Key
  <2>3. edit.gen = manifest /\ Edit!Entry = edit
    BY <2>2, NothingIsSound DEF Edit!Entry
  <2>4. /\ Edit!Key \in DOMAIN wav /\ Edit!Key \in DOMAIN peaks /\ edit.sha = Made(Edit!Key)
    BY <2>2, <2>3 DEF EditInv, EditSound
  <2> QED BY <2>4 DEF Edit!Holds, EditInv, FilesAreMade
<1>3. /\ \A k \in DOMAIN wav : wav[k] = Edit!Rendered(k.source, k.ops)
      /\ \A k \in DOMAIN peaks :
           peaks[k] = IF k.ops = <<>> THEN k.source ELSE Edit!Rendered(k.source, k.ops)
  BY DEF EditInv, FilesAreMade, Made
<1> QED BY <1>1, <1>2, <1>3 DEF CacheIsTrue

(* The review and the audio of a clip stay as the two invariants say.      *)
THEOREM LabInvariant == LabSpec => [](IInv /\ EditInv)
<1>1. (IInv /\ EditInv) /\ [LabNext]_<<part, vars, editing>> => (IInv /\ EditInv)'
  BY LabSteps
<1> QED BY <1>1, LabStarts, PTL DEF LabSpec

(* Every variable of both parts keeps its type (clip_lab_state.py,         *)
(* clip_lab_audio.py).                                                     *)
THEOREM LabIsTyped == LabSpec => []LabTypeOK
<1>1. IInv /\ EditInv => LabTypeOK
  BY EditInvSuffices DEF LabTypeOK, IInv
<1> QED BY <1>1, LabInvariant, PTL

(* The renderings and peaks on disk are those their keys say, and what is  *)
(* called ready is there (clip_lab_audio.py, clip_lab_audio_ops.py).       *)
THEOREM CacheStaysTrue == LabSpec => []CacheIsTrue
<1>1. IInv /\ EditInv => CacheIsTrue
  BY EditInvSuffices
<1> QED BY <1>1, LabInvariant, PTL

=============================================================================
