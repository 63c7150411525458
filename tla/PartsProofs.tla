------------------------------ MODULE PartsProofs ------------------------------
(***************************************************************************)
(* Theorems about the parts that MCParts checks side by side, a section    *)
(* for each part: its shapes, the inductive invariant, a lemma for each    *)
(* step, and the theorem about the property of the run.                    *)
(***************************************************************************)
EXTENDS MCParts, FiniteSetTheorems, WellFoundedInduction, TLAPS

(* What a commit, the slice and the call of a client are; Hist is the      *)
(* module SliceHistory.                                                    *)
CallPoint    == {"idle", "transcript", "tags", "save", "undo", "redo", "restore"}
CallKind     == {"save", "undo", "redo"}
CommitNumber == Nat \ {0}
CommitRow    == [parent : CommitNumber \cup {None}, status : Status, text : Hist!Texts,
                 tags : Hist!Tags]
SliceRow     == [status : Status, text : Hist!Texts \cup {None}, tags : SUBSET Name,
                 active : CommitNumber \cup {None}]
SliceCall    == [pc : CallPoint, kind : CallKind \cup {None},
                 active : CommitNumber \cup {None}, status : Status \cup {None},
                 text : Hist!Texts \cup {None}, tags : Hist!Tags \cup {None}]

SliceShapes ==
  /\ slice \in SliceRow /\ tag \in Hist!Tags
  /\ commits \in Seq(CommitRow) /\ call \in [Alpha -> SliceCall]

(* A save has the fields that it has come to read.                         *)
ReadSoFar(a) ==
  /\ a.pc \in {"transcript", "tags", "save"} => a.status \in Status
  /\ a.pc \in {"tags", "save"} => a.text \in Hist!Texts
  /\ a.pc = "save" => a.tags \in Hist!Tags

(* What a request read as the active commit, or as the latest child of it, *)
(* is one of the commits.                                                  *)
ReadIsCommitted(a) ==
  /\ a.active = None \/ a.active \in DOMAIN commits
  /\ a.pc = "restore" => a.active \in DOMAIN commits

CallIsSound(a) == ReadSoFar(a) /\ ReadIsCommitted(a)

SliceInv == SliceShapes /\ (\A c \in Alpha : CallIsSound(call[c])) /\ Hist!ShownIsActive

-----------------------------------------------------------------------------
(* A text that is read is the modified one, or the original for want of    *)
(* one: never nothing.                                                     *)
LEMMA CurrentIsText == ASSUME NEW t \in Hist!Texts \cup {None} PROVE Hist!Current(t) \in Hist!Texts
BY DEF Hist!Current, Hist!Texts

(* Writing tags leaves a row for every name that had one or is written.    *)
LEMMA ReplacedShape ==
  ASSUME tag \in Hist!Tags, NEW sent \in Hist!Tags
  PROVE  /\ Hist!Replaced(sent) \in Hist!Tags
         /\ DOMAIN Hist!Replaced(sent) = DOMAIN tag \cup DOMAIN sent
<1> DEFINE Look == [spelling : Spelling, colour : Colour]
<1>1. PICK S \in SUBSET Name, R \in SUBSET Name : tag \in [S -> Look] /\ sent \in [R -> Look]
  BY DEF Hist!Tags
<1>2. DOMAIN tag = S /\ DOMAIN sent = R /\ S \cup R \in SUBSET Name
  BY <1>1
<1>3. \A n \in S \cup R : Hist!Replaced(sent)[n] \in Look
  BY <1>1, <1>2 DEF Hist!Replaced
<1>4. Hist!Replaced(sent) \in [S \cup R -> Look]
  BY <1>2, <1>3 DEF Hist!Replaced
<1> QED  BY <1>2, <1>4 DEF Hist!Tags

(* The tags that a slice shows are such as a commit keeps.                 *)
LEMMA ShownShape ==
  ASSUME tag \in Hist!Tags, slice.tags \subseteq DOMAIN tag PROVE Hist!Shown \in Hist!Tags
<1>1. PICK S \in SUBSET Name : tag \in [S -> [spelling : Spelling, colour : Colour]]
  BY DEF Hist!Tags
<1>2. slice.tags \in SUBSET Name /\ \A n \in slice.tags : tag[n] \in [spelling : Spelling, colour : Colour]
  BY <1>1
<1> QED  BY <1>2 DEF Hist!Shown, Hist!Tags

(* A slice that is written from a commit shows that commit.                *)
LEMMA RestoredShape ==
  ASSUME SliceShapes, NEW n \in DOMAIN commits
  PROVE  Hist!Restored(n) \in SliceRow /\ Hist!Restored(n).active = n /\ n \in CommitNumber
<1>1. n \in CommitNumber /\ commits[n] \in CommitRow
  BY DEF SliceShapes, CommitNumber
<1> QED  BY <1>1 DEF Hist!Restored, SliceRow, CommitRow, Hist!Tags

(* The call of one client changes, that of the others stays.               *)
LEMMA OtherCallsStay ==
  ASSUME SliceInv, NEW c \in Alpha, NEW a \in SliceCall, CallIsSound(a),
         call' = [call EXCEPT ![c] = a], UNCHANGED <<slice, tag, commits>>
  PROVE  SliceInv'
<1>1. SliceShapes'
  BY DEF SliceInv, SliceShapes
<1>2. ASSUME NEW d \in Alpha PROVE CallIsSound(call[d])'
  BY DEF SliceInv, SliceShapes, CallIsSound, ReadSoFar, ReadIsCommitted
<1>3. Hist!ShownIsActive'
  BY DEF SliceInv, Hist!ShownIsActive, Hist!Restored
<1> QED  BY <1>1, <1>2, <1>3 DEF SliceInv

(* A client without a call has read nothing.                               *)
LEMMA IdleIsSound == Hist!Idle \in SliceCall /\ CallIsSound(Hist!Idle)
BY DEF Hist!Idle, SliceCall, CallPoint, CallIsSound, ReadSoFar, ReadIsCommitted

(* A new slice has no commit, and nobody has a call.                       *)
LEMMA InitSlices == Hist!Init => SliceInv
<1> SUFFICES ASSUME Hist!Init PROVE SliceInv
  OBVIOUS
<1>4. DOMAIN tag \subseteq Name
  BY DEF Hist!Init, Hist!Tags
<1>5. slice \in SliceRow /\ slice.tags \subseteq DOMAIN tag
  BY <1>4 DEF Hist!Init, SliceRow, Hist!Texts
<1>1. SliceShapes
  BY <1>5, IdleIsSound DEF Hist!Init, SliceShapes
<1>2. \A c \in Alpha : CallIsSound(call[c])
  BY IdleIsSound DEF Hist!Init
<1>3. Hist!ShownIsActive
  BY <1>5 DEF Hist!Init, Hist!ShownIsActive
<1> QED  BY <1>1, <1>2, <1>3 DEF SliceInv

-----------------------------------------------------------------------------
(* A read changes its own call only.                                       *)
LEMMA ReadSliceStep ==
  ASSUME SliceInv, NEW c \in Alpha, NEW kind \in CallKind, Hist!ReadSlice(c, kind) PROVE SliceInv'
<1> DEFINE a == [Hist!Idle EXCEPT !.pc = IF kind = "save" THEN "transcript" ELSE kind,
             !.kind = kind,
                    !.active = slice.active, !.status = slice.status]
<1>1. a \in SliceCall
  BY DEF Hist!Idle, SliceCall, CallPoint, CallKind, SliceInv, SliceShapes, SliceRow
<1>2. ReadSoFar(a)
  BY DEF Hist!Idle, ReadSoFar, CallKind, SliceInv, SliceShapes, SliceRow
<1>3. ReadIsCommitted(a)
  BY DEF Hist!Idle, ReadIsCommitted, CallKind, SliceInv, Hist!ShownIsActive
<1> QED  BY <1>1, <1>2, <1>3, OtherCallsStay DEF Hist!ReadSlice, CallIsSound

(* The text that a save keeps is read after its status.                    *)
LEMMA ReadTranscriptStep ==
  ASSUME SliceInv, NEW c \in Alpha, Hist!ReadTranscript(c) PROVE SliceInv'
<1> DEFINE a == [call[c] EXCEPT !.text = Hist!Current(slice.text), !.pc = "tags"]
<1>1. Hist!Current(slice.text) \in Hist!Texts
  BY CurrentIsText DEF SliceInv, SliceShapes, SliceRow
<1>2. call[c] \in SliceCall /\ CallIsSound(call[c]) /\ call[c].pc = "transcript"
  BY DEF SliceInv, SliceShapes, Hist!ReadTranscript, Hist!Here
<1>3. a \in SliceCall
  BY <1>1, <1>2 DEF SliceCall, CallPoint
<1>4. CallIsSound(a)
  BY <1>1, <1>2 DEF SliceCall, CallIsSound, ReadSoFar, ReadIsCommitted
<1>5. call' = [call EXCEPT ![c] = a]
  BY <1>2 DEF Hist!ReadTranscript, SliceCall, SliceInv, SliceShapes
<1> QED  BY <1>3, <1>4, <1>5, OtherCallsStay DEF Hist!ReadTranscript

(* The tags that a save keeps are read last.                               *)
LEMMA ReadTagsStep ==
  ASSUME SliceInv, NEW c \in Alpha, Hist!ReadTags(c) PROVE SliceInv'
<1> DEFINE a == [call[c] EXCEPT !.tags = Hist!Shown, !.pc = "save"]
<1>1. Hist!Shown \in Hist!Tags
  BY ShownShape DEF SliceInv, SliceShapes, Hist!ShownIsActive
<1>2. call[c] \in SliceCall /\ CallIsSound(call[c]) /\ call[c].pc = "tags"
  BY DEF SliceInv, SliceShapes, Hist!ReadTags, Hist!Here
<1>3. a \in SliceCall
  BY <1>1, <1>2 DEF SliceCall, CallPoint
<1>4. CallIsSound(a)
  BY <1>1, <1>2 DEF SliceCall, CallIsSound, ReadSoFar, ReadIsCommitted
<1>5. call' = [call EXCEPT ![c] = a]
  BY <1>2 DEF Hist!ReadTags, SliceCall, SliceInv, SliceShapes
<1> QED  BY <1>3, <1>4, <1>5, OtherCallsStay DEF Hist!ReadTags

(* A redo reads the latest child of the active commit, which is a commit.  *)
LEMMA ReadChildStep ==
  ASSUME SliceInv, NEW c \in Alpha, Hist!ReadChild(c) PROVE SliceInv'
<1>1. call[c] \in SliceCall /\ CallIsSound(call[c])
  BY DEF SliceInv, SliceShapes
<1>2. ASSUME NEW m \in Hist!Children(call[c].active),
             call' = [call EXCEPT ![c].pc = "restore", ![c].active = m]
      PROVE  SliceInv'
  <2> DEFINE a == [call[c] EXCEPT !.pc = "restore", !.active = m]
  <2>1. m \in DOMAIN commits /\ m \in CommitNumber
    BY RestoredShape DEF Hist!Children, SliceInv
  <2>2. a \in SliceCall /\ CallIsSound(a)
    BY <1>1, <2>1 DEF SliceCall, CallPoint, CallIsSound, ReadSoFar, ReadIsCommitted
  <2>3. call' = [call EXCEPT ![c] = a]
    BY <1>1, <1>2 DEF SliceCall, SliceInv, SliceShapes
  <2> QED  BY <2>2, <2>3, OtherCallsStay DEF Hist!ReadChild
<1>3. CASE call' = [call EXCEPT ![c] = Hist!Idle]
  BY <1>3, IdleIsSound, OtherCallsStay DEF Hist!ReadChild
<1> QED  BY <1>2, <1>3 DEF Hist!ReadChild

-----------------------------------------------------------------------------
(* A write: the commits grow or stay, and the slice is written from one of *)
(* them, or left.                                                          *)
LEMMA WriteSliceStep ==
  ASSUME SliceInv, NEW c \in Alpha, call' = [call EXCEPT ![c] = Hist!Idle],
         commits' \in Seq(CommitRow), Len(commits) <= Len(commits'),
         \A n \in DOMAIN commits : commits'[n] = commits[n],
         \A n \in DOMAIN commits' : commits'[n].parent = None \/ commits'[n].parent < n,
         \/ UNCHANGED <<slice, tag>>
         \/ \E n \in DOMAIN commits' :
              slice' = Hist!Restored(n)' /\ tag' = Hist!Replaced(commits'[n].tags)
  PROVE  SliceInv'
<1>1. DOMAIN commits \subseteq DOMAIN commits'
  BY DEF SliceInv, SliceShapes
<1>2. SliceShapes' /\ Hist!ShownIsActive'
  <2>1. call' \in [Alpha -> SliceCall]
    BY IdleIsSound DEF SliceInv, SliceShapes
  <2>2. CASE UNCHANGED <<slice, tag>>
    BY <1>1, <2>1, <2>2 DEF SliceInv, SliceShapes, Hist!ShownIsActive, Hist!Restored
  <2>3. CASE \E n \in DOMAIN commits' :
               slice' = Hist!Restored(n)' /\ tag' = Hist!Replaced(commits'[n].tags)
    <3>1. PICK n \in DOMAIN commits' :
            slice' = Hist!Restored(n)' /\ tag' = Hist!Replaced(commits'[n].tags)
      BY <2>3
    <3>2. n \in CommitNumber /\ commits'[n] \in CommitRow
      BY DEF CommitNumber
    <3>3. commits'[n].tags \in Hist!Tags /\ DOMAIN commits'[n].tags \in SUBSET Name
      BY <3>2 DEF CommitRow, Hist!Tags
    <3>4. tag' \in Hist!Tags /\ DOMAIN commits'[n].tags \subseteq DOMAIN tag'
      BY <3>1, <3>3, ReplacedShape DEF SliceInv, SliceShapes
    <3>5. slice' \in SliceRow /\ slice'.active = n /\ slice'.tags = DOMAIN commits'[n].tags
      BY <3>1, <3>2, <3>3 DEF Hist!Restored, SliceRow, CommitRow
    <3> QED  BY <2>1, <3>1, <3>4, <3>5 DEF SliceShapes, Hist!ShownIsActive
  <2> QED  BY <2>2, <2>3
<1>3. ASSUME NEW d \in Alpha PROVE CallIsSound(call[d])'
  BY <1>1, IdleIsSound DEF SliceInv, SliceShapes, CallIsSound, ReadSoFar, ReadIsCommitted, Hist!Idle
<1> QED  BY <1>2, <1>3 DEF SliceInv

(* An undo or a redo writes the slice from a commit that is there.         *)
LEMMA RestoreSliceStep ==
  ASSUME SliceInv, NEW c \in Alpha, call' = [call EXCEPT ![c] = Hist!Idle], UNCHANGED commits,
         \/ UNCHANGED <<slice, tag>>
         \/ \E n \in DOMAIN commits :
              slice' = Hist!Restored(n) /\ tag' = Hist!Replaced(commits[n].tags)
  PROVE  SliceInv'
<1>1. /\ commits' \in Seq(CommitRow) /\ Len(commits) <= Len(commits')
      /\ \A n \in DOMAIN commits : commits'[n] = commits[n]
  BY DEF SliceInv, SliceShapes
<1>2. \A n \in DOMAIN commits' : commits'[n].parent = None \/ commits'[n].parent < n
  BY DEF SliceInv, Hist!ShownIsActive
<1>3. \A n \in DOMAIN commits : Hist!Restored(n)' = Hist!Restored(n)
  BY DEF Hist!Restored
<1> QED  BY <1>1, <1>2, <1>3, WriteSliceStep

(* The parent of a commit comes before it, hence is there.                 *)
LEMMA UndoStep == ASSUME SliceInv, NEW c \in Alpha, Hist!Undo(c) PROVE SliceInv'
<1> DEFINE n == call[c].active
            p == commits[n].parent
<1>1. CASE /\ n # None /\ p # None
           /\ slice' = Hist!Restored(p) /\ tag' = Hist!Replaced(commits[p].tags)
  <2>1. n \in DOMAIN commits
    BY <1>1 DEF SliceInv, CallIsSound, ReadIsCommitted
  <2>2. p < n
    BY <1>1, <2>1 DEF SliceInv, Hist!ShownIsActive
  <2> commits[n] \in CommitRow
    BY <2>1 DEF SliceInv, SliceShapes
  <2>4. p \in CommitNumber
    BY <1>1 DEF CommitRow
  <2>3. p \in DOMAIN commits
    BY <2>1, <2>2, <2>4 DEF SliceInv, SliceShapes, CommitNumber
  <2> QED  BY <1>1, <2>3, RestoreSliceStep DEF Hist!Undo
<1>2. CASE UNCHANGED <<slice, tag>>
  BY <1>2, RestoreSliceStep DEF Hist!Undo
<1> QED  BY <1>1, <1>2 DEF Hist!Undo

(* What a redo has read is still a commit.                                 *)
LEMMA RedoStep == ASSUME SliceInv, NEW c \in Alpha, Hist!Redo(c) PROVE SliceInv'
<1>1. call[c].active \in DOMAIN commits
  BY DEF Hist!Redo, Hist!Here, SliceInv, CallIsSound, ReadIsCommitted
<1> QED  BY <1>1, RestoreSliceStep DEF Hist!Redo

(* A save appends one commit, or two when it finds no history; each names  *)
(* an earlier one as its parent, or none.                                  *)
LEMMA SaveStep == ASSUME SliceInv, NEW c \in Alpha, Hist!Save(c) PROVE SliceInv'
<1> DEFINE a      == call[c]
            base   == Hist!Baseline(a)
            parent == IF a.active # None THEN a.active ELSE Len(base)
<1>1. /\ commits \in Seq(CommitRow) /\ slice \in SliceRow
      /\ a.status \in Status /\ a.text \in Hist!Texts /\ a.tags \in Hist!Tags
      /\ a.active = None \/ a.active \in DOMAIN commits
  BY DEF Hist!Save, Hist!Here, SliceInv, SliceShapes, CallIsSound, ReadSoFar, ReadIsCommitted
<1>2. /\ base \in Seq(CommitRow) /\ Len(commits) <= Len(base)
      /\ \A n \in DOMAIN commits : base[n] = commits[n]
      /\ \A n \in DOMAIN base : base[n].parent = None \/ base[n].parent < n
      /\ a.active = None => Len(base) = Len(commits) + 1
  <2>1. CASE a.active # None
    BY <1>1, <2>1 DEF Hist!Baseline, SliceInv, Hist!ShownIsActive
  <2>2. CASE a.active = None
    <3> DEFINE first == Hist!Commit(None, a.status, a.text, a.tags)
    <3>1. first \in CommitRow /\ first.parent = None
      BY <1>1 DEF Hist!Commit, CommitRow
    <3> HIDE DEF first
    <3>2. base = Append(commits, first)
      BY <2>2 DEF Hist!Baseline, first
    <3> QED  BY <1>1, <3>1, <3>2 DEF SliceInv, Hist!ShownIsActive
  <2> QED  BY <2>1, <2>2
<1> HIDE DEF base
<1>3. parent \in CommitNumber /\ parent <= Len(base)
  BY <1>1, <1>2 DEF CommitNumber
<1>12. Hist!Shown \in Hist!Tags
  BY ShownShape DEF SliceInv, SliceShapes, Hist!ShownIsActive
<1>4. PICK status \in Status, text \in Hist!Texts, tags \in Hist!Tags :
        /\ slice' = [status |-> status, text |-> text, tags |-> DOMAIN tags,
                     active |-> Len(base) + 1]
        /\ tag' = Hist!Replaced(tags)
        /\ commits' = Append(base, Hist!Commit(parent, status, text, tags))
  BY <1>1, <1>12 DEF Hist!Save, Hist!Texts, base
<1> DEFINE new == Hist!Commit(parent, status, text, tags)
<1>5. new \in CommitRow /\ new.parent = parent
  BY <1>3 DEF Hist!Commit, CommitRow
<1>6. /\ slice' = [status |-> new.status, text |-> new.text, tags |-> DOMAIN new.tags,
                   active |-> Len(base) + 1]
      /\ tag' = Hist!Replaced(new.tags)
  BY <1>4 DEF Hist!Commit
<1> HIDE DEF new, parent
<1>7. /\ commits' \in Seq(CommitRow) /\ Len(commits') = Len(base) + 1
      /\ \A n \in DOMAIN base : commits'[n] = base[n]
      /\ commits'[Len(base) + 1] = new
  BY <1>2, <1>4, <1>5 DEF new
<1>8. \E n \in DOMAIN commits' :
        slice' = Hist!Restored(n)' /\ tag' = Hist!Replaced(commits'[n].tags)
  <2>1. PICK n \in CommitNumber : n = Len(base) + 1
    BY <1>2 DEF CommitNumber
  <2>2. n \in DOMAIN commits' /\ commits'[n] = new
    BY <1>7, <2>1
  <2> QED  BY <1>6, <2>1, <2>2 DEF Hist!Restored
<1>9. \A n \in DOMAIN commits : commits'[n] = commits[n]
  BY <1>1, <1>2, <1>7
<1>10. \A n \in DOMAIN commits' : commits'[n].parent = None \/ commits'[n].parent < n
  BY <1>2, <1>3, <1>5, <1>7 DEF CommitNumber
<1>11. call' = [call EXCEPT ![c] = Hist!Idle] /\ Len(commits) <= Len(commits')
  BY <1>1, <1>2, <1>7 DEF Hist!Save
<1> QED  BY <1>7, <1>8, <1>9, <1>10, <1>11, WriteSliceStep

(* The requests of other slices write the shared rows only, and no row     *)
(* goes.                                                                   *)
LEMMA WriteElsewhereStep == ASSUME SliceInv, Hist!WriteElsewhere PROVE SliceInv'
<1>1. PICK sent \in Hist!Tags : tag' = Hist!Replaced(sent)
  BY DEF Hist!WriteElsewhere
<1>2. tag' \in Hist!Tags /\ DOMAIN tag \subseteq DOMAIN tag'
  BY <1>1, ReplacedShape DEF SliceInv, SliceShapes
<1>3. UNCHANGED <<slice, commits, call>>
  BY DEF Hist!WriteElsewhere
<1>4. SliceShapes'
  BY <1>2, <1>3 DEF SliceInv, SliceShapes
<1>5. Hist!ShownIsActive'
  BY <1>2, <1>3 DEF SliceInv, Hist!ShownIsActive, Hist!Restored
<1>6. \A c \in Alpha : CallIsSound(call[c])'
  BY <1>3 DEF SliceInv, CallIsSound, ReadSoFar, ReadIsCommitted
<1> QED  BY <1>4, <1>5, <1>6 DEF SliceInv

-----------------------------------------------------------------------------
(* Every step of the requests on a slice keeps the invariant.              *)
LEMMA StepSlices == SliceInv /\ [Hist!Next]_slices => SliceInv'
<1> SUFFICES ASSUME SliceInv, [Hist!Next]_slices PROVE SliceInv'
  OBVIOUS
<1>1. CASE UNCHANGED slices
  BY <1>1 DEF slices, SliceInv, SliceShapes, CallIsSound, ReadSoFar, ReadIsCommitted,
     Hist!ShownIsActive, Hist!Restored
<1>2. ASSUME NEW c \in Alpha, NEW kind \in CallKind, Hist!ReadSlice(c, kind) PROVE SliceInv'
  BY <1>2, ReadSliceStep
<1>3. ASSUME NEW c \in Alpha, Hist!ReadTranscript(c) \/ Hist!ReadTags(c)
        \/ Hist!ReadChild(c) PROVE SliceInv'
  BY <1>3, ReadTranscriptStep, ReadTagsStep, ReadChildStep
<1>4. ASSUME NEW c \in Alpha, Hist!Save(c) \/ Hist!Undo(c) \/ Hist!Redo(c) PROVE SliceInv'
  BY <1>4, SaveStep, UndoStep, RedoStep
<1>5. CASE Hist!WriteElsewhere
  BY <1>5, WriteElsewhereStep
<1> QED  BY <1>1, <1>2, <1>3, <1>4, <1>5 DEF Hist!Next, CallKind

-----------------------------------------------------------------------------
(* A step of the whole is one of the slices or leaves them alone.          *)
LEMMA SlicesMove == [Next]_vars => [Hist!Next]_slices
BY DEF Next, vars

(* Whatever saves, undos and redos overlap, of this slice or of others, a  *)
(* slice shows the status, the text and the tags, by name, of its active   *)
(* commit, and every commit's parent was there before it                   *)
(* (native_cliplab.py): for any clients, texts, tags and number of         *)
(* commits.                                                                *)
THEOREM SliceShowsItsCommit == Spec => []ShownIsActive
<1>1. Init => SliceInv
  BY InitSlices DEF Init
<1>2. SliceInv /\ [Next]_vars => SliceInv'
  BY StepSlices, SlicesMove
<1>3. SliceInv => ShownIsActive
  BY DEF SliceInv, ShownIsActive
<1> QED  BY <1>1, <1>2, <1>3, PTL DEF Spec

-----------------------------------------------------------------------------
(* The job, the thread and the process of a download of a recognition      *)
(* model; Asr is the module AsrEnsure.                                     *)
Gone    == {"none", "ended"}
Telling   == {"start", "fetch", "tell", "verified"}
DownloaderPoint == Telling \cup {"leaving"} \cup Gone
TendingPoint   == {"none", "begin", "spawn", "read", "raised", "handled", "finally", "done", "lost"}
Job       == [model : Sizes, phase : Asr!Open \cup {"complete", "failed"},
              ok : {"undecided", "yes", "no"}, files : {"unknown", "some"}]
AnyLine   == [event : {"progress"}, files : {"unknown", "some"}]
               \cup [event : {"result"}, ok : BOOLEAN] \cup [event : {"noise"}]
Downloader   == [at : DownloaderPoint, found : {"nothing", "ok", "bad"}, pipe : Seq(AnyLine)]

JobShapes ==
  /\ jobs \in [JobId -> Job \cup {Asr!Unknown}]
  /\ active \in [Sizes -> JobId \cup {0}]
  /\ tending \in [JobId -> TendingPoint]
  /\ ensurer \in [JobId -> Downloader]
  /\ cache \in [Sizes -> SUBSET Asr!File]
  /\ issued \in Nat /\ losses \in Nat

(* A job is known from its first thread on, and its phase says how it      *)
(* went; one that is under way is the one that requests are answered with. *)
JobIsSound(i) ==
  /\ tending[i] = "none" <=> jobs[i] = Asr!Unknown
  /\ tending[i] # "none" => i <= issued
  /\ jobs[i] # Asr!Unknown =>
       /\ jobs[i].phase \in Asr!Open     => jobs[i].ok = "undecided"
       /\ jobs[i].phase = "complete" => jobs[i].ok = "yes" /\ Asr!Valid(cache[jobs[i].model])
       /\ jobs[i].phase = "failed"   => jobs[i].ok = "no"
       /\ jobs[i].phase \in Asr!Open /\ tending[i] # "lost" => active[jobs[i].model] = i

(* Where the thread is tells whether the job is decided and the process    *)
(* gone.                                                                   *)
ThreadIsSound(i) ==
  /\ tending[i] \in {"begin", "spawn"} => jobs[i].phase \in Asr!Open
  /\ tending[i] \in {"none", "begin", "spawn"} => ensurer[i] = Asr!NoProcess
  /\ tending[i] \in {"finally", "done"} => jobs[i].phase \notin Asr!Open
  /\ tending[i] \in {"handled", "finally", "done"} => ensurer[i].at \in Gone

(* What is still to be read while job j is tended, p its process and files *)
(* the snapshot of its model: after the result only noise, and the result  *)
(* is said once, with the files in place if it is a good one.              *)
PipeIsSound(j, p, files) ==
  /\ \A m, n \in DOMAIN p.pipe : m < n /\ p.pipe[m].event = "result" => p.pipe[n].event = "noise"
  /\ \A m \in DOMAIN p.pipe :
       /\ p.at \in Telling => p.pipe[m].event # "result"
       /\ j.phase \notin Asr!Open => p.pipe[m].event = "noise"
       /\ p.pipe[m].event = "result" /\ p.pipe[m].ok => Asr!Valid(files)
  /\ p.at \in Telling => j.phase \in Asr!Open
  /\ p.at = "verified" /\ p.found = "ok" => Asr!Valid(files)

ReadIsSound(i) == tending[i] = "read" => PipeIsSound(jobs[i], ensurer[i], cache[jobs[i].model])

JobsInv == JobShapes /\ \A i \in JobId : JobIsSound(i) /\ ThreadIsSound(i) /\ ReadIsSound(i)

-----------------------------------------------------------------------------
(* What a line or the end of a process makes of a job.                     *)
LEMMA JobForms ==
  ASSUME NEW j \in Job
  PROVE  /\ Asr!Failed(j) \in Job /\ Asr!Failed(j).model = j.model
              /\ Asr!Failed(j).phase = "failed" /\ Asr!Failed(j).ok = "no"
         /\ Asr!Complete(j) \in Job /\ Asr!Complete(j).model = j.model
              /\ Asr!Complete(j).phase = "complete"
         /\ Asr!Complete(j).ok = "yes"
         /\ \A files \in {"unknown", "some"} :
              LET k == Asr!Progress(j, "downloading", files)
              IN  k \in Job /\ k.model = j.model /\ k.phase = "downloading" /\ k.ok = j.ok
BY DEF Asr!Failed, Asr!Complete, Asr!Progress, Job, Asr!Open

(* The forms of what a job starts with.                                    *)
LEMMA JobSorts ==
  /\ Asr!Unknown \notin Job /\ Asr!NoProcess \in Downloader /\ Asr!NoProcess.at = "none"
       /\ Asr!NoProcess.pipe = <<>>
  /\ \A m \in Sizes :
       /\ Asr!NewJob(m) \in Job /\ Asr!NewJob(m).model = m
       /\ Asr!NewJob(m).phase = "queued" /\ Asr!NewJob(m).ok = "undecided"
  /\ Asr!Open = {"queued", "downloading", "verifying"}
<1>1. <<>> \in Seq(AnyLine)
  OBVIOUS
<1>2. Asr!NoProcess \in Downloader
  BY <1>1 DEF Asr!NoProcess, Downloader, DownloaderPoint, Telling, Gone
<1> QED  BY <1>2 DEF Asr!Unknown, Job, Asr!NoProcess, Asr!NewJob, Asr!Open

(* The cache only grows, and a snapshot the worker can load stays one.     *)
LEMMA ValidStays ==
  ASSUME NEW files, NEW more, files \subseteq more, Asr!Valid(files)
  PROVE  Asr!Valid(more)
BY DEF Asr!Valid

(* One job moves, the others stay.                                         *)
LEMMA OwnJobStep ==
  ASSUME JobsInv, JobShapes', NEW i \in JobId,
         \A d \in JobId : d # i => jobs'[d] = jobs[d] /\ tending'[d] = tending[d]
           /\ ensurer'[d] = ensurer[d],
         \A d \in JobId : d # i /\ jobs[d] # Asr!Unknown /\ jobs[d].phase \in Asr!Open
           /\ tending[d] # "lost"
                       => active'[jobs[d].model] = d,
         \A m \in Sizes : cache[m] \subseteq cache'[m], issued <= issued',
         JobIsSound(i)', ThreadIsSound(i)', ReadIsSound(i)'
  PROVE  JobsInv'
<1> SUFFICES ASSUME NEW d \in JobId, d # i
             PROVE  JobIsSound(d)' /\ ThreadIsSound(d)' /\ ReadIsSound(d)'
  BY DEF JobsInv
<1>1. /\ jobs'[d] = jobs[d] /\ tending'[d] = tending[d] /\ ensurer'[d] = ensurer[d]
      /\ JobIsSound(d) /\ ThreadIsSound(d) /\ ReadIsSound(d)
      /\ jobs[d] \in Job \cup {Asr!Unknown} /\ issued \in Nat /\ issued' \in Nat /\ d \in Nat
  BY EnsureAssumption DEF JobsInv, JobShapes
<1>2. jobs[d] # Asr!Unknown => \A j \in Job : j = jobs[d] =>
         cache[j.model] \subseteq cache'[j.model]
  BY DEF Job
<1>3. jobs[d] # Asr!Unknown => (Asr!Valid(cache[jobs[d].model]) => Asr!Valid(cache'[jobs[d].model]))
  BY <1>1, <1>2, ValidStays
<1>4. JobIsSound(d)'
  BY <1>1, <1>3 DEF JobIsSound, Asr!Valid
<1>5. ThreadIsSound(d)'
  BY <1>1 DEF ThreadIsSound
<1>6. ReadIsSound(d)'
  <2>1. tending[d] = "read" => jobs[d] # Asr!Unknown
    BY <1>1 DEF JobIsSound
  <2> QED  BY <1>1, <1>3, <2>1 DEF ReadIsSound, PipeIsSound, Asr!Valid
<1> QED  BY <1>4, <1>5, <1>6

-----------------------------------------------------------------------------
(* The process of a job moves: what it has written stays to be read.       *)
LEMMA ProcessStep ==
  ASSUME JobsInv, NEW i \in JobId, ensurer[i].at \notin Gone,
         NEW P \in Downloader, ensurer' = [ensurer EXCEPT ![i] = P],
         cache' \in [Sizes -> SUBSET Asr!File], \A m \in Sizes : cache[m] \subseteq cache'[m],
         UNCHANGED <<jobs, active, tending, issued, losses>>,
         tending[i] = "read" => PipeIsSound(jobs[i], P, cache'[jobs[i].model])
  PROVE  JobsInv'
<1>1. JobShapes' /\ ensurer'[i] = P /\ \A d \in JobId : d # i => ensurer'[d] = ensurer[d]
  BY DEF JobsInv, JobShapes
<1>2. JobIsSound(i) /\ ThreadIsSound(i) /\ jobs[i] \in Job \cup {Asr!Unknown}
  BY DEF JobsInv, JobShapes
<1>3. jobs[i] # Asr!Unknown => (Asr!Valid(cache[jobs[i].model]) => Asr!Valid(cache'[jobs[i].model]))
  BY <1>2, ValidStays DEF Job
<1>4. JobIsSound(i)'
  BY <1>2, <1>3 DEF JobIsSound, Asr!Valid
<1>5. ThreadIsSound(i)'
  BY <1>2, JobSorts DEF ThreadIsSound, Gone
<1>6. ReadIsSound(i)'
  BY <1>1 DEF ReadIsSound, PipeIsSound, Asr!Valid
<1>7. \A d \in JobId : d # i /\ jobs[d] # Asr!Unknown /\ jobs[d].phase \in Asr!Open
        /\ tending[d] # "lost"
                    => active'[jobs[d].model] = d
  BY DEF JobsInv, JobIsSound
<1>8. issued <= issued'
  BY DEF JobsInv, JobShapes
<1> QED  BY <1>1, <1>4, <1>5, <1>6, <1>7, <1>8, OwnJobStep

(* What is known of the job and the process wherever they move.            *)
LEMMA ReadingFacts ==
  ASSUME JobsInv, NEW i \in JobId
  PROVE  /\ ensurer[i] \in Downloader /\ ensurer[i].pipe \in Seq(AnyLine)
         /\ tending[i] = "read" => /\ PipeIsSound(jobs[i], ensurer[i], cache[jobs[i].model])
                                  /\ jobs[i] \in Job
         /\ tending[i] \notin {"none", "lost"} => jobs[i] \in Job
         /\ ensurer[i].at \notin Gone => jobs[i] \in Job
         /\ jobs[i] \in Job => jobs[i] # Asr!Unknown /\ jobs[i].model \in Sizes
BY JobSorts DEF JobsInv, JobShapes, Downloader, ReadIsSound, JobIsSound, ThreadIsSound, Job, Gone

(* A line is written: before the result is told, the result, or noise.     *)
LEMMA ToldStep ==
  ASSUME JobsInv, NEW i \in JobId, NEW line \in AnyLine, NEW to \in DownloaderPoint,
         ensurer[i].at \notin Gone, Asr!Told(i, line, to),
         to \in Telling => ensurer[i].at \in Telling, to = "verified" => ensurer[i].at = to,
         line.event # "noise" => ensurer[i].at \in Telling,
         line.event = "result" => /\ to \notin Telling
                                  /\ line.ok => ensurer[i].at = "verified"
                                       /\ ensurer[i].found = "ok",
         UNCHANGED <<jobs, active, tending, cache, issued, losses>>
  PROVE  JobsInv'
<1> DEFINE s == Append(ensurer[i].pipe, line)
           P == [ensurer[i] EXCEPT !.pipe = s, !.at = to]
<1>1. ensurer[i] \in Downloader /\ ensurer[i].pipe \in Seq(AnyLine)
  BY ReadingFacts
<1>2. /\ s \in Seq(AnyLine) /\ Len(s) = Len(ensurer[i].pipe) + 1 /\ s[Len(s)] = line
      /\ \A n \in DOMAIN ensurer[i].pipe : s[n] = ensurer[i].pipe[n]
      /\ \A n \in DOMAIN s : n \in DOMAIN ensurer[i].pipe \/ n = Len(s)
      /\ \A n \in DOMAIN s : n \in Nat /\ n <= Len(s)
      /\ Len(s) \in Nat
  BY <1>1
<1> HIDE DEF s
<1>3. P \in Downloader /\ P.pipe = s /\ P.at = to /\ P.found = ensurer[i].found
  BY <1>1, <1>2 DEF Downloader
<1>4. ensurer' = [ensurer EXCEPT ![i] = P]
  BY <1>1 DEF Asr!Told, s, JobsInv, JobShapes, Downloader
<1> HIDE DEF P
<1>5. ASSUME tending[i] = "read" PROVE PipeIsSound(jobs[i], P, cache[jobs[i].model])
  <2>1. PipeIsSound(jobs[i], ensurer[i], cache[jobs[i].model])
    BY <1>5, ReadingFacts
  <2>2. \A m, n \in DOMAIN s : m < n => m \in DOMAIN ensurer[i].pipe
    BY <1>2
  <2>3. ASSUME NEW m \in DOMAIN s, NEW n \in DOMAIN s, m < n, s[m].event = "result"
        PROVE  s[n].event = "noise"
    <3>1. m \in DOMAIN ensurer[i].pipe /\ ensurer[i].pipe[m].event = "result"
      BY <2>2, <2>3, <1>2
    <3>2. ensurer[i].at \notin Telling
      BY <2>1, <3>1 DEF PipeIsSound
    <3>3. CASE n = Len(s)
      BY <3>2, <3>3, <1>2
    <3>4. CASE n \in DOMAIN ensurer[i].pipe
      BY <3>1, <3>4, <2>1, <2>3, <1>2 DEF PipeIsSound
    <3> QED  BY <3>3, <3>4, <1>2
  <2>4. ASSUME NEW m \in DOMAIN s
        PROVE  /\ to \in Telling => s[m].event # "result"
               /\ jobs[i].phase \notin Asr!Open => s[m].event = "noise"
               /\ s[m].event = "result" /\ s[m].ok => Asr!Valid(cache[jobs[i].model])
    <3>1. CASE m \in DOMAIN ensurer[i].pipe
      BY <3>1, <2>1, <1>2 DEF PipeIsSound
    <3>2. CASE s[m] = line
      BY <3>2, <2>1 DEF PipeIsSound
    <3> QED  BY <3>1, <3>2, <1>2
  <2>5. /\ to \in Telling => jobs[i].phase \in Asr!Open
        /\ to = "verified" /\ ensurer[i].found = "ok" => Asr!Valid(cache[jobs[i].model])
    BY <2>1 DEF PipeIsSound
  <2> QED  BY <1>3, <2>3, <2>4, <2>5 DEF PipeIsSound
<1>6. cache' \in [Sizes -> SUBSET Asr!File]
  BY DEF JobsInv, JobShapes
<1> QED  BY <1>3, <1>4, <1>5, <1>6, ProcessStep

(* The lines that a process writes.                                        *)
LEMMA LineSorts ==
  /\ Asr!Line("unknown") \in AnyLine /\ Asr!Line("some") \in AnyLine
  /\ Asr!Line("unknown").event = "progress" /\ Asr!Line("some").event = "progress"
  /\ \A b \in BOOLEAN : [event |-> "result", ok |-> b] \in AnyLine
  /\ [event |-> "noise"] \in AnyLine
BY DEF Asr!Line, AnyLine

(* The process writes a line.                                              *)
LEMMA TellingStep ==
  ASSUME JobsInv, NEW i \in JobId, Asr!Announce(i) \/ Asr!Tell(i) \/ Asr!Report(i) \/ Asr!Noise(i)
  PROVE  JobsInv'
<1>1. CASE Asr!Announce(i)
  BY <1>1, LineSorts, ToldStep DEF Asr!Announce, Telling, Gone, DownloaderPoint
<1>2. CASE Asr!Tell(i)
  BY <1>2, LineSorts, ToldStep DEF Asr!Tell, Telling, Gone, DownloaderPoint
<1>3. CASE Asr!Report(i)
  <2> DEFINE line == [event |-> "result", ok |-> ensurer[i].found = "ok"]
  <2>1. line \in AnyLine /\ line.event = "result" /\ (line.ok => ensurer[i].found = "ok")
    BY DEF AnyLine
  <2>2. Asr!Told(i, line, "leaving") /\ ensurer[i].at = "verified"
    BY <1>3 DEF Asr!Report
  <2> HIDE DEF line
  <2> QED  BY <1>3, <2>1, <2>2, ToldStep DEF Asr!Report, Telling, Gone, DownloaderPoint
<1>4. CASE Asr!Noise(i)
  <2> DEFINE line == [event |-> "noise"]
  <2>1. line \in AnyLine /\ line.event = "noise"
    BY DEF AnyLine
  <2>2. Asr!Told(i, line, ensurer[i].at) /\ ensurer[i].at \in {"start", "leaving"}
    BY <1>4 DEF Asr!Noise
  <2> HIDE DEF line
  <2> QED  BY <1>4, <2>1, <2>2, ToldStep DEF Asr!Noise, Telling, Gone, DownloaderPoint
<1> QED  BY <1>1, <1>2, <1>3, <1>4

(* One more file is in the cache of all processes.                         *)
LEMMA FetchStep ==
  ASSUME JobsInv, NEW i \in JobId, Asr!Fetch(i)
  PROVE  JobsInv'
<1> DEFINE P == [ensurer[i] EXCEPT !.at = "tell"]
<1>1. ensurer[i] \in Downloader /\ ensurer[i].at = "fetch" /\ cache \in [Sizes -> SUBSET Asr!File]
  BY ReadingFacts DEF Asr!Fetch, JobsInv, JobShapes
<1>2. P \in Downloader /\ P.at = "tell" /\ P.pipe = ensurer[i].pipe
  BY <1>1 DEF Downloader, DownloaderPoint, Telling
<1>3. ensurer' = [ensurer EXCEPT ![i] = P] /\ UNCHANGED <<jobs, active, tending, issued, losses>>
  BY DEF Asr!Fetch
<1> HIDE DEF P
<1>4. PICK f \in Asr!File : cache' = [cache EXCEPT ![jobs[i].model] = @ \cup {f}]
  BY DEF Asr!Fetch
<1>5. jobs[i].model \in Sizes
  BY <1>1, ReadingFacts DEF Gone
<1>6. cache' \in [Sizes -> SUBSET Asr!File] /\ \A m \in Sizes : cache[m] \subseteq cache'[m]
  BY <1>1, <1>4, <1>5
<1>7. tending[i] = "read" => PipeIsSound(jobs[i], P, cache'[jobs[i].model])
  BY <1>1, <1>2, <1>5, <1>6, ReadingFacts, ValidStays DEF PipeIsSound, Telling
<1> QED  BY <1>1, <1>2, <1>3, <1>6, <1>7, ProcessStep DEF Gone

(* What only changes where the process is, or what it has found.           *)
LEMMA TurnStep ==
  ASSUME JobsInv, NEW i \in JobId,
         Asr!Verify(i) \/ Asr!Exit(i) \/ Asr!Die(i) \/ Asr!Broken(i)
  PROVE  JobsInv'
<1>1. ensurer[i] \in Downloader /\ UNCHANGED <<jobs, active, tending, cache, issued, losses>>
  BY ReadingFacts DEF Asr!Verify, Asr!Exit, Asr!Die, Asr!Broken
<1>2. cache' \in [Sizes -> SUBSET Asr!File] /\ \A m \in Sizes : cache[m] \subseteq cache'[m]
  BY <1>1 DEF JobsInv, JobShapes
<1>3. ASSUME NEW found \in {"ok", "bad"}, ensurer[i].at = "fetch",
             ensurer' = [ensurer EXCEPT ![i].at = "verified", ![i].found = found],
             found = "ok" => Asr!Valid(cache[jobs[i].model])
      PROVE  JobsInv'
  <2> DEFINE P == [ensurer[i] EXCEPT !.at = "verified", !.found = found]
  <2>1. /\ P \in Downloader /\ P.at = "verified" /\ P.pipe = ensurer[i].pipe /\ P.found = found
        /\ ensurer' = [ensurer EXCEPT ![i] = P]
    BY <1>1, <1>3 DEF Downloader, DownloaderPoint, Telling, JobsInv, JobShapes
  <2> HIDE DEF P
  <2>2. tending[i] = "read" => PipeIsSound(jobs[i], P, cache'[jobs[i].model])
    BY <1>1, <1>3, <2>1, ReadingFacts DEF PipeIsSound, Telling
  <2> QED  BY <1>1, <1>2, <1>3, <2>1, <2>2, ProcessStep DEF Gone
<1>4. ASSUME ensurer[i].at \notin Gone, ensurer' = [ensurer EXCEPT ![i].at = "ended"]
      PROVE  JobsInv'
  <2> DEFINE P == [ensurer[i] EXCEPT !.at = "ended"]
  <2>1. /\ P \in Downloader /\ P.at = "ended" /\ P.pipe = ensurer[i].pipe
        /\ ensurer' = [ensurer EXCEPT ![i] = P]
    BY <1>1, <1>4 DEF Downloader, DownloaderPoint, Gone
  <2> HIDE DEF P
  <2>2. tending[i] = "read" => PipeIsSound(jobs[i], P, cache'[jobs[i].model])
    BY <1>1, <2>1, ReadingFacts DEF PipeIsSound, Telling
  <2> QED  BY <1>1, <1>2, <1>4, <2>1, <2>2, ProcessStep
<1>5. CASE Asr!Verify(i)
  <2>1. CASE ensurer' = [ensurer EXCEPT ![i].at = "verified", ![i].found = "bad"]
    BY <1>3, <1>5, <2>1 DEF Asr!Verify
  <2>2. CASE Asr!Valid(cache[jobs[i].model]) /\ ensurer' = [ensurer EXCEPT ![i].at = "verified",
               ![i].found = "ok"]
    BY <1>3, <1>5, <2>2 DEF Asr!Verify
  <2> QED  BY <1>5, <2>1, <2>2 DEF Asr!Verify
<1>6. CASE Asr!Exit(i) \/ Asr!Die(i)
  BY <1>4, <1>6 DEF Asr!Exit, Asr!Die, Gone
<1>7. CASE Asr!Broken(i)
  <2> DEFINE P == Asr!Ended(ensurer[i])
  <2>1. P \in Downloader /\ ensurer' = [ensurer EXCEPT ![i] = P] /\ ensurer[i].at \notin Gone
          /\ tending[i] # "read"
    <3>1. <<>> \in Seq(AnyLine)
      OBVIOUS
    <3> QED  BY <1>1, <1>7, <3>1 DEF Asr!Broken, Asr!Orphan, Asr!Ended, Downloader,
          DownloaderPoint, Gone
  <2> HIDE DEF P
  <2> QED  BY <1>1, <1>2, <2>1, ProcessStep
<1> QED  BY <1>5, <1>6, <1>7

-----------------------------------------------------------------------------
(* The thread of job i goes to T, the job becomes J and its process P.     *)
ThreadMoves(i, T, J, P) ==
  /\ tending[i] \notin {"none", "lost"} /\ T \in TendingPoint /\ T \notin {"none", "lost"}
  /\ tending' = [tending EXCEPT ![i] = T]
  /\ J \in Job /\ jobs' = [jobs EXCEPT ![i] = J] /\ J.model = jobs[i].model
  /\ P \in Downloader /\ ensurer' = [ensurer EXCEPT ![i] = P]
  /\ UNCHANGED <<cache, issued, losses>>
  /\ \/ active' = active
     \/ /\ J.phase \notin Asr!Open /\ active[J.model] \in {0, i}
        /\ active' = [active EXCEPT ![J.model] = 0]
  /\ J.phase \in Asr!Open => jobs[i].phase \in Asr!Open /\ J.ok = jobs[i].ok
  /\ J.phase = "complete" => J.ok = "yes" /\ Asr!Valid(cache[J.model])
  /\ J.phase = "failed" => J.ok = "no"
  /\ T \in {"begin", "spawn"} => J.phase \in Asr!Open /\ P = Asr!NoProcess
  /\ T \in {"finally", "done"} => J.phase \notin Asr!Open
  /\ T \in {"handled", "finally", "done"} => P.at \in Gone
  /\ T = "read" => PipeIsSound(J, P, cache[J.model])

(* The other jobs are neither tended nor registered by this thread.        *)
LEMMA ThreadStep ==
  ASSUME JobsInv, NEW i \in JobId, NEW T, NEW J, NEW P, ThreadMoves(i, T, J, P)
  PROVE  JobsInv'
<1>1. /\ jobs'[i] = J /\ tending'[i] = T /\ ensurer'[i] = P
      /\ \A d \in JobId : d # i => jobs'[d] = jobs[d] /\ tending'[d] = tending[d]
           /\ ensurer'[d] = ensurer[d]
  BY DEF ThreadMoves, JobsInv, JobShapes
<1>2. JobShapes'
  BY DEF ThreadMoves, JobsInv, JobShapes
<1>3. JobIsSound(i) /\ jobs[i] \in Job /\ J # Asr!Unknown /\ J.model \in Sizes
  BY ReadingFacts, JobSorts DEF ThreadMoves, JobsInv, Job
<1>4. J.phase \in Asr!Open => active[J.model] = i
  BY <1>3, JobSorts DEF ThreadMoves, JobIsSound
<1>5. JobIsSound(i)'
  BY <1>1, <1>3, <1>4, JobSorts DEF ThreadMoves, JobIsSound
<1>6. ThreadIsSound(i)'
  BY <1>1 DEF ThreadMoves, ThreadIsSound
<1>7. ReadIsSound(i)'
  BY <1>1 DEF ThreadMoves, ReadIsSound, PipeIsSound, Asr!Valid
<1>8. ASSUME NEW d \in JobId, d # i, jobs[d] # Asr!Unknown, jobs[d].phase \in Asr!Open,
        tending[d] # "lost"
      PROVE  active'[jobs[d].model] = d
  <2>1. active[jobs[d].model] = d
    BY <1>8 DEF JobsInv, JobIsSound
  <2>2. jobs[d].model \in Sizes
    BY <1>8 DEF JobsInv, JobShapes, Job
  <2> QED  BY <2>1, <2>2, <1>3, <1>8 DEF ThreadMoves, JobsInv, JobShapes
<1>9. \A m \in Sizes : cache[m] \subseteq cache'[m]
  BY DEF ThreadMoves
<1>10. issued <= issued'
  BY DEF ThreadMoves, JobsInv, JobShapes
<1> QED  BY <1>1, <1>2, <1>5, <1>6, <1>7, <1>8, <1>9, <1>10, OwnJobStep

(* The points a thread goes to.                                            *)
LEMMA PointSorts ==
  /\ "begin" \in TendingPoint /\ "spawn" \in TendingPoint /\ "read" \in TendingPoint
       /\ "raised" \in TendingPoint
  /\ "handled" \in TendingPoint /\ "finally" \in TendingPoint /\ "done" \in TendingPoint
  /\ "ended" \in Gone /\ "none" \in Gone
BY DEF TendingPoint, Gone

(* What an action leaves alone, in the form of the step above.             *)
LEMMA JobAsBefore ==
  ASSUME JobsInv, NEW i \in JobId, tending[i] \notin {"none", "lost"}
  PROVE  /\ jobs[i] \in Job /\ ensurer[i] \in Downloader
         /\ UNCHANGED jobs => jobs' = [jobs EXCEPT ![i] = jobs[i]]
         /\ UNCHANGED ensurer => ensurer' = [ensurer EXCEPT ![i] = ensurer[i]]
         /\ UNCHANGED tending => tending' = [tending EXCEPT ![i] = tending[i]]
         /\ jobs[i].phase = "complete" => jobs[i].ok = "yes" /\ Asr!Valid(cache[jobs[i].model])
         /\ jobs[i].phase = "failed" => jobs[i].ok = "no"
         /\ jobs[i].phase \in Asr!Open \cup {"complete", "failed"}
<1>1. jobs[i] \in Job /\ ensurer[i] \in Downloader /\ JobIsSound(i)
  BY ReadingFacts DEF JobsInv
<1>2. /\ jobs = [d \in JobId |-> jobs[d]] /\ ensurer = [d \in JobId |-> ensurer[d]]
      /\ tending = [d \in JobId |-> tending[d]]
  BY DEF JobsInv, JobShapes
<1>3. /\ UNCHANGED jobs => jobs' = [jobs EXCEPT ![i] = jobs[i]]
      /\ UNCHANGED ensurer => ensurer' = [ensurer EXCEPT ![i] = ensurer[i]]
      /\ UNCHANGED tending => tending' = [tending EXCEPT ![i] = tending[i]]
  BY <1>2
<1>4. jobs[i] # Asr!Unknown /\ jobs[i].phase \in Asr!Open \cup {"complete", "failed"}
  BY <1>1, JobSorts DEF Job
<1> QED  BY <1>1, <1>3, <1>4 DEF JobIsSound

(* The environment of the worker is there, or the thread raises.           *)
LEMMA BeginStep ==
  ASSUME JobsInv, NEW i \in JobId, Asr!Begin(i)
  PROVE  JobsInv'
<1>1. /\ tending[i] = "begin" /\ jobs[i].phase \in Asr!Open /\ ensurer[i] = Asr!NoProcess
      /\ UNCHANGED <<active, ensurer, cache, issued, losses>>
  BY DEF Asr!Begin, JobsInv, ThreadIsSound
<1>2. CASE Asr!Goes(i, "raised") /\ UNCHANGED jobs
  <2>1. ThreadMoves(i, "raised", jobs[i], ensurer[i])
    BY <1>1, <1>2, JobAsBefore, JobSorts, PointSorts DEF Asr!Goes, ThreadMoves
  <2> QED  BY <2>1, ThreadStep
<1>3. CASE Asr!Goes(i, "spawn") /\ jobs' = [jobs EXCEPT ![i] = Asr!Progress(@, "downloading",
             "unknown")]
  <2> DEFINE J == Asr!Progress(jobs[i], "downloading", "unknown")
  <2>1. jobs' = [jobs EXCEPT ![i] = J]
    BY <1>3
  <2>2. J \in Job /\ J.model = jobs[i].model /\ J.phase = "downloading" /\ J.ok = jobs[i].ok
    BY <1>1, JobAsBefore, JobForms
  <2> HIDE DEF J
  <2>3. ThreadMoves(i, "spawn", J, ensurer[i])
    BY <1>1, <1>3, <2>1, <2>2, JobAsBefore, JobSorts, PointSorts DEF Asr!Goes, ThreadMoves
  <2> QED  BY <2>3, ThreadStep
<1> QED  BY <1>2, <1>3 DEF Asr!Begin

(* The process is started, with nothing to be read yet, or the thread      *)
(* raises.                                                                 *)
LEMMA SpawnStep ==
  ASSUME JobsInv, NEW i \in JobId, Asr!Spawn(i)
  PROVE  JobsInv'
<1>1. /\ tending[i] = "spawn" /\ jobs[i].phase \in Asr!Open /\ ensurer[i] = Asr!NoProcess
      /\ UNCHANGED <<jobs, active, cache, issued, losses>>
  BY DEF Asr!Spawn, JobsInv, ThreadIsSound
<1>2. CASE Asr!Goes(i, "raised") /\ UNCHANGED ensurer
  <2>1. ThreadMoves(i, "raised", jobs[i], ensurer[i])
    BY <1>1, <1>2, JobAsBefore, JobSorts, PointSorts DEF Asr!Goes, ThreadMoves
  <2> QED  BY <2>1, ThreadStep
<1>3. CASE Asr!Goes(i, "read") /\ ensurer' = [ensurer EXCEPT ![i].at = "start"]
  <2> DEFINE P == [Asr!NoProcess EXCEPT !.at = "start"]
  <2>1. P \in Downloader /\ P.at = "start" /\ P.pipe = <<>> /\ ensurer' = [ensurer EXCEPT ![i] = P]
    BY <1>1, <1>3, JobSorts DEF Downloader, DownloaderPoint, Telling
  <2> HIDE DEF P
  <2>2. PipeIsSound(jobs[i], P, cache[jobs[i].model])
    <3>1. DOMAIN P.pipe = {}
      BY <2>1
    <3> QED  BY <1>1, <2>1, <3>1 DEF PipeIsSound
  <2>3. ThreadMoves(i, "read", jobs[i], P)
    BY <1>1, <1>3, <2>1, <2>2, JobAsBefore, JobSorts, PointSorts DEF Asr!Goes, ThreadMoves
  <2> QED  BY <2>3, ThreadStep
<1> QED  BY <1>2, <1>3 DEF Asr!Spawn

(* What is left of the output once its first line was read.                *)
LEMMA RestOfOutput ==
  ASSUME NEW s \in Seq(AnyLine), s # <<>>
  PROVE  /\ Head(s) \in AnyLine /\ Head(s) = s[1] /\ 1 \in DOMAIN s /\ Tail(s) \in Seq(AnyLine)
         /\ \A n \in DOMAIN Tail(s) : n \in Nat /\ n + 1 \in DOMAIN s /\ 1 < n + 1
              /\ Tail(s)[n] = s[n + 1]
OBVIOUS

(* The first line is applied to the job, or raises: only the result        *)
(* decides the job, and only noise may follow it.                          *)
LEMMA ReadStep ==
  ASSUME JobsInv, NEW i \in JobId, Asr!Read(i)
  PROVE  JobsInv'
<1> DEFINE s == ensurer[i].pipe
           line == Head(s)
           P == [ensurer[i] EXCEPT !.pipe = Tail(s)]
<1>1. /\ tending[i] = "read" /\ s # <<>> /\ UNCHANGED <<active, cache, issued, losses>>
      /\ ensurer[i] \in Downloader /\ s \in Seq(AnyLine) /\ jobs[i] \in Job
      /\ PipeIsSound(jobs[i], ensurer[i], cache[jobs[i].model])
  BY ReadingFacts DEF Asr!Read
<1>2. /\ line \in AnyLine /\ line = s[1] /\ 1 \in DOMAIN s /\ Tail(s) \in Seq(AnyLine)
      /\ \A n \in DOMAIN Tail(s) : n \in Nat /\ n + 1 \in DOMAIN s /\ 1 < n + 1
           /\ Tail(s)[n] = s[n + 1]
  BY <1>1, RestOfOutput
<1>3. /\ P \in Downloader /\ P.pipe = Tail(s) /\ P.at = ensurer[i].at /\ P.found = ensurer[i].found
      /\ ensurer' = [ensurer EXCEPT ![i] = P]
  BY <1>1, <1>2 DEF Asr!Read, Downloader, JobsInv, JobShapes
<1> HIDE DEF P, line
<1>4. \A m, n \in DOMAIN P.pipe : m < n /\ P.pipe[m].event = "result" => P.pipe[n].event = "noise"
  <2> SUFFICES ASSUME NEW m \in DOMAIN P.pipe, NEW n \in DOMAIN P.pipe, m < n,
        P.pipe[m].event = "result"
               PROVE  P.pipe[n].event = "noise"
    OBVIOUS
  <2>1. m + 1 < n + 1 /\ m + 1 \in DOMAIN s /\ n + 1 \in DOMAIN s /\ P.pipe[m] = s[m + 1]
          /\ P.pipe[n] = s[n + 1]
    BY <1>2, <1>3
  <2> QED  BY <1>1, <2>1 DEF PipeIsSound
<1>5. line.event = "result" => \A n \in DOMAIN P.pipe : P.pipe[n].event = "noise"
  BY <1>1, <1>2, <1>3 DEF PipeIsSound
<1>6. ASSUME NEW J \in Job, J.model = jobs[i].model,
             \/ J.phase = jobs[i].phase
             \/ J.phase \in Asr!Open /\ jobs[i].phase \in Asr!Open
             \/ line.event = "result"
      PROVE  PipeIsSound(J, P, cache[J.model])
  <2>1. \A m \in DOMAIN P.pipe :
         /\ P.at \in Telling => P.pipe[m].event # "result"
         /\ J.phase \notin Asr!Open => P.pipe[m].event = "noise"
         /\ P.pipe[m].event = "result" /\ P.pipe[m].ok => Asr!Valid(cache[jobs[i].model])
    BY <1>1, <1>2, <1>3, <1>5, <1>6 DEF PipeIsSound
  <2>2. P.at \in Telling => J.phase \in Asr!Open
    BY <1>1, <1>2, <1>3, <1>6 DEF PipeIsSound
  <2>3. P.at = "verified" /\ P.found = "ok" => Asr!Valid(cache[jobs[i].model])
    BY <1>1, <1>3 DEF PipeIsSound
  <2> QED  BY <1>4, <1>6, <2>1, <2>2, <2>3 DEF PipeIsSound
<1>7. ASSUME NEW T \in {"read", "raised"}, tending' = [tending EXCEPT ![i] = T],
             NEW J \in Job, jobs' = [jobs EXCEPT ![i] = J], J.model = jobs[i].model,
             \/ J = jobs[i]
             \/ J.phase \in Asr!Open /\ jobs[i].phase \in Asr!Open /\ J.ok = jobs[i].ok
             \/ /\ line.event = "result"
                /\ \/ J.phase = "complete" /\ J.ok = "yes" /\ line.ok
                   \/ J.phase = "failed" /\ J.ok = "no"
      PROVE  JobsInv'
  <2>1. PipeIsSound(J, P, cache[J.model])
    BY <1>6, <1>7
  <2>2. /\ J.phase \in Asr!Open => jobs[i].phase \in Asr!Open /\ J.ok = jobs[i].ok
        /\ J.phase = "complete" => J.ok = "yes" /\ Asr!Valid(cache[J.model])
        /\ J.phase = "failed" => J.ok = "no"
    <3>1. /\ jobs[i].phase = "complete" => jobs[i].ok = "yes" /\ Asr!Valid(cache[jobs[i].model])
          /\ jobs[i].phase = "failed" => jobs[i].ok = "no"
      BY <1>1, JobAsBefore
    <3>2. line.event = "result" /\ line.ok => Asr!Valid(cache[jobs[i].model])
      BY <1>1, <1>2 DEF PipeIsSound
    <3> QED  BY <1>7, <3>1, <3>2, JobSorts
  <2>3. ThreadMoves(i, T, J, P)
    BY <1>1, <1>3, <1>7, <2>1, <2>2, PointSorts DEF ThreadMoves
  <2> QED  BY <2>3, ThreadStep
<1>8. CASE line.event = "noise" /\ Asr!Goes(i, "raised") /\ UNCHANGED jobs
  BY <1>1, <1>7, <1>8, JobAsBefore DEF Asr!Goes
<1>9. CASE jobs' = [jobs EXCEPT ![i] = Asr!Apply(@, line)] /\ UNCHANGED tending
  <2>1. jobs' = [jobs EXCEPT ![i] = Asr!Apply(jobs[i], line)]
          /\ tending' = [tending EXCEPT ![i] = "read"]
    BY <1>1, <1>9, JobAsBefore
  <2>2. CASE line.event = "progress"
    <3>1. jobs[i].phase \in Asr!Open
      BY <1>1, <1>2, <2>2 DEF PipeIsSound
    <3>2. line.files \in {"unknown", "some"}
      BY <1>2, <2>2 DEF AnyLine
    <3>3. Asr!Apply(jobs[i], line) = Asr!Progress(jobs[i], "downloading", line.files)
      BY <2>2 DEF Asr!Apply
    <3> QED  BY <1>1, <1>7, <2>1, <3>1, <3>2, <3>3, JobForms, JobSorts, ZenonT(60)
  <2>3. CASE line.event = "result" /\ line.ok
    <3>1. Asr!Apply(jobs[i], line) = Asr!Complete(jobs[i])
      BY <2>3 DEF Asr!Apply
    <3> QED  BY <1>1, <1>7, <2>1, <2>3, <3>1, JobForms
  <2>4. CASE line.event = "result" /\ ~line.ok
    <3>1. Asr!Apply(jobs[i], line) = Asr!Failed(jobs[i])
      BY <2>4 DEF Asr!Apply
    <3> QED  BY <1>1, <1>7, <2>1, <2>4, <3>1, JobForms
  <2>5. CASE line.event = "noise"
    <3>1. Asr!Apply(jobs[i], line) = jobs[i]
      BY <2>5 DEF Asr!Apply
    <3> QED  BY <1>1, <1>7, <2>1, <3>1
  <2> QED  BY <1>2, <2>2, <2>3, <2>4, <2>5 DEF AnyLine
<1> QED  BY <1>8, <1>9 DEF Asr!Read, line

(* The output ended, and a job without a result has failed.                *)
LEMMA WaitedStep ==
  ASSUME JobsInv, NEW i \in JobId, Asr!Waited(i)
  PROVE  JobsInv'
<1>1. /\ tending[i] = "read" /\ ensurer[i].at = "ended"
      /\ tending' = [tending EXCEPT ![i] = "finally"]
      /\ UNCHANGED <<active, ensurer, cache, issued, losses>>
  BY DEF Asr!Waited, Asr!Goes
<1>2. /\ jobs[i] \in Job /\ Asr!Failed(jobs[i]) \in Job /\ Asr!Failed(jobs[i]).model = jobs[i].model
      /\ Asr!Failed(jobs[i]).phase = "failed" /\ Asr!Failed(jobs[i]).ok = "no"
  BY <1>1, JobAsBefore, JobForms
<1>3. CASE jobs[i].phase \in {"complete", "failed"} /\ jobs' = jobs
  <2>1. ThreadMoves(i, "finally", jobs[i], ensurer[i])
    BY <1>1, <1>3, JobAsBefore, JobSorts, PointSorts DEF ThreadMoves, Gone
  <2> QED  BY <2>1, ThreadStep
<1>4. CASE jobs' = [jobs EXCEPT ![i] = Asr!Failed(jobs[i])]
  <2> DEFINE J == Asr!Failed(jobs[i])
  <2>1. J \in Job /\ J.model = jobs[i].model /\ J.phase = "failed" /\ J.ok = "no"
    BY <1>2
  <2>2. jobs' = [jobs EXCEPT ![i] = J]
    BY <1>4
  <2> HIDE DEF J
  <2>3. ThreadMoves(i, "finally", J, ensurer[i])
    BY <1>1, <2>1, <2>2, JobAsBefore, JobSorts, PointSorts DEF ThreadMoves, Gone
  <2> QED  BY <2>3, ThreadStep
<1> QED  BY <1>3, <1>4 DEF Asr!Waited

(* After an exception the process is ended before the job is failed.       *)
LEMMA HandleStep ==
  ASSUME JobsInv, NEW i \in JobId, Asr!HandleProcess(i) \/ Asr!HandleJob(i)
  PROVE  JobsInv'
<1>1. CASE Asr!HandleProcess(i)
  <2> DEFINE P == Asr!Ended(ensurer[i])
  <2>1. tending[i] = "raised" /\ ensurer' = [ensurer EXCEPT ![i] = P]
          /\ tending' = [tending EXCEPT ![i] = "handled"]
    BY <1>1 DEF Asr!HandleProcess, Asr!Goes
  <2>2. P \in Downloader /\ P.at \in Gone
    <3>1. <<>> \in Seq(AnyLine) /\ ensurer[i] \in Downloader
      BY ReadingFacts
    <3> QED  BY <3>1 DEF Asr!Ended, Downloader, DownloaderPoint, Gone
  <2> HIDE DEF P
  <2>3. ThreadMoves(i, "handled", jobs[i], P)
    BY <1>1, <2>1, <2>2, JobAsBefore, JobSorts, PointSorts DEF Asr!HandleProcess, ThreadMoves
  <2> QED  BY <2>3, ThreadStep
<1>2. CASE Asr!HandleJob(i)
  <2>1. /\ tending[i] = "handled" /\ ensurer[i].at \in Gone
        /\ tending' = [tending EXCEPT ![i] = "finally"]
        /\ jobs' = [jobs EXCEPT ![i] = Asr!Failed(jobs[i])]
    BY <1>2 DEF Asr!HandleJob, Asr!Goes, JobsInv, ThreadIsSound
  <2> DEFINE J == Asr!Failed(jobs[i])
  <2>2. J \in Job /\ J.model = jobs[i].model /\ J.phase = "failed" /\ J.ok = "no"
    BY <2>1, JobAsBefore, JobForms
  <2>3. jobs' = [jobs EXCEPT ![i] = J]
    BY <2>1
  <2> HIDE DEF J
  <2>4. ThreadMoves(i, "finally", J, ensurer[i])
    BY <1>2, <2>1, <2>2, <2>3, JobAsBefore, JobSorts, PointSorts DEF Asr!HandleJob, ThreadMoves
  <2> QED  BY <2>4, ThreadStep
<1> QED  BY <1>1, <1>2

(* A thread that ends withdraws the registration of its own job only.      *)
LEMMA FinallyStep ==
  ASSUME JobsInv, NEW i \in JobId, Asr!Finally(i)
  PROVE  JobsInv'
<1>1. /\ tending[i] = "finally" /\ jobs[i].phase \notin Asr!Open /\ ensurer[i].at \in Gone
      /\ tending' = [tending EXCEPT ![i] = "done"]
      /\ UNCHANGED <<jobs, ensurer, cache, issued, losses>>
  BY DEF Asr!Finally, Asr!Goes, JobsInv, ThreadIsSound
<1>2. \/ active' = active
      \/ active[jobs[i].model] = i /\ active' = [active EXCEPT ![jobs[i].model] = 0]
  <2>1. active = [m \in Sizes |-> active[m]]
    BY DEF JobsInv, JobShapes
  <2>2. CASE active[jobs[i].model] = i
    BY <2>2 DEF Asr!Finally
  <2>3. CASE active[jobs[i].model] # i
    <3>1. active' = [active EXCEPT ![jobs[i].model] = active[jobs[i].model]]
      BY <2>3 DEF Asr!Finally
    <3> QED  BY <2>1, <3>1
  <2> QED  BY <2>2, <2>3
<1>3. ThreadMoves(i, "done", jobs[i], ensurer[i])
  BY <1>1, <1>2, JobAsBefore, JobSorts, PointSorts DEF ThreadMoves
<1> QED  BY <1>3, ThreadStep

(* A request makes a new job only if none is under way for its model.      *)
LEMMA AskStep ==
  ASSUME JobsInv, NEW m \in Sizes, Asr!Ask(m)
  PROVE  JobsInv'
<1>0. PICK i \in JobId : i = issued + 1
  BY DEF Asr!Ask
<1>1. /\ issued' = i /\ ~Asr!Running(m) /\ UNCHANGED <<ensurer, cache, losses>>
      /\ jobs' = [jobs EXCEPT ![i] = Asr!NewJob(m)]
      /\ active' = [active EXCEPT ![m] = i]
      /\ tending' = [tending EXCEPT ![i] = "begin"]
  BY <1>0 DEF Asr!Ask
<1>2. issued \in Nat /\ ~(i <= issued) /\ issued <= i /\ i \in Nat
  BY <1>0 DEF JobsInv, JobShapes
<1>3. tending[i] = "none" /\ ensurer[i] = Asr!NoProcess
  BY <1>1, <1>2 DEF JobsInv, JobIsSound, ThreadIsSound
<1>4. JobShapes'
  BY <1>1, <1>2, JobSorts DEF JobsInv, JobShapes, TendingPoint
<1>5. /\ jobs'[i] = Asr!NewJob(m) /\ tending'[i] = "begin" /\ ensurer'[i] = Asr!NoProcess
      /\ active'[m] = i
      /\ \A d \in JobId : d # i => jobs'[d] = jobs[d] /\ tending'[d] = tending[d]
           /\ ensurer'[d] = ensurer[d]
  BY <1>1, <1>3 DEF JobsInv, JobShapes
<1>6. ASSUME NEW d \in JobId, d # i, jobs[d] # Asr!Unknown, jobs[d].phase \in Asr!Open,
        tending[d] # "lost"
      PROVE  active'[jobs[d].model] = d
  <2>1. active[jobs[d].model] = d /\ jobs[d].model \in Sizes /\ d # 0
    BY <1>6, EnsureAssumption DEF JobsInv, JobIsSound, JobShapes, Job
  <2>2. jobs[d].model # m
    BY <1>1, <1>6, <2>1 DEF Asr!Running
  <2> QED  BY <1>1, <2>1, <2>2 DEF JobsInv, JobShapes
<1>7. JobIsSound(i)' /\ ThreadIsSound(i)' /\ ReadIsSound(i)'
  <2>1. /\ jobs'[i].phase = "queued" /\ jobs'[i].model = m /\ jobs'[i].ok = "undecided"
        /\ jobs'[i] # Asr!Unknown /\ "queued" \in Asr!Open
    BY <1>5, JobSorts
  <2>2. JobIsSound(i)'
    BY <1>1, <1>2, <1>5, <2>1 DEF JobIsSound
  <2>3. ThreadIsSound(i)' /\ ReadIsSound(i)'
    BY <1>5, <2>1 DEF ThreadIsSound, ReadIsSound
  <2> QED  BY <2>2, <2>3
<1>8. issued <= issued' /\ \A n \in Sizes : cache[n] \subseteq cache'[n]
  BY <1>1, <1>2
<1> QED  BY <1>1, <1>4, <1>5, <1>6, <1>7, <1>8, OwnJobStep

(* The backend forgets its jobs: no thread is left to tend them.           *)
LEMMA RestartStep ==
  ASSUME JobsInv, Asr!Restart
  PROVE  JobsInv'
<1>1. /\ losses' = losses + 1 /\ active' = [m \in Sizes |-> 0]
      /\ tending' = [i \in JobId |-> IF tending[i] = "none" THEN "none" ELSE "lost"]
      /\ ensurer' = [i \in JobId |-> [ensurer[i] EXCEPT !.pipe = <<>>]]
      /\ UNCHANGED <<jobs, cache, issued>>
  BY DEF Asr!Restart
<1>2. ASSUME NEW i \in JobId
      PROVE  /\ [ensurer[i] EXCEPT !.pipe = <<>>] \in Downloader
             /\ ensurer[i] = Asr!NoProcess => [ensurer[i] EXCEPT !.pipe = <<>>] = Asr!NoProcess
  <2>1. <<>> \in Seq(AnyLine) /\ ensurer[i] \in Downloader
    BY DEF JobsInv, JobShapes
  <2>2. [ensurer[i] EXCEPT !.pipe = <<>>] \in Downloader
    BY <2>1 DEF Downloader
  <2>3. [Asr!NoProcess EXCEPT !.pipe = <<>>] = Asr!NoProcess
    BY DEF Asr!NoProcess
  <2> QED  BY <2>2, <2>3
<1>3. ensurer' \in [JobId -> Downloader] /\ \A i \in JobId : ensurer[i] = Asr!NoProcess
        => ensurer'[i] = Asr!NoProcess
  BY <1>1, <1>2
<1>4. JobShapes'
  BY <1>1, <1>3 DEF JobsInv, JobShapes, TendingPoint
<1>5. ASSUME NEW i \in JobId PROVE JobIsSound(i)' /\ ThreadIsSound(i)' /\ ReadIsSound(i)'
  <2>1. tending'[i] = IF tending[i] = "none" THEN "none" ELSE "lost"
    BY <1>1
  <2>2. JobIsSound(i) /\ ThreadIsSound(i)
    BY DEF JobsInv
  <2>3. JobIsSound(i)'
    BY <1>1, <2>1, <2>2 DEF JobIsSound, Asr!Valid
  <2>4. ThreadIsSound(i)'
    BY <1>3, <2>1, <2>2 DEF ThreadIsSound
  <2>5. ReadIsSound(i)'
    BY <2>1 DEF ReadIsSound
  <2> QED  BY <2>3, <2>4, <2>5
<1> QED  BY <1>4, <1>5 DEF JobsInv

(* There is no job and no process at first.                                *)
LEMMA InitJobs == ASSUME Asr!Init PROVE JobsInv
<1>1. JobShapes
  BY JobSorts DEF Asr!Init, JobShapes, TendingPoint, Asr!File
<1>2. ASSUME NEW i \in JobId PROVE JobIsSound(i) /\ ThreadIsSound(i) /\ ReadIsSound(i)
  BY JobSorts DEF Asr!Init, JobIsSound, ThreadIsSound, ReadIsSound
<1> QED  BY <1>1, <1>2 DEF JobsInv

(* Every step of a job, its thread, its process or the backend keeps the   *)
(* invariant.                                                              *)
LEMMA StepJobs == ASSUME JobsInv, [Asr!Next]_ensures PROVE JobsInv'
<1>1. CASE UNCHANGED ensures
  BY <1>1 DEF ensures, JobsInv, JobShapes, JobIsSound, ThreadIsSound, ReadIsSound, PipeIsSound,
            Asr!Valid
<1>2. ASSUME NEW i \in JobId,
             \/ Asr!Begin(i) \/ Asr!Spawn(i) \/ Asr!Read(i) \/ Asr!Waited(i)
             \/ Asr!HandleProcess(i) \/ Asr!HandleJob(i) \/ Asr!Finally(i)
      PROVE  JobsInv'
  BY <1>2, BeginStep, SpawnStep, ReadStep, WaitedStep, HandleStep, FinallyStep
<1>3. ASSUME NEW i \in JobId,
             \/ Asr!Announce(i) \/ Asr!Fetch(i) \/ Asr!Tell(i) \/ Asr!Verify(i)
               \/ Asr!Report(i) \/ Asr!Exit(i)
             \/ Asr!Noise(i) \/ Asr!Die(i) \/ Asr!Broken(i)
      PROVE  JobsInv'
  BY <1>3, TellingStep, FetchStep, TurnStep
<1> QED  BY <1>1, <1>2, <1>3, AskStep, RestartStep DEF Asr!Next

(* The invariant says what a page is told.                                 *)
LEMMA TendedJobs == JobsInv => Asr!JobsAreTended
<1> SUFFICES ASSUME JobsInv, NEW i \in JobId, Asr!Known(i)
             PROVE  /\ jobs[i].phase \in Asr!Open =>
                         active[jobs[i].model] = i /\ tending[i] # "done"
                           /\ jobs[i].ok = "undecided"
                    /\ jobs[i].phase = "complete" => jobs[i].ok = "yes"
                         /\ Asr!Valid(cache[jobs[i].model])
                    /\ jobs[i].phase = "failed" => jobs[i].ok = "no"
                    /\ tending[i] = "done" => ensurer[i].at \in {"none", "ended"}
  BY DEF Asr!JobsAreTended
<1> QED  BY DEF Asr!Known, JobsInv, JobIsSound, ThreadIsSound, Gone

-----------------------------------------------------------------------------
(* Uploads (Up is the module Uploads): what a request that is served is,   *)
(* and the points at which it finalizes an upload.                         *)
UploadPoint == {"idle", "make", "enter chunk", "verify", "find", "sweep", "assemble", "inspect",
                "promise", "move", "look", "insert", "mark", "complete", "unmark"}
Resting     == {"idle", "make"}
Finalizes   == UploadPoint \ (Resting \cup {"enter chunk", "verify"})
UploadCall  == [pc : UploadPoint, u : Upload \cup {None}, data : Up!Json,
                rec : Beta \cup {None}, names : SUBSET Up!Names]
UploadMark  == [rec : Beta, names : SUBSET Up!Names]
UploadRow   == [u : Upload, names : SUBSET Up!Names]

UploadShapes ==
  /\ session \in [Upload -> Up!Json \cup {None}]
  /\ chunk \in [Upload -> [Chunk -> {"none", "good", "bad"}]]
  /\ marker \in [Upload -> UploadMark \cup {None}]
  /\ sources \subseteq Beta \X Up!Names
  /\ rows \in [Beta -> UploadRow \cup {None}]
  /\ request \in [Gamma -> UploadCall]
  /\ deletion \in {"none", "read", "unlink", "over"}
  /\ doomed \subseteq Beta
  /\ lost \subseteq Beta \X Up!Names
  /\ up \in BOOLEAN
  /\ crashes \in 0 .. MaxCrashes

HasRow(u) == \E r \in Beta : rows[r] # None /\ rows[r].u = u

RowsAreSound ==
  /\ \A r, s \in Beta : rows[r] # None /\ rows[s] # None /\ rows[r].u = rows[s].u => r = s
  /\ \A r \in Beta \ Up!Gone : rows[r] # None => {r} \X rows[r].names \subseteq sources

MarkersAreSound ==
  \A u \in Upload : marker[u] # None =>
    /\ \A v \in Upload : marker[v] # None /\ marker[v].rec = marker[u].rec => u = v
    /\ rows[marker[u].rec] # None =>
         rows[marker[u].rec].u = u /\ rows[marker[u].rec].names = marker[u].names
    /\ HasRow(u) => rows[marker[u].rec] # None

HasOwner(f) ==
  \/ f \in lost
  \/ rows[f[1]] # None /\ f[2] \in rows[f[1]].names
  \/ \E u \in Upload : marker[u] # None /\ f[1] = marker[u].rec /\ f[2] \in marker[u].names

FilesAreOwned == \A f \in sources : HasOwner(f)

(* The rows a deletion reads are there, and from when it has deleted them  *)
(* their files are lost but for those it is to remove.                     *)
DoomedAreSound ==
  /\ \A r \in doomed : rows[r] # None
  /\ \A r \in Up!Gone : \A n \in rows[r].names :
       <<r, n>> \in sources \ lost => deletion = "unlink" /\ n = "working"

SessionsAreSound ==
  \A u \in Upload : session[u] # None /\ session[u].rec # None => HasRow(u)

Unnamed(r) ==
  /\ rows[r] = None
  /\ \A f \in sources : f[1] # r
  /\ \A u \in Upload : marker[u] # None => marker[u].rec # r

CallIsFit(q) ==
  LET a == request[q] IN
  /\ a.pc \in Resting => a.u = None
  /\ a.pc \notin Resting => a.u \in Upload /\ session[a.u] # None
  /\ a.data.rec # None => HasRow(a.u)
  /\ a.pc = "sweep" /\ HasRow(a.u) => ~Up!Standing
  /\ a.pc \in {"assemble", "inspect", "promise", "move", "look", "insert"} => ~HasRow(a.u)
  /\ a.pc \in {"promise", "move", "look", "insert", "mark", "complete"} => a.rec \in Beta
  /\ a.pc \in {"promise", "move", "look", "insert"} => a.names \in {{"working"}, Up!Names}
  /\ a.pc = "promise" =>
       /\ Unnamed(a.rec)
       /\ \A p \in Gamma \ {q} : request[p].rec # a.rec
  /\ a.pc \in {"move", "look", "insert"} => marker[a.u] # None /\ marker[a.u].rec = a.rec /\ marker[a.u].names = a.names
  /\ a.pc \in {"look", "insert"} => {a.rec} \X a.names \subseteq sources
  /\ a.pc \in {"mark", "complete"} => rows[a.rec] # None /\ rows[a.rec].u = a.u
  /\ a.pc = "unmark" => HasRow(a.u)

FinalizedOnce ==
  \A p, q \in Gamma : request[p].pc \in Finalizes /\ request[q].pc \in Finalizes
                        /\ request[p].u = request[q].u => p = q

UploadInv ==
  /\ UploadShapes /\ RowsAreSound /\ MarkersAreSound /\ FilesAreOwned /\ SessionsAreSound
  /\ DoomedAreSound
  /\ \A q \in Gamma : CallIsFit(q)
  /\ FinalizedOnce
  /\ ~up => request = [q \in Gamma |-> Up!Idle]

-----------------------------------------------------------------------------
Works(q, v) == request[q].pc \in Finalizes /\ request[q].u = v

UploadStep(q, a) ==
  /\ up /\ UNCHANGED <<deletion, doomed, up, crashes>>
  /\ a \in UploadCall
  /\ request' = [request EXCEPT ![q] = a]
  /\ rows' \in [Beta -> UploadRow \cup {None}]
  /\ marker' \in [Upload -> UploadMark \cup {None}]
  /\ session' \in [Upload -> Up!Json \cup {None}]
  /\ chunk' \in [Upload -> [Chunk -> {"none", "good", "bad"}]]
  /\ sources' \subseteq Beta \X Up!Names
  /\ lost \subseteq lost' /\ lost' \subseteq Beta \X Up!Names
  /\ \A r \in Beta : rows'[r] # rows[r] =>
       rows[r] = None /\ rows'[r].u = request[q].u /\ request[q].pc = "insert" /\ r = request[q].rec
  /\ \A v \in Upload : marker'[v] # marker[v] => Works(q, v)
  /\ \A v \in Upload : marker'[v] # None /\ marker'[v] # marker[v] => marker'[v].rec = request[q].rec
  /\ \A f \in sources' \ sources : f[1] = request[q].rec /\ rows[f[1]] = None
  /\ \A f \in sources \ sources' : request[q].pc = "sweep" /\ marker[request[q].u] # None
                                     /\ f[1] = marker[request[q].u].rec
  /\ \A v \in Upload : session[v] # None => session'[v] # None
  /\ \/ a.rec \in {None, request[q].rec}
     \/ rows[a.rec] # None
     \/ \A p \in Gamma : request[p].rec # a.rec

LEMMA UploadSorts ==
  ASSUME UploadInv
  PROVE  /\ None \notin Upload /\ None \notin Beta
         /\ \A q \in Gamma : /\ request[q] \in UploadCall /\ request[q].pc \in UploadPoint
                             /\ request[q].u \in Upload \cup {None} /\ request[q].data \in Up!Json
                             /\ request[q].rec \in Beta \cup {None}
                             /\ request[q].names \subseteq Up!Names
         /\ \A u \in Upload : marker[u] # None => marker[u].rec \in Beta
  BY UploadsAssumption DEF UploadInv, UploadShapes, UploadCall, UploadMark

LEMMA OtherCallsFit ==
  ASSUME UploadInv, NEW q \in Gamma, NEW a, UploadStep(q, a), NEW p \in Gamma, p # q
  PROVE  CallIsFit(p)'
<1>1. request'[p] = request[p] /\ CallIsFit(p) /\ request[p] \in UploadCall
  BY DEF UploadStep, UploadInv, UploadShapes
<1>b. PICK b : b = request[p]
  OBVIOUS
<1>2. \A v \in Upload \cup {None} : HasRow(v) => HasRow(v)'
  BY <1>b DEF UploadStep, HasRow
<1>3. b.pc \in Finalizes /\ b.u \in Upload => (HasRow(b.u)' => HasRow(b.u)) /\ marker'[b.u] = marker[b.u]
  BY <1>b, ZenonT(60) DEF UploadStep, HasRow, UploadInv, FinalizedOnce, Works, Finalizes, Resting, UploadPoint
<1>4. b.pc \notin Resting => b.pc \in UploadPoint /\ b.u \in Upload /\ session'[b.u] # None
  BY <1>b, <1>1 DEF CallIsFit, UploadStep, UploadCall
<1>5. ASSUME b.pc = "promise"
      PROVE  /\ rows'[b.rec] = None
             /\ \A f \in sources' : f[1] # b.rec
             /\ \A u \in Upload : marker'[u] # None => marker'[u].rec # b.rec
             /\ \A o \in Gamma \ {p} : request'[o].rec # b.rec
  <2>1. Unnamed(b.rec) /\ b.rec \in Beta /\ \A o \in Gamma \ {p} : request[o].rec # b.rec
    BY <1>b, <1>1, <1>5 DEF CallIsFit
  <2>2. rows'[b.rec] = None
    BY <1>b, <2>1 DEF Unnamed, UploadStep
  <2>3. \A f \in sources' : f[1] # b.rec
    BY <1>b, <2>1 DEF Unnamed, UploadStep
  <2>4. \A u \in Upload : marker'[u] # None => marker'[u].rec # b.rec
    BY <1>b, <2>1 DEF Unnamed, UploadStep
  <2>5. a.rec # b.rec
    BY <1>b, <2>1, UploadSorts DEF Unnamed, UploadStep
  <2>6. \A o \in Gamma \ {p} : request'[o].rec # b.rec
    BY <1>b, <2>1, <2>5 DEF UploadStep, UploadInv, UploadShapes
  <2> QED BY <1>b, <2>2, <2>3, <2>4, <2>6
<1>6. ASSUME b.pc \in {"look", "insert"} PROVE {b.rec} \X b.names \subseteq sources'
  <2>1. {b.rec} \X b.names \subseteq sources /\ marker[b.u] # None /\ marker[b.u].rec = b.rec /\ b.u \in Upload
    BY <1>b, <1>1, <1>6 DEF CallIsFit, Resting
  <2>2. ASSUME request[q].pc = "sweep" PROVE request[q].u # b.u /\ request[q].u \in Upload
    BY <1>b, <1>6, <2>2, <1>1 DEF UploadInv, FinalizedOnce, Finalizes, Resting, UploadPoint, CallIsFit
  <2>3. ASSUME NEW f \in sources \ sources' PROVE f[1] # b.rec
    BY <1>b, <2>1, <2>2, <2>3 DEF UploadStep, UploadInv, MarkersAreSound
  <2> QED BY <1>b, <2>1, <2>3
<1>7. b.pc \in {"mark", "complete"} => rows'[b.rec] # None /\ rows'[b.rec].u = b.u
  BY <1>b, <1>1 DEF CallIsFit, UploadStep
<1>8. b.u \in Upload \cup {None} /\ (Up!Standing' <=> Up!Standing)
  BY <1>b, <1>1 DEF UploadCall, UploadStep, Up!Standing
<1>9. request'[p] = b BY <1>b, <1>1, <1>b
<1> QED
  BY <1>b, <1>1, <1>2, <1>3, <1>4, <1>5, <1>6, <1>7, <1>8, <1>9
  DEF CallIsFit, Unnamed, Finalizes, Resting, UploadPoint

OnceMore(a) == \A p \in Gamma : a.pc \in Finalizes => ~Works(p, a.u)

LEMMA UploadStepKeeps ==
  ASSUME UploadInv, NEW q \in Gamma, NEW a, UploadStep(q, a),
         Works(q, a.u) \/ OnceMore(a), CallIsFit(q)',
         RowsAreSound', MarkersAreSound', FilesAreOwned', SessionsAreSound'
  PROVE  UploadInv'
<1>1. UploadShapes'
  BY DEF UploadInv, UploadShapes, UploadStep
<1>2. \A p \in Gamma : CallIsFit(p)'
  BY OtherCallsFit
<1>3. request'[q] = a /\ \A p \in Gamma : p # q => request'[p] = request[p]
  BY DEF UploadInv, UploadShapes, UploadStep
<1>4. FinalizedOnce'
  BY <1>3 DEF UploadInv, FinalizedOnce, OnceMore, Works
<1>5. DoomedAreSound'
  <2>1. Up!Gone' = Up!Gone /\ Up!Gone \subseteq doomed /\ doomed \subseteq Beta
    BY DEF Up!Gone, Up!Standing, UploadStep, UploadInv, UploadShapes
  <2>2. \A r \in doomed : rows[r] # None /\ rows'[r] = rows[r]
    BY <2>1 DEF UploadStep, UploadInv, DoomedAreSound
  <2>3. \A r \in doomed : \A n : <<r, n>> \in sources' => <<r, n>> \in sources
    BY <2>2 DEF UploadStep
  <2> QED BY <2>1, <2>2, <2>3 DEF DoomedAreSound, UploadInv, UploadStep
<1> QED BY <1>1, <1>2, <1>4, <1>5 DEF UploadInv, UploadStep

(* A step that only moves a call, from among the shapes of one.            *)
MovesCall(q, a) ==
  /\ up /\ a \in UploadCall
  /\ request' = [request EXCEPT ![q] = a]
  /\ UNCHANGED <<marker, sources, rows, deletion, doomed, lost, up, crashes>>
  /\ \/ a.rec \in {None, request[q].rec}
     \/ rows[a.rec] # None
     \/ \A p \in Gamma : request[p].rec # a.rec
  /\ Works(q, a.u) \/ OnceMore(a)

LEMMA SourcesStay ==
  ASSUME UploadInv, UNCHANGED <<marker, sources, rows, deletion, doomed, lost>>
  PROVE  /\ RowsAreSound' /\ MarkersAreSound' /\ FilesAreOwned' /\ DoomedAreSound'
         /\ \A u : HasRow(u)' <=> HasRow(u)
         /\ Up!Standing' <=> Up!Standing
<1>1. \A u : HasRow(u)' <=> HasRow(u)
  BY DEF HasRow
<1>2. \A f : HasOwner(f)' <=> HasOwner(f)
  BY DEF HasOwner
<1>3. (Up!Standing' <=> Up!Standing) /\ Up!Gone' = Up!Gone
  BY DEF Up!Standing, Up!Gone
<1> QED BY <1>1, <1>2, <1>3 DEF UploadInv, RowsAreSound, MarkersAreSound, FilesAreOwned,
                                DoomedAreSound

LEMMA CallStep ==
  ASSUME UploadInv, NEW q \in Gamma, NEW a, MovesCall(q, a), UNCHANGED <<session, chunk>>,
         CallIsFit(q)'
  PROVE  UploadInv'
<1>1. UploadStep(q, a)
  BY DEF UploadStep, MovesCall, UploadInv, UploadShapes
<1>2. SessionsAreSound'
  BY SourcesStay DEF UploadInv, SessionsAreSound, MovesCall
<1> QED BY <1>1, <1>2, SourcesStay, UploadStepKeeps DEF MovesCall

(* A save of a session: what is saved has a recording only if its upload   *)
(* has the row of one.                                                     *)
LEMMA SaveSessionStep ==
  ASSUME UploadInv, NEW q \in Gamma, NEW a, MovesCall(q, a), NEW u \in Upload, NEW d \in Up!Json,
         session' \in {session, [session EXCEPT ![u] = d]}, d.rec # None => HasRow(u),
         chunk' \in [Upload -> [Chunk -> {"none", "good", "bad"}]], CallIsFit(q)'
  PROVE  UploadInv'
<1>1. UploadStep(q, a)
  BY UploadsAssumption DEF UploadStep, MovesCall, UploadInv, UploadShapes
<1>2. SessionsAreSound'
  BY SourcesStay DEF UploadInv, SessionsAreSound, MovesCall, UploadShapes
<1> QED BY <1>1, <1>2, SourcesStay, UploadStepKeeps DEF MovesCall

LEMMA IdleUpload ==
  /\ Up!Idle \in UploadCall /\ Up!Idle.pc = "idle" /\ Up!Idle.u = None /\ Up!Idle.rec = None
  /\ Up!Idle.data.rec = None /\ Up!Blank \in Up!Json /\ Up!Blank.rec = None
  BY DEF Up!Idle, Up!Blank, UploadCall, UploadPoint, Up!Json

(* A call that ends leaves nothing to be said of it.                       *)
LEMMA EndsFit ==
  ASSUME UploadInv, NEW q \in Gamma, Up!Ends(q)
  PROVE  CallIsFit(q)' /\ request' = [request EXCEPT ![q] = Up!Idle]
  BY IdleUpload DEF Up!Ends, CallIsFit, UploadInv, UploadShapes, Resting

LEMMA EndStep ==
  ASSUME UploadInv, NEW q \in Gamma, Up!Ends(q), up,
         UNCHANGED <<session, chunk, marker, sources, rows, deletion, doomed, lost, up, crashes>>
  PROVE  UploadInv'
<1>1. MovesCall(q, Up!Idle)
  BY IdleUpload, EndsFit DEF MovesCall, OnceMore, Finalizes, Resting
<1> QED BY <1>1, EndsFit, CallStep

LEMMA ScanStep == ASSUME UploadInv, NEW q \in Gamma, Up!Scan(q) PROVE UploadInv'
<1> DEFINE a == [request[q] EXCEPT !.pc = "make"]
<1>1. /\ request[q] \in UploadCall /\ CallIsFit(q) /\ request[q].pc = "idle" /\ request[q].u = None
  BY DEF UploadInv, UploadShapes, Up!Scan, Up!Here, CallIsFit, Resting
<1>2. /\ a \in UploadCall /\ a.pc = "make" /\ a.u = None /\ a.rec = request[q].rec
      /\ a.data = request[q].data
  BY <1>1 DEF UploadCall, UploadPoint
<1> HIDE DEF a
<1>3. request' = [request EXCEPT ![q] = a] /\ request'[q] = a
  BY DEF Up!Scan, Up!Goes, a, UploadInv, UploadShapes
<1>4. MovesCall(q, a)
  BY <1>2, <1>3 DEF MovesCall, OnceMore, Finalizes, Resting, Up!Scan, Up!Here
<1>5. CallIsFit(q)'
  BY <1>1, <1>2, <1>3, SourcesStay DEF CallIsFit, Resting, Up!Scan
<1> QED BY <1>4, <1>5, CallStep DEF Up!Scan

LEMMA CallNow ==
  ASSUME UploadInv, NEW q \in Gamma
  PROVE  request[q] \in UploadCall /\ CallIsFit(q)
  BY DEF UploadInv, UploadShapes

(* A call moves on, with its upload and its data.                          *)
LEMMA GoesStep ==
  ASSUME UploadInv, NEW q \in Gamma, NEW pc \in UploadPoint, Up!Goes(q, pc), up,
         UNCHANGED <<marker, sources, rows, deletion, doomed, lost, up, crashes>>,
         request[q].pc \in Finalizes \/ pc \notin Finalizes
  PROVE  /\ MovesCall(q, [request[q] EXCEPT !.pc = pc])
         /\ request'[q] = [request[q] EXCEPT !.pc = pc]
         /\ request'[q].pc = pc /\ request'[q].u = request[q].u /\ request'[q].rec = request[q].rec
         /\ request'[q].data = request[q].data /\ request'[q].names = request[q].names
<1> DEFINE a == [request[q] EXCEPT !.pc = pc]
<1>1. request[q] \in UploadCall
  BY CallNow
<1>2. /\ a \in UploadCall /\ a.pc = pc /\ a.u = request[q].u /\ a.rec = request[q].rec
      /\ a.data = request[q].data /\ a.names = request[q].names
  BY <1>1 DEF UploadCall
<1> HIDE DEF a
<1>3. request' = [request EXCEPT ![q] = a] /\ request'[q] = a
  BY DEF Up!Goes, a, UploadInv, UploadShapes
<1>4. MovesCall(q, a)
  BY <1>2, <1>3 DEF MovesCall, OnceMore, Works
<1> QED BY <1>2, <1>3, <1>4 DEF a

LEMMA CreateStep == ASSUME UploadInv, NEW q \in Gamma, Up!Create(q) PROVE UploadInv'
<1>1. PICK u \in Upload : Up!FreshSession(u) /\ session' = [session EXCEPT ![u] = Up!Blank]
  BY DEF Up!Create
<1>2. MovesCall(q, Up!Idle)
  BY IdleUpload, EndsFit DEF MovesCall, OnceMore, Finalizes, Resting, Up!Create, Up!Here
<1> QED BY <1>1, <1>2, IdleUpload, EndsFit, SaveSessionStep DEF Up!Create, UploadInv, UploadShapes

LEMMA WriteChunkStep == ASSUME UploadInv, NEW q \in Gamma, Up!WriteChunk(q) PROVE UploadInv'
<1>1. PICK u \in Upload, i \in Chunk :
        /\ session[u] # None
        /\ chunk' = [chunk EXCEPT ![u][i] = "good"]
        /\ request' = [request EXCEPT ![q] =
             [Up!Idle EXCEPT !.pc = "enter chunk", !.u = u,
                             !.data = [session[u] EXCEPT !.chunks = @ \cup {i}]]]
  BY DEF Up!WriteChunk
<1> DEFINE d == [session[u] EXCEPT !.chunks = @ \cup {i}]
           a == [Up!Idle EXCEPT !.pc = "enter chunk", !.u = u, !.data = d]
<1>2. session[u] \in Up!Json
  BY <1>1 DEF UploadInv, UploadShapes
<1>3. d \in Up!Json /\ d.rec = session[u].rec
  BY <1>2 DEF Up!Json
<1> HIDE DEF d
<1>4. a \in UploadCall /\ a.pc = "enter chunk" /\ a.u = u /\ a.data = d /\ a.rec = None
  BY <1>3 DEF Up!Idle, UploadCall, UploadPoint
<1>5. request' = [request EXCEPT ![q] = a]
  BY <1>1 DEF d
<1> HIDE DEF a
<1>6. request'[q] = a
  BY <1>5 DEF UploadInv, UploadShapes
<1>7. MovesCall(q, a)
  BY <1>4, <1>5 DEF MovesCall, OnceMore, Finalizes, Up!WriteChunk, Up!Here
<1>8. CallIsFit(q)'
  BY <1>1, <1>3, <1>4, <1>6, SourcesStay
  DEF CallIsFit, Resting, Up!WriteChunk, UploadInv, SessionsAreSound
<1>9. chunk' \in [Upload -> [Chunk -> {"none", "good", "bad"}]]
  BY <1>1 DEF UploadInv, UploadShapes
<1> QED BY <1>1, <1>2, <1>7, <1>8, <1>9, SaveSessionStep DEF Up!WriteChunk, UploadInv, SessionsAreSound

LEMMA EnterChunkStep == ASSUME UploadInv, NEW q \in Gamma, Up!EnterChunk(q) PROVE UploadInv'
<1>1. request[q].u \in Upload /\ request[q].data \in Up!Json
      /\ (request[q].data.rec # None => HasRow(request[q].u))
  BY CallNow DEF CallIsFit, Up!EnterChunk, Up!Here, UploadCall, Resting
<1>2. MovesCall(q, Up!Idle)
  BY IdleUpload, EndsFit DEF MovesCall, OnceMore, Finalizes, Resting, Up!EnterChunk, Up!Here
<1> QED BY <1>1, <1>2, IdleUpload, EndsFit, SaveSessionStep DEF Up!EnterChunk, UploadInv, UploadShapes

LEMMA ReadStatusStep == ASSUME UploadInv, NEW q \in Gamma, Up!ReadStatus(q) PROVE UploadInv'
<1>1. PICK u \in Upload :
        /\ session[u] # None
        /\ request' = [request EXCEPT ![q] =
             [Up!Idle EXCEPT !.pc = "verify", !.u = u, !.data = session[u]]]
  BY DEF Up!ReadStatus
<1> DEFINE a == [Up!Idle EXCEPT !.pc = "verify", !.u = u, !.data = session[u]]
<1>2. session[u] \in Up!Json
  BY <1>1 DEF UploadInv, UploadShapes
<1>4. a \in UploadCall /\ a.pc = "verify" /\ a.u = u /\ a.data = session[u] /\ a.rec = None
  BY <1>2 DEF Up!Idle, UploadCall, UploadPoint
<1>5. request' = [request EXCEPT ![q] = a]
  BY <1>1
<1> HIDE DEF a
<1>6. request'[q] = a
  BY <1>5 DEF UploadInv, UploadShapes
<1>7. MovesCall(q, a)
  BY <1>4, <1>5 DEF MovesCall, OnceMore, Finalizes, Up!ReadStatus, Up!Here
<1>8. CallIsFit(q)'
  BY <1>1, <1>4, <1>6, SourcesStay
  DEF CallIsFit, Resting, Up!ReadStatus, UploadInv, SessionsAreSound
<1> QED BY <1>7, <1>8, CallStep DEF Up!ReadStatus

LEMMA VerifyStep == ASSUME UploadInv, NEW q \in Gamma, Up!Verify(q) PROVE UploadInv'
<1>1. request[q].u \in Upload /\ request[q].data \in Up!Json
      /\ (request[q].data.rec # None => HasRow(request[q].u))
  BY CallNow DEF CallIsFit, Up!Verify, Up!Here, UploadCall, Resting
<1>2. MovesCall(q, Up!Idle)
  BY IdleUpload, EndsFit DEF MovesCall, OnceMore, Finalizes, Resting, Up!Verify, Up!Here
<1> DEFINE bad == {i \in request[q].data.chunks : chunk[request[q].u][i] # "good"}
           d   == [request[q].data EXCEPT !.chunks = @ \ bad]
<1>3. d \in Up!Json /\ d.rec = request[q].data.rec
  BY <1>1 DEF Up!Json
<1>4. chunk' \in [Upload -> [Chunk -> {"none", "good", "bad"}]]
  BY <1>1 DEF UploadInv, UploadShapes, Up!Verify
<1>5. session' \in {session, [session EXCEPT ![request[q].u] = d]}
  BY DEF Up!Verify
<1> HIDE DEF d
<1> QED BY <1>1, <1>2, <1>3, <1>4, <1>5, IdleUpload, EndsFit, SaveSessionStep DEF Up!Verify

LEMMA FinalizeStep == ASSUME UploadInv, NEW q \in Gamma, Up!Finalize(q) PROVE UploadInv'
<1>1. PICK u \in Upload :
        /\ session[u] # None /\ ~Up!Finalizing(u)
        /\ request' = [request EXCEPT ![q] =
             [Up!Idle EXCEPT !.pc = IF session[u].rec # None THEN "unmark" ELSE "find", !.u = u]]
  BY DEF Up!Finalize
<1> DEFINE pc == IF session[u].rec # None THEN "unmark" ELSE "find"
           a  == [Up!Idle EXCEPT !.pc = pc, !.u = u]
<1>4. /\ a \in UploadCall /\ a.pc = pc /\ a.u = u /\ a.data.rec = None /\ a.rec = None
  BY IdleUpload DEF Up!Idle, UploadCall, UploadPoint
<1>5. request' = [request EXCEPT ![q] = a]
  BY <1>1
<1> HIDE DEF a
<1>6. request'[q] = a
  BY <1>5 DEF UploadInv, UploadShapes
<1>7. \A p \in Gamma : ~Works(p, u)
  BY <1>1 DEF Works, Up!Finalizing, Finalizes
<1>8. MovesCall(q, a)
  BY <1>4, <1>5, <1>7 DEF MovesCall, OnceMore, Up!Finalize, Up!Here
<1>9. CallIsFit(q)'
  BY <1>1, <1>4, <1>6, SourcesStay
  DEF CallIsFit, Resting, Up!Finalize, UploadInv, SessionsAreSound
<1> QED BY <1>8, <1>9, CallStep DEF Up!Finalize

LEMMA FindRowStep == ASSUME UploadInv, NEW q \in Gamma, Up!FindRow(q) PROVE UploadInv'
<1>1. request[q].pc = "find" /\ up /\ request[q] \in UploadCall /\ CallIsFit(q)
      /\ UNCHANGED <<session, chunk, marker, sources, rows, deletion, doomed, lost, up, crashes>>
  BY CallNow DEF Up!FindRow, Up!Here
<1>2. CASE Up!RowsOf(request[q].u) = {} /\ Up!Goes(q, "sweep")
  <2>1. HasRow(request[q].u) => ~Up!Standing
    BY <1>2 DEF HasRow, Up!RowsOf, Up!Kept, Up!Gone
  <2>2. CallIsFit(q)' /\ MovesCall(q, [request[q] EXCEPT !.pc = "sweep"])
    BY <1>1, <1>2, <2>1, GoesStep, SourcesStay DEF CallIsFit, Finalizes, Resting, UploadPoint
  <2> QED BY <1>1, <2>2, CallStep
<1>3. ASSUME NEW r \in Up!RowsOf(request[q].u),
             request' = [request EXCEPT ![q].rec = r, ![q].pc = "mark"]
      PROVE  UploadInv'
  <2> DEFINE a == [request[q] EXCEPT !.rec = r, !.pc = "mark"]
  <2>1. r \in Beta /\ rows[r] # None /\ rows[r].u = request[q].u
    BY <1>3 DEF Up!RowsOf, Up!Kept
  <2>2. /\ a \in UploadCall /\ a.pc = "mark" /\ a.u = request[q].u /\ a.rec = r
        /\ a.data = request[q].data
    BY <1>1, <2>1 DEF UploadCall, UploadPoint
  <2>3. request' = [request EXCEPT ![q] = a] /\ request'[q] = a
    BY <1>3 DEF UploadInv, UploadShapes
  <2> HIDE DEF a
  <2>4. MovesCall(q, a)
    BY <1>1, <2>1, <2>2, <2>3 DEF MovesCall, Works, Finalizes, Resting, UploadPoint
  <2>5. CallIsFit(q)'
    BY <1>1, <2>1, <2>2, <2>3, SourcesStay DEF CallIsFit, Resting
  <2> QED BY <1>1, <2>4, <2>5, CallStep
<1> QED BY <1>2, <1>3 DEF Up!FindRow

(* What a sweep does for an upload, whoever sweeps: the marker's files go, *)
(* of which no row's is one, then the marker.                              *)
Sweeps(u) == Up!SweepFile(u) \/ Up!SweepMarker(u)

LEMMA SweepKeeps ==
  ASSUME UploadInv, NEW u \in Upload, Sweeps(u), UNCHANGED <<rows, deletion, doomed, lost>>
  PROVE  /\ RowsAreSound' /\ MarkersAreSound' /\ FilesAreOwned'
         /\ marker' \in [Upload -> UploadMark \cup {None}]
         /\ marker[u] # None /\ \A v \in Upload : marker'[v] # marker[v] => v = u /\ marker'[v] = None
         /\ sources' \subseteq sources
         /\ \A f \in sources \ sources' : f[1] = marker[u].rec
         /\ \A v : HasRow(v)' <=> HasRow(v)
         /\ (Up!Standing' <=> Up!Standing) /\ DoomedAreSound'
<1> DEFINE m == marker[u]
<1>1. m # None /\ m \in UploadMark /\ m.rec \in Beta
  BY DEF Sweeps, Up!SweepFile, Up!SweepMarker, UploadInv, UploadShapes, UploadMark
<1>2. \A v : HasRow(v)' <=> HasRow(v)
  BY DEF HasRow
<1>g. (Up!Standing' <=> Up!Standing) /\ Up!Gone' = Up!Gone
  BY DEF Up!Standing, Up!Gone
<1>d. DoomedAreSound'
  <2>1. sources' \subseteq sources
    BY DEF Sweeps, Up!SweepFile, Up!SweepMarker
  <2> QED BY <1>g, <2>1 DEF DoomedAreSound, UploadInv
<1>3. CASE Up!SweepFile(u)
  <2>1. PICK f \in Up!Strays(u) : sources' = sources \ {f}
    BY <1>3 DEF Up!SweepFile
  <2>2. f \in sources /\ f \in {m.rec} \X m.names /\ f \notin Up!Referenced
    BY DEF Up!Strays, Up!FilesOf
  <2>3. f[1] = m.rec
    BY <2>2
  <2>4. ASSUME NEW r \in Beta \ Up!Gone, rows[r] # None PROVE {r} \X rows[r].names \subseteq sources'
    <3>1. {r} \X rows[r].names \subseteq sources
      BY <2>4 DEF UploadInv, RowsAreSound
    <3>2. f \notin {r} \X rows[r].names
      BY <2>2, <2>4 DEF Up!Referenced, Up!FilesOf, Up!Kept
    <3> QED BY <3>1, <3>2, <2>1
  <2>5. marker' = marker
    BY <1>3 DEF Up!SweepFile
  <2>6. RowsAreSound'
    BY <1>g, <2>4 DEF RowsAreSound, UploadInv
  <2>7. MarkersAreSound'
    BY <2>5, <1>2 DEF MarkersAreSound, UploadInv
  <2>8. FilesAreOwned'
    BY <2>1, <2>5 DEF FilesAreOwned, HasOwner, UploadInv
  <2> QED BY <1>1, <1>2, <2>1, <2>3, <2>5, <2>6, <2>7, <2>8, <1>g, <1>d
        DEF UploadInv, UploadShapes
<1>4. CASE Up!SweepMarker(u)
  <2>1. marker' = [marker EXCEPT ![u] = None] /\ sources' = sources
    BY <1>4 DEF Up!SweepMarker
  <2>2. marker'[u] = None /\ \A v \in Upload : v # u => marker'[v] = marker[v]
    BY <2>1 DEF UploadInv, UploadShapes
  <2>3. RowsAreSound'
    BY <1>g, <2>1 DEF RowsAreSound, UploadInv
  <2>4. MarkersAreSound'
    BY <2>2, <1>2 DEF MarkersAreSound, UploadInv
  <2>5. ASSUME NEW f \in sources, f[1] = m.rec, f[2] \in m.names
        PROVE  rows[f[1]] # None /\ f[2] \in rows[f[1]].names
    <3>1. CASE Up!RowsOf(u) # {}
      <4>1. HasRow(u)
        BY <3>1 DEF HasRow, Up!RowsOf, Up!Kept
      <4> QED BY <1>1, <2>5, <4>1 DEF UploadInv, MarkersAreSound
    <3>2. CASE Up!Strays(u) = {}
      <4>1. f \in Beta \X Up!Names
        BY DEF UploadInv, UploadShapes
      <4>2. f \in {m.rec} \X m.names
        BY <2>5, <4>1
      <4>3. f \in Up!Referenced
        BY <3>2, <4>2 DEF Up!Strays, Up!FilesOf
      <4>4. PICK r \in Beta : rows[r] # None /\ f \in {r} \X rows[r].names
        BY <4>3 DEF Up!Referenced, Up!FilesOf, Up!Kept
      <4> QED BY <4>4
    <3> QED BY <1>4, <3>1, <3>2 DEF Up!SweepMarker
  <2>6. ASSUME NEW f \in sources PROVE HasOwner(f)'
    <3>1. HasOwner(f)
      BY DEF UploadInv, FilesAreOwned
    <3>2. CASE f \in lost \/ (rows[f[1]] # None /\ f[2] \in rows[f[1]].names)
      BY <3>2 DEF HasOwner
    <3>3. ASSUME NEW v \in Upload, marker[v] # None, f[1] = marker[v].rec, f[2] \in marker[v].names
          PROVE  HasOwner(f)'
      BY <3>3, <2>2, <2>5 DEF HasOwner
    <3> QED BY <3>1, <3>2, <3>3 DEF HasOwner
  <2> QED BY <1>1, <1>2, <1>g, <1>d, <2>1, <2>2, <2>3, <2>4, <2>6
        DEF FilesAreOwned, UploadInv, UploadShapes
<1> QED BY <1>3, <1>4 DEF Sweeps

LEMMA SweepStep == ASSUME UploadInv, NEW q \in Gamma, Up!Sweep(q) PROVE UploadInv'
<1>1. request[q].pc = "sweep" /\ up /\ request[q] \in UploadCall /\ CallIsFit(q)
      /\ UNCHANGED <<session, chunk, rows, deletion, doomed, lost, up, crashes>>
      /\ request[q].u \in Upload /\ (HasRow(request[q].u) => ~Up!Standing)
  BY CallNow DEF Up!Sweep, Up!Here, CallIsFit, Resting
<1>2. ASSUME Sweeps(request[q].u), UNCHANGED request PROVE UploadInv'
  <2>1. UploadStep(q, request[q])
    <3>1. request' = [request EXCEPT ![q] = request[q]]
      BY <1>2 DEF UploadInv, UploadShapes
    <3>2. \A v \in Upload : marker'[v] # marker[v] => Works(q, v) /\ marker'[v] = None
      BY <1>1, <1>2, SweepKeeps DEF Works, Finalizes, Resting, UploadPoint
    <3>3. sources' \subseteq Beta \X Up!Names
      BY <1>1, <1>2, SweepKeeps DEF UploadInv, UploadShapes
    <3> QED BY <1>1, <1>2, <3>1, <3>2, <3>3, SweepKeeps DEF UploadStep, UploadInv, UploadShapes
  <2>2. CallIsFit(q)'
    BY <1>1, <1>2, SweepKeeps DEF CallIsFit, Resting
  <2>3. SessionsAreSound'
    BY <1>1, <1>2, SweepKeeps DEF UploadInv, SessionsAreSound
  <2>4. Works(q, request[q].u)
    BY <1>1 DEF Works, Finalizes, Resting, UploadPoint
  <2> QED BY <1>1, <1>2, <2>1, <2>2, <2>3, <2>4, SweepKeeps, UploadStepKeeps
<1>3. CASE Up!Standing /\ Up!Goes(q, "assemble") /\ UNCHANGED <<marker, sources>>
  <2>1. CallIsFit(q)' /\ MovesCall(q, [request[q] EXCEPT !.pc = "assemble"])
    BY <1>1, <1>3, GoesStep, SourcesStay DEF CallIsFit, Finalizes, Resting, UploadPoint
  <2> QED BY <1>1, <2>1, CallStep
<1>4. CASE Up!Ends(q) /\ UNCHANGED <<marker, sources>>
  BY <1>1, <1>4, EndStep
<1> QED BY <1>2, <1>3, <1>4 DEF Up!Sweep, Sweeps

LEMMA AssembleStep == ASSUME UploadInv, NEW q \in Gamma, Up!Assemble(q) PROVE UploadInv'
<1>1. request[q].pc = "assemble" /\ up /\ CallIsFit(q)
      /\ UNCHANGED <<session, chunk, marker, sources, rows, deletion, doomed, lost, up, crashes>>
  BY CallNow DEF Up!Assemble, Up!Here
<1>2. CASE Up!Goes(q, "inspect")
  <2>1. CallIsFit(q)' /\ MovesCall(q, [request[q] EXCEPT !.pc = "inspect"])
    BY <1>1, <1>2, GoesStep, SourcesStay, ZenonT(60) DEF CallIsFit, Finalizes, Resting, UploadPoint
  <2> QED BY <1>1, <2>1, CallStep
<1> QED BY <1>1, <1>2, EndStep DEF Up!Assemble

LEMMA InspectStep == ASSUME UploadInv, NEW q \in Gamma, Up!Inspect(q) PROVE UploadInv'
<1>1. request[q].pc = "inspect" /\ up /\ CallIsFit(q) /\ request[q] \in UploadCall
      /\ UNCHANGED <<session, chunk, marker, sources, rows, deletion, doomed, lost, up, crashes>>
  BY CallNow DEF Up!Inspect, Up!Here
<1>2. ASSUME NEW r \in Beta, NEW names \in {{"working"}, Up!Names}, Up!FreshRecording(r),
             request' = [request EXCEPT ![q].rec = r, ![q].names = names, ![q].pc = "promise"]
      PROVE  UploadInv'
  <2> DEFINE a == [request[q] EXCEPT !.rec = r, !.names = names, !.pc = "promise"]
  <2>1. /\ a \in UploadCall /\ a.pc = "promise" /\ a.u = request[q].u /\ a.rec = r
        /\ a.data = request[q].data /\ a.names = names
    BY <1>1 DEF UploadCall, UploadPoint, Up!Names
  <2>2. request' = [request EXCEPT ![q] = a] /\ request'[q] = a
        /\ \A p \in Gamma : p # q => request'[p] = request[p]
    BY <1>2 DEF UploadInv, UploadShapes
  <2> HIDE DEF a
  <2>3. MovesCall(q, a)
    BY <1>1, <1>2, <2>1, <2>2 DEF MovesCall, Works, Finalizes, Resting, UploadPoint, Up!FreshRecording
  <2>4. Unnamed(r)' /\ \A p \in Gamma \ {q} : request'[p].rec # r
    BY <1>1, <1>2, <2>2 DEF Unnamed, Up!FreshRecording
  <2>5. CallIsFit(q)'
    BY <1>1, <2>1, <2>2, <2>4, SourcesStay DEF CallIsFit, Resting
  <2> QED BY <1>1, <2>3, <2>5, CallStep
<1> QED BY <1>1, <1>2, EndStep, ZenonT(60) DEF Up!Inspect

LEMMA WriteMarkerStep == ASSUME UploadInv, NEW q \in Gamma, Up!WriteMarker(q) PROVE UploadInv'
<1> DEFINE u == request[q].u
           m == [rec |-> request[q].rec, names |-> request[q].names]
<1>1. /\ request[q].pc = "promise" /\ up /\ CallIsFit(q) /\ request[q] \in UploadCall
      /\ marker' = [marker EXCEPT ![u] = m] /\ Up!Goes(q, "move")
      /\ UNCHANGED <<session, chunk, sources, rows, deletion, doomed, up, crashes>>
      /\ lost' = lost \cup (IF marker[u] = None THEN {} ELSE Up!Strays(u))
  BY CallNow DEF Up!WriteMarker, Up!Here
<1>2. /\ u \in Upload /\ ~HasRow(u) /\ request[q].rec \in Beta
      /\ Unnamed(request[q].rec)
  BY <1>1 DEF CallIsFit, Resting
<1>3. m \in UploadMark /\ m # None /\ m.rec = request[q].rec /\ m.names = request[q].names
  BY <1>1, <1>2, UploadsAssumption DEF UploadMark, UploadCall
<1> HIDE DEF m
<1>4. marker'[u] = m /\ \A v \in Upload : v # u => marker'[v] = marker[v]
  BY <1>1, <1>2 DEF UploadInv, UploadShapes
<1>5. Works(q, u)
  BY <1>1 DEF Works, Finalizes, Resting, UploadPoint
<1>6. PICK a : /\ a = [request[q] EXCEPT !.pc = "move"] /\ a \in UploadCall
               /\ a.pc = "move" /\ a.u = u /\ a.rec = request[q].rec
               /\ a.data = request[q].data /\ a.names = request[q].names
               /\ request' = [request EXCEPT ![q] = a] /\ request'[q] = a
  BY <1>1 DEF UploadInv, UploadShapes, UploadCall, UploadPoint, Up!Goes
<1>l. lost \subseteq lost' /\ lost' \subseteq Beta \X Up!Names
  BY <1>1 DEF Up!Strays, UploadInv, UploadShapes
<1>7. UploadStep(q, a)
  <2>1. marker' \in [Upload -> UploadMark \cup {None}]
    BY <1>1, <1>2, <1>3 DEF UploadInv, UploadShapes
  <2>2. \A v \in Upload : marker'[v] # marker[v] => Works(q, v) /\ marker'[v].rec = request[q].rec
    BY <1>3, <1>4, <1>5
  <2> QED BY <1>1, <1>6, <1>l, <2>1, <2>2 DEF UploadStep, UploadInv, UploadShapes
<1>8. \A v : HasRow(v)' <=> HasRow(v)
  BY <1>1 DEF HasRow
<1>9. CallIsFit(q)'
  BY <1>1, <1>2, <1>3, <1>4, <1>6, <1>8, ZenonT(60) DEF CallIsFit, Resting
<1>10. MarkersAreSound'
  BY <1>1, <1>2, <1>3, <1>4, <1>8 DEF UploadInv, MarkersAreSound, Unnamed
<1>11. FilesAreOwned'
  <2> SUFFICES ASSUME NEW f \in sources PROVE HasOwner(f)'
    BY <1>1 DEF FilesAreOwned
  <2>1. HasOwner(f)
    BY DEF UploadInv, FilesAreOwned
  <2>2. ASSUME marker[u] # None, f[1] = marker[u].rec, f[2] \in marker[u].names
        PROVE  f \in lost'
    <3>1. marker[u].rec \in Beta /\ rows[marker[u].rec] = None
      BY <1>2, <2>2, UploadSorts DEF UploadInv, MarkersAreSound, HasRow
    <3>2. f \in {marker[u].rec} \X marker[u].names
      BY <2>2 DEF UploadInv, UploadShapes
    <3>3. f \notin Up!Referenced
      BY <2>2, <3>1 DEF Up!Referenced, Up!FilesOf, Up!Kept
    <3> QED BY <1>1, <2>2, <3>2, <3>3 DEF Up!Strays, Up!FilesOf
  <2>3. ASSUME NEW v \in Upload, v # u, marker[v] # None, f[1] = marker[v].rec,
               f[2] \in marker[v].names
        PROVE  HasOwner(f)'
    BY <1>4, <2>3 DEF HasOwner
  <2>4. CASE f \in lost \/ (rows[f[1]] # None /\ f[2] \in rows[f[1]].names)
    BY <1>1, <1>l, <2>4 DEF HasOwner
  <2> QED BY <2>1, <2>2, <2>3, <2>4 DEF HasOwner
<1>12. RowsAreSound' /\ SessionsAreSound'
  BY <1>1, <1>8 DEF UploadInv, RowsAreSound, SessionsAreSound, Up!Gone, Up!Standing
<1> QED BY <1>5, <1>6, <1>7, <1>9, <1>10, <1>11, <1>12, UploadStepKeeps

LEMMA MoveStep == ASSUME UploadInv, NEW q \in Gamma, Up!Move(q) PROVE UploadInv'
<1> DEFINE b    == request[q]
           left == {n \in b.names : <<b.rec, n>> \notin sources}
           next == IF "original" \in left THEN "original" ELSE "working"
<1>1. /\ b.pc = "move" /\ up /\ CallIsFit(q) /\ b \in UploadCall
      /\ sources' = sources \cup {<<b.rec, next>>}
      /\ IF left = {next} THEN Up!Goes(q, "look") ELSE UNCHANGED request
      /\ UNCHANGED <<session, chunk, marker, rows, deletion, doomed, lost, up, crashes>>
  BY CallNow DEF Up!Move, Up!Here
<1>2. /\ b.u \in Upload /\ ~HasRow(b.u) /\ b.rec \in Beta /\ next \in b.names
      /\ next \in Up!Names /\ marker[b.u] # None
      /\ marker[b.u].rec = b.rec /\ marker[b.u].names = b.names /\ rows[b.rec] = None
  <2>1. /\ b.u \in Upload /\ ~HasRow(b.u) /\ b.rec \in Beta /\ next \in b.names
        /\ next \in Up!Names /\ marker[b.u] # None
        /\ marker[b.u].rec = b.rec /\ marker[b.u].names = b.names
    BY <1>1 DEF CallIsFit, Resting, Up!Names
  <2> QED BY <2>1 DEF UploadInv, MarkersAreSound, HasRow
<1>3. left = {next} => {b.rec} \X b.names \subseteq sources'
  BY <1>1
<1> HIDE DEF left, next
<1>4. PICK pc \in {"move", "look"} : /\ pc = "look" => left = {next}
                                     /\ request' = [request EXCEPT ![q] = [b EXCEPT !.pc = pc]]
  <2>1. CASE left = {next}
    BY <1>1, <2>1 DEF Up!Goes, UploadInv, UploadShapes
  <2>2. CASE left # {next}
    <3>1. b = [b EXCEPT !.pc = "move"]
      BY <1>1 DEF UploadCall
    <3>2. request' = [request EXCEPT ![q] = b]
      BY <1>1, <2>2 DEF UploadInv, UploadShapes
    <3> QED BY <3>1, <3>2
  <2> QED BY <2>1, <2>2
<1>6. PICK a : /\ a = [b EXCEPT !.pc = pc] /\ a \in UploadCall
               /\ a.pc = pc /\ a.u = b.u /\ a.rec = b.rec
               /\ a.data = b.data /\ a.names = b.names
               /\ request' = [request EXCEPT ![q] = a] /\ request'[q] = a
  BY <1>1, <1>4 DEF UploadInv, UploadShapes, UploadCall, UploadPoint
<1>5. Works(q, b.u)
  BY <1>1 DEF Works, Finalizes, Resting, UploadPoint
<1>7. UploadStep(q, a)
  BY <1>1, <1>2, <1>6 DEF UploadStep, UploadInv, UploadShapes
<1>8. \A v : HasRow(v)' <=> HasRow(v)
  BY <1>1 DEF HasRow
<1>9. CallIsFit(q)'
  BY <1>1, <1>2, <1>3, <1>4, <1>6, <1>8 DEF CallIsFit, Resting
<1>10. RowsAreSound' /\ SessionsAreSound' /\ MarkersAreSound'
  BY <1>1, <1>8 DEF UploadInv, RowsAreSound, SessionsAreSound, MarkersAreSound,
                     Up!Gone, Up!Standing
<1>11. FilesAreOwned'
  <2> SUFFICES ASSUME NEW f \in sources' PROVE HasOwner(f)'
    BY DEF FilesAreOwned
  <2>1. CASE f \in sources
    BY <1>1, <2>1 DEF HasOwner, UploadInv, FilesAreOwned
  <2>2. CASE f = <<b.rec, next>>
    BY <1>1, <1>2, <2>2 DEF HasOwner
  <2> QED BY <1>1, <2>1, <2>2
<1> QED BY <1>5, <1>6, <1>7, <1>9, <1>10, <1>11, UploadStepKeeps

LEMMA LookUpStep == ASSUME UploadInv, NEW q \in Gamma, Up!LookUp(q) PROVE UploadInv'
<1>1. request[q].pc = "look" /\ up /\ CallIsFit(q)
      /\ UNCHANGED <<session, chunk, marker, sources, rows, deletion, doomed, lost, up, crashes>>
  BY CallNow DEF Up!LookUp, Up!Here
<1>2. CASE Up!Goes(q, "insert")
  <2>1. CallIsFit(q)' /\ MovesCall(q, [request[q] EXCEPT !.pc = "insert"])
    BY <1>1, <1>2, GoesStep, SourcesStay, ZenonT(60) DEF CallIsFit, Finalizes, Resting, UploadPoint
  <2> QED BY <1>1, <2>1, CallStep
<1> QED BY <1>1, <1>2, EndStep DEF Up!LookUp

LEMMA InsertRowStep == ASSUME UploadInv, NEW q \in Gamma, Up!InsertRow(q) PROVE UploadInv'
<1> DEFINE b   == request[q]
           line == [u |-> b.u, names |-> b.names]
<1>1. /\ b.pc = "insert" /\ up /\ CallIsFit(q) /\ b \in UploadCall
      /\ rows' = [rows EXCEPT ![b.rec] = line] /\ Up!Goes(q, "mark")
      /\ UNCHANGED <<session, chunk, marker, sources, deletion, doomed, lost, up, crashes>>
  BY CallNow DEF Up!InsertRow, Up!Here
<1>2. /\ b.u \in Upload /\ ~HasRow(b.u) /\ b.rec \in Beta /\ marker[b.u] # None
      /\ marker[b.u].rec = b.rec /\ marker[b.u].names = b.names
      /\ {b.rec} \X b.names \subseteq sources
  BY <1>1 DEF CallIsFit, Resting
<1>3. line \in UploadRow /\ line # None /\ line.u = b.u /\ line.names = b.names
  BY <1>1, <1>2, UploadsAssumption DEF UploadRow, UploadCall
<1> HIDE DEF line
<1>4. rows'[b.rec] = line /\ \A r \in Beta : r # b.rec => rows'[r] = rows[r]
  BY <1>1, <1>2 DEF UploadInv, UploadShapes
<1>5. rows[b.rec] = None
  BY <1>2 DEF HasRow, UploadInv, MarkersAreSound
<1>6. PICK a : /\ a = [b EXCEPT !.pc = "mark"] /\ a \in UploadCall
               /\ a.pc = "mark" /\ a.u = b.u /\ a.rec = b.rec
               /\ a.data = b.data /\ a.names = b.names
               /\ request' = [request EXCEPT ![q] = a] /\ request'[q] = a
  BY <1>1 DEF UploadInv, UploadShapes, UploadCall, UploadPoint, Up!Goes
<1>7. Works(q, b.u)
  BY <1>1 DEF Works, Finalizes, Resting, UploadPoint
<1>8. UploadStep(q, a)
  <2>1. rows' \in [Beta -> UploadRow \cup {None}]
    BY <1>1, <1>2, <1>3 DEF UploadInv, UploadShapes
  <2> QED BY <1>1, <1>3, <1>4, <1>5, <1>6, <2>1 DEF UploadStep, UploadInv, UploadShapes
<1>9. PICK w \in Upload : w = b.u
  BY <1>2
<1>10. \A v : HasRow(v)' <=> HasRow(v) \/ v = w
  BY <1>2, <1>3, <1>4, <1>5, <1>9 DEF HasRow
<1>11. CallIsFit(q)'
  BY <1>1, <1>2, <1>3, <1>4, <1>6, <1>9, <1>10, ZenonT(60) DEF CallIsFit, Resting
<1>12. RowsAreSound'
  BY <1>1, <1>2, <1>3, <1>4 DEF UploadInv, RowsAreSound, HasRow, Up!Gone, Up!Standing
<1>13. MarkersAreSound'
  <2> SUFFICES ASSUME NEW v \in Upload, marker[v] # None
               PROVE  /\ rows'[marker[v].rec] # None =>
                           rows'[marker[v].rec].u = v /\ rows'[marker[v].rec].names = marker[v].names
                      /\ HasRow(v)' => rows'[marker[v].rec] # None
    BY <1>1 DEF MarkersAreSound, UploadInv
  <2>1. CASE v = w
    BY <1>2, <1>3, <1>4, <1>9, <2>1
  <2>2. CASE v # w
    BY <1>2, <1>4, <1>9, <1>10, <2>2, UploadSorts DEF UploadInv, MarkersAreSound
  <2> QED BY <2>1, <2>2
<1>14. FilesAreOwned'
  <2> SUFFICES ASSUME NEW f \in sources PROVE HasOwner(f)'
    BY <1>1 DEF FilesAreOwned
  <2>1. HasOwner(f) /\ f[1] \in Beta
    BY DEF UploadInv, FilesAreOwned, UploadShapes
  <2> QED BY <1>1, <1>4, <1>5, <2>1 DEF HasOwner
<1>15. SessionsAreSound'
  BY <1>1, <1>10 DEF UploadInv, SessionsAreSound
<1> QED BY <1>6, <1>7, <1>8, <1>11, <1>12, <1>13, <1>14, <1>15, UploadStepKeeps

LEMMA ReadMarkStep == ASSUME UploadInv, NEW q \in Gamma, Up!ReadMark(q) PROVE UploadInv'
<1>1. request[q].pc = "mark" /\ up /\ CallIsFit(q) /\ request[q] \in UploadCall
      /\ UNCHANGED <<session, chunk, marker, sources, rows, deletion, doomed, lost, up, crashes>>
  BY CallNow DEF Up!ReadMark, Up!Here
<1> DEFINE s == session[request[q].u]
           a == [request[q] EXCEPT !.data = s, !.pc = "complete"]
<1>2. s \in Up!Json /\ request[q].u \in Upload /\ (s.rec # None => HasRow(request[q].u))
  BY <1>1 DEF CallIsFit, Resting, UploadInv, UploadShapes, SessionsAreSound
<1>3. /\ a \in UploadCall /\ a.pc = "complete" /\ a.u = request[q].u /\ a.rec = request[q].rec
      /\ a.data = s
  BY <1>1, <1>2 DEF UploadCall, UploadPoint
<1>4. request' = [request EXCEPT ![q] = a] /\ request'[q] = a
  BY DEF Up!ReadMark, UploadInv, UploadShapes
<1> HIDE DEF a
<1>5. MovesCall(q, a)
  BY <1>1, <1>3, <1>4 DEF MovesCall, Works, Finalizes, Resting, UploadPoint
<1>6. CallIsFit(q)'
  BY <1>1, <1>2, <1>3, <1>4, SourcesStay DEF CallIsFit, Resting
<1> QED BY <1>1, <1>5, <1>6, CallStep

LEMMA CompleteStep == ASSUME UploadInv, NEW q \in Gamma, Up!Complete(q) PROVE UploadInv'
<1>1. request[q].pc = "complete" /\ up /\ CallIsFit(q) /\ request[q] \in UploadCall
      /\ Up!Goes(q, "unmark") /\ UNCHANGED <<chunk, marker, sources, rows, deletion, doomed, lost, up, crashes>>
      /\ session' = [session EXCEPT ![request[q].u] = [request[q].data EXCEPT !.rec = request[q].rec]]
  BY CallNow DEF Up!Complete, Up!Here
<1> DEFINE d == [request[q].data EXCEPT !.rec = request[q].rec]
<1>2. request[q].u \in Upload /\ d \in Up!Json /\ HasRow(request[q].u)
  BY <1>1 DEF CallIsFit, Resting, UploadCall, Up!Json, HasRow
<1> HIDE DEF d
<1>3. session'[request[q].u] # None
  BY <1>1, <1>2, UploadsAssumption DEF d, UploadInv, UploadShapes
<1>4. CallIsFit(q)' /\ MovesCall(q, [request[q] EXCEPT !.pc = "unmark"])
  BY <1>1, <1>2, <1>3, GoesStep, SourcesStay DEF CallIsFit, Finalizes, Resting, UploadPoint
<1>5. chunk' \in [Upload -> [Chunk -> {"none", "good", "bad"}]]
  BY <1>1 DEF UploadInv, UploadShapes
<1> QED BY <1>1, <1>2, <1>4, <1>5, SaveSessionStep DEF d

LEMMA DropMarkerStep == ASSUME UploadInv, NEW q \in Gamma, Up!DropMarker(q) PROVE UploadInv'
<1>1. /\ request[q].pc = "unmark" /\ up /\ CallIsFit(q) /\ request[q].u \in Upload
      /\ HasRow(request[q].u) /\ marker' = [marker EXCEPT ![request[q].u] = None]
      /\ Up!Ends(q) /\ UNCHANGED <<session, chunk, sources, rows, deletion, doomed, lost, up, crashes>>
  BY CallNow DEF Up!DropMarker, Up!Here, CallIsFit, Resting
<1>2. \A v : HasRow(v)' <=> HasRow(v)
  BY <1>1 DEF HasRow
<1>3. marker'[request[q].u] = None /\ \A v \in Upload : v # request[q].u => marker'[v] = marker[v]
  BY <1>1 DEF UploadInv, UploadShapes
<1>4. UploadStep(q, Up!Idle)
  <2>1. \A v \in Upload : marker'[v] # marker[v] => Works(q, v) /\ marker'[v] = None
    BY <1>1, <1>3 DEF Works, Finalizes, Resting, UploadPoint
  <2>2. marker' \in [Upload -> UploadMark \cup {None}]
    BY <1>1 DEF UploadInv, UploadShapes
  <2> QED BY <1>1, <2>1, <2>2, IdleUpload, EndsFit DEF UploadStep, UploadInv, UploadShapes
<1>5. OnceMore(Up!Idle)
  BY IdleUpload DEF OnceMore, Finalizes, Resting
<1>6. MarkersAreSound'
  BY <1>1, <1>2, <1>3 DEF UploadInv, MarkersAreSound
<1>7. FilesAreOwned'
  <2> SUFFICES ASSUME NEW f \in sources PROVE HasOwner(f)'
    BY <1>1 DEF FilesAreOwned
  <2>1. HasOwner(f)
    BY DEF UploadInv, FilesAreOwned
  <2> QED BY <1>1, <1>3, <2>1 DEF HasOwner, UploadInv, MarkersAreSound
<1>8. RowsAreSound' /\ SessionsAreSound'
  BY <1>1, <1>2 DEF UploadInv, RowsAreSound, SessionsAreSound, Up!Gone, Up!Standing
<1> QED BY <1>1, <1>4, <1>5, <1>6, <1>7, <1>8, EndsFit, UploadStepKeeps

LEMMA ServeStep == ASSUME UploadInv, NEW q \in Gamma, Up!Serve(q) PROVE UploadInv'
<1>1. CASE Up!Fails(q)
  BY <1>1, EndStep DEF Up!Fails
<1> QED
  BY <1>1, ScanStep, CreateStep, WriteChunkStep, EnterChunkStep, ReadStatusStep, VerifyStep,
     FinalizeStep, FindRowStep, SweepStep, AssembleStep, InspectStep, WriteMarkerStep,
     MoveStep, LookUpStep, InsertRowStep, ReadMarkStep, CompleteStep, DropMarkerStep
  DEF Up!Serve

(* What a deletion, or a death in the middle of one, leaves: the calls and *)
(* the markers as they are, or none of the calls.                          *)
LEMMA DeletionKeeps ==
  ASSUME UploadInv, UNCHANGED <<session, marker, rows>>,
         deletion' \in {"none", "read", "unlink", "over"}, doomed' \subseteq Beta,
         lost \subseteq lost', lost' \subseteq Beta \X Up!Names,
         sources' \subseteq sources, \A f \in sources \ sources' : f[1] \in Up!Gone,
         Up!Gone \subseteq Up!Gone', Up!Standing' => Up!Standing,
         DoomedAreSound',
         chunk' \in [Upload -> [Chunk -> {"none", "good", "bad"}]],
         crashes' \in 0 .. MaxCrashes, up' \in BOOLEAN,
         \/ request' = request /\ up' = up
         \/ request' = [q \in Gamma |-> Up!Idle]
  PROVE  UploadInv'
<1>1. UploadShapes'
  BY IdleUpload DEF UploadInv, UploadShapes
<1>2. \A v : HasRow(v)' <=> HasRow(v)
  BY DEF HasRow
<1>3. RowsAreSound'
  BY DEF UploadInv, RowsAreSound
<1>4. MarkersAreSound' /\ SessionsAreSound'
  BY <1>2 DEF UploadInv, MarkersAreSound, SessionsAreSound
<1>5. FilesAreOwned'
  BY DEF UploadInv, FilesAreOwned, HasOwner
<1>6. CASE request' = [q \in Gamma |-> Up!Idle]
  <2>1. \A q \in Gamma : request'[q] = Up!Idle
    BY <1>6
  <2>2. (\A q \in Gamma : CallIsFit(q)') /\ FinalizedOnce'
    BY <2>1, IdleUpload DEF CallIsFit, FinalizedOnce, Finalizes, Resting
  <2> QED BY <1>1, <1>3, <1>4, <1>5, <1>6, <2>2 DEF UploadInv
<1>7. CASE request' = request /\ up' = up
  <2>1. ASSUME NEW q \in Gamma PROVE CallIsFit(q)'
    <3> DEFINE b == request[q]
    <3>1. CallIsFit(q) /\ request'[q] = b /\ b \in UploadCall
      BY <1>7, CallNow
    <3>2. b.pc \notin Resting => b.u \in Upload
      BY <3>1 DEF CallIsFit
    <3>3. ASSUME b.pc \in {"look", "insert"} PROVE {b.rec} \X b.names \subseteq sources'
      <4>1. /\ {b.rec} \X b.names \subseteq sources /\ b.rec \in Beta /\ b.u \in Upload
            /\ ~HasRow(b.u) /\ marker[b.u] # None /\ marker[b.u].rec = b.rec
        BY <3>1, <3>3 DEF CallIsFit, Resting
      <4>2. rows[b.rec] = None
        BY <4>1 DEF UploadInv, MarkersAreSound, HasRow
      <4>3. b.rec \notin Up!Gone
        BY <4>2 DEF UploadInv, DoomedAreSound, Up!Gone
      <4> QED BY <4>1, <4>3
    <3>4. ASSUME b.pc = "promise"
          PROVE  Unnamed(b.rec)' /\ \A p \in Gamma \ {q} : request'[p].rec # b.rec
      <4>1. Unnamed(b.rec) /\ \A p \in Gamma \ {q} : request[p].rec # b.rec
        BY <3>1, <3>4 DEF CallIsFit
      <4> QED BY <1>7, <4>1 DEF Unnamed
    <3>5. b.pc = "sweep" /\ HasRow(b.u) => ~Up!Standing'
      BY <3>1 DEF CallIsFit
    <3> HIDE DEF b
    <3> QED BY <1>2, <3>1, <3>2, <3>3, <3>4, <3>5 DEF CallIsFit, b
  <2>2. FinalizedOnce'
    BY <1>7 DEF UploadInv, FinalizedOnce
  <2> QED BY <1>1, <1>3, <1>4, <1>5, <1>7, <2>1, <2>2 DEF UploadInv
<1> QED BY <1>6, <1>7

(* The files of a row that is deleted are not those of the other rows.     *)
LEMMA DeletionStep ==
  ASSUME UploadInv, Up!ReadProject \/ Up!DeleteRows \/ Up!DeleteFile \/ Up!EndDeletion
  PROVE  UploadInv'
<1>0. /\ doomed \subseteq Beta /\ sources \subseteq Beta \X Up!Names /\ lost \subseteq Beta \X Up!Names
      /\ chunk \in [Upload -> [Chunk -> {"none", "good", "bad"}]] /\ up \in BOOLEAN
      /\ crashes \in 0 .. MaxCrashes
      /\ \A r \in doomed : rows[r] # None /\ rows[r].names \subseteq Up!Names
  BY DEF UploadInv, UploadShapes, UploadRow, DoomedAreSound
<1>1. CASE Up!ReadProject
  <2>1. Up!Standing /\ Up!Standing' /\ Up!Gone = {} /\ Up!Gone' = {}
    BY <1>1 DEF Up!ReadProject, Up!Standing, Up!Gone
  <2>2. doomed' \subseteq Beta /\ DoomedAreSound'
    BY <1>1, <2>1 DEF Up!ReadProject, Up!Kept, DoomedAreSound
  <2>3. deletion' \in {"none", "read", "unlink", "over"} /\ lost' = lost /\ sources' = sources
        /\ request' = request /\ up' = up /\ chunk' = chunk /\ crashes' = crashes
        /\ UNCHANGED <<session, marker, rows>>
    BY <1>1 DEF Up!ReadProject
  <2> QED BY <1>0, <2>1, <2>2, <2>3, DeletionKeeps
<1>2. CASE Up!DeleteRows
  <2>1. Up!Gone = {} /\ Up!Gone' = doomed /\ ~Up!Standing'
    BY <1>2 DEF Up!DeleteRows, Up!Standing, Up!Gone
  <2>2. deletion' = "unlink" /\ doomed' = doomed /\ sources' = sources
        /\ request' = request /\ up' = up /\ chunk' = chunk /\ crashes' = crashes
        /\ UNCHANGED <<session, marker, rows>>
    BY <1>2 DEF Up!DeleteRows
  <2>3. lost' = lost \cup UNION {{r} \X (rows[r].names \ {"working"}) : r \in doomed}
    BY <1>2 DEF Up!DeleteRows, Up!FilesOf
  <2>4. lost \subseteq lost' /\ lost' \subseteq Beta \X Up!Names
    BY <1>0, <2>3
  <2>5. DoomedAreSound'
    <3>1. ASSUME NEW r \in doomed, NEW n \in rows[r].names, n # "working" PROVE <<r, n>> \in lost'
      <4>1. <<r, n>> \in {r} \X (rows[r].names \ {"working"})
        BY <3>1
      <4> QED BY <2>3, <4>1
    <3> QED BY <1>0, <2>1, <2>2, <3>1 DEF DoomedAreSound
  <2> QED BY <1>0, <2>1, <2>2, <2>4, <2>5, DeletionKeeps
<1>3. CASE Up!DeleteFile
  <2>1. PICK f \in (doomed \X {"working"}) \cap sources : sources' = sources \ {f}
    BY <1>3 DEF Up!DeleteFile, Up!Columns
  <2>2. Up!Gone = doomed /\ Up!Gone' = doomed /\ ~Up!Standing'
    BY <1>3 DEF Up!DeleteFile, Up!Standing, Up!Gone
  <2>3. deletion = "unlink" /\ deletion' = deletion /\ doomed' = doomed /\ lost' = lost
        /\ request' = request /\ up' = up /\ chunk' = chunk /\ crashes' = crashes
        /\ UNCHANGED <<session, marker, rows>>
    BY <1>3 DEF Up!DeleteFile
  <2>4. DoomedAreSound'
    BY <2>1, <2>2, <2>3 DEF UploadInv, DoomedAreSound
  <2>5. f[1] \in doomed
    BY <2>1
  <2> QED BY <1>0, <2>1, <2>2, <2>3, <2>4, <2>5, DeletionKeeps
<1>4. CASE Up!EndDeletion
  <2>1. Up!Gone = doomed /\ Up!Gone' = doomed /\ ~Up!Standing'
    BY <1>4 DEF Up!EndDeletion, Up!Standing, Up!Gone
  <2>2. deletion = "unlink" /\ deletion' = "over" /\ doomed' = doomed /\ sources' = sources
        /\ lost' = lost \cup ((doomed \X {"working"}) \cap sources)
        /\ request' = request /\ up' = up /\ chunk' = chunk /\ crashes' = crashes
        /\ UNCHANGED <<session, marker, rows>>
    BY <1>4 DEF Up!EndDeletion, Up!Columns
  <2>3. DoomedAreSound'
    BY <2>1, <2>2 DEF UploadInv, DoomedAreSound
  <2>4. lost \subseteq lost' /\ lost' \subseteq Beta \X Up!Names
    BY <1>0, <2>2
  <2> QED BY <1>0, <2>1, <2>2, <2>3, <2>4, DeletionKeeps
<1> QED BY <1>1, <1>2, <1>3, <1>4

(* Steps of no request: of the disk, of a death, of a start.               *)
LEMMA RestStep ==
  ASSUME UploadInv, Up!Damage \/ Up!Crash \/ Up!CleanupStale \/ Up!Recover \/ Up!Ready
  PROVE  UploadInv'
<1>1. CASE Up!Damage
  <2>1. UploadShapes'
    BY <1>1 DEF UploadInv, UploadShapes, Up!Damage
  <2>2. \A q \in Gamma : CallIsFit(q)'
    BY <1>1, SourcesStay DEF UploadInv, CallIsFit, Up!Damage, Unnamed
  <2> QED BY <1>1, <2>1, <2>2, SourcesStay
          DEF UploadInv, SessionsAreSound, FinalizedOnce, Up!Damage
<1>2. CASE Up!Crash
  <2>1. /\ crashes \in 0 .. MaxCrashes /\ crashes < MaxCrashes /\ crashes' = crashes + 1
        /\ doomed \subseteq Beta /\ sources \subseteq Beta \X Up!Names
        /\ lost \subseteq Beta \X Up!Names
        /\ chunk \in [Upload -> [Chunk -> {"none", "good", "bad"}]]
    BY <1>2 DEF UploadInv, UploadShapes, Up!Crash
  <2>2. crashes' \in 0 .. MaxCrashes
    BY <2>1, UploadsAssumption
  <2>3. (Up!Standing' <=> Up!Standing) /\ Up!Gone' = Up!Gone
        /\ deletion' \in {"none", "read", "unlink", "over"}
    BY <1>2 DEF Up!Crash, Up!Standing, Up!Gone
  <2>4. /\ doomed' = doomed /\ sources' = sources /\ chunk' = chunk /\ up' = FALSE
        /\ UNCHANGED <<session, marker, rows>> /\ request' = [q \in Gamma |-> Up!Idle]
        /\ lost' = lost \cup ((Up!Gone \X {"working"}) \cap sources)
    BY <1>2 DEF Up!Crash, Up!Columns
  <2>5. lost \subseteq lost' /\ lost' \subseteq Beta \X Up!Names
    BY <2>1, <2>4
  <2>6. DoomedAreSound'
    <3>1. \A r \in Up!Gone : <<r, "working">> \in sources => <<r, "working">> \in lost'
      BY <2>4
    <3> QED BY <2>3, <2>4, <2>5, <3>1 DEF UploadInv, DoomedAreSound
  <2> QED BY <2>1, <2>2, <2>3, <2>4, <2>5, <2>6, DeletionKeeps
<1>3. CASE Up!CleanupStale
  <2>1. UploadShapes'
    BY <1>3 DEF UploadInv, UploadShapes, Up!CleanupStale
  <2>2. \A q \in Gamma : request'[q] = Up!Idle
    BY <1>3 DEF Up!CleanupStale, UploadInv
  <2>3. (\A q \in Gamma : CallIsFit(q)') /\ FinalizedOnce'
    BY <2>2, IdleUpload DEF CallIsFit, FinalizedOnce, Finalizes, Resting
  <2>4. SessionsAreSound'
    BY <1>3, SourcesStay DEF UploadInv, SessionsAreSound, Up!CleanupStale, UploadShapes
  <2> QED BY <1>3, <2>1, <2>3, <2>4, SourcesStay DEF UploadInv, Up!CleanupStale
<1>4. CASE Up!Recover
  <2>1. PICK u \in Upload : Sweeps(u)
    BY <1>4 DEF Up!Recover, Sweeps
  <2>2. UNCHANGED <<session, chunk, rows, request, deletion, doomed, lost, up, crashes>> /\ ~up
    BY <1>4 DEF Up!Recover
  <2>3. UploadShapes'
    BY <2>1, <2>2, SweepKeeps DEF UploadInv, UploadShapes
  <2>4. \A q \in Gamma : request'[q] = Up!Idle
    BY <2>2 DEF UploadInv
  <2>5. (\A q \in Gamma : CallIsFit(q)') /\ FinalizedOnce'
    BY <2>4, IdleUpload DEF CallIsFit, FinalizedOnce, Finalizes, Resting
  <2> QED BY <2>1, <2>2, <2>3, <2>5, SweepKeeps DEF UploadInv, SessionsAreSound
<1>5. CASE Up!Ready
  <2>1. \A q \in Gamma : CallIsFit(q)'
    BY <1>5, SourcesStay DEF UploadInv, CallIsFit, Up!Ready, Unnamed
  <2> QED BY <1>5, <2>1, SourcesStay
          DEF UploadInv, UploadShapes, SessionsAreSound, FinalizedOnce, Up!Ready
<1> QED BY <1>1, <1>2, <1>3, <1>4, <1>5

LEMMA StepUploads == ASSUME UploadInv, [Up!Next]_uploads PROVE UploadInv'
<1>1. CASE UNCHANGED uploads
  <2>1. \A q \in Gamma : CallIsFit(q)'
    BY <1>1, SourcesStay DEF uploads, UploadInv, CallIsFit, Unnamed
  <2> QED BY <1>1, <2>1, SourcesStay
          DEF uploads, UploadInv, UploadShapes, SessionsAreSound, FinalizedOnce
<1> QED BY <1>1, ServeStep, DeletionStep, RestStep DEF Up!Next

LEMMA InitUploads == ASSUME Up!Init PROVE UploadInv
<1>1. UploadShapes
  BY IdleUpload, UploadsAssumption DEF Up!Init, UploadShapes
<1>2. \A q \in Gamma : request[q] = Up!Idle
  BY DEF Up!Init
<1>3. (\A q \in Gamma : CallIsFit(q)) /\ FinalizedOnce
  BY <1>2, IdleUpload DEF CallIsFit, FinalizedOnce, Finalizes, Resting
<1> QED BY <1>1, <1>3 DEF Up!Init, UploadInv, RowsAreSound, MarkersAreSound, FilesAreOwned,
                          SessionsAreSound, DoomedAreSound, Up!Gone

LEMMA AccountedUploads == UploadInv => Up!SourcesAreAccounted
<1> SUFFICES ASSUME UploadInv PROVE Up!SourcesAreAccounted
  OBVIOUS
<1>1. ASSUME NEW u \in Upload PROVE Cardinality(Up!RowsOf(u)) <= 1
  <2>1. CASE Up!RowsOf(u) = {}
    BY <2>1, FS_EmptySet
  <2>2. ASSUME NEW r \in Up!RowsOf(u) PROVE Cardinality(Up!RowsOf(u)) <= 1
    <3>1. Up!RowsOf(u) = {r}
      BY DEF Up!RowsOf, Up!Kept, UploadInv, RowsAreSound
    <3>2. Cardinality({r}) = 1
      BY FS_Singleton
    <3> QED BY <3>1, <3>2
  <2> QED BY <2>1, <2>2
<1>2. Up!Referenced \subseteq sources
  BY DEF Up!Referenced, Up!FilesOf, Up!Kept, UploadInv, RowsAreSound
<1>3. ASSUME NEW f \in (sources \ Up!Referenced) \ lost
      PROVE  \/ deletion = "unlink" /\ f \in Up!Columns(doomed)
             \/ \E u \in Upload : marker[u] # None /\ f \in Up!FilesOf(marker[u].rec, marker[u].names)
  <2>1. f \in Beta \X Up!Names /\ HasOwner(f) /\ f = <<f[1], f[2]>>
    BY DEF UploadInv, UploadShapes, FilesAreOwned
  <2>2. ASSUME rows[f[1]] # None, f[2] \in rows[f[1]].names
        PROVE  deletion = "unlink" /\ f \in Up!Columns(doomed)
    <3>1. f \in {f[1]} \X rows[f[1]].names
      BY <2>1, <2>2
    <3>2. f[1] \in Up!Gone
      BY <2>1, <2>2, <3>1 DEF Up!Referenced, Up!FilesOf, Up!Kept
    <3>3. deletion = "unlink" /\ f[2] = "working"
      BY <2>1, <2>2, <3>2 DEF UploadInv, DoomedAreSound
    <3>4. f[1] \in doomed
      BY <3>2 DEF Up!Gone
    <3> QED BY <2>1, <3>3, <3>4 DEF Up!Columns
  <2>3. ASSUME NEW u \in Upload, marker[u] # None, f[1] = marker[u].rec, f[2] \in marker[u].names
        PROVE  f \in Up!FilesOf(marker[u].rec, marker[u].names)
    BY <2>1, <2>3 DEF Up!FilesOf
  <2> QED BY <2>1, <2>2, <2>3 DEF HasOwner
<1>4. \A u \in Upload : Cardinality(Up!RowsOf(u)) <= 1
  BY <1>1
<1>5. \A f \in (sources \ Up!Referenced) \ lost :
        \/ deletion = "unlink" /\ f \in Up!Columns(doomed)
        \/ \E u \in Upload : marker[u] # None /\ f \in Up!FilesOf(marker[u].rec, marker[u].names)
  BY <1>3
<1>6. \A S : Up!Cardinality(S) = Cardinality(S)
  BY DEF Up!Cardinality, Cardinality
<1> QED BY <1>2, <1>4, <1>5, <1>6 DEF Up!SourcesAreAccounted

LEMMA TypedUploads == UploadInv => Up!TypeOK
  BY DEF UploadInv, UploadShapes, UploadCall, UploadMark, UploadRow, Up!TypeOK

(* However requests to one upload and a deletion of the project overlap,   *)
(* whatever a sweep cannot remove, and wherever the backend dies, an       *)
(* upload becomes at most one recording, every recording has its files,    *)
(* and every other file among the sources is named by a marker or still to *)
(* be removed by the deletion, but for the three kinds of file that the    *)
(* code leaves with nothing to name them (audio_ingestion.py, main.py,     *)
(* repository.py): for any number of uploads, recordings, requests and     *)
(* deaths.                                                                 *)
THEOREM SourcesStayAccounted == Spec => []SourcesAreAccounted
<1>1. Init => UploadInv
  BY InitUploads DEF Init
<1>2. UploadInv /\ [Next]_vars => UploadInv'
  BY StepUploads DEF Next, vars
<1>3. UploadInv => SourcesAreAccounted
  BY AccountedUploads DEF SourcesAreAccounted
<1> QED BY <1>1, <1>2, <1>3, PTL DEF Spec

-----------------------------------------------------------------------------
(* The Linux installer (Lin is the module InstallLinux): the points of its *)
(* processes, and those inside the lock.                                   *)
InstallPoint   == {"publish", "command", "pointer", "check", "undo command", "undo current", "undone"}
UninstallPoint == {"unlink command", "unlink current", "remove", "put command"}
InsidePoint    == InstallPoint \cup UninstallPoint \cup {"inspect", "unlock", "release"}
ToolPoint      == Lin!Outside \cup InsidePoint
Tool == [pc : ToolPoint, does : {None, "install", "uninstall"}, version : Edition \cup {None},
         command : BOOLEAN, current : Edition \cup {None}, releases : SUBSET Edition,
         stale : SUBSET (Edition \cup {"command", "current", "list"}), left : Edition \cup {None}]

InstallShapes ==
  /\ lock \in [dir : BOOLEAN, pid : Trio \cup {None}, written : BOOLEAN]
  /\ release \in [Edition -> {"none", "whole", "bare", "ragged"}]
  /\ command \in BOOLEAN
  /\ current \in Edition \cup {None}
  /\ tool \in [Trio -> Tool]
  /\ shared \in BOOLEAN

(* Whose pid is in the lock is on the way with it, and has written it once *)
(* inside; an empty lock directory is somebody's who is about to fill or   *)
(* to remove it, or who died.                                              *)
Holding == {"write", "give up", "dead"} \cup (InsidePoint \ {"release"})
Tidying == {"create", "rmdir", "gave up", "release", "dead"}

LockIsHeld ==
  /\ lock.pid # None => lock.dir /\ tool[lock.pid].pc \in Holding
  /\ lock.pid # None /\ tool[lock.pid].pc \in InsidePoint => lock.written
  /\ lock.written => lock.pid # None
  /\ lock.dir /\ lock.pid = None => \E p \in Trio : tool[p].pc \in Tidying

IsInside(p) == tool[p].pc \in InsidePoint
OneInside   == ~shared => \A p, q \in Trio : IsInside(p) /\ IsInside(q) => p = q

Present(v) == v = None \/ v \in Lin!Listed

(* What an uninstaller has seen is so until it was told otherwise.         *)
Watching == {"lock", "judge", "unlink", "rmdir", "create", "write", "inspect",
             "unlink command", "unlink current"}

ToolIsSound(p) ==
  LET t == tool[p] IN
  /\ t.pc \in {"publish", "command", "pointer", "check"} => t.version \in Edition
  /\ t.pc # "ready" /\ t.does = "install" => t.version \in Edition
  /\ t.pc \in {"unlink command", "unlink current"} => t.does = "uninstall"
  /\ t.pc \in Watching /\ t.does = "uninstall" /\ "current" \notin t.stale => current = t.current

InsideIsSound(p) ==
  LET t == tool[p] IN
  /\ t.pc \in InstallPoint => Present(t.current)
  /\ t.pc \in {"publish", "command"} => current = t.current
  /\ t.pc \in {"publish", "command", "undo current", "undone"} => command = t.command
  /\ t.pc \in {"command", "pointer", "check"} => t.version \in Lin!Listed
  /\ t.pc = "undone" => current = t.current
  /\ t.pc \in {"unlink command", "unlink current"} => t.stale = {}
  /\ t.pc = "remove" => current = None

InstallInv ==
  /\ InstallShapes /\ LockIsHeld /\ OneInside
  /\ \A p \in Trio : ToolIsSound(p)
  /\ ~shared => Present(current) /\ \A p \in Trio : InsideIsSound(p)

-----------------------------------------------------------------------------
(* A step of one process: of the others at most what they have seen turns  *)
(* stale, and only who is inside changes anything but the lock.            *)
ToolMoves(p) ==
  /\ tool' \in [Trio -> Tool]
  /\ \A q \in Trio : q # p =>
       /\ tool'[q].pc = tool[q].pc /\ tool'[q].does = tool[q].does
       /\ tool'[q].version = tool[q].version /\ tool'[q].command = tool[q].command
       /\ tool'[q].current = tool[q].current
       /\ tool[q].stale \subseteq tool'[q].stale
       /\ current' # current /\ tool[q].does = "uninstall" => "current" \in tool'[q].stale
  /\ release' \in [Edition -> {"none", "whole", "bare", "ragged"}]
  /\ command' \in BOOLEAN
  /\ current' \in Edition \cup {None}
  /\ shared' \in BOOLEAN /\ (shared => shared')
  /\ IsInside(p) \/ (/\ UNCHANGED <<release, command, current>>
                     /\ \A q \in Trio : q # p => tool'[q] = tool[q])
  /\ IsInside(p)' => IsInside(p) \/ shared' \/ \A q \in Trio : ~IsInside(q)

LEMMA PointsDiffer ==
  /\ InsidePoint \cap Lin!Outside = {}
  /\ InsidePoint \subseteq ToolPoint
  BY DEF InsidePoint, InstallPoint, UninstallPoint, Lin!Outside, ToolPoint

LEMMA OtherTools ==
  ASSUME InstallInv, NEW p \in Trio, ToolMoves(p), NEW q \in Trio, q # p
  PROVE  ToolIsSound(q)' /\ (~shared' => InsideIsSound(q)')
<1>1. ToolIsSound(q) /\ tool[q] \in Tool
  BY DEF InstallInv, InstallShapes
<1>2. ToolIsSound(q)'
  BY <1>1 DEF ToolIsSound, ToolMoves, Watching
<1>3. ASSUME ~shared' PROVE InsideIsSound(q)'
  <2>1. ~shared /\ InsideIsSound(q)
    BY <1>3 DEF InstallInv, ToolMoves, InstallShapes
  <2>2. CASE IsInside(p)
    <3>1. tool'[q].pc \notin InsidePoint
      BY <2>1, <2>2 DEF InstallInv, OneInside, ToolMoves, IsInside
    <3> QED BY <3>1 DEF InsideIsSound, InsidePoint, InstallPoint, UninstallPoint
  <2>3. CASE ~IsInside(p)
    BY <2>1, <2>3 DEF InsideIsSound, ToolMoves, Present, Lin!Listed
  <2> QED BY <2>2, <2>3
<1> QED BY <1>2, <1>3

LEMMA ToolKeeps ==
  ASSUME InstallInv, NEW p \in Trio, ToolMoves(p), ToolIsSound(p)',
         ~shared' => InsideIsSound(p)' /\ Present(current)',
         lock' \in [dir : BOOLEAN, pid : Trio \cup {None}, written : BOOLEAN], LockIsHeld'
  PROVE  InstallInv'
<1>1. InstallShapes'
  BY DEF InstallInv, InstallShapes, ToolMoves
<1>2. OneInside'
  BY DEF InstallInv, InstallShapes, OneInside, ToolMoves, IsInside
<1> QED BY <1>1, <1>2, OtherTools DEF InstallInv

(* The lock stays, and who holds it or has to tidy it up still does.       *)
LEMMA LockStays ==
  ASSUME InstallInv, NEW p \in Trio, UNCHANGED lock,
         \A q \in Trio : q # p => tool'[q].pc = tool[q].pc,
         tool[p].pc \in Holding => tool'[p].pc \in Holding,
         tool[p].pc \in Tidying => tool'[p].pc \in Tidying,
         tool'[p].pc \in InsidePoint => tool[p].pc \in InsidePoint
  PROVE  LockIsHeld'
  BY DEF InstallInv, InstallShapes, LockIsHeld

(* The process is at another point and has seen what it had.               *)
SameAt(p, pc) ==
  /\ tool'[p].pc = pc
  /\ tool'[p].does = tool[p].does /\ tool'[p].version = tool[p].version
  /\ tool'[p].command = tool[p].command /\ tool'[p].current = tool[p].current
  /\ tool'[p].stale = tool[p].stale

(* A step that takes only the process from one point to another.           *)
LEMMA GoesOn ==
  ASSUME InstallInv, NEW p \in Trio, NEW pc \in ToolPoint, Lin!Goes(p, pc)
  PROVE  /\ tool' \in [Trio -> Tool]
         /\ SameAt(p, pc)
         /\ \A q \in Trio : q # p => tool'[q] = tool[q]
<1>1. tool \in [Trio -> Tool]
  BY DEF InstallInv, InstallShapes
<1>2. tool' = [tool EXCEPT ![p] = [tool[p] EXCEPT !.pc = pc]] /\ tool[p] \in Tool
  BY <1>1 DEF Lin!Goes
<1>3. [tool[p] EXCEPT !.pc = pc] \in Tool
  BY <1>2 DEF Tool
<1>4. tool'[p] = [tool[p] EXCEPT !.pc = pc]
  BY <1>1, <1>2
<1>5. SameAt(p, pc)
  BY <1>2, <1>4 DEF SameAt, Tool
<1> QED BY <1>1, <1>2, <1>3, <1>5

(* A step that tells the uninstallers that what they have seen is stale.   *)
LEMMA ChangesOn ==
  ASSUME InstallInv, NEW p \in Trio, NEW pc \in ToolPoint,
         NEW what \in Edition \cup {"command", "current", "list"}, Lin!Changes(p, what, pc)
  PROVE  /\ tool' \in [Trio -> Tool]
         /\ SameAt(p, pc)
         /\ \A q \in Trio : q # p =>
              tool'[q] = IF tool[q].does = "uninstall"
                         THEN [tool[q] EXCEPT !.stale = tool[q].stale \cup {what}] ELSE tool[q]
<1>1. tool \in [Trio -> Tool]
  BY DEF InstallInv, InstallShapes
<1>2. \A q \in Trio : tool'[q] =
        IF q = p THEN [tool[q] EXCEPT !.pc = pc]
        ELSE IF tool[q].does = "uninstall"
        THEN [tool[q] EXCEPT !.stale = tool[q].stale \cup {what}] ELSE tool[q]
  BY DEF Lin!Changes
<1>3. ASSUME NEW q \in Trio PROVE tool'[q] \in Tool
  <2>1. tool[q] \in Tool
    BY <1>1
  <2>2. /\ [tool[q] EXCEPT !.pc = pc] \in Tool
        /\ [tool[q] EXCEPT !.stale = tool[q].stale \cup {what}] \in Tool
    BY <2>1 DEF Tool
  <2> QED BY <1>2, <2>1, <2>2
<1>4. tool' \in [Trio -> Tool]
  BY <1>3 DEF Lin!Changes
<1>5. SameAt(p, pc)
  <2>1. tool[p] \in Tool /\ tool'[p] = [tool[p] EXCEPT !.pc = pc]
    BY <1>1, <1>2
  <2> QED BY <2>1 DEF SameAt, Tool
<1> QED BY <1>2, <1>4, <1>5

(* A step on the way to the lock, or away from it.                         *)
LEMMA Walks ==
  ASSUME InstallInv, NEW p \in Trio, NEW pc \in Lin!Outside \ {"ready"}, Lin!Goes(p, pc),
         UNCHANGED <<release, command, current, shared>>, tool[p].pc # "ready",
         pc \in Watching => tool[p].pc \in Watching,
         lock' \in [dir : BOOLEAN, pid : Trio \cup {None}, written : BOOLEAN], LockIsHeld'
  PROVE  InstallInv'
<1>1. pc \in ToolPoint /\ pc \notin InsidePoint
  BY PointsDiffer DEF ToolPoint
<1>2. /\ tool' \in [Trio -> Tool] /\ SameAt(p, pc)
      /\ \A q \in Trio : q # p => tool'[q] = tool[q]
  BY <1>1, GoesOn
<1>3. ToolMoves(p)
  BY <1>1, <1>2 DEF ToolMoves, IsInside, SameAt, InstallInv, InstallShapes
<1>4. ToolIsSound(p)'
  BY <1>1, <1>2 DEF ToolIsSound, SameAt, InstallInv, InsidePoint, InstallPoint, UninstallPoint
<1>5. InsideIsSound(p)'
  BY <1>1, <1>2 DEF InsideIsSound, SameAt, InsidePoint, InstallPoint, UninstallPoint
<1>6. ~shared' => Present(current)'
  BY DEF InstallInv, Present, Lin!Listed
<1> QED BY <1>3, <1>4, <1>5, <1>6, ToolKeeps

(* A step inside the lock that takes only the process further.             *)
LEMMA WorksOn ==
  ASSUME InstallInv, NEW p \in Trio, IsInside(p), tool[p].pc # "release",
         NEW pc \in InsidePoint \ {"release"}, Lin!Goes(p, pc),
         UNCHANGED <<lock, release, command, current, shared>>,
         SameAt(p, pc) => ToolIsSound(p)' /\ (~shared => InsideIsSound(p)')
  PROVE  InstallInv'
<1>1. pc \in ToolPoint
  BY DEF ToolPoint
<1>2. /\ tool' \in [Trio -> Tool] /\ SameAt(p, pc)
      /\ \A q \in Trio : q # p => tool'[q] = tool[q]
  BY <1>1, GoesOn
<1>3. ToolMoves(p)
  BY <1>1, <1>2 DEF ToolMoves, IsInside, SameAt, InstallInv, InstallShapes
<1>4. LockIsHeld'
  BY <1>2, LockStays DEF SameAt, IsInside, Holding, Tidying, InsidePoint, InstallPoint, UninstallPoint
<1>5. ~shared' => Present(current)'
  BY DEF InstallInv, Present, Lin!Listed
<1> QED BY <1>2, <1>3, <1>4, <1>5, ToolKeeps DEF InstallInv, InstallShapes

(* A step inside the lock that changes what others may have seen.          *)
LEMMA Alters ==
  ASSUME InstallInv, NEW p \in Trio, IsInside(p), tool[p].pc # "release",
         NEW pc \in InsidePoint \ {"release"},
         NEW what \in Edition \cup {"command", "current", "list"}, Lin!Changes(p, what, pc),
         UNCHANGED <<lock, shared>>,
         release' \in [Edition -> {"none", "whole", "bare", "ragged"}],
         command' \in BOOLEAN, current' \in Edition \cup {None},
         current' # current => what = "current",
         SameAt(p, pc) => ToolIsSound(p)' /\ (~shared => InsideIsSound(p)' /\ Present(current)')
  PROVE  InstallInv'
<1>1. pc \in ToolPoint
  BY DEF ToolPoint
<1>2. /\ tool' \in [Trio -> Tool] /\ SameAt(p, pc)
      /\ \A q \in Trio : q # p =>
           tool'[q] = IF tool[q].does = "uninstall"
                      THEN [tool[q] EXCEPT !.stale = tool[q].stale \cup {what}] ELSE tool[q]
  BY <1>1, ChangesOn
<1>3. ToolMoves(p)
  <2>1. \A q \in Trio : tool[q] \in Tool
    BY DEF InstallInv, InstallShapes
  <2>2. ASSUME NEW q \in Trio, q # p
        PROVE  /\ tool'[q].pc = tool[q].pc /\ tool'[q].does = tool[q].does
               /\ tool'[q].version = tool[q].version /\ tool'[q].command = tool[q].command
               /\ tool'[q].current = tool[q].current
               /\ tool[q].stale \subseteq tool'[q].stale
               /\ current' # current /\ tool[q].does = "uninstall" => "current" \in tool'[q].stale
    BY <1>2, <2>1, <2>2 DEF Tool
  <2> QED BY <1>2, <2>2 DEF ToolMoves, InstallInv, InstallShapes
<1>4. LockIsHeld'
  BY <1>2, <1>3, LockStays DEF SameAt, ToolMoves, IsInside, Holding, Tidying, InsidePoint, InstallPoint,
     UninstallPoint
<1> QED BY <1>2, <1>3, <1>4, ToolKeeps DEF InstallInv, InstallShapes

LEMMA AnotherLock ==
  ASSUME InstallInv, NEW d \in BOOLEAN, NEW o \in Trio \cup {None}, NEW w \in BOOLEAN,
         lock' = [dir |-> d, pid |-> o, written |-> w]
  PROVE  /\ lock' \in [dir : BOOLEAN, pid : Trio \cup {None}, written : BOOLEAN]
         /\ lock'.dir = d /\ lock'.pid = o /\ lock'.written = w
  OBVIOUS

-----------------------------------------------------------------------------
LEMMA StartInstallStep ==
  ASSUME InstallInv, NEW p \in Trio, NEW v \in Edition, Lin!StartInstall(p, v)
  PROVE  InstallInv'
<1>1. tool \in [Trio -> Tool] /\ tool[p].pc = "ready"
  BY DEF InstallInv, InstallShapes, Lin!StartInstall, Lin!At
<1>2. /\ tool' \in [Trio -> Tool] /\ tool'[p].pc = "lock" /\ tool'[p].does = "install"
      /\ tool'[p].version = v /\ \A q \in Trio : q # p => tool'[q] = tool[q]
  <2> DEFINE new == [tool[p] EXCEPT !.pc = "lock", !.does = "install", !.version = v]
  <2>1. new \in Tool /\ new.pc = "lock" /\ new.does = "install" /\ new.version = v
    BY <1>1, ZenonT(60) DEF Tool, ToolPoint, Lin!Outside
  <2>2. tool' = [tool EXCEPT ![p] = new]
    BY DEF Lin!StartInstall
  <2> HIDE DEF new
  <2> QED BY <1>1, <2>1, <2>2
<1>3. ToolMoves(p)
  BY <1>1, <1>2, PointsDiffer DEF ToolMoves, IsInside, Lin!StartInstall, InstallInv, InstallShapes, Lin!Outside
<1>4. ToolIsSound(p)' /\ InsideIsSound(p)'
  BY <1>2 DEF ToolIsSound, InsideIsSound, InstallPoint, Watching
<1>5. LockIsHeld'
  BY <1>1, <1>2, LockStays DEF Lin!StartInstall, Holding, Tidying, InsidePoint, InstallPoint, UninstallPoint
<1>6. ~shared' => Present(current)'
  BY DEF Lin!StartInstall, InstallInv, Present, Lin!Listed
<1> QED BY <1>3, <1>4, <1>5, <1>6, ToolKeeps DEF Lin!StartInstall, InstallInv, InstallShapes

LEMMA StartUninstallStep ==
  ASSUME InstallInv, NEW p \in Trio, Lin!StartUninstall(p)
  PROVE  InstallInv'
<1>1. tool \in [Trio -> Tool] /\ tool[p].pc = "ready"
  BY DEF InstallInv, InstallShapes, Lin!StartUninstall, Lin!At
<1>2. /\ tool' \in [Trio -> Tool] /\ tool'[p].pc = "lock" /\ tool'[p].does = "uninstall"
      /\ tool'[p].current = current /\ \A q \in Trio : q # p => tool'[q] = tool[q]
  <2> DEFINE new == [tool[p] EXCEPT !.pc = "lock", !.does = "uninstall", !.command = command,
                                    !.current = current, !.releases = Lin!Listed]
  <2>1. new \in Tool /\ new.pc = "lock" /\ new.does = "uninstall" /\ new.current = current
    <3>1. Lin!Listed \in SUBSET Edition /\ "lock" \in ToolPoint
      BY DEF Lin!Listed, ToolPoint, Lin!Outside
    <3>2. command \in BOOLEAN /\ current \in Edition \cup {None} /\ tool[p] \in Tool
      BY <1>1 DEF InstallInv, InstallShapes
    <3> QED BY <3>1, <3>2 DEF Tool
  <2>2. tool' = [tool EXCEPT ![p] = new]
    BY DEF Lin!StartUninstall
  <2> HIDE DEF new
  <2> QED BY <1>1, <2>1, <2>2
<1>3. ToolMoves(p)
  BY <1>1, <1>2, PointsDiffer DEF ToolMoves, IsInside, Lin!StartUninstall, InstallInv, InstallShapes, Lin!Outside
<1>4. ToolIsSound(p)' /\ InsideIsSound(p)'
  BY <1>2 DEF ToolIsSound, InsideIsSound, InstallPoint, Watching, Lin!StartUninstall
<1>5. LockIsHeld'
  BY <1>1, <1>2, LockStays DEF Lin!StartUninstall, Holding, Tidying, InsidePoint, InstallPoint, UninstallPoint
<1>6. ~shared' => Present(current)'
  BY DEF Lin!StartUninstall, InstallInv, Present, Lin!Listed
<1> QED BY <1>3, <1>4, <1>5, <1>6, ToolKeeps DEF Lin!StartUninstall, InstallInv, InstallShapes

-----------------------------------------------------------------------------
LEMMA MakeLockStep ==
  ASSUME InstallInv, NEW p \in Trio, Lin!MakeLock(p)
  PROVE  InstallInv'
<1>1. tool[p].pc = "lock" /\ LockIsHeld /\ tool \in [Trio -> Tool] /\ None \notin Trio
  BY InstallAssumption DEF Lin!MakeLock, Lin!At, InstallInv, InstallShapes
<1>2. CASE lock.dir
  <2>1. Lin!Goes(p, "judge") /\ UNCHANGED lock
    BY <1>2 DEF Lin!MakeLock
  <2>2. "judge" \in ToolPoint
    BY DEF ToolPoint, Lin!Outside
  <2>3. tool'[p].pc = "judge" /\ \A q \in Trio : q # p => tool'[q].pc = tool[q].pc
    BY <2>1, <2>2, GoesOn DEF SameAt
  <2>4. LockIsHeld'
    BY <1>1, <2>1, <2>3, LockStays DEF Holding, Tidying, InsidePoint, InstallPoint, UninstallPoint
  <2> QED BY <1>1, <2>1, <2>4, Walks DEF Lin!MakeLock, Lin!Outside, Watching, InstallInv, InstallShapes
<1>3. CASE ~lock.dir
  <2>1. Lin!Goes(p, "create") /\ lock' = [dir |-> TRUE, pid |-> None, written |-> FALSE]
    BY <1>3 DEF Lin!MakeLock, Lin!NoLock
  <2>2. "create" \in ToolPoint
    BY DEF ToolPoint, Lin!Outside
  <2>3. tool'[p].pc = "create"
    BY <2>1, <2>2, GoesOn DEF SameAt
  <2>4. LockIsHeld'
    BY <2>1, <2>3 DEF LockIsHeld, Tidying
  <2> QED BY <1>1, <2>1, <2>4, Walks DEF Lin!MakeLock, Lin!Outside, Watching
<1> QED BY <1>2, <1>3

LEMMA JudgeLockStep ==
  ASSUME InstallInv, NEW p \in Trio, Lin!JudgeLock(p)
  PROVE  InstallInv'
<1>1. tool[p].pc = "judge"
  BY DEF Lin!JudgeLock, Lin!At
<1>2. PICK pc \in {"lock", "done", "unlink"} : Lin!Goes(p, pc)
  BY DEF Lin!JudgeLock, Lin!Leaves
<1>3. pc \in ToolPoint /\ pc \in Lin!Outside \ {"ready"}
  BY DEF ToolPoint, Lin!Outside
<1>4. tool'[p].pc = pc /\ \A q \in Trio : q # p => tool'[q].pc = tool[q].pc
  BY <1>2, <1>3, GoesOn DEF SameAt
<1>5. LockIsHeld'
  BY <1>1, <1>4, LockStays DEF Lin!JudgeLock, Holding, Tidying, InsidePoint, InstallPoint, UninstallPoint
<1> QED BY <1>1, <1>2, <1>3, <1>5, Walks DEF Lin!JudgeLock, Watching, InstallInv, InstallShapes

LEMMA UnlinkPidStep ==
  ASSUME InstallInv, NEW p \in Trio, Lin!UnlinkPid(p)
  PROVE  InstallInv'
<1>1. tool[p].pc \in {"unlink", "give up"} /\ LockIsHeld /\ lock.dir \in BOOLEAN
  BY DEF Lin!UnlinkPid, Lin!At, InstallInv, InstallShapes
<1>2. PICK pc \in {"rmdir", "gave up"} :
        Lin!Goes(p, pc) /\ (pc = "rmdir" <=> tool[p].pc = "unlink")
  BY <1>1 DEF Lin!UnlinkPid, Lin!At
<1>3. pc \in ToolPoint /\ pc \in Lin!Outside \ {"ready"}
  BY DEF ToolPoint, Lin!Outside
<1>4. tool'[p].pc = pc
  BY <1>2, <1>3, GoesOn DEF SameAt
<1>5. /\ lock' \in [dir : BOOLEAN, pid : Trio \cup {None}, written : BOOLEAN]
      /\ lock'.pid = None /\ ~lock'.written
  BY DEF Lin!UnlinkPid, InstallInv, InstallShapes
<1>6. LockIsHeld'
  BY <1>4, <1>5 DEF LockIsHeld, Tidying
<1> QED BY <1>1, <1>2, <1>3, <1>5, <1>6, Walks DEF Lin!UnlinkPid, Watching

LEMMA RemoveDirStep ==
  ASSUME InstallInv, NEW p \in Trio, Lin!RemoveDir(p)
  PROVE  InstallInv'
<1>1. tool[p].pc \in {"rmdir", "gave up"} /\ LockIsHeld /\ tool \in [Trio -> Tool]
  BY DEF Lin!RemoveDir, Lin!At, InstallInv, InstallShapes
<1>2. PICK pc \in {"lock", "done"} :
        Lin!Goes(p, pc) /\ (pc = "lock" <=> tool[p].pc = "rmdir")
  BY <1>1 DEF Lin!RemoveDir, Lin!At
<1>3. pc \in ToolPoint /\ pc \in Lin!Outside \ {"ready"}
  BY DEF ToolPoint, Lin!Outside
<1>4. tool'[p].pc = pc /\ \A q \in Trio : q # p => tool'[q].pc = tool[q].pc
  BY <1>2, <1>3, GoesOn DEF SameAt
<1>5. lock' \in [dir : BOOLEAN, pid : Trio \cup {None}, written : BOOLEAN] /\ LockIsHeld'
  <2>1. CASE lock.pid = None
    <3>1. lock' = [dir |-> FALSE, pid |-> None, written |-> FALSE]
      BY <2>1 DEF Lin!RemoveDir, Lin!NoLock
    <3> QED BY <3>1 DEF LockIsHeld
  <2>2. CASE lock.pid # None
    <3>1. UNCHANGED lock
      BY <2>2 DEF Lin!RemoveDir
    <3>2. lock.pid # p
      BY <1>1, <2>2 DEF LockIsHeld, Holding, InsidePoint, InstallPoint, UninstallPoint
    <3>3. lock \in [dir : BOOLEAN, pid : Trio \cup {None}, written : BOOLEAN]
      BY DEF InstallInv, InstallShapes
    <3> QED BY <1>1, <1>4, <2>2, <3>1, <3>2, <3>3 DEF LockIsHeld
  <2> QED BY <2>1, <2>2
<1> QED BY <1>1, <1>2, <1>3, <1>5, Walks DEF Lin!RemoveDir, Watching

LEMMA CreatePidStep ==
  ASSUME InstallInv, NEW p \in Trio, Lin!CreatePid(p)
  PROVE  InstallInv'
<1>1. tool[p].pc = "create" /\ LockIsHeld /\ lock.dir \in BOOLEAN /\ p # None
  BY InstallAssumption DEF Lin!CreatePid, Lin!At, InstallInv, InstallShapes
<1>2. CASE lock.dir /\ lock.pid = None
  <2>1. Lin!Goes(p, "write") /\ lock' = [lock EXCEPT !.pid = p]
    BY <1>2 DEF Lin!CreatePid
  <2>2. "write" \in ToolPoint /\ "write" \in Lin!Outside \ {"ready"}
    BY DEF ToolPoint, Lin!Outside
  <2>3. tool'[p].pc = "write"
    BY <2>1, <2>2, GoesOn DEF SameAt
  <2>4. /\ lock' \in [dir : BOOLEAN, pid : Trio \cup {None}, written : BOOLEAN]
        /\ lock'.pid = p /\ lock'.dir
    BY <1>2, <2>1 DEF InstallInv, InstallShapes
  <2>5. LockIsHeld'
    BY <1>1, <2>3, <2>4 DEF LockIsHeld, Holding, InsidePoint, InstallPoint, UninstallPoint
  <2> QED BY <1>1, <2>1, <2>2, <2>4, <2>5, Walks DEF Lin!CreatePid, Watching
<1>3. CASE ~(lock.dir /\ lock.pid = None)
  <2>1. Lin!Goes(p, "give up") /\ UNCHANGED lock
    BY <1>3 DEF Lin!CreatePid
  <2>2. "give up" \in ToolPoint /\ "give up" \in Lin!Outside \ {"ready"}
    BY DEF ToolPoint, Lin!Outside
  <2>3. tool'[p].pc = "give up" /\ \A q \in Trio : q # p => tool'[q].pc = tool[q].pc
    BY <2>1, <2>2, GoesOn DEF SameAt
  <2>4. lock \in [dir : BOOLEAN, pid : Trio \cup {None}, written : BOOLEAN]
    BY DEF InstallInv, InstallShapes
  <2>5. LockIsHeld'
    BY <1>1, <1>3, <2>1, <2>3, <2>4 DEF LockIsHeld, Holding, InsidePoint, InstallPoint, UninstallPoint
  <2> QED BY <1>1, <2>1, <2>2, <2>4, <2>5, Walks DEF Lin!CreatePid, Watching
<1> QED BY <1>2, <1>3

LEMMA ReleaseDirStep ==
  ASSUME InstallInv, NEW p \in Trio, Lin!ReleaseDir(p)
  PROVE  InstallInv'
<1>1. tool[p].pc = "release" /\ LockIsHeld
  BY DEF Lin!ReleaseDir, Lin!At, InstallInv
<1>2. Lin!Goes(p, "done") /\ "done" \in ToolPoint /\ "done" \in Lin!Outside \ {"ready"}
  BY DEF Lin!ReleaseDir, Lin!Leaves, ToolPoint, Lin!Outside
<1>3. tool'[p].pc = "done" /\ \A q \in Trio : q # p => tool'[q].pc = tool[q].pc
  BY <1>2, GoesOn DEF SameAt
<1>4. lock' \in [dir : BOOLEAN, pid : Trio \cup {None}, written : BOOLEAN] /\ LockIsHeld'
  <2>1. CASE lock.pid = None
    <3>1. lock' = [dir |-> FALSE, pid |-> None, written |-> FALSE]
      BY <2>1 DEF Lin!ReleaseDir, Lin!NoLock
    <3> QED BY <3>1 DEF LockIsHeld
  <2>2. CASE lock.pid # None
    <3>1. UNCHANGED lock
      BY <2>2 DEF Lin!ReleaseDir
    <3>2. lock.pid # p
      BY <1>1, <2>2 DEF LockIsHeld, Holding, InsidePoint, InstallPoint, UninstallPoint
    <3>3. lock \in [dir : BOOLEAN, pid : Trio \cup {None}, written : BOOLEAN]
      BY DEF InstallInv, InstallShapes
    <3> QED BY <1>1, <1>3, <2>2, <3>1, <3>2, <3>3 DEF LockIsHeld
  <2> QED BY <2>1, <2>2
<1> QED BY <1>1, <1>2, <1>4, Walks DEF Lin!ReleaseDir, Watching

LEMMA WritePidStep ==
  ASSUME InstallInv, NEW p \in Trio, Lin!WritePid(p)
  PROVE  InstallInv'
<1>1. /\ tool[p].pc = "write" /\ LockIsHeld /\ ToolIsSound(p) /\ tool[p] \in Tool /\ p # None
      /\ lock \in [dir : BOOLEAN, pid : Trio \cup {None}, written : BOOLEAN]
  BY InstallAssumption DEF Lin!WritePid, Lin!At, InstallInv, InstallShapes
<1>2. CASE Lin!Goes(p, "give up") /\ UNCHANGED <<lock, shared>>
  <2>1. "give up" \in ToolPoint /\ "give up" \in Lin!Outside \ {"ready"}
    BY DEF ToolPoint, Lin!Outside
  <2>2. tool'[p].pc = "give up" /\ \A q \in Trio : q # p => tool'[q].pc = tool[q].pc
    BY <1>2, <2>1, GoesOn DEF SameAt
  <2>3. LockIsHeld'
    BY <1>1, <1>2, <2>2, LockStays DEF Holding, Tidying, InsidePoint, InstallPoint, UninstallPoint
  <2> QED BY <1>1, <1>2, <2>1, <2>3, Walks DEF Lin!WritePid, Watching
<1>3. CASE /\ lock' = IF lock.pid = p THEN [lock EXCEPT !.written = TRUE] ELSE lock
           /\ Lin!Goes(p, "inspect")
           /\ shared' = (shared \/ Lin!Inside # {})
  <2>1. "inspect" \in InsidePoint /\ "inspect" \in ToolPoint
    BY DEF ToolPoint, InsidePoint
  <2>2. /\ tool' \in [Trio -> Tool] /\ SameAt(p, "inspect")
        /\ \A q \in Trio : q # p => tool'[q] = tool[q]
    BY <1>3, <2>1, GoesOn
  <2>3. Lin!Inside = {} => \A q \in Trio : ~IsInside(q)
    BY PointsDiffer DEF Lin!Inside, IsInside
  <2>4. ToolMoves(p)
    BY <1>3, <2>2, <2>3 DEF ToolMoves, SameAt, Lin!WritePid, InstallInv, InstallShapes
  <2>5. ToolIsSound(p)' /\ InsideIsSound(p)'
    BY <1>1, <2>2 DEF ToolIsSound, InsideIsSound, SameAt, Watching, InstallPoint, Lin!WritePid
  <2>6. lock' \in [dir : BOOLEAN, pid : Trio \cup {None}, written : BOOLEAN]
    BY <1>1, <1>3
  <2>7. LockIsHeld'
    <3>1. CASE lock.pid = p
      <4>1. lock'.dir = lock.dir /\ lock'.pid = p /\ lock'.written
        BY <1>1, <1>3, <3>1
      <4>2. lock.dir
        BY <1>1, <3>1 DEF LockIsHeld
      <4> QED BY <1>1, <2>1, <2>2, <4>1, <4>2 DEF LockIsHeld, Holding, SameAt
    <3>2. CASE lock.pid # p
      BY <1>1, <1>3, <2>2, <3>2 DEF LockIsHeld, Tidying
    <3> QED BY <3>1, <3>2
  <2>8. ~shared' => Present(current)'
    BY <1>3 DEF Lin!WritePid, InstallInv, InstallShapes, Present, Lin!Listed
  <2> QED BY <2>4, <2>5, <2>6, <2>7, <2>8, ToolKeeps
<1> QED BY <1>2, <1>3 DEF Lin!WritePid

LEMMA UnlockStep ==
  ASSUME InstallInv, NEW p \in Trio, Lin!Unlock(p)
  PROVE  InstallInv'
<1>1. /\ tool[p].pc = "unlock" /\ LockIsHeld /\ ToolIsSound(p) /\ IsInside(p)
      /\ lock \in [dir : BOOLEAN, pid : Trio \cup {None}, written : BOOLEAN]
  BY DEF Lin!Unlock, Lin!At, InstallInv, InstallShapes, IsInside, InsidePoint
<1>2. CASE lock.pid = p /\ lock.written
  <2>1. lock' = [lock EXCEPT !.pid = None, !.written = FALSE] /\ Lin!Goes(p, "release")
    BY <1>2 DEF Lin!Unlock
  <2>2. "release" \in InsidePoint /\ "release" \in ToolPoint
    BY DEF ToolPoint, InsidePoint
  <2>3. /\ tool' \in [Trio -> Tool] /\ SameAt(p, "release")
        /\ \A q \in Trio : q # p => tool'[q] = tool[q]
    BY <2>1, <2>2, GoesOn
  <2>4. ToolMoves(p)
    BY <1>1, <2>3 DEF ToolMoves, Lin!Unlock, InstallInv, InstallShapes
  <2>5. ToolIsSound(p)' /\ InsideIsSound(p)'
    BY <1>1, <2>3 DEF ToolIsSound, InsideIsSound, SameAt, Watching, InstallPoint
  <2>6. /\ lock' \in [dir : BOOLEAN, pid : Trio \cup {None}, written : BOOLEAN]
        /\ lock'.pid = None /\ ~lock'.written
    BY <1>1, <2>1
  <2>7. LockIsHeld'
    BY <2>3, <2>6 DEF LockIsHeld, Tidying, SameAt
  <2>8. ~shared' => Present(current)'
    BY DEF Lin!Unlock, InstallInv, Present, Lin!Listed
  <2> QED BY <2>4, <2>5, <2>6, <2>7, <2>8, ToolKeeps
<1>3. CASE ~(lock.pid = p /\ lock.written)
  <2>1. Lin!Goes(p, "done") /\ UNCHANGED lock
    BY <1>3 DEF Lin!Unlock, Lin!Leaves
  <2>2. "done" \in ToolPoint /\ "done" \in Lin!Outside \ {"ready"}
    BY DEF ToolPoint, Lin!Outside
  <2>3. tool'[p].pc = "done" /\ \A q \in Trio : q # p => tool'[q].pc = tool[q].pc
    BY <2>1, <2>2, GoesOn DEF SameAt
  <2>4. lock.pid # p
    BY <1>1, <1>3, InstallAssumption DEF LockIsHeld, IsInside
  <2>5. LockIsHeld'
    BY <1>1, <2>1, <2>3, <2>4 DEF LockIsHeld, Tidying
  <2> QED BY <1>1, <2>1, <2>2, <2>5, Walks DEF Lin!Unlock, Watching
<1> QED BY <1>2, <1>3

LEMMA DiesStep ==
  ASSUME InstallInv, NEW p \in Trio, Lin!Dies(p)
  PROVE  InstallInv'
<1>1. tool[p].pc # "ready" /\ Lin!Goes(p, "dead")
  BY DEF Lin!Dies, Lin!Alive
<1>2. "dead" \in ToolPoint /\ "dead" \in Lin!Outside \ {"ready"}
  BY DEF ToolPoint, Lin!Outside
<1>3. tool'[p].pc = "dead" /\ \A q \in Trio : q # p => tool'[q].pc = tool[q].pc
  BY <1>1, <1>2, GoesOn DEF SameAt
<1>4. LockIsHeld'
  BY <1>3, LockStays DEF Lin!Dies, Holding, Tidying, InsidePoint, InstallPoint, UninstallPoint
<1> QED BY <1>1, <1>2, <1>4, Walks DEF Lin!Dies, Watching, InstallInv, InstallShapes

-----------------------------------------------------------------------------
LEMMA InstallInspectStep ==
  ASSUME InstallInv, NEW p \in Trio, Lin!InstallInspect(p)
  PROVE  InstallInv'
<1>1. /\ tool \in [Trio -> Tool] /\ tool[p].pc = "inspect" /\ tool[p].does = "install"
      /\ ToolIsSound(p) /\ tool[p].version \in Edition /\ IsInside(p)
  BY DEF Lin!InstallInspect, Lin!At, InstallInv, InstallShapes, ToolIsSound, IsInside, InsidePoint
<1>2. /\ tool' \in [Trio -> Tool] /\ tool'[p].pc = "publish" /\ tool'[p].does = "install"
      /\ tool'[p].version = tool[p].version /\ tool'[p].command = command
      /\ tool'[p].current = current /\ \A q \in Trio : q # p => tool'[q] = tool[q]
  <2> DEFINE new == [tool[p] EXCEPT !.pc = "publish", !.command = command, !.current = current]
  <2>1. new \in Tool /\ new.pc = "publish" /\ new.does = "install" /\ new.version = tool[p].version
          /\ new.command = command /\ new.current = current
    <3>1. "publish" \in ToolPoint /\ tool[p] \in Tool
      BY <1>1 DEF ToolPoint, InsidePoint, InstallPoint
    <3>2. command \in BOOLEAN /\ current \in Edition \cup {None}
      BY DEF InstallInv, InstallShapes
    <3> QED BY <1>1, <3>1, <3>2 DEF Tool
  <2>2. tool' = [tool EXCEPT ![p] = new]
    BY DEF Lin!InstallInspect
  <2> HIDE DEF new
  <2> QED BY <1>1, <2>1, <2>2
<1>3. ToolMoves(p)
  BY <1>1, <1>2 DEF ToolMoves, Lin!InstallInspect, InstallInv, InstallShapes
<1>4. ToolIsSound(p)' /\ (~shared => InsideIsSound(p)' /\ Present(current)')
  BY <1>1, <1>2 DEF ToolIsSound, InsideIsSound, Watching, InstallPoint, Lin!InstallInspect, InstallInv,
     Present, Lin!Listed
<1>5. LockIsHeld'
  BY <1>1, <1>2, LockStays DEF Lin!InstallInspect, Holding, Tidying, InsidePoint, InstallPoint,
     UninstallPoint
<1> QED BY <1>3, <1>4, <1>5, ToolKeeps DEF Lin!InstallInspect, InstallInv, InstallShapes

(* What is known of a process that is inside.                              *)
LEMMA InsideFacts ==
  ASSUME InstallInv, NEW p \in Trio
  PROVE  /\ tool[p] \in Tool /\ ToolIsSound(p) /\ (~shared => InsideIsSound(p) /\ Present(current))
         /\ release \in [Edition -> {"none", "whole", "bare", "ragged"}]
         /\ command \in BOOLEAN /\ current \in Edition \cup {None}
         /\ None \notin Edition
  BY InstallAssumption DEF InstallInv, InstallShapes

LEMMA PublishStep ==
  ASSUME InstallInv, NEW p \in Trio, Lin!Publish(p)
  PROVE  InstallInv'
<1> DEFINE v == tool[p].version
<1>1. /\ tool[p].pc = "publish" /\ v \in Edition /\ IsInside(p)
      /\ UNCHANGED <<lock, command, current, shared>>
  BY InsideFacts DEF Lin!Publish, Lin!At, ToolIsSound, IsInside, InsidePoint, InstallPoint
<1>2. CASE release[v] = "none"
  <2>1. release' = [release EXCEPT ![v] = "whole"] /\ Lin!Changes(p, v, "command")
    BY <1>2 DEF Lin!Publish
  <2>2. /\ release' \in [Edition -> {"none", "whole", "bare", "ragged"}]
        /\ Lin!Listed \subseteq Lin!Listed' /\ v \in Lin!Listed'
    BY <1>1, <2>1, InsideFacts DEF Lin!Listed
  <2>3. ASSUME SameAt(p, "command")
        PROVE  ToolIsSound(p)' /\ (~shared => InsideIsSound(p)' /\ Present(current)')
    BY <1>1, <2>2, <2>3, InsideFacts
       DEF SameAt, ToolIsSound, InsideIsSound, Present, Watching, InstallPoint
  <2> HIDE DEF v
  <2>4. "command" \in InsidePoint \ {"release"}
    BY DEF InsidePoint, InstallPoint
  <2> QED BY <1>1, <2>1, <2>2, <2>3, <2>4, Alters, InsideFacts
<1>3. CASE release[v] = "ragged"
  <2>1. Lin!Goes(p, "unlock") /\ UNCHANGED release
    BY <1>3 DEF Lin!Publish
  <2>2. ASSUME SameAt(p, "unlock") PROVE ToolIsSound(p)' /\ (~shared => InsideIsSound(p)')
    BY <1>1, <2>2, InsideFacts DEF SameAt, ToolIsSound, InsideIsSound, Watching, InstallPoint
  <2>3. "unlock" \in InsidePoint \ {"release"}
    BY DEF InsidePoint
  <2> QED BY <1>1, <2>1, <2>2, <2>3, WorksOn
<1>4. CASE release[v] \in {"whole", "bare"}
  <2>1. Lin!Goes(p, "command") /\ UNCHANGED release
    BY <1>4 DEF Lin!Publish
  <2>2. ASSUME SameAt(p, "command") PROVE ToolIsSound(p)' /\ (~shared => InsideIsSound(p)')
    BY <1>1, <1>4, <2>1, <2>2, InsideFacts
       DEF SameAt, ToolIsSound, InsideIsSound, Present, Lin!Listed, Watching, InstallPoint
  <2>3. "command" \in InsidePoint \ {"release"}
    BY DEF InsidePoint, InstallPoint
  <2> QED BY <1>1, <2>1, <2>2, <2>3, WorksOn
<1> QED BY <1>1, <1>2, <1>3, <1>4, InsideFacts

-----------------------------------------------------------------------------
LEMMA SetCommandStep ==
  ASSUME InstallInv, NEW p \in Trio, Lin!SetCommand(p)
  PROVE  InstallInv'
<1>1. /\ tool[p].pc = "command" /\ IsInside(p) /\ Lin!Changes(p, "command", "pointer")
      /\ UNCHANGED <<lock, release, current, shared>>
  BY DEF Lin!SetCommand, Lin!At, IsInside, InsidePoint, InstallPoint, UninstallPoint
<1>2. ASSUME SameAt(p, "pointer")
      PROVE  ToolIsSound(p)' /\ (~shared => InsideIsSound(p)' /\ Present(current)')
  BY <1>1, <1>2, InsideFacts
     DEF Lin!SetCommand, SameAt, ToolIsSound, InsideIsSound, Present, Lin!Listed, Watching, InstallPoint
<1>3. "pointer" \in InsidePoint \ {"release"}
  BY DEF InsidePoint, InstallPoint, UninstallPoint
<1>4. command' \in BOOLEAN /\ current' \in Edition \cup {None}
  BY <1>1, InsideFacts DEF Lin!SetCommand, ToolIsSound, Tool
<1> QED BY <1>1, <1>2, <1>3, <1>4, Alters, InsideFacts

LEMMA SetCurrentStep ==
  ASSUME InstallInv, NEW p \in Trio, Lin!SetCurrent(p)
  PROVE  InstallInv'
<1>1. /\ tool[p].pc = "pointer" /\ IsInside(p) /\ Lin!Changes(p, "current", "check")
      /\ UNCHANGED <<lock, release, command, shared>>
  BY DEF Lin!SetCurrent, Lin!At, IsInside, InsidePoint, InstallPoint, UninstallPoint
<1>2. ASSUME SameAt(p, "check")
      PROVE  ToolIsSound(p)' /\ (~shared => InsideIsSound(p)' /\ Present(current)')
  BY <1>1, <1>2, InsideFacts
     DEF Lin!SetCurrent, SameAt, ToolIsSound, InsideIsSound, Present, Lin!Listed, Watching, InstallPoint
<1>3. "check" \in InsidePoint \ {"release"}
  BY DEF InsidePoint, InstallPoint, UninstallPoint
<1>4. command' \in BOOLEAN /\ current' \in Edition \cup {None}
  BY <1>1, InsideFacts DEF Lin!SetCurrent, ToolIsSound, Tool
<1> QED BY <1>1, <1>2, <1>3, <1>4, Alters, InsideFacts

LEMMA CheckCurrentStep ==
  ASSUME InstallInv, NEW p \in Trio, Lin!CheckCurrent(p)
  PROVE  InstallInv'
<1>1. /\ tool[p].pc \in {"check"} /\ IsInside(p)
      /\ UNCHANGED <<lock, release, command, current, shared>>
  BY DEF Lin!CheckCurrent, Lin!At, IsInside, InsidePoint, InstallPoint, UninstallPoint
<1>2. PICK pc \in {"unlock", "undo command"} : Lin!Goes(p, pc)
  BY InsideFacts DEF Lin!CheckCurrent, Lin!At
<1>3. ASSUME SameAt(p, pc) PROVE ToolIsSound(p)' /\ (~shared => InsideIsSound(p)')
  BY <1>1, <1>2, <1>3, InsideFacts
     DEF Lin!CheckCurrent, Lin!At, SameAt, ToolIsSound, InsideIsSound, Present, Lin!Listed, Watching,
         InstallPoint, UninstallPoint
<1>4. pc \in InsidePoint \ {"release"}
  BY DEF InsidePoint, InstallPoint, UninstallPoint
<1> QED BY <1>1, <1>2, <1>3, <1>4, WorksOn

LEMMA InstallFailsStep ==
  ASSUME InstallInv, NEW p \in Trio, Lin!InstallFails(p)
  PROVE  InstallInv'
<1>1. /\ tool[p].pc \in {"publish", "command", "pointer", "check", "undo command", "undo current"} /\ IsInside(p)
      /\ UNCHANGED <<lock, release, command, current, shared>>
  BY DEF Lin!InstallFails, Lin!At, IsInside, InsidePoint, InstallPoint, UninstallPoint
<1>2. PICK pc \in {"unlock", "undo command", "undo current"} : Lin!Goes(p, pc)
        /\ (pc = "undo command" => tool[p].pc \in {"pointer", "check"})
        /\ (pc = "undo current" => tool[p].pc = "command")
  BY InsideFacts DEF Lin!InstallFails, Lin!At
<1>3. ASSUME SameAt(p, pc) PROVE ToolIsSound(p)' /\ (~shared => InsideIsSound(p)')
  BY <1>1, <1>2, <1>3, InsideFacts
     DEF Lin!InstallFails, Lin!At, SameAt, ToolIsSound, InsideIsSound, Present, Lin!Listed, Watching,
         InstallPoint, UninstallPoint
<1>4. pc \in InsidePoint \ {"release"}
  BY DEF InsidePoint, InstallPoint, UninstallPoint
<1> QED BY <1>1, <1>2, <1>3, <1>4, WorksOn

LEMMA UndoCommandStep ==
  ASSUME InstallInv, NEW p \in Trio, Lin!UndoCommand(p)
  PROVE  InstallInv'
<1>1. /\ tool[p].pc = "undo command" /\ IsInside(p) /\ Lin!Changes(p, "command", "undo current")
      /\ UNCHANGED <<lock, release, current, shared>>
  BY DEF Lin!UndoCommand, Lin!At, IsInside, InsidePoint, InstallPoint, UninstallPoint
<1>2. ASSUME SameAt(p, "undo current")
      PROVE  ToolIsSound(p)' /\ (~shared => InsideIsSound(p)' /\ Present(current)')
  BY <1>1, <1>2, InsideFacts
     DEF Lin!UndoCommand, SameAt, ToolIsSound, InsideIsSound, Present, Lin!Listed, Watching, InstallPoint
<1>3. "undo current" \in InsidePoint \ {"release"}
  BY DEF InsidePoint, InstallPoint, UninstallPoint
<1>4. command' \in BOOLEAN /\ current' \in Edition \cup {None}
  BY <1>1, InsideFacts DEF Lin!UndoCommand, ToolIsSound, Tool
<1> QED BY <1>1, <1>2, <1>3, <1>4, Alters, InsideFacts

LEMMA UndoCurrentStep ==
  ASSUME InstallInv, NEW p \in Trio, Lin!UndoCurrent(p)
  PROVE  InstallInv'
<1>1. /\ tool[p].pc = "undo current" /\ IsInside(p) /\ Lin!Changes(p, "current", "undone")
      /\ UNCHANGED <<lock, release, command, shared>>
  BY DEF Lin!UndoCurrent, Lin!At, IsInside, InsidePoint, InstallPoint, UninstallPoint
<1>2. ASSUME SameAt(p, "undone")
      PROVE  ToolIsSound(p)' /\ (~shared => InsideIsSound(p)' /\ Present(current)')
  BY <1>1, <1>2, InsideFacts
     DEF Lin!UndoCurrent, SameAt, ToolIsSound, InsideIsSound, Present, Lin!Listed, Watching, InstallPoint
<1>3. "undone" \in InsidePoint \ {"release"}
  BY DEF InsidePoint, InstallPoint, UninstallPoint
<1>4. command' \in BOOLEAN /\ current' \in Edition \cup {None}
  BY <1>1, InsideFacts DEF Lin!UndoCurrent, ToolIsSound, Tool
<1> QED BY <1>1, <1>2, <1>3, <1>4, Alters, InsideFacts

LEMMA UndoneStep ==
  ASSUME InstallInv, NEW p \in Trio, Lin!Undone(p)
  PROVE  InstallInv'
<1>1. /\ tool[p].pc \in {"undone"} /\ IsInside(p)
      /\ UNCHANGED <<lock, release, command, current, shared>>
  BY DEF Lin!Undone, Lin!At, IsInside, InsidePoint, InstallPoint, UninstallPoint
<1>2. PICK pc \in {"unlock"} : Lin!Goes(p, pc)
  BY InsideFacts DEF Lin!Undone, Lin!At
<1>3. ASSUME SameAt(p, pc) PROVE ToolIsSound(p)' /\ (~shared => InsideIsSound(p)')
  BY <1>1, <1>2, <1>3, InsideFacts
     DEF Lin!Undone, Lin!At, SameAt, ToolIsSound, InsideIsSound, Present, Lin!Listed, Watching,
         InstallPoint, UninstallPoint
<1>4. pc \in InsidePoint \ {"release"}
  BY DEF InsidePoint, InstallPoint, UninstallPoint
<1> QED BY <1>1, <1>2, <1>3, <1>4, WorksOn

-----------------------------------------------------------------------------
LEMMA UninstallInspectStep ==
  ASSUME InstallInv, NEW p \in Trio, Lin!UninstallInspect(p)
  PROVE  InstallInv'
<1>1. /\ tool[p].pc \in {"inspect"} /\ IsInside(p)
      /\ UNCHANGED <<lock, release, command, current, shared>>
  BY DEF Lin!UninstallInspect, Lin!At, IsInside, InsidePoint, InstallPoint, UninstallPoint
<1>2. PICK pc \in {"unlink command", "unlock"} : Lin!Goes(p, pc)
        /\ (pc = "unlink command" => tool[p].stale = {})
  BY InsideFacts DEF Lin!UninstallInspect, Lin!At
<1>3. ASSUME SameAt(p, pc) PROVE ToolIsSound(p)' /\ (~shared => InsideIsSound(p)')
  BY <1>1, <1>2, <1>3, InsideFacts
     DEF Lin!UninstallInspect, Lin!At, SameAt, ToolIsSound, InsideIsSound, Present, Lin!Listed, Watching,
         InstallPoint, UninstallPoint
<1>4. pc \in InsidePoint \ {"release"}
  BY DEF InsidePoint, InstallPoint, UninstallPoint
<1> QED BY <1>1, <1>2, <1>3, <1>4, WorksOn

LEMMA UnlinkCommandStep ==
  ASSUME InstallInv, NEW p \in Trio, Lin!UnlinkCommand(p)
  PROVE  InstallInv'
<1>1. /\ tool[p].pc = "unlink command" /\ IsInside(p)
      /\ UNCHANGED <<lock, release, current, shared>>
  BY DEF Lin!UnlinkCommand, Lin!At, IsInside, InsidePoint, UninstallPoint
<1>2. ASSUME NEW pc \in {"unlink current", "unlock"}, SameAt(p, pc)
      PROVE  ToolIsSound(p)' /\ (~shared => InsideIsSound(p)' /\ Present(current)')
  BY <1>1, <1>2, InsideFacts
     DEF SameAt, ToolIsSound, InsideIsSound, Present, Lin!Listed, Watching, InstallPoint
<1>3. "unlink current" \in InsidePoint \ {"release"} /\ "unlock" \in InsidePoint \ {"release"}
  BY DEF InsidePoint, UninstallPoint
<1>4. CASE Lin!Goes(p, "unlink current") /\ UNCHANGED command
  BY <1>1, <1>2, <1>3, <1>4, WorksOn
<1>5. CASE Lin!Goes(p, "unlock") /\ UNCHANGED command
  BY <1>1, <1>2, <1>3, <1>5, WorksOn
<1>6. CASE command' = FALSE /\ Lin!Changes(p, "command", "unlink current")
  BY <1>1, <1>2, <1>3, <1>6, Alters, InsideFacts
<1> QED BY <1>4, <1>5, <1>6 DEF Lin!UnlinkCommand

LEMMA UnlinkCurrentStep ==
  ASSUME InstallInv, NEW p \in Trio, Lin!UnlinkCurrent(p)
  PROVE  InstallInv'
<1>1. /\ tool[p].pc = "unlink current" /\ IsInside(p)
      /\ UNCHANGED <<lock, release, command, shared>>
  BY DEF Lin!UnlinkCurrent, Lin!At, IsInside, InsidePoint, UninstallPoint
<1>2. ASSUME NEW pc \in {"put command", "remove"}, SameAt(p, pc), UNCHANGED current \/ current' = None,
             pc = "remove" /\ ~shared => current' = None
      PROVE  ToolIsSound(p)' /\ (~shared => InsideIsSound(p)' /\ Present(current)')
  BY <1>1, <1>2, InsideFacts
     DEF SameAt, ToolIsSound, InsideIsSound, Present, Lin!Listed, Watching, InstallPoint
<1>3. "put command" \in InsidePoint \ {"release"} /\ "remove" \in InsidePoint \ {"release"}
  BY DEF InsidePoint, UninstallPoint
<1>4. CASE tool[p].current = None /\ Lin!Goes(p, "remove") /\ UNCHANGED current
  <2>1. ~shared => current = None
    BY <1>1, <1>4, InsideFacts DEF ToolIsSound, InsideIsSound, Watching
  <2> QED BY <1>1, <1>2, <1>3, <1>4, <2>1, WorksOn
<1>5. CASE Lin!Goes(p, "put command") /\ UNCHANGED current
  BY <1>1, <1>2, <1>3, <1>5, WorksOn
<1>6. CASE current' = None /\ Lin!Changes(p, "current", "remove")
  BY <1>1, <1>2, <1>3, <1>6, Alters, InsideFacts
<1> QED BY <1>4, <1>5, <1>6 DEF Lin!UnlinkCurrent

LEMMA RemoveFilesStep ==
  ASSUME InstallInv, NEW p \in Trio, NEW v \in Edition, Lin!RemoveFiles(p, v)
  PROVE  InstallInv'
<1>1. /\ tool[p].pc = "remove" /\ IsInside(p) /\ UNCHANGED <<lock, command, current, shared>>
      /\ \A q \in Trio : tool[q] \in Tool
  BY ZenonT(60) DEF Lin!RemoveFiles, Lin!At, IsInside, InsidePoint, UninstallPoint, InstallInv, InstallShapes
<1>2. PICK to \in {"none", "bare", "ragged"} :
       /\ release' = [release EXCEPT ![v] = to]
       /\ tool' = [q \in Trio |->
            IF q = p THEN [tool[q] EXCEPT !.left = IF to = "none" THEN None ELSE v,
                                          !.releases = IF to = "none" THEN tool[q].releases \ {v}
                                                       ELSE tool[q].releases]
            ELSE IF tool[q].does = "uninstall" /\ to # "bare"
            THEN [tool[q] EXCEPT !.stale = tool[q].stale \cup {IF to = "none" THEN v ELSE "list"}]
            ELSE tool[q]]
  BY DEF Lin!RemoveFiles
<1>3. tool'[p] \in Tool /\ SameAt(p, "remove")
  <2> DEFINE l == IF to = "none" THEN None ELSE v
             r == IF to = "none" THEN tool[p].releases \ {v} ELSE tool[p].releases
  <2>1. tool'[p] = [tool[p] EXCEPT !.left = l, !.releases = r]
    BY <1>2
  <2>2. l \in Edition \cup {None} /\ r \in SUBSET Edition
    BY <1>1 DEF Tool
  <2> HIDE DEF l, r
  <2> QED BY <1>1, <2>1, <2>2 DEF SameAt, Tool
<1>4. ASSUME NEW q \in Trio, q # p
      PROVE  /\ tool'[q] \in Tool
             /\ tool'[q].pc = tool[q].pc /\ tool'[q].does = tool[q].does
             /\ tool'[q].version = tool[q].version /\ tool'[q].command = tool[q].command
             /\ tool'[q].current = tool[q].current /\ tool[q].stale \subseteq tool'[q].stale
  <2>1. CASE tool[q].does = "uninstall" /\ to # "bare"
    <3> DEFINE w == IF to = "none" THEN v ELSE "list"
    <3>1. tool'[q] = [tool[q] EXCEPT !.stale = tool[q].stale \cup {w}]
      BY <1>2, <1>4, <2>1
    <3>2. w \in Edition \cup {"command", "current", "list"}
      OBVIOUS
    <3> HIDE DEF w
    <3> QED BY <1>1, <3>1, <3>2 DEF Tool
  <2>2. CASE ~(tool[q].does = "uninstall" /\ to # "bare")
    BY <1>1, <1>2, <1>4, <2>2
  <2> QED BY <2>1, <2>2
<1>5. tool' \in [Trio -> Tool]
  BY <1>2, <1>3, <1>4
<1>6. ToolMoves(p)
  BY <1>1, <1>2, <1>4, <1>5, InsideFacts DEF ToolMoves, InstallInv, InstallShapes
<1>7. ToolIsSound(p)' /\ (~shared => InsideIsSound(p)' /\ Present(current)')
  BY <1>1, <1>3, InsideFacts DEF SameAt, ToolIsSound, InsideIsSound, Present, Watching, InstallPoint
<1>8. LockIsHeld'
  BY <1>1, <1>3, <1>4, LockStays DEF SameAt
<1> QED BY <1>1, <1>6, <1>7, <1>8, ToolKeeps DEF InstallInv, InstallShapes

LEMMA RemovedStep ==
  ASSUME InstallInv, NEW p \in Trio, Lin!Removed(p)
  PROVE  InstallInv'
<1>1. /\ tool[p].pc \in {"remove"} /\ IsInside(p)
      /\ UNCHANGED <<lock, release, command, current, shared>>
  BY DEF Lin!Removed, Lin!At, IsInside, InsidePoint, InstallPoint, UninstallPoint
<1>2. PICK pc \in {"unlock"} : Lin!Goes(p, pc)
  BY InsideFacts DEF Lin!Removed, Lin!At
<1>3. ASSUME SameAt(p, pc) PROVE ToolIsSound(p)' /\ (~shared => InsideIsSound(p)')
  BY <1>1, <1>2, <1>3, InsideFacts
     DEF Lin!Removed, Lin!At, SameAt, ToolIsSound, InsideIsSound, Present, Lin!Listed, Watching,
         InstallPoint, UninstallPoint
<1>4. pc \in InsidePoint \ {"release"}
  BY DEF InsidePoint, InstallPoint, UninstallPoint
<1> QED BY <1>1, <1>2, <1>3, <1>4, WorksOn

LEMMA UninstallFailsStep ==
  ASSUME InstallInv, NEW p \in Trio, Lin!UninstallFails(p)
  PROVE  InstallInv'
<1>1. /\ tool[p].pc \in {"unlink command", "unlink current", "remove", "put command"} /\ IsInside(p)
      /\ UNCHANGED <<lock, release, command, current, shared>>
  BY DEF Lin!UninstallFails, Lin!At, IsInside, InsidePoint, InstallPoint, UninstallPoint
<1>2. PICK pc \in {"unlock", "put command"} : Lin!Goes(p, pc)
  BY InsideFacts DEF Lin!UninstallFails, Lin!At
<1>3. ASSUME SameAt(p, pc) PROVE ToolIsSound(p)' /\ (~shared => InsideIsSound(p)')
  BY <1>1, <1>2, <1>3, InsideFacts
     DEF Lin!UninstallFails, Lin!At, SameAt, ToolIsSound, InsideIsSound, Present, Lin!Listed, Watching,
         InstallPoint, UninstallPoint
<1>4. pc \in InsidePoint \ {"release"}
  BY DEF InsidePoint, InstallPoint, UninstallPoint
<1> QED BY <1>1, <1>2, <1>3, <1>4, WorksOn

LEMMA PutCommandStep ==
  ASSUME InstallInv, NEW p \in Trio, Lin!PutCommand(p)
  PROVE  InstallInv'
<1>1. /\ tool[p].pc = "put command" /\ IsInside(p)
      /\ UNCHANGED <<lock, release, current, shared>>
      /\ command' \in BOOLEAN
  BY InsideFacts DEF Lin!PutCommand, Lin!At, IsInside, InsidePoint, UninstallPoint, Tool
<1>2. ASSUME SameAt(p, "unlock")
      PROVE  ToolIsSound(p)' /\ (~shared => InsideIsSound(p)' /\ Present(current)')
  BY <1>1, <1>2, InsideFacts
     DEF SameAt, ToolIsSound, InsideIsSound, Present, Lin!Listed, Watching, InstallPoint
<1>3. "unlock" \in InsidePoint \ {"release"}
  BY DEF InsidePoint
<1>4. CASE Lin!Goes(p, "unlock") /\ UNCHANGED command
  BY <1>1, <1>2, <1>3, <1>4, WorksOn
<1>5. CASE Lin!Changes(p, "command", "unlock")
  BY <1>1, <1>2, <1>3, <1>5, Alters, InsideFacts
<1> QED BY <1>4, <1>5 DEF Lin!PutCommand

-----------------------------------------------------------------------------
LEMMA InitInstall == ASSUME Lin!Init PROVE InstallInv
<1>1. InstallShapes
  <2>1. Lin!Ready \in Tool /\ Lin!NoLock \in [dir : BOOLEAN, pid : Trio \cup {None}, written : BOOLEAN]
    BY DEF Lin!Ready, Lin!NoLock, Tool, ToolPoint, Lin!Outside
  <2> QED BY <2>1 DEF Lin!Init, InstallShapes
<1>2. \A p \in Trio : tool[p].pc = "ready"
  BY DEF Lin!Init, Lin!Ready
<1>3. LockIsHeld
  BY DEF Lin!Init, Lin!NoLock, LockIsHeld
<1>4. OneInside
  BY <1>2 DEF OneInside, IsInside, InsidePoint, InstallPoint, UninstallPoint
<1>5. \A p \in Trio : ToolIsSound(p) /\ InsideIsSound(p)
  BY <1>2 DEF ToolIsSound, InsideIsSound, Watching, InstallPoint
<1>6. Present(current)
  BY DEF Lin!Init, Present
<1> QED BY <1>1, <1>3, <1>4, <1>5, <1>6 DEF InstallInv

LEMMA StepInstall == ASSUME InstallInv, Lin!Next PROVE InstallInv'
<1>1. PICK p \in Trio :
        \/ \E v \in Edition : Lin!StartInstall(p, v)
        \/ Lin!StartUninstall(p)
        \/ Lin!Locking(p) \/ Lin!Installing(p) \/ Lin!Uninstalling(p) \/ Lin!Dies(p)
  BY DEF Lin!Next
<1>2. CASE Lin!Locking(p)
  <2>1. CASE Lin!MakeLock(p)
    BY <2>1, MakeLockStep
  <2>2. CASE Lin!JudgeLock(p)
    BY <2>2, JudgeLockStep
  <2>3. CASE Lin!UnlinkPid(p)
    BY <2>3, UnlinkPidStep
  <2>4. CASE Lin!RemoveDir(p)
    BY <2>4, RemoveDirStep
  <2>5. CASE Lin!CreatePid(p)
    BY <2>5, CreatePidStep
  <2>6. CASE Lin!WritePid(p)
    BY <2>6, WritePidStep
  <2>7. CASE Lin!Unlock(p)
    BY <2>7, UnlockStep
  <2>8. CASE Lin!ReleaseDir(p)
    BY <2>8, ReleaseDirStep
  <2> QED BY <1>2, <2>1, <2>2, <2>3, <2>4, <2>5, <2>6, <2>7, <2>8 DEF Lin!Locking
<1>3. CASE Lin!Installing(p)
  <2>1. CASE Lin!InstallInspect(p)
    BY <2>1, InstallInspectStep
  <2>2. CASE Lin!Publish(p)
    BY <2>2, PublishStep
  <2>3. CASE Lin!SetCommand(p)
    BY <2>3, SetCommandStep
  <2>4. CASE Lin!SetCurrent(p)
    BY <2>4, SetCurrentStep
  <2>5. CASE Lin!CheckCurrent(p)
    BY <2>5, CheckCurrentStep
  <2>6. CASE Lin!InstallFails(p)
    BY <2>6, InstallFailsStep
  <2>7. CASE Lin!UndoCommand(p)
    BY <2>7, UndoCommandStep
  <2>8. CASE Lin!UndoCurrent(p)
    BY <2>8, UndoCurrentStep
  <2>9. CASE Lin!Undone(p)
    BY <2>9, UndoneStep
  <2> QED BY <1>3, <2>1, <2>2, <2>3, <2>4, <2>5, <2>6, <2>7, <2>8, <2>9 DEF Lin!Installing
<1>4. CASE Lin!Uninstalling(p)
  <2>1. CASE Lin!UninstallInspect(p)
    BY <2>1, UninstallInspectStep
  <2>2. CASE Lin!UnlinkCommand(p)
    BY <2>2, UnlinkCommandStep
  <2>3. CASE Lin!UnlinkCurrent(p)
    BY <2>3, UnlinkCurrentStep
  <2>4. CASE \E v \in Edition : Lin!RemoveFiles(p, v)
    BY <2>4, RemoveFilesStep
  <2>5. CASE Lin!Removed(p)
    BY <2>5, RemovedStep
  <2>6. CASE Lin!UninstallFails(p)
    BY <2>6, UninstallFailsStep
  <2>7. CASE Lin!PutCommand(p)
    BY <2>7, PutCommandStep
  <2> QED BY <1>4, <2>1, <2>2, <2>3, <2>4, <2>5, <2>6, <2>7 DEF Lin!Uninstalling
<1> QED BY <1>1, <1>2, <1>3, <1>4, StartInstallStep, StartUninstallStep, DiesStep

LEMMA HeldInstall == ASSUME InstallInv PROVE Lin!InstallHolds
<1>1. Lin!PointerIsListed
  BY DEF InstallInv, Present, Lin!PointerIsListed
<1>2. Lin!UndoRestores
  BY DEF InstallInv, InsideIsSound, Lin!UndoRestores, Lin!At, InstallPoint
<1>3. Lin!LockIsReleased
  <2> SUFFICES ASSUME \A p \in Trio : tool[p].pc \in {"ready", "done"} PROVE lock = Lin!NoLock
    BY DEF Lin!LockIsReleased
  <2>1. /\ LockIsHeld /\ lock \in [dir : BOOLEAN, pid : Trio \cup {None}, written : BOOLEAN]
    BY DEF InstallInv, InstallShapes
  <2>2. lock.pid = None /\ lock.dir = FALSE /\ lock.written = FALSE
    BY <2>1 DEF LockIsHeld, Holding, Tidying, InsidePoint, InstallPoint, UninstallPoint
  <2> QED BY <2>1, <2>2 DEF Lin!NoLock
<1> QED BY <1>1, <1>2, <1>3 DEF Lin!InstallHolds

LEMMA TypedInstall == ASSUME InstallInv PROVE Lin!TypeOK
BY DEF InstallInv, InstallShapes, LockIsHeld, Tool, Lin!TypeOK

LEMMA KeepInstall == ASSUME InstallInv, [Lin!Next]_installer PROVE InstallInv'
<1>1. CASE UNCHANGED installer
  <2>1. UNCHANGED <<lock, release, command, current, tool, shared>>
    BY <1>1 DEF installer
  <2> QED BY <2>1 DEF InstallInv, InstallShapes, LockIsHeld, OneInside, IsInside, ToolIsSound,
                      InsideIsSound, Present, Lin!Listed
<1> QED BY <1>1, StepInstall

(* As long as no two processes were inside the lock at once, the pointer   *)
(* names a release that has its manifest, and an activation that failed    *)
(* has put the command and the pointer back; and once every process has    *)
(* ended, without one having died, no lock is left, though they may have   *)
(* removed one another's (install-linux.py, uninstall-linux.js): for any   *)
(* number of processes and versions.                                       *)
THEOREM InstallerHolds == Spec => []InstallHolds
<1>1. Init => InstallInv
  BY InitInstall DEF Init
<1>2. InstallInv /\ [Next]_vars => InstallInv'
  BY KeepInstall DEF Next, vars
<1>3. InstallInv => InstallHolds
  BY HeldInstall DEF InstallHolds
<1> QED BY <1>1, <1>2, <1>3, PTL DEF Spec

-----------------------------------------------------------------------------
(* Reference runs and assets (Refs is the module ReferenceRuns): the       *)
(* points of the threads that build a run and of the requests, and what    *)
(* rows and files are.                                                     *)
WorkPoint  == {"none", "start", "build", "truncate", "candidates", "embeddings", "complete"}
AskedPoint == {"none", "crop", "embed", "commit", "vectors", "anchor", "cached", "answer"}
RunStatus  == {"queued", "running", "completed", "failed"}
RunRow     == [status : RunStatus, recs : SUBSET Alpha, space : Refs!Spaces \cup {None}]
RunFiles   == [cands : {None, Torn} \cup SUBSET Alpha, emb : {None} \cup Refs!Vectors]
Worker     == [pc : WorkPoint, run : RunId \cup {None}, recs : SUBSET Alpha, cands : SUBSET Alpha,
               space : Refs!Spaces \cup {None}]
AskedCall  == [pc : AskedPoint, run : RunId \cup {None}, cands : SUBSET Alpha,
               emb : Refs!Vectors \cup {None}, asset : Asset \cup {None},
               cand : Alpha \cup {None}, ready : BOOLEAN]
AssetState == [row : {None, "ready", "failed"}, file : BOOLEAN, artifact : {None, "v1"}]

RunShapes ==
  /\ project \in BOOLEAN
  /\ recs \in [Alpha -> {"new", "row", "gone"}]
  /\ row \in [RunId -> {None} \cup RunRow]
  /\ dir \in [RunId -> RunFiles]
  /\ worker \in [Beta -> Worker]
  /\ asked \in [Gamma -> AskedCall]
  /\ asset \in [Asset -> AssetState]
  /\ reused \subseteq RunId

(* A thread that writes has a run; unless the identifier was given out     *)
(* again meanwhile, the run's row, if there is one, waits for it, and what *)
(* it has written is there.                                                *)
WorkerIsSound(t) ==
  LET w == worker[t]
      n == w.run
  IN w.pc # "none" =>
       /\ n \in RunId
       /\ w.pc \in {"truncate", "candidates", "embeddings", "complete"} =>
            w.cands \subseteq w.recs /\ w.space \in Refs!Spaces
       /\ n \notin reused =>
            /\ row[n] # None =>
                 /\ row[n].status = IF w.pc = "start" THEN "queued" ELSE "running"
                 /\ w.pc # "start" => row[n].recs = w.recs
            /\ w.pc \in {"embeddings", "complete"} => dir[n].cands = w.cands
            /\ w.pc = "complete" => dir[n].emb = [space |-> w.space, of |-> w.cands]

OneWriter ==
  \A t, u \in Beta :
    /\ worker[t].pc # "none" /\ worker[u].pc # "none"
    /\ worker[t].run = worker[u].run /\ worker[t].run \notin reused
    => t = u

RunIsWhole(n) ==
  row[n] # None /\ row[n].status = "completed" =>
    /\ dir[n].cands \subseteq row[n].recs
    /\ dir[n].emb = [space |-> row[n].space, of |-> dir[n].cands]

RunInv ==
  /\ \A t \in Beta : WorkerIsSound(t)
  /\ OneWriter
  /\ \A n \in RunId \ reused : RunIsWhole(n)

(* What a request has put on disk of an asset stays.                       *)
AskedIsSound(q) ==
  LET a == asked[q] IN
  /\ a.pc \in {"crop", "embed", "commit", "anchor", "cached"} => a.asset \in Asset
  /\ a.pc \in {"embed", "commit"} => asset[a.asset].file
  /\ a.pc = "commit" /\ a.ready => asset[a.asset].artifact = "v1"
  /\ a.pc = "vectors" => a.run \in RunId
  /\ a.pc \in {"anchor", "cached", "answer"} => a.emb \in Refs!Vectors /\ a.cands \subseteq a.emb.of
  /\ a.pc = "cached" => asset[a.asset].artifact = a.emb.space
  /\ a.pc = "answer" /\ a.asset # None /\ a.cands # {} =>
       asset[a.asset].artifact = a.emb.space

AssetInv == (\A q \in Gamma : AskedIsSound(q)) /\ Refs!AssetsArePlayable

ReferenceInv == RunShapes /\ RunInv /\ AssetInv

-----------------------------------------------------------------------------
(* A step of one thread writes nothing but its run's row and files.        *)
WorkerMoves(t, w) ==
  /\ w \in Worker
  /\ worker' = [worker EXCEPT ![t] = w]
  /\ w.pc # "none" => w.run = worker[t].run
  /\ row' \in [RunId -> {None} \cup RunRow]
  /\ dir' \in [RunId -> RunFiles]
  /\ \A n \in RunId \ {worker[t].run} : row'[n] = row[n] /\ dir'[n] = dir[n]
  /\ UNCHANGED <<project, recs, asked, asset, reused>>

LEMMA WorkerKeeps ==
  ASSUME ReferenceInv, NEW t \in Beta, NEW w, WorkerMoves(t, w), worker[t].pc # "none",
         WorkerIsSound(t)',
         NEW n \in RunId, n = worker[t].run, n \notin reused => RunIsWhole(n)'
  PROVE  ReferenceInv'
<1>1. RunShapes'
  BY DEF ReferenceInv, RunShapes, WorkerMoves
<1>2. worker'[t] = w /\ \A u \in Beta : u # t => worker'[u] = worker[u]
  BY DEF ReferenceInv, RunShapes, WorkerMoves
<1>3. ASSUME NEW u \in Beta, u # t PROVE WorkerIsSound(u)'
  <2>1. WorkerIsSound(u) /\ worker'[u] = worker[u]
    BY <1>2, <1>3 DEF ReferenceInv, RunInv
  <2>2. worker[u].pc # "none" /\ worker[u].run \notin reused => worker[u].run # worker[t].run
    BY <1>3 DEF ReferenceInv, RunInv, OneWriter
  <2> QED BY <2>1, <2>2 DEF WorkerIsSound, WorkerMoves
<1>4. OneWriter'
  BY <1>2 DEF ReferenceInv, RunInv, OneWriter, WorkerMoves
<1>5. ASSUME NEW m \in RunId \ reused PROVE RunIsWhole(m)'
  <2>1. CASE m # n
    BY <1>5, <2>1 DEF ReferenceInv, RunInv, RunIsWhole, WorkerMoves
  <2> QED BY <1>5, <2>1
<1>6. AssetInv'
  BY DEF ReferenceInv, AssetInv, AskedIsSound, Refs!AssetsArePlayable, WorkerMoves
<1> QED BY <1>1, <1>3, <1>4, <1>5, <1>6 DEF ReferenceInv, RunInv, WorkerMoves

(* A step of one request writes nothing but an asset, of which nothing     *)
(* that is there goes away.                                                *)
AskedMoves(q, a) ==
  /\ a \in AskedCall
  /\ asked' = [asked EXCEPT ![q] = a]
  /\ asset' \in [Asset -> AssetState]
  /\ \A e \in Asset : /\ asset[e].file => asset'[e].file
                      /\ asset[e].artifact = "v1" => asset'[e].artifact = "v1"
  /\ UNCHANGED <<project, recs, row, dir, worker, reused>>

LEMMA AskedKeeps ==
  ASSUME ReferenceInv, NEW q \in Gamma, NEW a, AskedMoves(q, a), AskedIsSound(q)',
         Refs!AssetsArePlayable'
  PROVE  ReferenceInv'
<1>1. RunShapes'
  BY DEF ReferenceInv, RunShapes, AskedMoves
<1>2. RunInv'
  BY DEF ReferenceInv, RunInv, WorkerIsSound, OneWriter, RunIsWhole, AskedMoves
<1>3. ASSUME NEW p \in Gamma, p # q PROVE AskedIsSound(p)'
  <2>1. AskedIsSound(p) /\ asked'[p] = asked[p] /\ asked[p] \in AskedCall
    BY <1>3 DEF ReferenceInv, AssetInv, RunShapes, AskedMoves
  <2>2. \A e \in Asset : asset[e].artifact \in Refs!Spaces => asset'[e].artifact = asset[e].artifact
    BY ReferencesAssumption DEF AskedMoves, ReferenceInv, RunShapes, AssetState
  <2> QED BY <2>1, <2>2 DEF AskedIsSound, AskedMoves, AskedCall, Refs!Vectors
<1> QED BY <1>1, <1>2, <1>3 DEF ReferenceInv, AssetInv

-----------------------------------------------------------------------------
LEMMA WorkerFacts ==
  ASSUME ReferenceInv, NEW t \in Beta, worker[t].pc # "none"
  PROVE  /\ worker[t] \in Worker /\ WorkerIsSound(t) /\ worker[t].run \in RunId
         /\ row \in [RunId -> {None} \cup RunRow] /\ dir \in [RunId -> RunFiles]
         /\ worker \in [Beta -> Worker]
         /\ worker[t].run \notin reused => RunIsWhole(worker[t].run)
  BY DEF ReferenceInv, RunShapes, RunInv, WorkerIsSound

LEMMA EndsWork ==
  ASSUME ReferenceInv, NEW t \in Beta, Refs!Ends(t), worker[t].pc # "none"
  PROVE  Refs!NoThread \in Worker /\ worker' = [worker EXCEPT ![t] = Refs!NoThread]
           /\ Refs!NoThread.pc = "none" /\ WorkerIsSound(t)'
  BY WorkerFacts DEF Refs!Ends, Refs!NoThread, Worker, WorkPoint, WorkerIsSound

LEMMA GoesWork ==
  ASSUME ReferenceInv, NEW t \in Beta, NEW pc \in WorkPoint, Refs!Goes(t, pc), worker[t].pc # "none"
  PROVE  \E w \in Worker :
           /\ worker' = [worker EXCEPT ![t] = w] /\ worker'[t] = w /\ w.pc = pc
           /\ w.run = worker[t].run /\ w.recs = worker[t].recs /\ w.cands = worker[t].cands
           /\ w.space = worker[t].space
<1> DEFINE w == [worker[t] EXCEPT !.pc = pc]
<1>1. w \in Worker /\ w.pc = pc /\ w.run = worker[t].run /\ w.recs = worker[t].recs
        /\ w.cands = worker[t].cands /\ w.space = worker[t].space
  BY WorkerFacts DEF Worker
<1>2. worker' = [worker EXCEPT ![t] = w]
  BY DEF Refs!Goes
<1> HIDE DEF w
<1>3. worker'[t] = w
  BY <1>2, WorkerFacts
<1> QED BY <1>1, <1>2, <1>3

LEMMA StartWorkStep == ASSUME ReferenceInv, NEW t \in Beta, Refs!Start(t) PROVE ReferenceInv'
<1>1. worker[t].pc = "start" /\ UNCHANGED <<project, recs, dir, asked, asset, reused>>
  BY DEF Refs!Start, Refs!At
<1> PICK n \in RunId : n = worker[t].run
  BY <1>1, WorkerFacts
<1>2. CASE Refs!Waiting(Refs!RowOf(t))
  <2>1. row[n] \in RunRow /\ row[n] # None
    BY <1>1, <1>2, WorkerFacts DEF Refs!Waiting, Refs!RowOf
  <2> DEFINE r == [row[n] EXCEPT !.status = "running"]
             w == [worker[t] EXCEPT !.pc = "build", !.recs = row[n].recs]
  <2>2. r \in RunRow /\ r.status = "running" /\ r.recs = row[n].recs
    BY <2>1 DEF RunRow, RunStatus
  <2>3. w \in Worker /\ w.pc = "build" /\ w.run = n /\ w.recs = row[n].recs
    <3>1. worker[t] \in Worker /\ row[n].recs \in SUBSET Alpha /\ "build" \in WorkPoint
      BY <1>1, <2>1, WorkerFacts DEF RunRow, WorkPoint
    <3> QED BY <3>1 DEF Worker
  <2>4. row' = [row EXCEPT ![n] = r] /\ worker' = [worker EXCEPT ![t] = w]
    BY <1>2 DEF Refs!Start, Refs!RowOf
  <2> HIDE DEF r, w
  <2>5. WorkerMoves(t, w)
    BY <1>1, <2>2, <2>3, <2>4, WorkerFacts DEF WorkerMoves
  <2>6. WorkerIsSound(t)' /\ RunIsWhole(n)'
    BY <1>1, <2>2, <2>3, <2>4, WorkerFacts DEF WorkerIsSound, RunIsWhole
  <2> QED BY <1>1, <2>5, <2>6, WorkerKeeps
<1>3. CASE ~Refs!Waiting(Refs!RowOf(t))
  <2>1. Refs!Ends(t) /\ UNCHANGED row
    BY <1>3 DEF Refs!Start
  <2>2. WorkerMoves(t, Refs!NoThread) /\ WorkerIsSound(t)'
    BY <1>1, <2>1, EndsWork, WorkerFacts DEF WorkerMoves
  <2>3. n \notin reused => RunIsWhole(n)'
    BY <1>1, <2>1, WorkerFacts DEF RunIsWhole
  <2> QED BY <1>1, <2>2, <2>3, WorkerKeeps
<1> QED BY <1>2, <1>3

LEMMA BuildStep == ASSUME ReferenceInv, NEW t \in Beta, Refs!Build(t) PROVE ReferenceInv'
<1>1. worker[t].pc = "build" /\ UNCHANGED <<project, recs, row, dir, asked, asset, reused>>
  BY DEF Refs!Build, Refs!At
<1>2. PICK C \in SUBSET worker[t].recs, s \in Refs!Spaces :
        worker' = [worker EXCEPT ![t] = [worker[t] EXCEPT !.pc = "truncate", !.cands = C, !.space = s]]
  BY DEF Refs!Build
<1> DEFINE w == [worker[t] EXCEPT !.pc = "truncate", !.cands = C, !.space = s]
<1>3. w \in Worker /\ w.pc = "truncate" /\ w.run = worker[t].run /\ w.recs = worker[t].recs
        /\ w.cands = C /\ w.space = s
  BY <1>1, WorkerFacts DEF Worker, WorkPoint
<1>4. worker' = [worker EXCEPT ![t] = w]
  BY <1>2
<1> HIDE DEF w
<1>5. WorkerMoves(t, w)
  BY <1>1, <1>3, <1>4, WorkerFacts DEF WorkerMoves
<1> PICK n \in RunId : n = worker[t].run
  BY <1>1, WorkerFacts
<1>6. WorkerIsSound(t)' /\ (n \notin reused => RunIsWhole(n)')
  BY <1>1, <1>3, <1>4, WorkerFacts DEF WorkerIsSound, RunIsWhole
<1> QED BY <1>1, <1>5, <1>6, WorkerKeeps

LEMMA TruncateStep == ASSUME ReferenceInv, NEW t \in Beta, Refs!TruncateCandidates(t) PROVE ReferenceInv'
<1>1. worker[t].pc = "truncate" /\ UNCHANGED <<project, recs, row, asked, asset, reused>>
  BY DEF Refs!TruncateCandidates, Refs!At
<1> PICK n \in RunId : n = worker[t].run
  BY <1>1, WorkerFacts
<1>2. PICK w \in Worker :
        /\ worker' = [worker EXCEPT ![t] = w] /\ worker'[t] = w /\ w.pc = "candidates"
        /\ w.run = worker[t].run /\ w.recs = worker[t].recs /\ w.cands = worker[t].cands
        /\ w.space = worker[t].space
  <2>1. "candidates" \in WorkPoint /\ Refs!Goes(t, "candidates")
    BY DEF Refs!TruncateCandidates, WorkPoint
  <2> QED BY <1>1, <2>1, GoesWork
<1> DEFINE d == [dir[n] EXCEPT !.cands = Torn]
<1>3. d \in RunFiles /\ d.cands = Torn /\ d.emb = dir[n].emb
  <2>1. dir[n] \in RunFiles /\ worker[t] \in Worker /\ WorkerIsSound(t)
    BY <1>1, WorkerFacts
  <2>2. Torn \in {None, Torn} \cup SUBSET Alpha
    BY <1>1, <2>1 DEF Worker, WorkerIsSound, Refs!Vectors
  <2> QED BY <2>1, <2>2 DEF RunFiles
<1>4. dir' = [dir EXCEPT ![n] = d]
  BY DEF Refs!TruncateCandidates
<1> HIDE DEF d
<1>5. WorkerMoves(t, w)
  BY <1>1, <1>2, <1>3, <1>4, WorkerFacts DEF WorkerMoves
<1>6. WorkerIsSound(t)' /\ (n \notin reused => RunIsWhole(n)')
  BY <1>1, <1>2, <1>3, <1>4, WorkerFacts DEF WorkerIsSound, RunIsWhole
<1> QED BY <1>1, <1>5, <1>6, WorkerKeeps

LEMMA WriteCandidatesStep == ASSUME ReferenceInv, NEW t \in Beta, Refs!WriteCandidates(t) PROVE ReferenceInv'
<1>1. worker[t].pc = "candidates" /\ UNCHANGED <<project, recs, row, asked, asset, reused>>
  BY DEF Refs!WriteCandidates, Refs!At
<1> PICK n \in RunId : n = worker[t].run
  BY <1>1, WorkerFacts
<1>2. PICK w \in Worker :
        /\ worker' = [worker EXCEPT ![t] = w] /\ worker'[t] = w /\ w.pc = "embeddings"
        /\ w.run = worker[t].run /\ w.recs = worker[t].recs /\ w.cands = worker[t].cands
        /\ w.space = worker[t].space
  <2>1. "embeddings" \in WorkPoint /\ Refs!Goes(t, "embeddings")
    BY DEF Refs!WriteCandidates, WorkPoint
  <2> QED BY <1>1, <2>1, GoesWork
<1> DEFINE d == [dir[n] EXCEPT !.cands = worker[t].cands]
<1>3. d \in RunFiles /\ d.cands = worker[t].cands /\ d.emb = dir[n].emb
  <2>1. dir[n] \in RunFiles /\ worker[t] \in Worker /\ WorkerIsSound(t)
    BY <1>1, WorkerFacts
  <2>2. worker[t].cands \in {None, Torn} \cup SUBSET Alpha
    BY <1>1, <2>1 DEF Worker, WorkerIsSound, Refs!Vectors
  <2> QED BY <2>1, <2>2 DEF RunFiles
<1>4. dir' = [dir EXCEPT ![n] = d]
  BY DEF Refs!WriteCandidates
<1> HIDE DEF d
<1>5. WorkerMoves(t, w)
  BY <1>1, <1>2, <1>3, <1>4, WorkerFacts DEF WorkerMoves
<1>6. WorkerIsSound(t)' /\ (n \notin reused => RunIsWhole(n)')
  BY <1>1, <1>2, <1>3, <1>4, WorkerFacts DEF WorkerIsSound, RunIsWhole
<1> QED BY <1>1, <1>5, <1>6, WorkerKeeps

LEMMA WriteEmbeddingsStep == ASSUME ReferenceInv, NEW t \in Beta, Refs!WriteEmbeddings(t) PROVE ReferenceInv'
<1>1. worker[t].pc = "embeddings" /\ UNCHANGED <<project, recs, row, asked, asset, reused>>
  BY DEF Refs!WriteEmbeddings, Refs!At
<1> PICK n \in RunId : n = worker[t].run
  BY <1>1, WorkerFacts
<1>2. PICK w \in Worker :
        /\ worker' = [worker EXCEPT ![t] = w] /\ worker'[t] = w /\ w.pc = "complete"
        /\ w.run = worker[t].run /\ w.recs = worker[t].recs /\ w.cands = worker[t].cands
        /\ w.space = worker[t].space
  <2>1. "complete" \in WorkPoint /\ Refs!Goes(t, "complete")
    BY DEF Refs!WriteEmbeddings, WorkPoint
  <2> QED BY <1>1, <2>1, GoesWork
<1> DEFINE d == [dir[n] EXCEPT !.emb = [space |-> worker[t].space, of |-> worker[t].cands]]
<1>3. d \in RunFiles /\ d.emb = [space |-> worker[t].space, of |-> worker[t].cands] /\ d.cands = dir[n].cands
  <2>1. dir[n] \in RunFiles /\ worker[t] \in Worker /\ WorkerIsSound(t)
    BY <1>1, WorkerFacts
  <2>2. [space |-> worker[t].space, of |-> worker[t].cands] \in {None} \cup Refs!Vectors
    BY <1>1, <2>1 DEF Worker, WorkerIsSound, Refs!Vectors
  <2> QED BY <2>1, <2>2 DEF RunFiles
<1>4. dir' = [dir EXCEPT ![n] = d]
  BY DEF Refs!WriteEmbeddings
<1> HIDE DEF d
<1>5. WorkerMoves(t, w)
  BY <1>1, <1>2, <1>3, <1>4, WorkerFacts DEF WorkerMoves
<1>6. WorkerIsSound(t)' /\ (n \notin reused => RunIsWhole(n)')
  BY <1>1, <1>2, <1>3, <1>4, WorkerFacts DEF WorkerIsSound, RunIsWhole
<1> QED BY <1>1, <1>5, <1>6, WorkerKeeps

LEMMA CompleteRunStep == ASSUME ReferenceInv, NEW t \in Beta, Refs!Complete(t) PROVE ReferenceInv'
<1>1. worker[t].pc = "complete" /\ UNCHANGED <<project, recs, dir, asked, asset, reused>>
        /\ Refs!Ends(t)
  BY DEF Refs!Complete, Refs!At
<1> PICK n \in RunId : n = worker[t].run
  BY <1>1, WorkerFacts
<1>2. CASE row[n] = None
  <2>1. UNCHANGED row
    BY <1>2 DEF Refs!Complete, Refs!RowOf
  <2>2. WorkerMoves(t, Refs!NoThread) /\ WorkerIsSound(t)'
    BY <1>1, <2>1, EndsWork, WorkerFacts DEF WorkerMoves
  <2>3. n \notin reused => RunIsWhole(n)'
    BY <1>1, <2>1, WorkerFacts DEF RunIsWhole
  <2> QED BY <1>1, <2>2, <2>3, WorkerKeeps
<1>3. CASE row[n] # None
  <2> DEFINE r == [row[n] EXCEPT !.status = "completed", !.space = worker[t].space]
  <2>1. row' = [row EXCEPT ![n] = r]
    BY <1>3 DEF Refs!Complete, Refs!RowOf
  <2>2. r \in RunRow /\ r.space = worker[t].space /\ r.recs = row[n].recs
    <3>1. row[n] \in RunRow /\ worker[t] \in Worker
      BY <1>1, <1>3, WorkerFacts
    <3> QED BY <3>1 DEF RunRow, Worker, RunStatus
  <2> HIDE DEF r
  <2>3. WorkerMoves(t, Refs!NoThread) /\ WorkerIsSound(t)'
    BY <1>1, <2>1, <2>2, EndsWork, WorkerFacts DEF WorkerMoves
  <2>4. n \notin reused => RunIsWhole(n)'
    BY <1>1, <1>3, <2>1, <2>2, WorkerFacts DEF RunIsWhole, WorkerIsSound
  <2> QED BY <1>1, <2>3, <2>4, WorkerKeeps
<1> QED BY <1>2, <1>3

LEMMA FailRunStep == ASSUME ReferenceInv, NEW t \in Beta, Refs!Fail(t) PROVE ReferenceInv'
<1>1. worker[t].pc # "none" /\ UNCHANGED <<project, recs, dir, asked, asset, reused>>
        /\ Refs!Ends(t)
  BY DEF Refs!Fail
<1> PICK n \in RunId : n = worker[t].run
  BY <1>1, WorkerFacts
<1>2. PICK r \in {None} \cup RunRow : row' = [row EXCEPT ![n] = r] /\ (r # None => r.status # "completed")
  <2>1. CASE row[n] = None
    <3>1. row' = [row EXCEPT ![n] = None]
      BY <2>1, <1>1, WorkerFacts DEF Refs!Fail, Refs!RowOf
    <3> QED BY <3>1
  <2>2. CASE row[n] # None
    <3> DEFINE r == [row[n] EXCEPT !.status = "failed"]
    <3>1. row' = [row EXCEPT ![n] = r]
      BY <2>2 DEF Refs!Fail, Refs!RowOf
    <3>2. row[n] \in RunRow
      BY <1>1, <2>2, WorkerFacts
    <3>3. r \in RunRow /\ r.status # "completed"
      BY <3>2 DEF RunRow, RunStatus
    <3> QED BY <3>1, <3>3
  <2> QED BY <2>1, <2>2
<1>3. WorkerMoves(t, Refs!NoThread) /\ WorkerIsSound(t)'
  BY <1>1, <1>2, EndsWork, WorkerFacts DEF WorkerMoves
<1>4. RunIsWhole(n)'
  BY <1>1, <1>2, WorkerFacts DEF RunIsWhole
<1> QED BY <1>1, <1>3, <1>4, WorkerKeeps

(* A new run has an identifier of which no thread is at work, or one that  *)
(* counts as given out again from then on.                                 *)
LEMMA CreateRunStep == ASSUME ReferenceInv, NEW t \in Beta, Refs!CreateRun(t) PROVE ReferenceInv'
<1>1. PICK n \in Refs!FreeRunId, S \in SUBSET Refs!Present \ {{}} :
        /\ row' = [row EXCEPT ![n] = [status |-> "queued", recs |-> S, space |-> None]]
        /\ worker' = [worker EXCEPT ![t] = [Refs!NoThread EXCEPT !.pc = "start", !.run = n]]
        /\ reused' = IF \E u \in Beta : worker[u].run = n THEN reused \cup {n} ELSE reused
  BY DEF Refs!CreateRun
<1>2. /\ worker[t].pc = "none" /\ UNCHANGED <<project, recs, dir, asked, asset>>
      /\ n \in RunId /\ S \in SUBSET Alpha
      /\ worker \in [Beta -> Worker] /\ row \in [RunId -> {None} \cup RunRow]
  BY DEF Refs!CreateRun, Refs!FreeRunId, Refs!Present, ReferenceInv, RunShapes
<1> DEFINE w == [Refs!NoThread EXCEPT !.pc = "start", !.run = n]
           r == [status |-> "queued", recs |-> S, space |-> None]
<1>3. w \in Worker /\ w.pc = "start" /\ w.run = n
  BY <1>2 DEF Refs!NoThread, Worker, WorkPoint
<1>4. r \in RunRow /\ r.status = "queued"
  BY <1>2 DEF RunRow, RunStatus
<1>5. row' = [row EXCEPT ![n] = r] /\ worker' = [worker EXCEPT ![t] = w]
  BY <1>1
<1> HIDE DEF w, r
<1>6. /\ row'[n] = r /\ \A m \in RunId : m # n => row'[m] = row[m]
      /\ worker'[t] = w /\ \A u \in Beta : u # t => worker'[u] = worker[u]
      /\ reused \subseteq reused' /\ reused' \subseteq reused \cup {n}
      /\ n \notin reused' => \A u \in Beta : worker[u].run # n
  BY <1>1, <1>2, <1>5
<1>7. RunShapes'
  BY <1>2, <1>3, <1>4, <1>5, <1>6 DEF ReferenceInv, RunShapes
<1>8. ASSUME NEW u \in Beta PROVE WorkerIsSound(u)'
  <2>1. CASE u = t
    BY <1>2, <1>3, <1>4, <1>6, <2>1 DEF WorkerIsSound
  <2>2. CASE u # t
    <3>1. worker'[u] = worker[u] /\ WorkerIsSound(u)
      BY <1>6, <2>2 DEF ReferenceInv, RunInv
    <3>2. worker[u].run \notin reused' => worker[u].run # n
      BY <1>6
    <3> QED BY <1>2, <1>6, <3>1, <3>2 DEF WorkerIsSound
  <2> QED BY <2>1, <2>2
<1>9. OneWriter'
  BY <1>3, <1>6 DEF ReferenceInv, RunInv, OneWriter
<1>10. ASSUME NEW m \in RunId \ reused' PROVE RunIsWhole(m)'
  BY <1>2, <1>4, <1>6, <1>10 DEF ReferenceInv, RunInv, RunIsWhole
<1>11. AssetInv'
  BY <1>2 DEF ReferenceInv, AssetInv, AskedIsSound, Refs!AssetsArePlayable
<1> QED BY <1>7, <1>8, <1>9, <1>10, <1>11 DEF ReferenceInv, RunInv

-----------------------------------------------------------------------------
LEMMA AskedFacts ==
  ASSUME ReferenceInv, NEW q \in Gamma
  PROVE  /\ asked[q] \in AskedCall /\ AskedIsSound(q) /\ asked \in [Gamma -> AskedCall]
         /\ asset \in [Asset -> AssetState] /\ Refs!AssetsArePlayable
         /\ row \in [RunId -> {None} \cup RunRow] /\ dir \in [RunId -> RunFiles]
         /\ Refs!NoRequest \in AskedCall /\ Refs!NoRequest.pc = "none" /\ Refs!NoRequest.emb = None
  BY DEF ReferenceInv, RunShapes, AssetInv, Refs!NoRequest, AskedCall, AskedPoint

(* A request that leaves the assets alone.                                 *)
LEMMA AskedGoes ==
  ASSUME ReferenceInv, NEW q \in Gamma, NEW a \in AskedCall, Refs!Sets(q, a),
         UNCHANGED <<project, recs, row, dir, worker, asset, reused>>
  PROVE  asked'[q] = a /\ (AskedIsSound(q)' => ReferenceInv')
<1>1. asked'[q] = a /\ asset' = asset
  BY AskedFacts DEF Refs!Sets
<1>2. AskedMoves(q, a) /\ Refs!AssetsArePlayable'
  BY AskedFacts DEF AskedMoves, Refs!Sets, Refs!AssetsArePlayable
<1> QED BY <1>1, <1>2, AskedKeeps

LEMMA LeavesStep ==
  ASSUME ReferenceInv, NEW q \in Gamma, Refs!Leaves(q),
         UNCHANGED <<project, recs, row, dir, worker, asset, reused>>
  PROVE  ReferenceInv'
<1>1. asked'[q] = Refs!NoRequest /\ (AskedIsSound(q)' => ReferenceInv')
  BY AskedFacts, AskedGoes DEF Refs!Leaves
<1> QED BY <1>1, AskedFacts DEF AskedIsSound

LEMMA PromoteReadStep ==
  ASSUME ReferenceInv, NEW q \in Gamma, NEW n \in RunId, NEW r \in Alpha, NEW e \in Asset,
         Refs!PromoteRead(q, n, r, e)
  PROVE  ReferenceInv'
<1> DEFINE a == [Refs!NoRequest EXCEPT !.pc = "crop", !.run = n, !.cand = r, !.asset = e]
<1>1. a \in AskedCall /\ a.pc = "crop" /\ a.asset = e
  BY AskedFacts DEF AskedCall, AskedPoint
<1>2. Refs!Sets(q, a) /\ UNCHANGED <<project, recs, row, dir, worker, asset, reused>>
  BY DEF Refs!PromoteRead
<1> HIDE DEF a
<1>3. asked'[q] = a /\ (AskedIsSound(q)' => ReferenceInv')
  BY <1>1, <1>2, AskedGoes
<1> QED BY <1>1, <1>3 DEF AskedIsSound

(* A request that writes the state x of the asset e.                       *)
LEMMA AssetWritten ==
  ASSUME ReferenceInv, NEW q \in Gamma, NEW a \in AskedCall, Refs!Sets(q, a),
         NEW e \in Asset, NEW x \in AssetState, asset' = [asset EXCEPT ![e] = x],
         UNCHANGED <<project, recs, row, dir, worker, reused>>,
         asset[e].file => x.file, asset[e].artifact = "v1" => x.artifact = "v1",
         x.row # None => x.file /\ (x.row = "ready" => x.artifact = "v1")
  PROVE  asked'[q] = a /\ asset'[e] = x /\ (AskedIsSound(q)' => ReferenceInv')
<1>1. asked'[q] = a /\ asset'[e] = x
  BY AskedFacts DEF Refs!Sets
<1>2. AskedMoves(q, a) /\ Refs!AssetsArePlayable'
  <2>1. AskedMoves(q, a)
    BY AskedFacts DEF AskedMoves, Refs!Sets
  <2>2. "v1" # None
    BY ReferencesAssumption DEF Refs!Spaces
  <2> QED BY <2>1, <2>2, AskedFacts DEF Refs!AssetsArePlayable
<1> QED BY <1>1, <1>2, AskedKeeps

LEMMA PromoteCropStep ==
  ASSUME ReferenceInv, NEW q \in Gamma, Refs!PromoteCrop(q)
  PROVE  ReferenceInv'
<1>1. asked[q].pc = "crop" /\ UNCHANGED <<project, recs, row, dir, worker, reused>>
  BY DEF Refs!PromoteCrop, Refs!Here
<1>2. CASE Refs!Leaves(q) /\ UNCHANGED asset
  BY <1>1, <1>2, LeavesStep
<1>3. CASE /\ asset' = [asset EXCEPT ![asked[q].asset].file = TRUE]
           /\ Refs!Sets(q, [asked[q] EXCEPT !.pc = "embed"])
  <2> DEFINE a == [asked[q] EXCEPT !.pc = "embed"]
  <2> PICK e \in Asset : e = asked[q].asset
    BY <1>1, AskedFacts DEF AskedIsSound
  <2> DEFINE x == [asset[e] EXCEPT !.file = TRUE]
  <2>1. a \in AskedCall /\ a.pc = "embed" /\ a.asset = e
    BY AskedFacts DEF AskedCall, AskedPoint
  <2>2. x \in AssetState /\ x.file /\ x.row = asset[e].row /\ x.artifact = asset[e].artifact
    BY AskedFacts, ZenonT(60) DEF AssetState
  <2>3. Refs!Sets(q, a) /\ asset' = [asset EXCEPT ![e] = x]
    BY <1>3
  <2> HIDE DEF a, x
  <2>4. x.row = "ready" => x.artifact = "v1"
    BY <2>2, AskedFacts, ReferencesAssumption DEF Refs!AssetsArePlayable, AssetState, Refs!Spaces
  <2>5. asked'[q] = a /\ asset'[e] = x /\ (AskedIsSound(q)' => ReferenceInv')
    BY <1>1, <2>1, <2>2, <2>3, <2>4, AssetWritten
  <2> QED BY <2>1, <2>2, <2>5 DEF AskedIsSound
<1> QED BY <1>2, <1>3 DEF Refs!PromoteCrop

LEMMA PromoteEmbedStep ==
  ASSUME ReferenceInv, NEW q \in Gamma, Refs!PromoteEmbed(q)
  PROVE  ReferenceInv'
<1>1. asked[q].pc = "embed" /\ UNCHANGED <<project, recs, row, dir, worker, reused>>
  BY DEF Refs!PromoteEmbed, Refs!Here
<1> PICK e \in Asset : e = asked[q].asset
  BY <1>1, AskedFacts DEF AskedIsSound
<1>2. PICK ok \in BOOLEAN :
        /\ asset' = IF ok THEN [asset EXCEPT ![e].artifact = "v1"] ELSE asset
        /\ Refs!Sets(q, [asked[q] EXCEPT !.pc = "commit", !.ready = ok])
  BY DEF Refs!PromoteEmbed
<1> DEFINE a == [asked[q] EXCEPT !.pc = "commit", !.ready = ok]
           x == IF ok THEN [asset[e] EXCEPT !.artifact = "v1"] ELSE asset[e]
<1>3. a \in AskedCall /\ a.pc = "commit" /\ a.asset = e /\ a.ready = ok
  BY AskedFacts DEF AskedCall, AskedPoint
<1>4. /\ x \in AssetState /\ x.file = asset[e].file /\ x.row = asset[e].row
      /\ x.artifact = IF ok THEN "v1" ELSE asset[e].artifact
  BY AskedFacts DEF AssetState
<1>5. Refs!Sets(q, a) /\ asset' = [asset EXCEPT ![e] = x]
  BY <1>2, AskedFacts
<1> HIDE DEF a, x
<1>6. asset[e].file
  BY <1>1, AskedFacts DEF AskedIsSound
<1>7. x.row = "ready" => x.artifact = "v1"
  BY <1>4, AskedFacts, ReferencesAssumption DEF Refs!AssetsArePlayable, AssetState, Refs!Spaces
<1>8. asked'[q] = a /\ asset'[e] = x /\ (AskedIsSound(q)' => ReferenceInv')
  BY <1>1, <1>3, <1>4, <1>5, <1>6, <1>7, AssetWritten
<1> QED BY <1>3, <1>4, <1>6, <1>8 DEF AskedIsSound

LEMMA PromoteCommitStep ==
  ASSUME ReferenceInv, NEW q \in Gamma, Refs!PromoteCommit(q)
  PROVE  ReferenceInv'
<1>1. asked[q].pc = "commit" /\ UNCHANGED <<project, recs, row, dir, worker, reused>>
  BY DEF Refs!PromoteCommit, Refs!Here
<1> PICK e \in Asset : e = asked[q].asset
  BY <1>1, AskedFacts DEF AskedIsSound
<1> DEFINE s == IF asked[q].ready THEN "ready" ELSE "failed"
           x == [asset[e] EXCEPT !.row = s]
<1>2. /\ x \in AssetState /\ x.file = asset[e].file /\ x.row = s
      /\ x.artifact = asset[e].artifact
  BY AskedFacts DEF AssetState
<1>3. Refs!Sets(q, Refs!NoRequest) /\ asset' = [asset EXCEPT ![e] = x]
  BY DEF Refs!PromoteCommit, Refs!Leaves
<1> HIDE DEF x
<1>4. asset[e].file /\ (asked[q].ready => asset[e].artifact = "v1")
  BY <1>1, AskedFacts DEF AskedIsSound
<1>5. asked'[q] = Refs!NoRequest /\ (AskedIsSound(q)' => ReferenceInv')
  BY <1>1, <1>2, <1>3, <1>4, AssetWritten, AskedFacts
<1> QED BY <1>5, AskedFacts DEF AskedIsSound

LEMMA RerankCandidatesStep ==
  ASSUME ReferenceInv, NEW q \in Gamma, NEW n \in RunId, NEW e \in Asset \cup {None},
         Refs!RerankCandidates(q, n, e)
  PROVE  ReferenceInv'
<1>1. UNCHANGED <<project, recs, row, dir, worker, asset, reused>>
  BY DEF Refs!RerankCandidates
<1> DEFINE C == IF dir[n].cands = None THEN {} ELSE dir[n].cands
           a == [Refs!NoRequest EXCEPT !.pc = "vectors", !.run = n, !.asset = e, !.cands = C]
<1>2. C \in SUBSET Alpha
  <2>1. dir[n] \in RunFiles /\ dir[n].cands # Torn
    BY AskedFacts DEF Refs!RerankCandidates
  <2> QED BY <2>1 DEF RunFiles
<1>3. Refs!Sets(q, a)
  BY DEF Refs!RerankCandidates
<1> HIDE DEF C
<1>4. a \in AskedCall /\ a.pc = "vectors" /\ a.run = n
  BY <1>2, AskedFacts DEF AskedCall, AskedPoint
<1> HIDE DEF a
<1>5. asked'[q] = a /\ (AskedIsSound(q)' => ReferenceInv')
  BY <1>1, <1>3, <1>4, AskedGoes
<1> QED BY <1>4, <1>5 DEF AskedIsSound

LEMMA RerankVectorsStep ==
  ASSUME ReferenceInv, NEW q \in Gamma, Refs!RerankVectors(q)
  PROVE  ReferenceInv'
<1> DEFINE emb == IF dir[asked[q].run].emb = None THEN Refs!NoVectors ELSE dir[asked[q].run].emb
<1>1. asked[q].pc = "vectors" /\ UNCHANGED <<project, recs, row, dir, worker, asset, reused>>
  BY DEF Refs!RerankVectors, Refs!Here
<1>2. emb \in Refs!Vectors
  <2>1. dir[asked[q].run] \in RunFiles
    BY <1>1, AskedFacts DEF AskedIsSound
  <2>2. Refs!NoVectors \in Refs!Vectors
    BY DEF Refs!NoVectors, Refs!Vectors, Refs!Spaces
  <2> QED BY <2>1, <2>2 DEF RunFiles
<1>3. CASE asked[q].cands \subseteq emb.of
  <2> DEFINE pc == IF asked[q].asset = None \/ asked[q].cands = {} THEN "answer" ELSE "anchor"
             a  == [asked[q] EXCEPT !.emb = emb, !.pc = pc]
  <2>1. Refs!Sets(q, a)
    BY <1>3 DEF Refs!RerankVectors
  <2> HIDE DEF emb
  <2>2. /\ a \in AskedCall /\ a.pc = pc /\ a.emb = emb /\ a.cands = asked[q].cands
        /\ a.asset = asked[q].asset
    BY <1>2, AskedFacts DEF AskedCall, AskedPoint
  <2> HIDE DEF a
  <2>3. asked'[q] = a /\ (AskedIsSound(q)' => ReferenceInv')
    BY <1>1, <2>1, <2>2, AskedGoes
  <2>4. asked[q].asset \in Asset \cup {None}
    BY AskedFacts DEF AskedCall
  <2> QED BY <1>2, <1>3, <2>2, <2>3, <2>4 DEF AskedIsSound
<1>4. CASE ~(asked[q].cands \subseteq emb.of)
  <2>1. Refs!Leaves(q)
    BY <1>4 DEF Refs!RerankVectors
  <2> QED BY <1>1, <2>1, LeavesStep
<1> QED BY <1>3, <1>4

LEMMA RerankAnchorStep ==
  ASSUME ReferenceInv, NEW q \in Gamma, Refs!RerankAnchor(q)
  PROVE  ReferenceInv'
<1>1. asked[q].pc = "anchor" /\ UNCHANGED <<project, recs, row, dir, worker, reused>>
  BY DEF Refs!RerankAnchor, Refs!Here
<1> PICK e \in Asset : e = asked[q].asset
  BY <1>1, AskedFacts DEF AskedIsSound
<1>2. asked[q].emb \in Refs!Vectors /\ asked[q].cands \subseteq asked[q].emb.of
  BY <1>1, AskedFacts DEF AskedIsSound
<1>3. CASE /\ asset[e].artifact = asked[q].emb.space
           /\ Refs!Sets(q, [asked[q] EXCEPT !.pc = "answer"])
           /\ UNCHANGED asset
  <2> DEFINE a == [asked[q] EXCEPT !.pc = "answer"]
  <2>1. /\ a \in AskedCall /\ a.pc = "answer" /\ a.emb = asked[q].emb /\ a.cands = asked[q].cands
        /\ a.asset = e
    BY AskedFacts DEF AskedCall, AskedPoint
  <2>2. Refs!Sets(q, a)
    BY <1>3
  <2> HIDE DEF a
  <2>3. asked'[q] = a /\ (AskedIsSound(q)' => ReferenceInv')
    BY <1>1, <1>3, <2>1, <2>2, AskedGoes
  <2> QED BY <1>2, <1>3, <2>1, <2>3 DEF AskedIsSound
<1>4. CASE /\ asset[e].row = "failed" /\ asked[q].emb.space = "v1"
           /\ asset' = [asset EXCEPT ![e].artifact = "v1"]
           /\ Refs!Sets(q, [asked[q] EXCEPT !.pc = "cached"])
  <2> DEFINE a == [asked[q] EXCEPT !.pc = "cached"]
             x == [asset[e] EXCEPT !.artifact = "v1"]
  <2>1. /\ a \in AskedCall /\ a.pc = "cached" /\ a.emb = asked[q].emb /\ a.cands = asked[q].cands
        /\ a.asset = e
    BY AskedFacts DEF AskedCall, AskedPoint
  <2>2. x \in AssetState /\ x.file = asset[e].file /\ x.row = asset[e].row /\ x.artifact = "v1"
    BY AskedFacts DEF AssetState
  <2>3. Refs!Sets(q, a) /\ asset' = [asset EXCEPT ![e] = x]
    BY <1>4
  <2> HIDE DEF a, x
  <2>4. x.row # None => x.file
    BY <2>2, AskedFacts DEF Refs!AssetsArePlayable
  <2>5. asked'[q] = a /\ asset'[e] = x /\ (AskedIsSound(q)' => ReferenceInv')
    BY <1>1, <2>1, <2>2, <2>3, <2>4, AssetWritten
  <2> QED BY <1>2, <1>4, <2>1, <2>2, <2>5 DEF AskedIsSound
<1>5. CASE Refs!Leaves(q) /\ UNCHANGED asset
  BY <1>1, <1>5, LeavesStep
<1> QED BY <1>3, <1>4, <1>5 DEF Refs!RerankAnchor

LEMMA RerankCommitStep ==
  ASSUME ReferenceInv, NEW q \in Gamma, Refs!RerankCommit(q)
  PROVE  ReferenceInv'
<1>1. asked[q].pc = "cached" /\ UNCHANGED <<project, recs, row, dir, worker, reused>>
  BY DEF Refs!RerankCommit, Refs!Here
<1> PICK e \in Asset : e = asked[q].asset
  BY <1>1, AskedFacts DEF AskedIsSound
<1>2. /\ asked[q].emb \in Refs!Vectors /\ asked[q].cands \subseteq asked[q].emb.of
      /\ asset[e].artifact = asked[q].emb.space /\ asset[e] \in AssetState
  BY <1>1, AskedFacts DEF AskedIsSound
<1>3. CASE asset[e].row = None
  <2>1. Refs!Leaves(q) /\ UNCHANGED asset
    BY <1>3 DEF Refs!RerankCommit
  <2> QED BY <1>1, <2>1, LeavesStep
<1>4. CASE asset[e].row # None
  <2> DEFINE a == [asked[q] EXCEPT !.pc = "answer"]
             x == [asset[e] EXCEPT !.row = "ready"]
  <2>1. /\ a \in AskedCall /\ a.pc = "answer" /\ a.emb = asked[q].emb /\ a.cands = asked[q].cands
        /\ a.asset = e
    BY AskedFacts DEF AskedCall, AskedPoint
  <2>2. x \in AssetState /\ x.file = asset[e].file /\ x.row = "ready"
          /\ x.artifact = asset[e].artifact
    BY <1>2 DEF AssetState
  <2>3. Refs!Sets(q, a) /\ asset' = [asset EXCEPT ![e] = x]
    BY <1>4 DEF Refs!RerankCommit
  <2> HIDE DEF a, x
  <2>4. asset[e].file /\ asset[e].artifact = "v1"
    <3>1. asset[e].file
      BY <1>4, AskedFacts DEF Refs!AssetsArePlayable
    <3>2. asset[e].artifact \in {None, "v1"} /\ asked[q].emb.space \in Refs!Spaces
      BY <1>2 DEF AssetState, Refs!Vectors
    <3> QED BY <1>2, <3>1, <3>2, ReferencesAssumption
  <2>5. asked'[q] = a /\ asset'[e] = x /\ (AskedIsSound(q)' => ReferenceInv')
    BY <1>1, <2>1, <2>2, <2>3, <2>4, AssetWritten
  <2> QED BY <1>2, <2>1, <2>2, <2>5 DEF AskedIsSound
<1> QED BY <1>3, <1>4

LEMMA AnswerStep == ASSUME ReferenceInv, NEW q \in Gamma, Refs!Answer(q) PROVE ReferenceInv'
BY LeavesStep DEF Refs!Answer

-----------------------------------------------------------------------------
(* Steps of no thread and no request.                                      *)
LEMMA RestReferences ==
  ASSUME ReferenceInv,
         \/ \E r \in Alpha : Refs!CreateRecording(r)
         \/ Refs!DeleteProject \/ Refs!CreateProject \/ Refs!Crash
  PROVE  ReferenceInv'
<1>1. CASE \E r \in Alpha : Refs!CreateRecording(r)
  <2>1. RunShapes'
    BY <1>1 DEF ReferenceInv, RunShapes, Refs!CreateRecording
  <2>2. UNCHANGED <<row, dir, worker, asked, asset, reused>>
    BY <1>1 DEF Refs!CreateRecording
  <2> QED BY <2>1, <2>2 DEF ReferenceInv, RunInv, AssetInv, WorkerIsSound, OneWriter, RunIsWhole,
                            AskedIsSound, Refs!AssetsArePlayable
<1>2. CASE Refs!DeleteProject
  <2>1. /\ UNCHANGED <<dir, worker, asked, reused>> /\ project' = FALSE
        /\ row' = [n \in RunId |-> None]
        /\ recs' = [r \in Alpha |-> IF recs[r] = "row" THEN "gone" ELSE recs[r]]
        /\ asset' = [e \in Asset |-> [asset[e] EXCEPT !.row = None]]
    BY <1>2 DEF Refs!DeleteProject
  <2>2. \A e \in Asset : /\ asset'[e] \in AssetState /\ asset'[e].row = None
                         /\ asset'[e].file = asset[e].file /\ asset'[e].artifact = asset[e].artifact
    <3>1. asset \in [Asset -> AssetState]
      BY DEF ReferenceInv, RunShapes
    <3> QED BY <2>1, <3>1 DEF AssetState
  <2>3. RunShapes'
    BY <2>1, <2>2 DEF ReferenceInv, RunShapes
  <2>4. RunInv'
    BY <2>1 DEF ReferenceInv, RunShapes, RunInv, WorkerIsSound, OneWriter, RunIsWhole
  <2>5. \A q \in Gamma : AskedIsSound(q) /\ asked[q] \in AskedCall
    BY DEF ReferenceInv, AssetInv, RunShapes
  <2>6. \A q \in Gamma : AskedIsSound(q)'
    BY <2>1, <2>2, <2>5 DEF AskedIsSound, AskedCall
  <2>7. Refs!AssetsArePlayable'
    BY <2>2 DEF Refs!AssetsArePlayable
  <2> QED BY <2>3, <2>4, <2>6, <2>7 DEF ReferenceInv, AssetInv
<1>3. CASE Refs!CreateProject
  <2>1. UNCHANGED <<recs, row, dir, worker, asked, asset, reused>> /\ project' = TRUE
    BY <1>3 DEF Refs!CreateProject
  <2> QED BY <2>1 DEF ReferenceInv, RunShapes, RunInv, AssetInv, WorkerIsSound, OneWriter, RunIsWhole,
                      AskedIsSound, Refs!AssetsArePlayable
<1>4. CASE Refs!Crash
  <2>1. /\ UNCHANGED <<project, recs, row, dir, asset, reused>>
        /\ worker' = [t \in Beta |-> Refs!NoThread]
        /\ asked' = [q \in Gamma |-> Refs!NoRequest]
    BY <1>4 DEF Refs!Crash
  <2>2. /\ Refs!NoThread \in Worker /\ Refs!NoThread.pc = "none"
        /\ Refs!NoRequest \in AskedCall /\ Refs!NoRequest.pc = "none"
    BY DEF Refs!NoThread, Refs!NoRequest, Worker, AskedCall, WorkPoint, AskedPoint
  <2>3. /\ \A t \in Beta : worker'[t].pc = "none"
        /\ \A q \in Gamma : asked'[q].pc = "none"
    BY <2>1, <2>2
  <2>4. RunShapes'
    BY <2>1, <2>2 DEF ReferenceInv, RunShapes
  <2> QED BY <2>1, <2>3, <2>4
          DEF ReferenceInv, RunInv, AssetInv, WorkerIsSound, OneWriter, RunIsWhole,
              AskedIsSound, Refs!AssetsArePlayable
<1> QED BY <1>1, <1>2, <1>3, <1>4

LEMMA StepReferences == ASSUME ReferenceInv, [Refs!Next]_refs PROVE ReferenceInv'
<1>1. CASE UNCHANGED refs
  <2>1. UNCHANGED <<project, recs, row, dir, worker, asked, asset, reused>>
    BY <1>1 DEF refs
  <2> QED BY <2>1 DEF ReferenceInv, RunShapes, RunInv, AssetInv, WorkerIsSound, OneWriter, RunIsWhole,
                      AskedIsSound, Refs!AssetsArePlayable
<1>2. ASSUME NEW t \in Beta,
             \/ Refs!CreateRun(t) \/ Refs!Start(t) \/ Refs!Build(t) \/ Refs!TruncateCandidates(t)
             \/ Refs!WriteCandidates(t) \/ Refs!WriteEmbeddings(t) \/ Refs!Complete(t)
             \/ Refs!Fail(t)
      PROVE  ReferenceInv'
  BY <1>2, CreateRunStep, StartWorkStep, BuildStep, TruncateStep, WriteCandidatesStep,
     WriteEmbeddingsStep, CompleteRunStep, FailRunStep
<1>3. ASSUME NEW q \in Gamma,
             \/ \E n \in RunId, r \in Alpha, a \in Asset : Refs!PromoteRead(q, n, r, a)
             \/ \E n \in RunId, a \in Asset \cup {None} : Refs!RerankCandidates(q, n, a)
      PROVE  ReferenceInv'
  BY <1>3, PromoteReadStep, RerankCandidatesStep
<1>4. ASSUME NEW q \in Gamma,
             \/ Refs!PromoteCrop(q) \/ Refs!PromoteEmbed(q) \/ Refs!PromoteCommit(q)
             \/ Refs!RerankVectors(q) \/ Refs!RerankAnchor(q) \/ Refs!RerankCommit(q)
             \/ Refs!Answer(q)
      PROVE  ReferenceInv'
  BY <1>4, PromoteCropStep, PromoteEmbedStep, PromoteCommitStep, RerankVectorsStep,
     RerankAnchorStep, RerankCommitStep, AnswerStep
<1> QED BY <1>1, <1>2, <1>3, <1>4, RestReferences DEF Refs!Next

LEMMA InitReferences == ASSUME Refs!Init PROVE ReferenceInv
<1>1. /\ Refs!NoThread \in Worker /\ Refs!NoThread.pc = "none"
      /\ Refs!NoRequest \in AskedCall /\ Refs!NoRequest.pc = "none"
      /\ Refs!EmptyDir \in RunFiles /\ Refs!NoAsset \in AssetState /\ Refs!NoAsset.row = None
  BY DEF Refs!NoThread, Refs!NoRequest, Refs!EmptyDir, Refs!NoAsset, Worker, AskedCall, WorkPoint,
         AskedPoint, RunFiles, AssetState
<1>2. RunShapes
  BY <1>1 DEF Refs!Init, RunShapes
<1> QED BY <1>1, <1>2 DEF Refs!Init, ReferenceInv, RunInv, AssetInv, WorkerIsSound, OneWriter, RunIsWhole,
                          AskedIsSound, Refs!AssetsArePlayable

LEMMA WholeReferences == ASSUME ReferenceInv PROVE Refs!ReferencesAreWhole
<1>1. Refs!CompletedRunIsWhole
  BY DEF ReferenceInv, RunInv, RunIsWhole, Refs!CompletedRunIsWhole
<1>2. Refs!AnswersAreCoherent
  BY DEF ReferenceInv, AssetInv, AskedIsSound, Refs!AnswersAreCoherent
<1> QED BY <1>1, <1>2 DEF ReferenceInv, AssetInv, Refs!ReferencesAreWhole

LEMMA TypedReferences == ASSUME ReferenceInv PROVE Refs!TypeOK
BY DEF ReferenceInv, RunShapes, RunRow, RunStatus, RunFiles, Worker, AssetState, Refs!TypeOK

(* The candidates and the embeddings of a completed reference run are of   *)
(* the same recordings, unless its identifier was given out a second time; *)
(* an asset that has a row can be played; and what answers a rerank is of  *)
(* one embedding space (repository.py): for any number of runs, threads,   *)
(* requests and assets, whatever deletions, failures and deaths come       *)
(* between.                                                                *)
THEOREM ReferencesStayWhole == Spec => []ReferencesAreWhole
<1>1. Init => ReferenceInv
  BY InitReferences DEF Init
<1>2. ReferenceInv /\ [Next]_vars => ReferenceInv'
  <2>1. [Next]_vars => [Refs!Next]_refs
    BY DEF Next, vars
  <2> QED BY <2>1, StepReferences
<1>3. ReferenceInv => ReferencesAreWhole
  BY WholeReferences DEF ReferencesAreWhole
<1> QED BY <1>1, <1>2, <1>3, PTL DEF Spec

-----------------------------------------------------------------------------
(* Decisions about the clips of a dataset run (Qual is the module          *)
(* DatasetQc): the files, the worker and the call that finalizes.          *)
JobRow    == [kind : {"slicer", "scores", "export", "process"}, stop : 1 .. 4, left : Seq(StepName),
              cut : SUBSET Qual!Clips]
CandFile == [gen : 1 .. MaxGen, clips : 0 .. MaxClips]
ClipList == [gen : 1 .. MaxGen, clips : SUBSET Qual!Clips]
CutList  == [gen : 1 .. MaxGen, clips : SUBSET Qual!Clips, uncut : SUBSET Qual!Clips]
CutClips == [gen : 1 .. MaxGen, cut : SUBSET Qual!Clips]
ReadCall  == [pc : {"manifest", "transcript", "speaker", "judge"}, cand : CandFile \cup {None},
              tq : TextFile \cup {None}, sp : VoiceFile \cup {None}]
WriteCall == [pc : {"write", "writing"}, new : DecisionFile]
ClearCall == [pc : {"clear-manifest", "clear-summary", "clear-clips"}]

QualityShapes ==
  /\ cand \in CandFile \cup {None}
  /\ tq \in TextFile \cup {None, Torn}
  /\ sp \in VoiceFile \cup {None, Torn}
  /\ rank \in {None, "stands", "outdated"}
  /\ qc \in DecisionFile \cup {None, Torn}
  /\ exp \in [manifest : CutList \cup {None, Torn}, summary : ClipList \cup {None, Torn},
              clips : CutClips \cup {None}]
  /\ job \in JobRow \cup {None}
  /\ decision \in ReadCall \cup WriteCall \cup ClearCall \cup {None}
  /\ done \in 0 .. 4

Ahead == Len(job.left)

(* What is left of a worker's steps is the end of them.                    *)
JobIsPlanned ==
  job # None =>
    LET all == Qual!Steps(job.kind, job.stop) IN
    /\ job.kind \in {"slicer", "scores"} => job.stop = 3
    /\ job.kind = "export" => job.stop = 4
    /\ Ahead <= Len(all)
    /\ \A j \in 1 .. Ahead : job.left[j] = all[Len(all) - Ahead + j]

(* What a worker has cleared is gone until it is made again.               *)
JobHasCleared ==
  job # None =>
    /\ done = 0
    /\ job.kind = "slicer" => /\ Ahead <= 8 => qc = None
                              /\ Ahead \in 1 .. 9 => rank = None
    /\ job.kind = "scores" => /\ Ahead <= 6 => qc = None
                              /\ Ahead \in 1 .. 7 => rank = None
    /\ rank = "outdated" =>
         job.kind = "process" /\ ~(job.stop = 3 /\ Ahead = 0) /\ ~(job.stop = 4 /\ Ahead <= 4)

(* What an export has cut is of what it was to export, and its files say   *)
(* so one after the other.                                                 *)
JobHasExported ==
  job # None /\ job.stop = 4 =>
    /\ Ahead <= 2 => job.cut \subseteq Qual!Exportable(qc) /\ exp.clips = Qual!Cut(job.cut)
    /\ Ahead <= 1 => exp.manifest = Qual!Manifest(job.cut)
    /\ Ahead = 0  => exp.summary = Qual!Summary(job.cut)

ExportStands ==
  \/ exp = Qual!NoExport
  \/ \E made \in SUBSET Qual!Exportable(qc) :
       /\ exp.manifest = Qual!Manifest(made) /\ exp.summary = Qual!Summary(made)
       /\ exp.clips = Qual!Cut(made)

(* What a finalization has read is what stands.                            *)
CallIsTrue ==
  decision # None =>
    /\ cand # None /\ tq # None /\ sp # None
    /\ decision.pc \in {"transcript", "speaker", "judge"} => decision.cand = cand
    /\ decision.pc \in {"speaker", "judge"} => decision.tq = tq
    /\ decision.pc = "judge" => decision.sp = sp
    /\ decision.pc \in {"write", "writing"} =>
         LET new == decision.new IN
         /\ new.gen = cand.gen /\ new.tq = tq /\ new.sp = sp /\ tq # Torn /\ sp # Torn
         /\ new.kept \subseteq Qual!Listed
         /\ \A c \in new.accepted \ new.kept : c \in new.tq.good \cap new.sp.good /\ new.sp.calibrated
    /\ decision.pc \in {"clear-summary", "clear-clips"} => exp.manifest = None
    /\ decision.pc = "clear-clips" => exp.summary = None
    /\ decision.pc = "writing" => qc = Torn

QualityIsSound ==
  /\ QualityShapes
  /\ job = None \/ decision = None
  /\ JobIsPlanned /\ JobHasCleared /\ JobHasExported /\ CallIsTrue
  /\ Qual!DecidedOnWhatStands
  /\ job = None => rank # "outdated"
  /\ done = 4 /\ job = None /\ (decision = None \/ decision.pc \notin Qual!Halfway) => ExportStands

QualityInv == beyond = "nothing" => QualityIsSound

(* The steps of each kind of worker, one by one.                           *)
LEMMA FirstOf ==
  ASSUME NEW s \in Seq(StepName), NEW t \in Seq(StepName), NEW i \in 1 .. Len(s)
  PROVE  (s \o t)[i] = s[i]
  OBVIOUS

LEMMA SecondOf ==
  ASSUME NEW s \in Seq(StepName), NEW t \in Seq(StepName), NEW i \in 1 .. Len(t),
         NEW j, j = Len(s) + i
  PROVE  (s \o t)[j] = t[i]
  OBVIOUS

LEMMA SlicerTable ==
  LET s == Qual!Steps("slicer", 3) IN
  /\ Len(s) = 12
  /\ s[1] = "-transcript" /\ s[2] = "-speaker" /\ s[3] = "-rank" /\ s[4] = "-qc"
  /\ s[5] = "-manifest" /\ s[6] = "-summary" /\ s[7] = "-clips" /\ s[8] = "aside"
  /\ s[9] = "slice" /\ s[10] = "+transcript" /\ s[11] = "+speaker" /\ s[12] = "+rank"
<1> DEFINE s == Qual!Steps("slicer", 3)
<1>1. Len(s) = 12
  BY DEF Qual!Steps, Qual!Cleared, Qual!ClearedExport, Qual!Sliced, Qual!Scored, Qual!Exported
<1>2. s[1] = "-transcript"
  BY DEF Qual!Steps, Qual!Cleared, Qual!ClearedExport, Qual!Sliced, Qual!Scored, Qual!Exported
<1>3. s[2] = "-speaker"
  BY DEF Qual!Steps, Qual!Cleared, Qual!ClearedExport, Qual!Sliced, Qual!Scored, Qual!Exported
<1>4. s[3] = "-rank"
  BY DEF Qual!Steps, Qual!Cleared, Qual!ClearedExport, Qual!Sliced, Qual!Scored, Qual!Exported
<1>5. s[4] = "-qc"
  BY DEF Qual!Steps, Qual!Cleared, Qual!ClearedExport, Qual!Sliced, Qual!Scored, Qual!Exported
<1>6. s[5] = "-manifest"
  BY DEF Qual!Steps, Qual!Cleared, Qual!ClearedExport, Qual!Sliced, Qual!Scored, Qual!Exported
<1>7. s[6] = "-summary"
  BY DEF Qual!Steps, Qual!Cleared, Qual!ClearedExport, Qual!Sliced, Qual!Scored, Qual!Exported
<1>8. s[7] = "-clips"
  BY DEF Qual!Steps, Qual!Cleared, Qual!ClearedExport, Qual!Sliced, Qual!Scored, Qual!Exported
<1>9. s[10] = "+transcript"
  BY DEF Qual!Steps, Qual!Cleared, Qual!ClearedExport, Qual!Sliced, Qual!Scored, Qual!Exported
<1>10. s[11] = "+speaker"
  BY DEF Qual!Steps, Qual!Cleared, Qual!ClearedExport, Qual!Sliced, Qual!Scored, Qual!Exported
<1>11. s[12] = "+rank"
  BY DEF Qual!Steps, Qual!Cleared, Qual!ClearedExport, Qual!Sliced, Qual!Scored, Qual!Exported
<1>12. s[8] = "aside" /\ s[9] = "slice"
  <2> DEFINE x == Qual!Cleared \o Qual!Sliced
  <2>1. x[8] = "aside" /\ x[9] = "slice"
    <3>1. Qual!Sliced[1] = "aside" /\ Qual!Sliced[2] = "slice" /\ 1 \in 1 .. Len(Qual!Sliced)
            /\ 2 \in 1 .. Len(Qual!Sliced) /\ Qual!Sliced \in Seq(StepName)
      BY DEF Qual!Sliced, StepName
    <3>2. 8 = Len(Qual!Cleared) + 1 /\ 9 = Len(Qual!Cleared) + 2 /\ Qual!Cleared \in Seq(StepName)
      BY DEF Qual!Cleared, Qual!ClearedExport, StepName
    <3> QED BY <3>1, <3>2, SecondOf
  <2>2. Len(x) = 9
    BY DEF Qual!Cleared, Qual!ClearedExport, Qual!Sliced
  <2>3. x \in Seq(StepName) /\ Qual!Scored \in Seq(StepName)
    BY DEF Qual!Cleared, Qual!ClearedExport, Qual!Sliced, Qual!Scored, StepName
  <2>4. s = x \o Qual!Scored
    BY DEF Qual!Steps
  <2> HIDE DEF x
  <2>5. 8 \in 1 .. Len(x) /\ 9 \in 1 .. Len(x)
    BY <2>2
  <2> QED BY <2>1, <2>3, <2>4, <2>5, FirstOf
<1> QED BY <1>1, <1>2, <1>3, <1>4, <1>5, <1>6, <1>7, <1>8, <1>9, <1>10, <1>11, <1>12

LEMMA ScoresTable ==
  LET s == Qual!Steps("scores", 3) IN
  /\ Len(s) = 10
  /\ s[1] = "-transcript" /\ s[2] = "-speaker" /\ s[3] = "-rank" /\ s[4] = "-qc"
  /\ s[5] = "-manifest" /\ s[6] = "-summary" /\ s[7] = "-clips" /\ s[8] = "+transcript"
  /\ s[9] = "+speaker" /\ s[10] = "+rank"
<1> DEFINE s == Qual!Steps("scores", 3)
<1>1. Len(s) = 10
  BY DEF Qual!Steps, Qual!Cleared, Qual!ClearedExport, Qual!Sliced, Qual!Scored, Qual!Exported
<1>2. s[1] = "-transcript"
  BY DEF Qual!Steps, Qual!Cleared, Qual!ClearedExport, Qual!Sliced, Qual!Scored, Qual!Exported
<1>3. s[2] = "-speaker"
  BY DEF Qual!Steps, Qual!Cleared, Qual!ClearedExport, Qual!Sliced, Qual!Scored, Qual!Exported
<1>4. s[3] = "-rank"
  BY DEF Qual!Steps, Qual!Cleared, Qual!ClearedExport, Qual!Sliced, Qual!Scored, Qual!Exported
<1>5. s[4] = "-qc"
  BY DEF Qual!Steps, Qual!Cleared, Qual!ClearedExport, Qual!Sliced, Qual!Scored, Qual!Exported
<1>6. s[5] = "-manifest"
  BY DEF Qual!Steps, Qual!Cleared, Qual!ClearedExport, Qual!Sliced, Qual!Scored, Qual!Exported
<1>7. s[6] = "-summary"
  BY DEF Qual!Steps, Qual!Cleared, Qual!ClearedExport, Qual!Sliced, Qual!Scored, Qual!Exported
<1>8. s[7] = "-clips"
  BY DEF Qual!Steps, Qual!Cleared, Qual!ClearedExport, Qual!Sliced, Qual!Scored, Qual!Exported
<1>9. s[8] = "+transcript"
  BY DEF Qual!Steps, Qual!Cleared, Qual!ClearedExport, Qual!Sliced, Qual!Scored, Qual!Exported
<1>10. s[9] = "+speaker"
  BY DEF Qual!Steps, Qual!Cleared, Qual!ClearedExport, Qual!Sliced, Qual!Scored, Qual!Exported
<1>11. s[10] = "+rank"
  BY DEF Qual!Steps, Qual!Cleared, Qual!ClearedExport, Qual!Sliced, Qual!Scored, Qual!Exported
<1> QED BY <1>1, <1>2, <1>3, <1>4, <1>5, <1>6, <1>7, <1>8, <1>9, <1>10, <1>11

LEMMA ExportTable ==
  LET s == Qual!Steps("export", 4) IN
  /\ Len(s) = 4
  /\ s[1] = "-clips" /\ s[2] = "+clips" /\ s[3] = "+manifest" /\ s[4] = "+summary"
<1> DEFINE s == Qual!Steps("export", 4)
<1>1. Len(s) = 4
  BY DEF Qual!Steps, Qual!Cleared, Qual!ClearedExport, Qual!Sliced, Qual!Scored, Qual!Exported
<1>2. s[1] = "-clips"
  BY DEF Qual!Steps, Qual!Cleared, Qual!ClearedExport, Qual!Sliced, Qual!Scored, Qual!Exported
<1>3. s[2] = "+clips"
  BY DEF Qual!Steps, Qual!Cleared, Qual!ClearedExport, Qual!Sliced, Qual!Scored, Qual!Exported
<1>4. s[3] = "+manifest"
  BY DEF Qual!Steps, Qual!Cleared, Qual!ClearedExport, Qual!Sliced, Qual!Scored, Qual!Exported
<1>5. s[4] = "+summary"
  BY DEF Qual!Steps, Qual!Cleared, Qual!ClearedExport, Qual!Sliced, Qual!Scored, Qual!Exported
<1> QED BY <1>1, <1>2, <1>3, <1>4, <1>5

LEMMA ResumeTable1 ==
  LET s == Qual!Steps("process", 1) IN
  /\ Len(s) = 2
  /\ s[1] = "aside" /\ s[2] = "slice"
<1> DEFINE s == Qual!Steps("process", 1)
<1>1. Len(s) = 2
  BY DEF Qual!Steps, Qual!Cleared, Qual!ClearedExport, Qual!Sliced, Qual!Scored, Qual!Exported
<1>2. s[1] = "aside"
  BY DEF Qual!Steps, Qual!Cleared, Qual!ClearedExport, Qual!Sliced, Qual!Scored, Qual!Exported
<1>3. s[2] = "slice"
  BY DEF Qual!Steps, Qual!Cleared, Qual!ClearedExport, Qual!Sliced, Qual!Scored, Qual!Exported
<1> QED BY <1>1, <1>2, <1>3

LEMMA ResumeTable2 ==
  LET s == Qual!Steps("process", 2) IN
  /\ Len(s) = 3
  /\ s[1] = "aside" /\ s[2] = "slice" /\ s[3] = "+transcript"
<1> DEFINE s == Qual!Steps("process", 2)
<1>1. Len(s) = 3
  BY DEF Qual!Steps, Qual!Cleared, Qual!ClearedExport, Qual!Sliced, Qual!Scored, Qual!Exported
<1>2. s[1] = "aside"
  BY DEF Qual!Steps, Qual!Cleared, Qual!ClearedExport, Qual!Sliced, Qual!Scored, Qual!Exported
<1>3. s[2] = "slice"
  BY DEF Qual!Steps, Qual!Cleared, Qual!ClearedExport, Qual!Sliced, Qual!Scored, Qual!Exported
<1>4. s[3] = "+transcript"
  BY DEF Qual!Steps, Qual!Cleared, Qual!ClearedExport, Qual!Sliced, Qual!Scored, Qual!Exported
<1> QED BY <1>1, <1>2, <1>3, <1>4

LEMMA ResumeTable3 ==
  LET s == Qual!Steps("process", 3) IN
  /\ Len(s) = 5
  /\ s[1] = "aside" /\ s[2] = "slice" /\ s[3] = "+transcript" /\ s[4] = "+speaker"
  /\ s[5] = "+rank"
<1> DEFINE s == Qual!Steps("process", 3)
<1>1. Len(s) = 5
  BY DEF Qual!Steps, Qual!Cleared, Qual!ClearedExport, Qual!Sliced, Qual!Scored, Qual!Exported
<1>2. s[1] = "aside"
  BY DEF Qual!Steps, Qual!Cleared, Qual!ClearedExport, Qual!Sliced, Qual!Scored, Qual!Exported
<1>3. s[2] = "slice"
  BY DEF Qual!Steps, Qual!Cleared, Qual!ClearedExport, Qual!Sliced, Qual!Scored, Qual!Exported
<1>4. s[3] = "+transcript"
  BY DEF Qual!Steps, Qual!Cleared, Qual!ClearedExport, Qual!Sliced, Qual!Scored, Qual!Exported
<1>5. s[4] = "+speaker"
  BY DEF Qual!Steps, Qual!Cleared, Qual!ClearedExport, Qual!Sliced, Qual!Scored, Qual!Exported
<1>6. s[5] = "+rank"
  BY DEF Qual!Steps, Qual!Cleared, Qual!ClearedExport, Qual!Sliced, Qual!Scored, Qual!Exported
<1> QED BY <1>1, <1>2, <1>3, <1>4, <1>5, <1>6

LEMMA ResumeTable4 ==
  LET s == Qual!Steps("process", 4) IN
  /\ Len(s) = 9
  /\ s[1] = "aside" /\ s[2] = "slice" /\ s[3] = "+transcript" /\ s[4] = "+speaker"
  /\ s[5] = "+rank" /\ s[6] = "-clips" /\ s[7] = "+clips" /\ s[8] = "+manifest"
  /\ s[9] = "+summary"
<1> DEFINE s == Qual!Steps("process", 4)
<1>1. Len(s) = 9
  BY DEF Qual!Steps, Qual!Cleared, Qual!ClearedExport, Qual!Sliced, Qual!Scored, Qual!Exported
<1>2. s[1] = "aside"
  BY DEF Qual!Steps, Qual!Cleared, Qual!ClearedExport, Qual!Sliced, Qual!Scored, Qual!Exported
<1>3. s[2] = "slice"
  BY DEF Qual!Steps, Qual!Cleared, Qual!ClearedExport, Qual!Sliced, Qual!Scored, Qual!Exported
<1>4. s[3] = "+transcript"
  BY DEF Qual!Steps, Qual!Cleared, Qual!ClearedExport, Qual!Sliced, Qual!Scored, Qual!Exported
<1>5. s[4] = "+speaker"
  BY DEF Qual!Steps, Qual!Cleared, Qual!ClearedExport, Qual!Sliced, Qual!Scored, Qual!Exported
<1>6. s[5] = "+rank"
  BY DEF Qual!Steps, Qual!Cleared, Qual!ClearedExport, Qual!Sliced, Qual!Scored, Qual!Exported
<1>7. s[6] = "-clips"
  BY DEF Qual!Steps, Qual!Cleared, Qual!ClearedExport, Qual!Sliced, Qual!Scored, Qual!Exported
<1>8. s[7] = "+clips"
  BY DEF Qual!Steps, Qual!Cleared, Qual!ClearedExport, Qual!Sliced, Qual!Scored, Qual!Exported
<1>9. s[8] = "+manifest"
  BY DEF Qual!Steps, Qual!Cleared, Qual!ClearedExport, Qual!Sliced, Qual!Scored, Qual!Exported
<1>10. s[9] = "+summary"
  BY DEF Qual!Steps, Qual!Cleared, Qual!ClearedExport, Qual!Sliced, Qual!Scored, Qual!Exported
<1> QED BY <1>1, <1>2, <1>3, <1>4, <1>5, <1>6, <1>7, <1>8, <1>9, <1>10

(* A worker takes a step, and has cut these clips if it is the one that    *)
(* cuts.                                                                   *)
Advances(made) == job' = [job EXCEPT !.left = Tail(@), !.cut = made] /\ UNCHANGED done

LEMMA GoesAdvances == ASSUME job \in JobRow, Qual!Goes PROVE Advances(job.cut)
<1>1. [job EXCEPT !.left = Tail(job.left), !.cut = job.cut] = [job EXCEPT !.left = Tail(job.left)]
  BY DEF JobRow
<1> QED BY <1>1 DEF Advances, Qual!Goes

LEMMA JobGoes ==
  ASSUME QualityIsSound, job # None, job.left # <<>>, NEW made \in SUBSET Qual!Clips, Advances(made)
  PROVE  /\ job' \in JobRow /\ job'.kind = job.kind /\ job'.stop = job.stop /\ job'.cut = made
         /\ Len(job'.left) = Len(job.left) - 1 /\ Len(job.left) > 0
         /\ \A j \in 1 .. Len(job'.left) : job'.left[j] = job.left[j + 1]
         /\ Head(job.left) = job.left[1]
  <1>1. job \in JobRow /\ job.left \in Seq(StepName)
    BY DEF QualityIsSound, QualityShapes, JobRow
  <1>2. job' = [job EXCEPT !.left = Tail(job.left), !.cut = made]
    BY DEF Advances
  <1>3. Tail(job.left) \in Seq(StepName) /\ Len(Tail(job.left)) = Len(job.left) - 1 /\ Len(job.left) > 0
     /\ \A j \in 1 .. Len(Tail(job.left)) : Tail(job.left)[j] = job.left[j + 1]
     /\ Head(job.left) = job.left[1]
    BY <1>1
  <1>4. /\ job' \in JobRow /\ job'.kind = job.kind /\ job'.stop = job.stop /\ job'.cut = made
        /\ job'.left = Tail(job.left)
    <2> DEFINE rest == Tail(job.left)
    <2>1. rest \in Seq(StepName)
      BY <1>3
    <2> HIDE DEF rest
    <2> QED BY <1>1, <1>2, <2>1 DEF JobRow, rest
  <1> QED BY <1>3, <1>4

(* Where a worker is that has the step h before it.                        *)
Clears(slicer, scores) ==
  (job.kind = "slicer" /\ Ahead = slicer) \/ (job.kind = "scores" /\ Ahead = scores)

Makes(n, third, fourth) ==
  \/ job.kind \in {"slicer", "scores"} /\ Ahead = n
  \/ job.kind = "process" /\ (job.stop = 3 => Ahead = third) /\ (job.stop = 4 => Ahead = fourth)

Exports(n) == job.kind \in {"export", "process"} /\ job.stop = 4 /\ Ahead = n

Due(h) ==
  /\ h = "-transcript" => Clears(12, 10)
  /\ h = "-speaker"    => Clears(11, 9)
  /\ h = "-rank"       => Clears(10, 8)
  /\ h = "-qc"         => Clears(9, 7)
  /\ h = "-manifest"   => Clears(8, 6)
  /\ h = "-summary"    => Clears(7, 5)
  /\ h = "-clips"      => Clears(6, 4) \/ Exports(4)
  /\ h = "aside"   => job.kind \in {"slicer", "process"} /\ Makes(5, 5, 9)
  /\ h = "slice"       => job.kind \in {"slicer", "process"} /\ Makes(4, 4, 8)
  /\ h = "+transcript" => Makes(3, 3, 7)
  /\ h = "+speaker"    => Makes(2, 2, 6)
  /\ h = "+rank"       => Makes(1, 1, 5)
  /\ h = "+clips"      => Exports(3)
  /\ h = "+manifest"   => Exports(2)
  /\ h = "+summary"    => Exports(1)

LEMMA HeadIsDue ==
  ASSUME QualityIsSound, NEW h, Qual!At(h)
  PROVE  job # None /\ job \in JobRow /\ job.left # <<>> /\ Due(h)
<1>1. /\ job # None /\ job \in JobRow /\ job.left # <<>> /\ Ahead \in Nat \ {0}
      /\ h = job.left[1] /\ job.left \in Seq(StepName)
  <2>1. job # None /\ job \in JobRow /\ job.left # <<>> /\ h = Head(job.left)
    BY DEF QualityIsSound, QualityShapes, Qual!At
  <2>2. job.left \in Seq(StepName)
    BY <2>1 DEF JobRow
  <2> QED BY <2>1, <2>2 DEF Ahead
<1>2. CASE job.kind = "slicer"
  <2> DEFINE s == Qual!Steps("slicer", 3)
  <2>1. s = Qual!Steps(job.kind, job.stop)
    BY <1>1, <1>2 DEF QualityIsSound, JobIsPlanned
  <2>2. Ahead <= Len(s) /\ \A j \in 1 .. Ahead : job.left[j] = s[Len(s) - Ahead + j]
    BY <1>1, <2>1 DEF QualityIsSound, JobIsPlanned
  <2>3. Len(s) = 12
    BY SlicerTable
  <2> HIDE DEF s
  <2>4. 1 \in 1 .. Ahead
    BY <1>1
  <2>5. Ahead \in 1 .. 12 /\ h = s[13 - Ahead]
    BY <1>1, <2>2, <2>3, <2>4
  <2>6. Ahead \in {1, 2, 3, 4, 5, 6, 7, 8, 9, 10, 11, 12}
    BY <2>5
  <2>7. \/ Ahead = 12 /\ h = "-transcript"
        \/ Ahead = 11 /\ h = "-speaker"
        \/ Ahead = 10 /\ h = "-rank"
        \/ Ahead = 9 /\ h = "-qc"
        \/ Ahead = 8 /\ h = "-manifest"
        \/ Ahead = 7 /\ h = "-summary"
        \/ Ahead = 6 /\ h = "-clips"
        \/ Ahead = 5 /\ h = "aside"
        \/ Ahead = 4 /\ h = "slice"
        \/ Ahead = 3 /\ h = "+transcript"
        \/ Ahead = 2 /\ h = "+speaker"
        \/ Ahead = 1 /\ h = "+rank"
    BY <2>5, <2>6, SlicerTable DEF s
  <2>8. Due(h)
    <3>1. job.stop = 3
      BY <1>1, <1>2 DEF QualityIsSound, JobIsPlanned
    <3>2. CASE Ahead = 12 /\ h = "-transcript"
      BY <1>2, <3>1, <3>2 DEF Due, Clears, Makes, Exports
    <3>3. CASE Ahead = 11 /\ h = "-speaker"
      BY <1>2, <3>1, <3>3 DEF Due, Clears, Makes, Exports
    <3>4. CASE Ahead = 10 /\ h = "-rank"
      BY <1>2, <3>1, <3>4 DEF Due, Clears, Makes, Exports
    <3>5. CASE Ahead = 9 /\ h = "-qc"
      BY <1>2, <3>1, <3>5 DEF Due, Clears, Makes, Exports
    <3>6. CASE Ahead = 8 /\ h = "-manifest"
      BY <1>2, <3>1, <3>6 DEF Due, Clears, Makes, Exports
    <3>7. CASE Ahead = 7 /\ h = "-summary"
      BY <1>2, <3>1, <3>7 DEF Due, Clears, Makes, Exports
    <3>8. CASE Ahead = 6 /\ h = "-clips"
      BY <1>2, <3>1, <3>8 DEF Due, Clears, Makes, Exports
    <3>9. CASE Ahead = 5 /\ h = "aside"
      BY <1>2, <3>1, <3>9 DEF Due, Clears, Makes, Exports
    <3>10. CASE Ahead = 4 /\ h = "slice"
      BY <1>2, <3>1, <3>10 DEF Due, Clears, Makes, Exports
    <3>11. CASE Ahead = 3 /\ h = "+transcript"
      BY <1>2, <3>1, <3>11 DEF Due, Clears, Makes, Exports
    <3>12. CASE Ahead = 2 /\ h = "+speaker"
      BY <1>2, <3>1, <3>12 DEF Due, Clears, Makes, Exports
    <3>13. CASE Ahead = 1 /\ h = "+rank"
      BY <1>2, <3>1, <3>13 DEF Due, Clears, Makes, Exports
    <3> QED BY <2>7, <3>2, <3>3, <3>4, <3>5, <3>6, <3>7, <3>8, <3>9, <3>10, <3>11, <3>12, <3>13
  <2> QED BY <1>1, <2>8
<1>3. CASE job.kind = "scores"
  <2> DEFINE s == Qual!Steps("scores", 3)
  <2>1. s = Qual!Steps(job.kind, job.stop)
    BY <1>1, <1>3 DEF QualityIsSound, JobIsPlanned
  <2>2. Ahead <= Len(s) /\ \A j \in 1 .. Ahead : job.left[j] = s[Len(s) - Ahead + j]
    BY <1>1, <2>1 DEF QualityIsSound, JobIsPlanned
  <2>3. Len(s) = 10
    BY ScoresTable
  <2> HIDE DEF s
  <2>4. 1 \in 1 .. Ahead
    BY <1>1
  <2>5. Ahead \in 1 .. 10 /\ h = s[11 - Ahead]
    BY <1>1, <2>2, <2>3, <2>4
  <2>6. Ahead \in {1, 2, 3, 4, 5, 6, 7, 8, 9, 10}
    BY <2>5
  <2>7. \/ Ahead = 10 /\ h = "-transcript"
        \/ Ahead = 9 /\ h = "-speaker"
        \/ Ahead = 8 /\ h = "-rank"
        \/ Ahead = 7 /\ h = "-qc"
        \/ Ahead = 6 /\ h = "-manifest"
        \/ Ahead = 5 /\ h = "-summary"
        \/ Ahead = 4 /\ h = "-clips"
        \/ Ahead = 3 /\ h = "+transcript"
        \/ Ahead = 2 /\ h = "+speaker"
        \/ Ahead = 1 /\ h = "+rank"
    BY <2>5, <2>6, ScoresTable DEF s
  <2>8. Due(h)
    BY <1>3, <2>7 DEF Due, Clears, Makes, Exports
  <2> QED BY <1>1, <2>8
<1>4. CASE job.kind = "export"
  <2> DEFINE s == Qual!Steps("export", 4)
  <2>1. s = Qual!Steps(job.kind, job.stop)
    BY <1>1, <1>4 DEF QualityIsSound, JobIsPlanned
  <2>2. Ahead <= Len(s) /\ \A j \in 1 .. Ahead : job.left[j] = s[Len(s) - Ahead + j]
    BY <1>1, <2>1 DEF QualityIsSound, JobIsPlanned
  <2>3. Len(s) = 4
    BY ExportTable
  <2> HIDE DEF s
  <2>4. 1 \in 1 .. Ahead
    BY <1>1
  <2>5. Ahead \in 1 .. 4 /\ h = s[5 - Ahead]
    BY <1>1, <2>2, <2>3, <2>4
  <2>6. Ahead \in {1, 2, 3, 4}
    BY <2>5
  <2>7. \/ Ahead = 4 /\ h = "-clips"
        \/ Ahead = 3 /\ h = "+clips"
        \/ Ahead = 2 /\ h = "+manifest"
        \/ Ahead = 1 /\ h = "+summary"
    BY <2>5, <2>6, ExportTable DEF s
  <2>8. Due(h)
    <3>1. job.stop = 4
      BY <1>1, <1>4 DEF QualityIsSound, JobIsPlanned
    <3> QED BY <1>4, <2>7, <3>1 DEF Due, Clears, Makes, Exports
  <2> QED BY <1>1, <2>8
<1>5. CASE job.kind = "process" /\ job.stop = 1
  <2> DEFINE s == Qual!Steps("process", 1)
  <2>1. s = Qual!Steps(job.kind, job.stop)
    BY <1>1, <1>5 DEF QualityIsSound, JobIsPlanned
  <2>2. Ahead <= Len(s) /\ \A j \in 1 .. Ahead : job.left[j] = s[Len(s) - Ahead + j]
    BY <1>1, <2>1 DEF QualityIsSound, JobIsPlanned
  <2>3. Len(s) = 2
    BY ResumeTable1
  <2> HIDE DEF s
  <2>4. 1 \in 1 .. Ahead
    BY <1>1
  <2>5. Ahead \in 1 .. 2 /\ h = s[3 - Ahead]
    BY <1>1, <2>2, <2>3, <2>4
  <2>6. Ahead \in {1, 2}
    BY <2>5
  <2>7. \/ Ahead = 2 /\ h = "aside"
        \/ Ahead = 1 /\ h = "slice"
    BY <2>5, <2>6, ResumeTable1 DEF s
  <2>8. Due(h)
    BY <1>5, <2>7 DEF Due, Clears, Makes, Exports
  <2> QED BY <1>1, <2>8
<1>6. CASE job.kind = "process" /\ job.stop = 2
  <2> DEFINE s == Qual!Steps("process", 2)
  <2>1. s = Qual!Steps(job.kind, job.stop)
    BY <1>1, <1>6 DEF QualityIsSound, JobIsPlanned
  <2>2. Ahead <= Len(s) /\ \A j \in 1 .. Ahead : job.left[j] = s[Len(s) - Ahead + j]
    BY <1>1, <2>1 DEF QualityIsSound, JobIsPlanned
  <2>3. Len(s) = 3
    BY ResumeTable2
  <2> HIDE DEF s
  <2>4. 1 \in 1 .. Ahead
    BY <1>1
  <2>5. Ahead \in 1 .. 3 /\ h = s[4 - Ahead]
    BY <1>1, <2>2, <2>3, <2>4
  <2>6. Ahead \in {1, 2, 3}
    BY <2>5
  <2>7. \/ Ahead = 3 /\ h = "aside"
        \/ Ahead = 2 /\ h = "slice"
        \/ Ahead = 1 /\ h = "+transcript"
    BY <2>5, <2>6, ResumeTable2 DEF s
  <2>8. Due(h)
    BY <1>6, <2>7 DEF Due, Clears, Makes, Exports
  <2> QED BY <1>1, <2>8
<1>7. CASE job.kind = "process" /\ job.stop = 3
  <2> DEFINE s == Qual!Steps("process", 3)
  <2>1. s = Qual!Steps(job.kind, job.stop)
    BY <1>1, <1>7 DEF QualityIsSound, JobIsPlanned
  <2>2. Ahead <= Len(s) /\ \A j \in 1 .. Ahead : job.left[j] = s[Len(s) - Ahead + j]
    BY <1>1, <2>1 DEF QualityIsSound, JobIsPlanned
  <2>3. Len(s) = 5
    BY ResumeTable3
  <2> HIDE DEF s
  <2>4. 1 \in 1 .. Ahead
    BY <1>1
  <2>5. Ahead \in 1 .. 5 /\ h = s[6 - Ahead]
    BY <1>1, <2>2, <2>3, <2>4
  <2>6. Ahead \in {1, 2, 3, 4, 5}
    BY <2>5
  <2>7. \/ Ahead = 5 /\ h = "aside"
        \/ Ahead = 4 /\ h = "slice"
        \/ Ahead = 3 /\ h = "+transcript"
        \/ Ahead = 2 /\ h = "+speaker"
        \/ Ahead = 1 /\ h = "+rank"
    BY <2>5, <2>6, ResumeTable3 DEF s
  <2>8. Due(h)
    BY <1>7, <2>7 DEF Due, Clears, Makes, Exports
  <2> QED BY <1>1, <2>8
<1>8. CASE job.kind = "process" /\ job.stop = 4
  <2> DEFINE s == Qual!Steps("process", 4)
  <2>1. s = Qual!Steps(job.kind, job.stop)
    BY <1>1, <1>8 DEF QualityIsSound, JobIsPlanned
  <2>2. Ahead <= Len(s) /\ \A j \in 1 .. Ahead : job.left[j] = s[Len(s) - Ahead + j]
    BY <1>1, <2>1 DEF QualityIsSound, JobIsPlanned
  <2>3. Len(s) = 9
    BY ResumeTable4
  <2> HIDE DEF s
  <2>4. 1 \in 1 .. Ahead
    BY <1>1
  <2>5. Ahead \in 1 .. 9 /\ h = s[10 - Ahead]
    BY <1>1, <2>2, <2>3, <2>4
  <2>6. Ahead \in {1, 2, 3, 4, 5, 6, 7, 8, 9}
    BY <2>5
  <2>7. \/ Ahead = 9 /\ h = "aside"
        \/ Ahead = 8 /\ h = "slice"
        \/ Ahead = 7 /\ h = "+transcript"
        \/ Ahead = 6 /\ h = "+speaker"
        \/ Ahead = 5 /\ h = "+rank"
        \/ Ahead = 4 /\ h = "-clips"
        \/ Ahead = 3 /\ h = "+clips"
        \/ Ahead = 2 /\ h = "+manifest"
        \/ Ahead = 1 /\ h = "+summary"
    BY <2>5, <2>6, ResumeTable4 DEF s
  <2>8. Due(h)
    BY <1>8, <2>7 DEF Due, Clears, Makes, Exports
  <2> QED BY <1>1, <2>8
<1>9. \/ job.kind \in {"slicer", "scores", "export"}
      \/ job.kind = "process" /\ job.stop \in {1, 2, 3, 4}
  BY <1>1 DEF JobRow
<1> QED BY <1>1, <1>2, <1>3, <1>4, <1>5, <1>6, <1>7, <1>8, <1>9

-----------------------------------------------------------------------------
(* What the code makes no provision for has not come to pass in a step.    *)
Followed ==
  /\ ~(job' # None /\ decision' # None)
  /\ ~(decision # None /\ decision.pc \in Qual!Halfway /\ decision' = None /\ exp' # Qual!NoExport)
  /\ ~Qual!ResumedOver

LEMMA StepIsFollowed ==
  ASSUME Qual!Remember, beyond' = "nothing"
  PROVE  Followed
BY DEF Qual!Remember, Qual!Overlap, Followed

LEMMA ListedAreClips ==
  ASSUME QualityShapes
  PROVE  Qual!Listed \subseteq Qual!Clips /\ Qual!Exportable(qc) \subseteq Qual!Clips
<1>1. Qual!Listed \subseteq Qual!Clips
  <2>1. CASE cand = None
    BY <2>1 DEF Qual!Listed
  <2>2. CASE cand # None
    <3>1. cand.clips \in 0 .. MaxClips
      BY <2>2 DEF QualityShapes, CandFile
    <3> QED BY <2>2, <3>1, QualityAssumption DEF Qual!Listed, Qual!Clips
  <2> QED BY <2>1, <2>2
<1> QED BY <1>1 DEF Qual!Exportable

(* A worker that takes a step has one step less before it.                 *)
LEMMA WorkerAdvances ==
  ASSUME QualityIsSound, job # None, job.left # <<>>, NEW made \in SUBSET Qual!Clips, Advances(made)
  PROVE  /\ job' \in JobRow /\ job' # None /\ JobIsPlanned' /\ done' = done
         /\ job'.kind = job.kind /\ job'.stop = job.stop /\ job'.cut = made
         /\ Ahead \in Nat \ {0} /\ Ahead' = Ahead - 1
<1>0. job \in JobRow
  BY DEF QualityIsSound, QualityShapes
<1>1. /\ job' \in JobRow /\ job'.kind = job.kind /\ job'.stop = job.stop /\ job'.cut = made
      /\ Ahead' = Ahead - 1 /\ Ahead > 0
      /\ \A j \in 1 .. Ahead' : job'.left[j] = job.left[j + 1]
  BY JobGoes DEF Ahead
<1>2. Ahead \in Nat \ {0}
  <2>1. job.left \in Seq(StepName)
    BY DEF QualityIsSound, QualityShapes, JobRow
  <2> QED BY <1>1, <2>1 DEF Ahead
<1>3. job' # None
  BY <1>1, QualityAssumption DEF JobRow
<1>4. JobIsPlanned'
  <2> DEFINE all == Qual!Steps(job.kind, job.stop)
  <2>1. /\ job.kind \in {"slicer", "scores"} => job.stop = 3
        /\ job.kind = "export" => job.stop = 4
        /\ Ahead <= Len(all)
        /\ \A j \in 1 .. Ahead : job.left[j] = all[Len(all) - Ahead + j]
    BY DEF QualityIsSound, JobIsPlanned
  <2>2. Qual!Steps(job'.kind, job'.stop) = all
    BY <1>1
  <2>3. Len(all) \in Nat
    <3>1. \/ job.kind \in {"slicer", "scores"} /\ job.stop = 3
          \/ job.kind = "export" /\ job.stop = 4
          \/ job.kind = "process" /\ job.stop \in 1 .. 4
      BY <1>0, <2>1 DEF JobRow
    <3>2. job.stop \in 1 .. 4 => job.stop \in {1, 2, 3, 4}
      OBVIOUS
    <3> QED BY <3>1, <3>2, SlicerTable, ScoresTable, ExportTable, ResumeTable1, ResumeTable2,
               ResumeTable3, ResumeTable4
  <2> HIDE DEF all
  <2>4. ASSUME NEW j \in 1 .. Ahead' PROVE job'.left[j] = all[Len(all) - Ahead' + j]
    <3>1. j + 1 \in 1 .. Ahead /\ Len(all) - Ahead' + j = Len(all) - Ahead + (j + 1)
      BY <1>1, <1>2, <2>3
    <3> QED BY <1>1, <2>1, <3>1
  <2>5. Ahead' <= Len(all)
    BY <1>1, <1>2, <2>1, <2>3
  <2> QED BY <1>1, <2>1, <2>2, <2>4, <2>5 DEF JobIsPlanned
<1> QED BY <1>1, <1>2, <1>3, <1>4 DEF Advances

LEMMA WorkerGoes ==
  ASSUME QualityIsSound, job # None, job.left # <<>>, Qual!Goes
  PROVE  /\ job' \in JobRow /\ job' # None /\ JobIsPlanned' /\ done' = done
         /\ job'.kind = job.kind /\ job'.stop = job.stop /\ job'.cut = job.cut
         /\ Ahead \in Nat \ {0} /\ Ahead' = Ahead - 1
<1>1. job \in JobRow
  BY DEF QualityIsSound, QualityShapes
<1>2. job.cut \in SUBSET Qual!Clips
  BY <1>1 DEF JobRow
<1> QED BY <1>1, <1>2, GoesAdvances, WorkerAdvances

(* Without another candidate, decision or export, what stands goes on to.  *)
LEMMA ExportStandsStill ==
  ASSUME UNCHANGED <<cand, qc, exp>>
  PROVE  /\ ExportStands' = ExportStands /\ Qual!Exportable(qc)' = Qual!Exportable(qc)
         /\ \A made : /\ Qual!Cut(made)' = Qual!Cut(made)
                      /\ Qual!Manifest(made)' = Qual!Manifest(made)
                      /\ Qual!Summary(made)' = Qual!Summary(made)
<1>1. Qual!Exportable(qc)' = Qual!Exportable(qc)
  BY DEF Qual!Exportable, Qual!Listed
<1>2. \A made : /\ Qual!Cut(made)' = Qual!Cut(made)
                /\ Qual!Manifest(made)' = Qual!Manifest(made)
                /\ Qual!Summary(made)' = Qual!Summary(made)
  BY <1>1 DEF Qual!Cut, Qual!Manifest, Qual!Summary
<1> QED BY <1>1, <1>2 DEF ExportStands, Qual!NoExport

(* A worker's step leaves the finalization alone, as there is none.        *)
LEMMA WorkerStep ==
  ASSUME QualityIsSound, job # None, UNCHANGED decision,
         QualityShapes', Qual!DecidedOnWhatStands',
         job' # None => (JobIsPlanned /\ JobHasCleared /\ JobHasExported)',
         job' = None => rank' # "outdated" /\ (done' = 4 => ExportStands')
  PROVE  QualityIsSound'
<1>1. decision' = None
  BY DEF QualityIsSound
<1>2. CallIsTrue'
  BY <1>1 DEF CallIsTrue
<1>3. (JobIsPlanned /\ JobHasCleared /\ JobHasExported)'
  BY DEF JobIsPlanned, JobHasCleared, JobHasExported
<1> QED BY <1>1, <1>2, <1>3 DEF QualityIsSound

-----------------------------------------------------------------------------
(* A worker is launched: beside a finalization it is not followed.         *)
LEMMA StepsHaveShape ==
  ASSUME NEW kind, NEW stop,
         \/ kind \in {"slicer", "scores"} /\ stop = 3
         \/ kind = "export" /\ stop = 4
         \/ kind = "process" /\ stop \in 1 .. 4
  PROVE  Qual!Steps(kind, stop) \in Seq(StepName)
<1>1. Qual!Cleared \in Seq(StepName)
  BY DEF Qual!Cleared, Qual!ClearedExport, StepName
<1>2. Qual!Sliced \in Seq(StepName) /\ Qual!Scored \in Seq(StepName) /\ Qual!Exported \in Seq(StepName)
  BY DEF Qual!Sliced, Qual!Scored, Qual!Exported, StepName
<1>3. \A x, y \in Seq(StepName) : x \o y \in Seq(StepName)
  OBVIOUS
<1>4. CASE kind = "slicer"
  BY <1>1, <1>2, <1>3, <1>4 DEF Qual!Steps
<1>5. CASE kind = "scores"
  BY <1>1, <1>2, <1>3, <1>5 DEF Qual!Steps
<1>6. CASE kind = "export"
  BY <1>2, <1>6 DEF Qual!Steps
<1>7. CASE kind = "process"
  <2>1. <<>> \in Seq(StepName) /\ <<"+transcript">> \in Seq(StepName)
    BY DEF StepName
  <2>2. stop \in {1, 2, 3, 4}
    BY <1>7
  <2>3. Qual!Steps(kind, stop) =
          Qual!Sliced \o (CASE stop = 1 -> <<>>
                            [] stop = 2 -> <<"+transcript">>
                            [] stop = 3 -> Qual!Scored
                            [] stop = 4 -> Qual!Scored \o Qual!Exported)
    BY <1>7 DEF Qual!Steps
  <2> QED BY <1>2, <1>3, <2>1, <2>2, <2>3
<1> QED BY <1>4, <1>5, <1>6, <1>7

LEMMA StepLaunch ==
  ASSUME QualityIsSound, Followed, NEW kind, NEW stop, Qual!Launch(kind, stop),
         \/ kind \in {"slicer", "scores"} /\ stop = 3
         \/ kind = "export" /\ stop = 4
         \/ kind = "process" /\ stop \in 1 .. 4
  PROVE  QualityIsSound'
<1>1. /\ job = None /\ done' = 0 /\ UNCHANGED <<cand, tq, sp, rank, qc, exp, decision>>
      /\ job' = [kind |-> kind, stop |-> stop, left |-> Qual!Steps(kind, stop), cut |-> {}]
  BY DEF Qual!Launch
<1>2. job' \in JobRow
  <2>1. Qual!Steps(kind, stop) \in Seq(StepName)
    BY StepsHaveShape
  <2> QED BY <1>1, <2>1 DEF JobRow
<1>3. job' # None
  BY <1>2, QualityAssumption DEF JobRow
<1>4. decision = None /\ decision' = None
  BY <1>1, <1>3 DEF Followed
<1>5. QualityShapes'
  BY <1>1, <1>2 DEF QualityIsSound, QualityShapes
<1>6. job'.kind = kind /\ job'.stop = stop /\ job'.left = Qual!Steps(kind, stop)
  BY <1>1
<1>7. Ahead' = Len(Qual!Steps(kind, stop)) /\ Ahead' \in Nat
  BY <1>2, <1>6 DEF Ahead, JobRow
<1>8. JobIsPlanned'
  <2> DEFINE all == Qual!Steps(kind, stop)
  <2>1. Qual!Steps(job'.kind, job'.stop) = all /\ job'.left = all /\ Ahead' = Len(all)
    BY <1>6, <1>7
  <2> HIDE DEF all
  <2>2. Len(all) \in Nat /\ \A j \in 1 .. Len(all) : Len(all) - Len(all) + j = j
    BY <1>7, <2>1
  <2> QED BY <1>6, <2>1, <2>2 DEF JobIsPlanned
<1>9. JobHasCleared'
  <2>1. kind = "slicer" => Ahead' = 12
    BY <1>7, SlicerTable
  <2>2. kind = "scores" => Ahead' = 10
    BY <1>7, ScoresTable
  <2>3. kind = "process" /\ stop = 3 => Ahead' = 5
    BY <1>7, ResumeTable3
  <2>4. kind = "process" /\ stop = 4 => Ahead' = 9
    BY <1>7, ResumeTable4
  <2>5. rank' # "outdated"
    BY <1>1 DEF QualityIsSound
  <2> QED BY <1>1, <1>6, <2>1, <2>2, <2>3, <2>4, <2>5 DEF JobHasCleared
<1>10. JobHasExported'
  <2>1. stop = 4 => kind \in {"export", "process"}
    OBVIOUS
  <2>2. kind = "export" => Ahead' = 4
    BY <1>7, ExportTable
  <2>3. kind = "process" /\ stop = 4 => Ahead' = 9
    BY <1>7, ResumeTable4
  <2> QED BY <1>6, <2>1, <2>2, <2>3 DEF JobHasExported
<1>11. CallIsTrue'
  BY <1>4 DEF CallIsTrue
<1>12. Qual!DecidedOnWhatStands'
  BY <1>1 DEF QualityIsSound, Qual!DecidedOnWhatStands, Qual!Whole, Qual!Ready, Qual!Kept, Qual!Listed
<1> QED BY <1>3, <1>4, <1>5, <1>8, <1>9, <1>10, <1>11, <1>12 DEF QualityIsSound

(* Files are cleared.                                                      *)
LEMMA StepClear ==
  ASSUME QualityIsSound, Followed, Qual!Clear
  PROVE  QualityIsSound'
<1>1. /\ UNCHANGED <<cand, decision>>
      /\ \/ Qual!At("-transcript") /\ tq' = None /\ UNCHANGED <<sp, rank, qc, exp>>
         \/ Qual!At("-speaker") /\ sp' = None /\ UNCHANGED <<tq, rank, qc, exp>>
         \/ Qual!At("-rank") /\ rank' = None /\ UNCHANGED <<tq, sp, qc, exp>>
         \/ Qual!At("-qc") /\ qc' = None /\ UNCHANGED <<tq, sp, rank, exp>>
         \/ Qual!At("-manifest") /\ exp' = [exp EXCEPT !.manifest = None] /\ UNCHANGED <<tq, sp, rank, qc>>
         \/ Qual!At("-summary") /\ exp' = [exp EXCEPT !.summary = None] /\ UNCHANGED <<tq, sp, rank, qc>>
         \/ /\ Qual!At("-clips") /\ UNCHANGED <<tq, sp, rank, qc>>
            /\ \/ exp' = [exp EXCEPT !.clips = None]
               \/ cand # None /\ exp' = [exp EXCEPT !.clips = [gen |-> cand.gen, cut |-> {}]]
  BY DEF Qual!Clear
<1>2. job # None /\ job.left # <<>> /\ job \in JobRow /\ Qual!Goes
  BY HeadIsDue DEF Qual!Clear, QualityIsSound, QualityShapes, Qual!At
<1>3. /\ job' \in JobRow /\ job' # None /\ JobIsPlanned' /\ done' = done /\ done = 0
      /\ job'.kind = job.kind /\ job'.stop = job.stop
      /\ Ahead \in Nat \ {0} /\ Ahead' = Ahead - 1
  BY <1>2, WorkerGoes DEF QualityIsSound, JobHasCleared
<1>4. \/ tq' = None /\ UNCHANGED <<sp, rank, qc, exp>> /\ Clears(12, 10)
      \/ sp' = None /\ UNCHANGED <<tq, rank, qc, exp>> /\ Clears(11, 9)
      \/ rank' = None /\ UNCHANGED <<tq, sp, qc, exp>> /\ Clears(10, 8)
      \/ qc' = None /\ UNCHANGED <<tq, sp, rank, exp>> /\ Clears(9, 7)
      \/ UNCHANGED <<tq, sp, rank, qc>> /\ exp' = [exp EXCEPT !.manifest = None] /\ Clears(8, 6)
      \/ UNCHANGED <<tq, sp, rank, qc>> /\ exp' = [exp EXCEPT !.summary = None] /\ Clears(7, 5)
      \/ /\ UNCHANGED <<tq, sp, rank, qc>>
         /\ Clears(6, 4) \/ Exports(4)
         /\ \/ exp' = [exp EXCEPT !.clips = None]
            \/ cand # None /\ exp' = [exp EXCEPT !.clips = [gen |-> cand.gen, cut |-> {}]]
  BY <1>1, HeadIsDue DEF Due
<1>5. QualityShapes'
  <2>1. exp' \in [manifest : CutList \cup {None, Torn}, summary : ClipList \cup {None, Torn},
                  clips : CutClips \cup {None}]
    <3>1. exp \in [manifest : CutList \cup {None, Torn}, summary : ClipList \cup {None, Torn},
                   clips : CutClips \cup {None}]
      BY DEF QualityIsSound, QualityShapes
    <3>2. cand # None => [gen |-> cand.gen, cut |-> {}] \in CutClips
      BY DEF QualityIsSound, QualityShapes, CandFile, CutClips
    <3> QED BY <1>4, <3>1, <3>2
  <2>2. tq' \in {tq, None} /\ sp' \in {sp, None} /\ rank' \in {rank, None} /\ qc' \in {qc, None}
    BY <1>4
  <2> QED BY <1>1, <1>3, <2>1, <2>2 DEF QualityIsSound, QualityShapes
<1>6. Qual!DecidedOnWhatStands'
  <2>1. cand' = cand /\ tq' \in {tq, None} /\ sp' \in {sp, None} /\ qc' \in {qc, None}
    BY <1>1, <1>4
  <2> QED BY <2>1 DEF QualityIsSound, Qual!DecidedOnWhatStands, Qual!Whole, Qual!Ready, Qual!Kept, Qual!Listed
<1>7. JobHasCleared'
  <2>1. rank' \in {rank, None} /\ qc' \in {qc, None}
    BY <1>4
  <2>2. job.kind = "slicer" => /\ Ahead = 9 => qc' = None
                               /\ Ahead = 10 => rank' = None
    BY <1>4 DEF Clears, Exports
  <2>3. job.kind = "scores" => /\ Ahead = 7 => qc' = None
                               /\ Ahead = 8 => rank' = None
    BY <1>4 DEF Clears, Exports
  <2>4. job.kind = "process" => job.stop = 4 /\ Ahead = 4
    BY <1>4 DEF Clears, Exports
  <2>5. /\ job.kind = "slicer" => /\ Ahead <= 8 => qc = None
                                  /\ Ahead \in 1 .. 9 => rank = None
        /\ job.kind = "scores" => /\ Ahead <= 6 => qc = None
                                  /\ Ahead \in 1 .. 7 => rank = None
        /\ rank = "outdated" =>
             job.kind = "process" /\ ~(job.stop = 3 /\ Ahead = 0) /\ ~(job.stop = 4 /\ Ahead <= 4)
    BY <1>2 DEF QualityIsSound, JobHasCleared
  <2>6. job.kind = "slicer" => /\ Ahead' <= 8 => qc' = None
                               /\ Ahead' \in 1 .. 9 => rank' = None
    BY <1>3, <2>1, <2>2, <2>5
  <2>7. job.kind = "scores" => /\ Ahead' <= 6 => qc' = None
                               /\ Ahead' \in 1 .. 7 => rank' = None
    BY <1>3, <2>1, <2>3, <2>5
  <2>8. rank' # "outdated"
    BY <2>1, <2>4, <2>5, QualityAssumption
  <2> QED BY <1>3, <2>6, <2>7, <2>8 DEF JobHasCleared
<1>8. JobHasExported'
  <2>1. job.stop = 4 => Ahead = 4
    BY <1>2, <1>4 DEF QualityIsSound, JobIsPlanned, Clears, Exports
  <2> QED BY <1>3, <2>1 DEF JobHasExported
<1> QED BY <1>1, <1>2, <1>3, <1>5, <1>6, <1>7, <1>8, WorkerStep

(* Candidates are set aside and made again: of a run that is resumed over  *)
(* decisions nothing is promised.                                          *)
LEMMA StepSlice ==
  ASSUME QualityIsSound, Followed, Qual!Slice
  PROVE  QualityIsSound'
<1>1. /\ UNCHANGED <<tq, sp, rank, qc, exp, decision>>
      /\ cand' \in CandFile \cup {None}
      /\ Qual!At("aside") \/ Qual!At("slice")
  BY DEF Qual!Slice, CandFile
<1>2. job # None /\ job.left # <<>> /\ job \in JobRow /\ Qual!Goes
  BY HeadIsDue DEF Qual!Slice, QualityIsSound, QualityShapes, Qual!At
<1>3. /\ job' \in JobRow /\ job' # None /\ JobIsPlanned' /\ done' = done /\ done = 0
      /\ job'.kind = job.kind /\ job'.stop = job.stop
      /\ Ahead \in Nat \ {0} /\ Ahead' = Ahead - 1
  BY <1>2, WorkerGoes DEF QualityIsSound, JobHasCleared
<1>4. job.kind \in {"slicer", "process"} /\ (Makes(5, 5, 9) \/ Makes(4, 4, 8))
  BY <1>1, HeadIsDue DEF Due
<1>5. qc = None
  <2>1. CASE job.kind = "process"
    BY <1>2, <2>1 DEF Followed, Qual!ResumedOver
  <2>2. CASE job.kind = "slicer"
    BY <1>2, <1>4, <2>2 DEF Makes, QualityIsSound, JobHasCleared
  <2> QED BY <1>4, <2>1, <2>2
<1>6. QualityShapes'
  BY <1>1, <1>3 DEF QualityIsSound, QualityShapes
<1>7. Qual!DecidedOnWhatStands'
  BY <1>1, <1>5 DEF Qual!DecidedOnWhatStands, Qual!Whole
<1>8. JobHasCleared'
  <2>1. job.kind = "slicer" => rank = None
    BY <1>2, <1>4 DEF Makes, QualityIsSound, JobHasCleared
  <2>2. job.kind = "process" /\ rank = "outdated" =>
          (job.stop = 3 => Ahead \in {4, 5}) /\ (job.stop = 4 => Ahead \in {8, 9})
    BY <1>4 DEF Makes
  <2>3. rank = "outdated" => job.kind = "process"
    BY <1>2 DEF QualityIsSound, JobHasCleared
  <2> QED BY <1>1, <1>3, <1>4, <1>5, <2>1, <2>2, <2>3 DEF JobHasCleared
<1>9. JobHasExported'
  <2>1. job.stop = 4 => Ahead \in {8, 9}
    BY <1>2, <1>4 DEF QualityIsSound, JobIsPlanned, Makes
  <2> QED BY <1>3, <2>1 DEF JobHasExported
<1> QED BY <1>1, <1>2, <1>3, <1>6, <1>7, <1>8, <1>9, WorkerStep

(* Scores are made, of one kind after the other, and ranked.               *)
LEMMA NothingRanked ==
  ASSUME QualityIsSound, Followed, job # None, job' = None, done' = 0, Makes(3, 3, 7) \/ Makes(2, 2, 6)
  PROVE  rank = None
<1>1. CASE job.kind = "process"
  <2>1. ~(done' < Qual!StandsThrough)
    BY <1>1 DEF Followed, Qual!ResumedOver
  <2> QED BY <2>1 DEF Qual!StandsThrough
<1>2. CASE job.kind = "slicer"
  BY <1>2 DEF Makes, QualityIsSound, JobHasCleared
<1>3. CASE job.kind = "scores"
  BY <1>3 DEF Makes, QualityIsSound, JobHasCleared
<1> QED BY <1>1, <1>2, <1>3 DEF Makes

LEMMA ScoringJob ==
  ASSUME QualityIsSound, Followed, job # None, Makes(3, 3, 7) \/ Makes(2, 2, 6) \/ Makes(1, 1, 5)
  PROVE  /\ qc = None
         /\ job.kind \in {"slicer", "scores"} => rank = None
         /\ job.kind \in {"slicer", "scores", "process"}
         /\ job.stop = 4 => job.kind = "process"
<1>1. CASE job.kind = "process"
  BY <1>1 DEF Followed, Qual!ResumedOver
<1>2. CASE job.kind = "slicer"
  BY <1>2 DEF Makes, QualityIsSound, JobHasCleared, JobIsPlanned
<1>3. CASE job.kind = "scores"
  BY <1>3 DEF Makes, QualityIsSound, JobHasCleared, JobIsPlanned
<1> QED BY <1>1, <1>2, <1>3 DEF Makes

LEMMA StepScore ==
  ASSUME QualityIsSound, Followed, Qual!Score
  PROVE  QualityIsSound'
<1>1. cand # None /\ UNCHANGED <<cand, qc, exp, decision>>
  BY DEF Qual!Score
<1>2. /\ [gen : {cand.gen}, good : SUBSET Qual!Listed] \subseteq TextFile
      /\ [gen : {cand.gen}, good : SUBSET Qual!Listed, calibrated : {FALSE}] \subseteq VoiceFile
  <2>1. cand.gen \in 1 .. MaxGen /\ Qual!Listed \subseteq Qual!Clips
    BY <1>1, ListedAreClips DEF QualityIsSound, QualityShapes, CandFile
  <2> QED BY <2>1 DEF TextFile, VoiceFile
<1>3. \/ /\ Qual!At("+transcript") /\ UNCHANGED sp /\ rank' = Qual!Outdated(rank)
         /\ (Qual!Goes /\ tq' \in TextFile) \/ (Qual!Dies /\ tq' = Torn)
      \/ /\ Qual!At("+speaker") /\ UNCHANGED tq /\ rank' = Qual!Outdated(rank)
         /\ (Qual!Goes /\ sp' \in VoiceFile) \/ (Qual!Dies /\ sp' = Torn)
      \/ Qual!At("+rank") /\ UNCHANGED <<tq, sp>> /\ rank' \in {rank, "stands"} /\ Qual!Goes
  BY <1>2 DEF Qual!Score, Qual!Writes
<1>4. job # None /\ job.left # <<>> /\ job \in JobRow
  BY <1>3 DEF QualityIsSound, QualityShapes, Qual!At
<1>5. /\ Qual!At("+transcript") => Makes(3, 3, 7)
      /\ Qual!At("+speaker") => Makes(2, 2, 6)
      /\ Qual!At("+rank") => Makes(1, 1, 5)
  BY HeadIsDue DEF Due
<1>6. Makes(3, 3, 7) \/ Makes(2, 2, 6) \/ Makes(1, 1, 5)
  BY <1>3, <1>5
<1>7. /\ qc = None /\ qc' = None
      /\ job.kind \in {"slicer", "scores"} => rank = None
      /\ job.kind \in {"slicer", "scores", "process"}
      /\ job.stop = 4 => job.kind = "process"
  BY <1>1, <1>4, <1>6, ScoringJob
<1>8. rank \in {None, "stands", "outdated"} /\ rank' \in {None, "stands", "outdated"}
  BY <1>3 DEF QualityIsSound, QualityShapes, Qual!Outdated
<1>9. tq' \in TextFile \cup {None, Torn} /\ sp' \in VoiceFile \cup {None, Torn}
  BY <1>3 DEF QualityIsSound, QualityShapes
<1>10. Qual!DecidedOnWhatStands'
  BY <1>7 DEF Qual!DecidedOnWhatStands, Qual!Whole
<1>11. CASE Qual!Goes
  <2>1. /\ job' \in JobRow /\ job' # None /\ JobIsPlanned' /\ done' = done /\ done = 0
        /\ job'.kind = job.kind /\ job'.stop = job.stop
        /\ Ahead \in Nat \ {0} /\ Ahead' = Ahead - 1
    BY <1>4, <1>11, WorkerGoes DEF QualityIsSound, JobHasCleared
  <2>2. QualityShapes'
    BY <1>1, <1>8, <1>9, <2>1 DEF QualityIsSound, QualityShapes
  <2>3. JobHasExported'
    <3>1. job.stop = 4 => Ahead \in {7, 6, 5}
      BY <1>6, <1>7 DEF Makes
    <3> QED BY <2>1, <3>1 DEF JobHasExported
  <2>4. JobHasCleared'
    <3>1. job.kind \in {"slicer", "scores"} => (Ahead = 1 \/ rank' = None) /\ rank' # "outdated"
      <4>1. CASE Qual!At("+rank")
        <5>1. job.kind \in {"slicer", "scores"} => Ahead = 1
          BY <1>5, <4>1 DEF Makes
        <5>2. rank' \in {rank, "stands"}
          <6>1. Head(job.left) = "+rank"
            BY <4>1 DEF Qual!At
          <6> QED BY <1>3, <6>1 DEF Qual!At
        <5> QED BY <1>7, <5>1, <5>2, QualityAssumption
      <4>2. CASE ~Qual!At("+rank")
        BY <1>3, <1>7, <4>2, QualityAssumption DEF Qual!Outdated
      <4> QED BY <4>1, <4>2
    <3>2. job.kind = "process" /\ rank' = "outdated" =>
            (job.stop = 3 => Ahead \in {2, 3}) /\ (job.stop = 4 => Ahead \in {6, 7})
      <4>1. job.kind = "process" /\ rank' = "outdated" => ~Qual!At("+rank")
        BY <1>4 DEF Followed, Qual!ResumedOver
      <4>2. ~Qual!At("+rank") => Makes(3, 3, 7) \/ Makes(2, 2, 6)
        BY <1>3, <1>5
      <4> QED BY <4>1, <4>2 DEF Makes
    <3>3. /\ job'.kind = "slicer" => /\ Ahead' <= 8 => qc' = None
                                     /\ Ahead' \in 1 .. 9 => rank' = None
          /\ job'.kind = "scores" => /\ Ahead' <= 6 => qc' = None
                                     /\ Ahead' \in 1 .. 7 => rank' = None
      BY <1>7, <2>1, <3>1
    <3>4. rank' = "outdated" =>
            job'.kind = "process" /\ ~(job'.stop = 3 /\ Ahead' = 0) /\ ~(job'.stop = 4 /\ Ahead' <= 4)
      BY <1>7, <2>1, <3>1, <3>2
    <3> QED BY <2>1, <3>3, <3>4 DEF JobHasCleared
  <2> QED BY <1>1, <1>4, <1>10, <2>1, <2>2, <2>3, <2>4, WorkerStep
<1>12. CASE ~Qual!Goes
  <2>1. /\ Qual!Dies /\ rank' = Qual!Outdated(rank)
        /\ Qual!At("+transcript") \/ Qual!At("+speaker")
    BY <1>3, <1>12
  <2>2. job' = None /\ done' = 0
    BY <2>1 DEF Qual!Dies
  <2>3. rank = None
    BY <1>4, <1>5, <2>1, <2>2, NothingRanked
  <2>4. rank' # "outdated"
    BY <2>1, <2>3, QualityAssumption DEF Qual!Outdated
  <2>5. QualityShapes'
    BY <1>1, <1>8, <1>9, <2>2 DEF QualityIsSound, QualityShapes
  <2> QED BY <1>1, <1>4, <1>10, <2>2, <2>4, <2>5, WorkerStep
<1> QED BY <1>11, <1>12

(* The accepted clips are cut, those that can be, and listed twice.        *)
LEMMA StepExport ==
  ASSUME QualityIsSound, Followed, Qual!Export
  PROVE  QualityIsSound'
<1>1. cand # None /\ qc # Torn /\ UNCHANGED <<cand, tq, sp, rank, qc, decision>>
  BY DEF Qual!Export
<1>2. \/ /\ Qual!At("+clips")
         /\ \/ \E made \in SUBSET Qual!Exportable(qc) :
                 Advances(made) /\ exp' = [exp EXCEPT !.clips = Qual!Cut(made)]
            \/ /\ Qual!Dies
               /\ \E made \in SUBSET Qual!Exportable(qc) :
                    exp' = [exp EXCEPT !.clips = Qual!Cut(made)]
      \/ /\ Qual!At("+manifest")
         /\ \E m \in {Torn, Qual!Manifest(job.cut)} : exp' = [exp EXCEPT !.manifest = m]
         /\ Qual!Dies \/ (Qual!Goes /\ exp'.manifest = Qual!Manifest(job.cut))
      \/ /\ Qual!At("+summary")
         /\ \E m \in {Torn, Qual!Summary(job.cut)} : exp' = [exp EXCEPT !.summary = m]
         /\ Qual!Dies \/ (Qual!Goes /\ exp'.summary = Qual!Summary(job.cut))
  BY DEF Qual!Export, Qual!CutAccepted, Qual!Writes, Advances
<1>3. job # None /\ job.left # <<>> /\ job \in JobRow
  BY <1>2 DEF QualityIsSound, QualityShapes, Qual!At
<1>4. /\ Qual!At("+clips") => Exports(3)
      /\ Qual!At("+manifest") => Exports(2)
      /\ Qual!At("+summary") => Exports(1)
  BY HeadIsDue DEF Due
<1>5. job.kind \in {"export", "process"} /\ job.stop = 4 /\ Ahead \in {1, 2, 3}
  BY <1>2, <1>4 DEF Exports
<1>6. rank # "outdated"
  BY <1>3, <1>5 DEF QualityIsSound, JobHasCleared
<1>7. exp \in [manifest : CutList \cup {None, Torn}, summary : ClipList \cup {None, Torn},
               clips : CutClips \cup {None}]
  BY DEF QualityIsSound, QualityShapes
<1>8. /\ Qual!Exportable(qc) \subseteq Qual!Clips
      /\ \A made \in SUBSET Qual!Clips :
           /\ Qual!Cut(made) \in CutClips /\ Qual!Manifest(made) \in CutList
           /\ Qual!Summary(made) \in ClipList
  <2>1. cand.gen \in 1 .. MaxGen /\ Qual!Exportable(qc) \subseteq Qual!Clips
    BY <1>1, ListedAreClips DEF QualityIsSound, QualityShapes, CandFile
  <2> QED BY <2>1 DEF Qual!Cut, Qual!Manifest, Qual!Summary, CutClips, CutList, ClipList
<1>9. Qual!DecidedOnWhatStands'
  BY <1>1 DEF QualityIsSound, Qual!DecidedOnWhatStands, Qual!Whole, Qual!Ready, Qual!Kept, Qual!Listed
<1>10. Qual!Exportable(qc)' = Qual!Exportable(qc) /\ job.cut \in SUBSET Qual!Clips
  BY <1>1, <1>3 DEF Qual!Exportable, Qual!Listed, JobRow
<1>13. \A made \in SUBSET Qual!Clips :
         /\ Qual!Cut(made)' = Qual!Cut(made) /\ Qual!Manifest(made)' = Qual!Manifest(made)
         /\ Qual!Summary(made)' = Qual!Summary(made)
  BY <1>1, <1>10 DEF Qual!Cut, Qual!Manifest, Qual!Summary
<1>14. exp' \in [manifest : CutList \cup {None, Torn}, summary : ClipList \cup {None, Torn},
                 clips : CutClips \cup {None}]
  <2>1. \A made \in SUBSET Qual!Exportable(qc) : Qual!Cut(made) \in CutClips
    BY <1>8
  <2>2. Qual!Manifest(job.cut) \in CutList /\ Qual!Summary(job.cut) \in ClipList
    BY <1>8, <1>10
  <2> QED BY <1>2, <1>7, <2>1, <2>2
<1>15. ASSUME NEW made \in SUBSET Qual!Clips, Advances(made),
              \/ /\ Ahead = 3 /\ made \subseteq Qual!Exportable(qc) /\ exp'.clips = Qual!Cut(made)
              \/ /\ made = job.cut /\ Ahead = 2 /\ exp'.clips = exp.clips
                 /\ exp'.manifest = Qual!Manifest(made)
              \/ /\ made = job.cut /\ Ahead = 1 /\ exp'.clips = exp.clips
                 /\ exp'.manifest = exp.manifest /\ exp'.summary = Qual!Summary(made)
       PROVE  QualityIsSound'
  <2>1. /\ job' \in JobRow /\ job' # None /\ JobIsPlanned' /\ done' = done /\ done = 0
        /\ job'.kind = job.kind /\ job'.stop = job.stop /\ job'.cut = made
        /\ Ahead \in Nat \ {0} /\ Ahead' = Ahead - 1
    BY <1>3, <1>15, WorkerAdvances DEF QualityIsSound, JobHasCleared
  <2>2. QualityShapes'
    BY <1>1, <1>14, <2>1 DEF QualityIsSound, QualityShapes
  <2>3. JobHasExported'
    <3>1. /\ Ahead <= 2 => job.cut \subseteq Qual!Exportable(qc) /\ exp.clips = Qual!Cut(job.cut)
          /\ Ahead <= 1 => exp.manifest = Qual!Manifest(job.cut)
      BY <1>3, <1>5 DEF QualityIsSound, JobHasExported
    <3>2. /\ Ahead' <= 2 => made \subseteq Qual!Exportable(qc) /\ exp'.clips = Qual!Cut(made)
          /\ Ahead' <= 1 => exp'.manifest = Qual!Manifest(made)
          /\ Ahead' = 0  => exp'.summary = Qual!Summary(made)
      BY <1>15, <2>1, <3>1
    <3> QED BY <1>10, <1>13, <2>1, <3>2 DEF JobHasExported
  <2>4. JobHasCleared'
    BY <1>1, <1>5, <1>6, <2>1 DEF JobHasCleared
  <2> QED BY <1>1, <1>3, <1>9, <2>1, <2>2, <2>3, <2>4, WorkerStep
<1>11. CASE ~Qual!Dies
  <2>1. CASE Qual!At("+clips")
    <3>1. PICK made \in SUBSET Qual!Exportable(qc) :
            Advances(made) /\ exp' = [exp EXCEPT !.clips = Qual!Cut(made)]
      BY <1>2, <1>11, <2>1 DEF Qual!At
    <3>2. exp'.clips = Qual!Cut(made) /\ made \in SUBSET Qual!Clips
      BY <1>7, <1>8, <3>1
    <3> QED BY <1>4, <1>15, <2>1, <3>1, <3>2 DEF Exports
  <2>2. CASE Qual!At("+manifest")
    <3>1. /\ Advances(job.cut) /\ exp'.clips = exp.clips
          /\ exp'.manifest = Qual!Manifest(job.cut)
      BY <1>2, <1>3, <1>7, <1>11, <2>2, GoesAdvances DEF Qual!At
    <3> QED BY <1>4, <1>10, <1>15, <2>2, <3>1 DEF Exports
  <2>3. CASE Qual!At("+summary")
    <3>1. /\ Advances(job.cut) /\ exp'.clips = exp.clips /\ exp'.manifest = exp.manifest
          /\ exp'.summary = Qual!Summary(job.cut)
      BY <1>2, <1>3, <1>7, <1>11, <2>3, GoesAdvances DEF Qual!At
    <3> QED BY <1>4, <1>10, <1>15, <2>3, <3>1 DEF Exports
  <2> QED BY <1>2, <2>1, <2>2, <2>3
<1>12. CASE Qual!Dies
  <2>1. job' = None /\ done' = 0
    BY <1>12 DEF Qual!Dies
  <2>2. QualityShapes'
    BY <1>1, <1>14, <2>1 DEF QualityIsSound, QualityShapes
  <2> QED BY <1>1, <1>3, <1>6, <1>9, <2>1, <2>2, WorkerStep
<1> QED BY <1>11, <1>12

(* A worker that is done has exported, if that was its last stage, what    *)
(* was decided.                                                            *)
LEMMA StepCompletes ==
  ASSUME QualityIsSound, Followed, Qual!Completes
  PROVE  QualityIsSound'
<1>1. /\ job # None /\ job.left = <<>> /\ job' = None /\ done' = job.stop
      /\ UNCHANGED <<cand, tq, sp, rank, qc, exp, decision>>
  BY DEF Qual!Completes
<1>2. job \in JobRow /\ Ahead = 0
  BY <1>1 DEF QualityIsSound, QualityShapes, Ahead
<1>3. QualityShapes'
  BY <1>1, <1>2 DEF QualityIsSound, QualityShapes, JobRow
<1>4. Qual!DecidedOnWhatStands'
  BY <1>1 DEF QualityIsSound, Qual!DecidedOnWhatStands, Qual!Whole, Qual!Ready, Qual!Kept, Qual!Listed
<1>5. rank # "outdated"
  <2>1. SUFFICES ASSUME rank = "outdated" PROVE FALSE
    OBVIOUS
  <2>2. job.kind = "process" /\ job.stop \notin {3, 4}
    BY <1>1, <1>2, <2>1 DEF QualityIsSound, JobHasCleared
  <2>3. job.stop \in {1, 2}
    BY <1>2, <2>2 DEF JobRow
  <2>4. ~(done' < Qual!StandsThrough)
    BY <1>1, <2>2 DEF Followed, Qual!ResumedOver
  <2>5. Qual!StandsThrough = 3
    BY <2>1, QualityAssumption DEF Qual!StandsThrough
  <2> QED BY <1>1, <2>3, <2>4, <2>5
<1>6. done' = 4 => ExportStands'
  <2>1. done' = 4 => ExportStands
    BY <1>1, <1>2 DEF QualityIsSound, JobHasExported, ExportStands
  <2> QED BY <1>1, <2>1, ExportStandsStill
<1> QED BY <1>1, <1>3, <1>4, <1>5, <1>6, WorkerStep

LEMMA StepStops ==
  ASSUME QualityIsSound, Followed, Qual!Stops
  PROVE  QualityIsSound'
<1>1. /\ job # None /\ job' = None
      /\ done' = 0 \/ (job.kind = "slicer" /\ done' = 1)
      /\ UNCHANGED <<cand, tq, sp, rank, qc, exp, decision>>
  BY DEF Qual!Stops, Qual!Dies
<1>2. QualityShapes'
  BY <1>1 DEF QualityIsSound, QualityShapes
<1>3. Qual!DecidedOnWhatStands'
  BY <1>1 DEF QualityIsSound, Qual!DecidedOnWhatStands, Qual!Whole, Qual!Ready, Qual!Kept, Qual!Listed
<1>4. rank # "outdated"
  <2>1. SUFFICES ASSUME rank = "outdated" PROVE FALSE
    OBVIOUS
  <2>2. job.kind = "process"
    BY <1>1, <2>1 DEF QualityIsSound, JobHasCleared
  <2>3. ~(done' < Qual!StandsThrough)
    BY <1>1, <2>2 DEF Followed, Qual!ResumedOver
  <2>4. Qual!StandsThrough = 3
    BY <2>1, QualityAssumption DEF Qual!StandsThrough
  <2> QED BY <1>1, <2>2, <2>3, <2>4
<1>5. done' # 4
  BY <1>1
<1> QED BY <1>1, <1>2, <1>3, <1>4, <1>5, WorkerStep

-----------------------------------------------------------------------------
(* A step of the finalization leaves the worker alone; one that changes    *)
(* files has no worker beside it.                                          *)
LEMMA DecisionStep ==
  ASSUME QualityIsSound, Followed, UNCHANGED <<cand, tq, sp, rank, job, done>>,
         UNCHANGED <<qc, exp>> \/ job = None,
         QualityShapes', CallIsTrue', Qual!DecidedOnWhatStands',
         done = 4 /\ job = None /\ (decision' = None \/ decision'.pc \notin Qual!Halfway) => ExportStands'
  PROVE  QualityIsSound'
<1>1. job' = None \/ decision' = None
  BY DEF Followed
<1>2. (JobIsPlanned /\ JobHasCleared /\ JobHasExported)'
  <2>1. CASE job = None
    BY <2>1 DEF JobIsPlanned, JobHasCleared, JobHasExported
  <2>2. CASE UNCHANGED <<qc, exp>>
    BY <2>2, ExportStandsStill DEF QualityIsSound, JobIsPlanned, JobHasCleared, JobHasExported, Ahead
  <2> QED BY <2>1, <2>2
<1>3. job' = None => rank' # "outdated"
  BY DEF QualityIsSound
<1>4. Qual!Halfway' = Qual!Halfway
  BY DEF Qual!Halfway
<1> QED BY <1>1, <1>2, <1>3, <1>4 DEF QualityIsSound

(* One that writes nothing.                                                *)
LEMMA ReadDecisionStep ==
  ASSUME QualityIsSound, Followed, UNCHANGED <<cand, tq, sp, rank, qc, exp, job, done>>,
         decision' \in ReadCall \cup WriteCall \cup {None}, CallIsTrue',
         decision = None \/ decision.pc \notin Qual!Halfway \/ exp = Qual!NoExport
  PROVE  QualityIsSound'
<1>1. QualityShapes'
  BY DEF QualityIsSound, QualityShapes
<1>2. Qual!DecidedOnWhatStands'
  BY DEF QualityIsSound, Qual!DecidedOnWhatStands, Qual!Whole, Qual!Ready, Qual!Kept, Qual!Listed
<1>3. done = 4 /\ job = None => ExportStands
  BY DEF QualityIsSound, ExportStands
<1>4. ExportStands => ExportStands'
  BY ExportStandsStill
<1> QED BY <1>1, <1>2, <1>3, <1>4, DecisionStep

LEMMA StepFinalize ==
  ASSUME QualityIsSound, Followed, Qual!Finalize
  PROVE  QualityIsSound'
<1>1. /\ decision = None /\ cand # None /\ tq # None /\ sp # None
      /\ decision' = [pc |-> "manifest", cand |-> None, tq |-> None, sp |-> None]
      /\ UNCHANGED <<cand, tq, sp, rank, qc, exp, job, done>>
  BY DEF Qual!Finalize
<1>2. decision' \in ReadCall /\ decision'.pc = "manifest"
  BY <1>1 DEF ReadCall
<1>3. CallIsTrue'
  BY <1>1, <1>2 DEF CallIsTrue
<1> QED BY <1>1, <1>2, <1>3, ReadDecisionStep

(* What is read is what stands: nobody writes meanwhile.                   *)
LEMMA StepRead ==
  ASSUME QualityIsSound, Followed, Qual!Read
  PROVE  QualityIsSound'
<1>1. /\ UNCHANGED <<cand, tq, sp, rank, qc, exp, job, done>>
      /\ decision # None /\ decision.pc \in {"manifest", "transcript", "speaker"}
  BY DEF Qual!Read, Qual!Here
<1>2. decision \in ReadCall
  BY <1>1 DEF QualityIsSound, QualityShapes, ReadCall, WriteCall, ClearCall
<1>3. cand \in CandFile /\ tq \in TextFile \cup {Torn} /\ sp \in VoiceFile \cup {Torn}
  BY <1>1 DEF QualityIsSound, QualityShapes, CallIsTrue
<1>4. /\ decision.pc \in {"transcript", "speaker"} => decision.cand = cand
      /\ decision.pc = "speaker" => decision.tq = tq
      /\ cand # None /\ tq # None /\ sp # None
  BY <1>1 DEF QualityIsSound, CallIsTrue
<1>5. CASE decision.pc = "manifest"
  <2>1. decision' = [decision EXCEPT !.pc = "transcript", !.cand = cand]
    BY <1>1, <1>5 DEF Qual!Read, Qual!Here, Qual!Moves
  <2>2. decision' \in ReadCall /\ decision'.pc = "transcript" /\ decision'.cand = cand
    BY <1>2, <1>3, <2>1 DEF ReadCall
  <2>3. CallIsTrue'
    BY <1>1, <1>4, <2>2 DEF CallIsTrue
  <2> QED BY <1>1, <1>5, <2>2, <2>3, ReadDecisionStep DEF Qual!Halfway
<1>6. CASE decision.pc = "transcript"
  <2>1. tq # Torn /\ decision' = [decision EXCEPT !.pc = "speaker", !.tq = tq]
    BY <1>1, <1>4, <1>6 DEF Qual!Read, Qual!Here, Qual!Moves, Qual!Rows
  <2>2. decision' \in ReadCall /\ decision'.pc = "speaker" /\ decision'.cand = cand /\ decision'.tq = tq
    BY <1>2, <1>3, <1>4, <1>6, <2>1 DEF ReadCall
  <2>3. CallIsTrue'
    BY <1>1, <1>4, <2>2 DEF CallIsTrue
  <2> QED BY <1>1, <1>6, <2>2, <2>3, ReadDecisionStep DEF Qual!Halfway
<1>7. CASE decision.pc = "speaker"
  <2>1. sp # Torn /\ decision' = [decision EXCEPT !.pc = "judge", !.sp = sp]
    BY <1>1, <1>4, <1>7 DEF Qual!Read, Qual!Here, Qual!Moves, Qual!Rows
  <2>2. /\ decision' \in ReadCall /\ decision'.pc = "judge"
        /\ decision'.cand = cand /\ decision'.tq = tq /\ decision'.sp = sp
    BY <1>2, <1>3, <1>4, <1>7, <2>1 DEF ReadCall
  <2>3. CallIsTrue'
    BY <1>1, <1>4, <2>2 DEF CallIsTrue
  <2> QED BY <1>1, <1>7, <2>2, <2>3, ReadDecisionStep DEF Qual!Halfway
<1> QED BY <1>1, <1>5, <1>6, <1>7

(* What is decided is so from the scores that stand.                       *)
LEMMA StepJudge ==
  ASSUME QualityIsSound, Followed, Qual!Judge
  PROVE  QualityIsSound'
<1>1. /\ UNCHANGED <<cand, tq, sp, rank, qc, exp, job, done>>
      /\ decision # None /\ decision.pc = "judge" /\ tq # Torn /\ sp # Torn
  BY DEF Qual!Judge, Qual!Here
<1>2. /\ cand # None /\ tq # None /\ sp # None
      /\ decision.cand = cand /\ decision.tq = tq /\ decision.sp = sp
  BY <1>1 DEF QualityIsSound, CallIsTrue
<1>3. cand \in CandFile /\ tq \in TextFile /\ sp \in VoiceFile
  BY <1>1, <1>2 DEF QualityIsSound, QualityShapes
<1>4. Qual!Listed = 1 .. cand.clips /\ Qual!Listed \subseteq Qual!Clips /\ Qual!Rows(sp) = sp
  BY <1>2, ListedAreClips DEF QualityIsSound, Qual!Listed, Qual!Rows
<1>5. PICK keep \in SUBSET Qual!Listed : \E reject \in SUBSET (Qual!Listed \ keep) :
        decision' = [pc |-> "write",
                     new |-> [gen |-> cand.gen, tq |-> tq, sp |-> sp, kept |-> keep,
                              accepted |-> Qual!Accepted(Qual!Listed, keep, reject)]]
  <2> DEFINE among == IF decision.cand = None THEN {} ELSE 1 .. decision.cand.clips
             gen   == IF decision.cand = None THEN 0 ELSE decision.cand.gen
  <2>1. among = Qual!Listed /\ among \cap Qual!Listed = Qual!Listed /\ gen = cand.gen
    BY <1>2, <1>4
  <2>2. \E keep \in SUBSET (among \cap Qual!Listed) : \E reject \in SUBSET (among \ keep) :
          decision' = [pc |-> "write",
                       new |-> [gen |-> gen, tq |-> decision.tq, sp |-> decision.sp, kept |-> keep,
                                accepted |-> Qual!Accepted(among \cap Qual!Listed, keep, reject)]]
    BY DEF Qual!Judge, Qual!Moves
  <2> HIDE DEF among, gen
  <2> QED BY <1>2, <2>1, <2>2
<1>6. PICK reject \in SUBSET (Qual!Listed \ keep) :
        decision' = [pc |-> "write",
                     new |-> [gen |-> cand.gen, tq |-> tq, sp |-> sp, kept |-> keep,
                              accepted |-> Qual!Accepted(Qual!Listed, keep, reject)]]
  BY <1>5
<1> DEFINE accepted == Qual!Accepted(Qual!Listed, keep, reject)
           new == [gen |-> cand.gen, tq |-> tq, sp |-> sp, kept |-> keep, accepted |-> accepted]
<1>7. /\ accepted \subseteq Qual!Listed
      /\ \A c \in accepted \ keep : c \in tq.good \cap sp.good /\ sp.calibrated
  BY <1>2, <1>4 DEF Qual!Accepted
<1> HIDE DEF accepted
<1>8. new \in DecisionFile
  <2>1. cand.gen \in 1 .. MaxGen
    BY <1>3 DEF CandFile
  <2> QED BY <1>3, <1>4, <1>7, <2>1 DEF DecisionFile
<1>9. /\ new.gen = cand.gen /\ new.tq = tq /\ new.sp = sp /\ new.kept = keep
      /\ new.accepted = accepted
  OBVIOUS
<1>10. decision' = [pc |-> "write", new |-> new]
  BY <1>6 DEF accepted
<1> HIDE DEF new
<1>11. decision' \in WriteCall /\ decision'.pc = "write" /\ decision'.new = new
  BY <1>8, <1>10 DEF WriteCall
<1>12. CallIsTrue'
  <2>1. Qual!Listed' = Qual!Listed
    BY <1>1 DEF Qual!Listed
  <2> QED BY <1>1, <1>2, <1>7, <1>9, <1>11, <2>1 DEF CallIsTrue
<1> QED BY <1>1, <1>11, <1>12, ReadDecisionStep DEF Qual!Halfway

(* The decisions are written in place.                                     *)
LEMMA StepWrite ==
  ASSUME QualityIsSound, Followed, Qual!Write
  PROVE  QualityIsSound'
<1>1. /\ UNCHANGED <<cand, tq, sp, rank, exp, job, done>>
      /\ decision # None /\ job = None
      /\ \/ decision.pc = "write" /\ qc' = Torn /\ decision' = [decision EXCEPT !.pc = "writing"]
         \/ decision.pc = "writing" /\ qc' = decision.new /\ decision' = [pc |-> "clear-manifest"]
  BY DEF Qual!Write, Qual!Here, Qual!Moves, QualityIsSound
<1>2. decision \in WriteCall
  BY <1>1 DEF QualityIsSound, QualityShapes, ReadCall, WriteCall, ClearCall
<1> DEFINE new == decision.new
<1>3. /\ cand # None /\ tq # None /\ sp # None /\ new \in DecisionFile
      /\ new.gen = cand.gen /\ new.tq = tq /\ new.sp = sp /\ tq # Torn /\ sp # Torn
      /\ new.kept \subseteq Qual!Listed
      /\ \A c \in new.accepted \ new.kept : c \in new.tq.good \cap new.sp.good /\ new.sp.calibrated
  BY <1>1, <1>2 DEF QualityIsSound, CallIsTrue, WriteCall
<1>4. CASE decision.pc = "write"
  <2>1. qc' = Torn /\ decision' = [decision EXCEPT !.pc = "writing"]
    BY <1>1, <1>4
  <2>2. decision' \in WriteCall /\ decision'.pc = "writing" /\ decision'.new = new
    BY <1>2, <2>1 DEF WriteCall
  <2>3. QualityShapes'
    BY <1>1, <2>1, <2>2 DEF QualityIsSound, QualityShapes
  <2>4. CallIsTrue'
    <3>1. Qual!Listed' = Qual!Listed
      BY <1>1 DEF Qual!Listed
    <3> HIDE DEF new
    <3> QED BY <1>1, <1>3, <2>1, <2>2, <3>1 DEF CallIsTrue
  <2>5. Qual!DecidedOnWhatStands'
    BY <2>1 DEF Qual!DecidedOnWhatStands, Qual!Whole
  <2>6. decision'.pc \in Qual!Halfway
    BY <2>2 DEF Qual!Halfway
  <2>7. decision' # None
    BY <2>2, QualityAssumption DEF WriteCall
  <2> QED BY <1>1, <2>2, <2>3, <2>4, <2>5, <2>6, <2>7, DecisionStep
<1>5. CASE decision.pc = "writing"
  <2>1. qc' = new /\ decision' = [pc |-> "clear-manifest"]
    BY <1>1, <1>5
  <2>2. decision' \in ClearCall /\ decision'.pc = "clear-manifest"
    BY <2>1 DEF ClearCall
  <2> HIDE DEF new
  <2>3. QualityShapes'
    BY <1>1, <1>3, <2>1, <2>2 DEF QualityIsSound, QualityShapes
  <2>4. CallIsTrue'
    BY <1>1, <1>3, <2>2 DEF CallIsTrue
  <2>5. Qual!DecidedOnWhatStands'
    <3>1. Qual!Listed' = Qual!Listed /\ Qual!Kept' \in {{}, Qual!Listed \cap new.kept}
      BY <1>1, <2>1 DEF Qual!Listed, Qual!Kept
    <3>2. (Qual!Ready /\ Qual!Whole(qc))' => Qual!Kept' = new.kept
      BY <1>1, <1>3, <2>1, <3>1 DEF Qual!Kept
    <3> QED BY <1>1, <1>3, <2>1, <3>2 DEF Qual!DecidedOnWhatStands, Qual!Whole
  <2>6. decision'.pc \in Qual!Halfway
    BY <2>2 DEF Qual!Halfway
  <2>7. decision' = None => ExportStands'
    <3>1. decision' = None => exp' = Qual!NoExport'
      BY <1>1, <1>5 DEF Followed, Qual!Halfway, Qual!NoExport
    <3> QED BY <3>1 DEF ExportStands
  <2> QED BY <1>1, <2>2, <2>3, <2>4, <2>5, <2>6, <2>7, DecisionStep
<1> QED BY <1>1, <1>4, <1>5

(* Then what was exported is removed.                                      *)
LEMMA StepClearExport ==
  ASSUME QualityIsSound, Followed, Qual!ClearExport
  PROVE  QualityIsSound'
<1>1. /\ UNCHANGED <<cand, tq, sp, rank, qc, job, done>>
      /\ decision # None /\ job = None /\ cand # None /\ tq # None /\ sp # None
      /\ \/ /\ decision.pc = "clear-manifest" /\ exp' = [exp EXCEPT !.manifest = None]
            /\ decision' = [decision EXCEPT !.pc = "clear-summary"]
         \/ /\ decision.pc = "clear-summary" /\ exp' = [exp EXCEPT !.summary = None]
            /\ decision' = [decision EXCEPT !.pc = "clear-clips"]
         \/ decision.pc = "clear-clips" /\ exp' = [exp EXCEPT !.clips = None] /\ decision' = None
  BY DEF Qual!ClearExport, Qual!Here, Qual!Moves, QualityIsSound, CallIsTrue
<1>2. decision \in ClearCall
  BY <1>1 DEF QualityIsSound, QualityShapes, ReadCall, WriteCall, ClearCall
<1>3. exp \in [manifest : CutList \cup {None, Torn}, summary : ClipList \cup {None, Torn},
               clips : CutClips \cup {None}]
  BY DEF QualityIsSound, QualityShapes
<1>4. exp' \in [manifest : CutList \cup {None, Torn}, summary : ClipList \cup {None, Torn},
                clips : CutClips \cup {None}]
  BY <1>1, <1>3
<1>5. /\ decision.pc \in {"clear-summary", "clear-clips"} => exp.manifest = None
      /\ decision.pc = "clear-clips" => exp.summary = None
  BY <1>1 DEF QualityIsSound, CallIsTrue
<1>6. /\ decision' \in ClearCall \cup {None}
      /\ decision' # None =>
           /\ decision'.pc \in {"clear-summary", "clear-clips"}
           /\ exp'.manifest = None
           /\ decision'.pc = "clear-clips" => exp'.summary = None
  BY <1>1, <1>2, <1>3, <1>5 DEF ClearCall
<1>7. QualityShapes'
  BY <1>1, <1>4, <1>6 DEF QualityIsSound, QualityShapes
<1>8. CallIsTrue'
  BY <1>1, <1>6 DEF CallIsTrue
<1>9. Qual!DecidedOnWhatStands'
  BY <1>1 DEF QualityIsSound, Qual!DecidedOnWhatStands, Qual!Whole, Qual!Ready, Qual!Kept, Qual!Listed
<1>10. decision' = None => ExportStands'
  <2>1. decision' = None => exp' = Qual!NoExport'
    BY <1>1 DEF Followed, Qual!Halfway, Qual!NoExport
  <2> QED BY <2>1 DEF ExportStands
<1>11. decision' # None => decision'.pc \in Qual!Halfway
  BY <1>6 DEF Qual!Halfway
<1> QED BY <1>1, <1>7, <1>8, <1>9, <1>10, <1>11, DecisionStep

(* One that ends early has left no export, or is not followed.             *)
LEMMA StepAbandon ==
  ASSUME QualityIsSound, Followed, Qual!Abandon
  PROVE  QualityIsSound'
<1>1. /\ decision # None /\ decision' = None
      /\ UNCHANGED <<cand, tq, sp, rank, qc, exp, job, done>>
  BY DEF Qual!Abandon
<1>2. decision.pc \notin Qual!Halfway \/ exp = Qual!NoExport
  BY <1>1 DEF Followed
<1>3. CallIsTrue'
  BY <1>1 DEF CallIsTrue
<1> QED BY <1>1, <1>2, <1>3, ReadDecisionStep

-----------------------------------------------------------------------------
LEMMA InitQuality == Qual!Init => QualityInv
<1> SUFFICES ASSUME Qual!Init PROVE QualityIsSound
  BY DEF QualityInv
<1>1. /\ rank = None /\ qc = None /\ exp = Qual!NoExport /\ job = None /\ decision = None
      /\ \E n \in 0 .. MaxClips : cand = [gen |-> 1, clips |-> n]
      /\ \/ tq = None /\ sp = None /\ done = 1
         \/ /\ tq = [gen |-> 1, good |-> Qual!Listed]
            /\ sp = [gen |-> 1, good |-> Qual!Listed, calibrated |-> TRUE]
            /\ done = 3
  BY DEF Qual!Init
<1>2. cand \in CandFile
  BY <1>1, QualityAssumption DEF CandFile
<1>3. Qual!Listed \subseteq Qual!Clips
  <2>1. \A n \in 0 .. MaxClips : 1 .. n \subseteq 1 .. MaxClips
    BY QualityAssumption
  <2> QED BY <1>2, <2>1 DEF CandFile, Qual!Listed, Qual!Clips
<1>4. tq \in TextFile \cup {None} /\ sp \in VoiceFile \cup {None} /\ done \in {1, 3}
  <2>1. 1 \in 1 .. MaxGen /\ Qual!Listed \in SUBSET Qual!Clips
    BY <1>3, QualityAssumption
  <2>2. /\ [gen |-> 1, good |-> Qual!Listed] \in TextFile
        /\ [gen |-> 1, good |-> Qual!Listed, calibrated |-> TRUE] \in VoiceFile
    BY <2>1 DEF TextFile, VoiceFile
  <2> QED BY <1>1, <2>2
<1>5. QualityShapes
  BY <1>1, <1>2, <1>4 DEF QualityShapes, Qual!NoExport
<1>6. Qual!DecidedOnWhatStands
  BY <1>1 DEF Qual!DecidedOnWhatStands, Qual!Whole
<1>7. rank # "outdated"
  BY <1>1, QualityAssumption
<1> QED BY <1>1, <1>4, <1>5, <1>6, <1>7
     DEF QualityIsSound, JobIsPlanned, JobHasCleared, JobHasExported, CallIsTrue

LEMMA StutterQuality == QualityInv /\ UNCHANGED quality => QualityInv'
<1> SUFFICES ASSUME QualityIsSound, UNCHANGED quality, beyond' = "nothing" PROVE QualityIsSound'
  BY DEF QualityInv, quality
<1>1. UNCHANGED <<cand, tq, sp, rank, qc, exp, job, decision, done>>
  BY DEF quality
<1>2. QualityShapes'
  BY <1>1 DEF QualityIsSound, QualityShapes
<1>3. Ahead' = Ahead
  BY <1>1 DEF Ahead
<1>4. JobIsPlanned' /\ JobHasCleared' /\ JobHasExported'
  BY <1>1, <1>3, ExportStandsStill DEF QualityIsSound, JobIsPlanned, JobHasCleared, JobHasExported
<1>5. CallIsTrue'
  BY <1>1 DEF QualityIsSound, CallIsTrue, Qual!Listed
<1>6. Qual!DecidedOnWhatStands'
  BY <1>1 DEF QualityIsSound, Qual!DecidedOnWhatStands, Qual!Whole, Qual!Ready, Qual!Kept, Qual!Listed
<1>7. ExportStands => ExportStands'
  BY <1>1, ExportStandsStill
<1>8. Qual!Halfway' = Qual!Halfway
  BY DEF Qual!Halfway
<1> QED BY <1>1, <1>2, <1>4, <1>5, <1>6, <1>7, <1>8 DEF QualityIsSound

LEMMA StepQuality == QualityInv /\ [Qual!Next]_quality => QualityInv'
<1> SUFFICES ASSUME QualityInv, Qual!Next, beyond' = "nothing" PROVE QualityIsSound'
  <2>1. CASE UNCHANGED quality
    BY <2>1, StutterQuality
  <2> QED BY <2>1 DEF QualityInv
<1>1. QualityIsSound /\ Qual!Step /\ Followed
  BY StepIsFollowed DEF Qual!Next, QualityInv
<1>2. CASE Qual!RerunSlicer
  BY <1>1, <1>2, StepLaunch DEF Qual!RerunSlicer
<1>3. CASE Qual!GenerateScores
  BY <1>1, <1>3, StepLaunch DEF Qual!GenerateScores
<1>4. CASE Qual!RerunExport
  BY <1>1, <1>4, StepLaunch DEF Qual!RerunExport
<1>5. CASE Qual!Resume
  BY <1>1, <1>5, StepLaunch DEF Qual!Resume
<1>6. CASE Qual!Clear
  BY <1>1, <1>6, StepClear
<1>7. CASE Qual!Slice
  BY <1>1, <1>7, StepSlice
<1>8. CASE Qual!Score
  BY <1>1, <1>8, StepScore
<1>9. CASE Qual!Export
  BY <1>1, <1>9, StepExport
<1>10. CASE Qual!Completes
  BY <1>1, <1>10, StepCompletes
<1>11. CASE Qual!Stops
  BY <1>1, <1>11, StepStops
<1>12. CASE Qual!Finalize
  BY <1>1, <1>12, StepFinalize
<1>13. CASE Qual!Read
  BY <1>1, <1>13, StepRead
<1>14. CASE Qual!Judge
  BY <1>1, <1>14, StepJudge
<1>15. CASE Qual!Write
  BY <1>1, <1>15, StepWrite
<1>16. CASE Qual!ClearExport
  BY <1>1, <1>16, StepClearExport
<1>17. CASE Qual!Abandon
  BY <1>1, <1>17, StepAbandon
<1> QED BY <1>1, <1>2, <1>3, <1>4, <1>5, <1>6, <1>7, <1>8, <1>9, <1>10, <1>11, <1>12, <1>13,
           <1>14, <1>15, <1>16, <1>17 DEF Qual!Step

LEMMA DecidedQuality == QualityInv => Qual!DecisionsStand
<1> SUFFICES ASSUME QualityIsSound PROVE Qual!DecidedOnWhatStands /\ Qual!ExportIsDecided /\ Qual!RankedByWhatStands
  BY DEF QualityInv, Qual!DecisionsStand
<1>1. Qual!ExportIsDecided
  <2>1. exp \in [manifest : CutList \cup {None, Torn}, summary : ClipList \cup {None, Torn},
                 clips : CutClips \cup {None}]
    BY DEF QualityIsSound, QualityShapes
  <2>2. ASSUME NEW made, exp.manifest = Qual!Manifest(made), exp.summary = Qual!Summary(made),
               exp.clips = Qual!Cut(made)
        PROVE  exp = [manifest |-> Qual!Manifest(made), summary |-> Qual!Summary(made),
                      clips |-> Qual!Cut(made)]
    BY <2>1, <2>2
  <2> QED BY <2>2 DEF QualityIsSound, ExportStands, Qual!ExportIsDecided
<1>2. Qual!RankedByWhatStands
  BY DEF QualityIsSound, Qual!RankedByWhatStands
<1> QED BY <1>1, <1>2 DEF QualityIsSound

(* Whatever a worker clears and makes again, and wherever it or a          *)
(* finalization ends, the decisions about clips are about those that       *)
(* stand, from the scores that stand, what is exported is what was decided *)
(* but for what the audit lists, and the ranking is of the scores that     *)
(* stand (dataset_qc.py and the worker's stages), until something comes to *)
(* pass that the code makes no provision for: for any number of clips and  *)
(* of generations of them.                                                 *)
THEOREM DecisionsStayTrue == Spec => []DecisionsStand
<1>1. Init => QualityInv
  BY InitQuality DEF Init
<1>2. QualityInv /\ [Next]_vars => QualityInv'
  <2>1. [Next]_vars => [Qual!Next]_quality
    BY DEF Next, vars
  <2> QED BY <2>1, StepQuality
<1>3. QualityInv => DecisionsStand
  BY DecidedQuality DEF DecisionsStand
<1> QED BY <1>1, <1>2, <1>3, PTL DEF Spec

-----------------------------------------------------------------------------
(* Some natural number of a set of them is the least.                      *)
LEMMA LeastNatural ==
  ASSUME NEW T, T \subseteq Nat, T # {}
  PROVE  \E x \in T : \A y \in T : x <= y
<1> DEFINE Less == {p \in Nat \X Nat : p[1] < p[2]}
<1>1. IsWellFoundedOn(Less, Nat)
  BY NatLessThanWellFounded DEF OpToRel
<1> HIDE DEF Less
<1>2. PICK x \in T : \A y \in T : ~(<<y, x>> \in Less)
  BY <1>1, WFMin
<1>3. ASSUME NEW y \in T PROVE x <= y
  <2>1. x \in Nat /\ y \in Nat
    OBVIOUS
  <2>2. y < x => <<y, x>> \in Less
    BY <2>1 DEF Less
  <2> QED BY <1>2, <2>1, <2>2
<1> QED BY <1>3

(* The layout of the recordings on one timeline is a function to places    *)
(* on it: there is one that follows the rule for each number of them, for  *)
(* there is no least number for which there is none.                       *)
Lays(f, n) ==
  \A k \in 1 .. n : f[k] = IF k = 1 THEN 0 ELSE f[k - 1] + Lengths[k - 1] + Gap

LEMMA LayoutExists ==
  \A n \in 0 .. Len(Lengths) : \E f \in [1 .. n -> Nat] : Lays(f, n)
<1> DEFINE Without == {n \in 0 .. Len(Lengths) : ~\E f \in [1 .. n -> Nat] : Lays(f, n)}
<1>0. Len(Lengths) \in Nat /\ Gap \in Nat /\ \A k \in 1 .. Len(Lengths) : Lengths[k] \in Nat
  BY SpeakersAssumption
<1> SUFFICES ASSUME Without # {} PROVE FALSE
  OBVIOUS
<1>1. Without \subseteq Nat
  BY <1>0
<1> HIDE DEF Without
<1>4. PICK n \in Without : \A m \in Without : n <= m
  BY <1>1, LeastNatural
<1>5. n \in 0 .. Len(Lengths) /\ ~\E f \in [1 .. n -> Nat] : Lays(f, n)
  BY <1>4 DEF Without
<1>2. CASE n = 0
  <2>1. Lays([k \in 1 .. 0 |-> 0], 0) /\ [k \in 1 .. 0 |-> 0] \in [1 .. 0 -> Nat]
    BY DEF Lays
  <2> QED BY <1>2, <1>5, <2>1
<1>3. CASE n # 0
  <2>1. n \in Nat \ {0} /\ n <= Len(Lengths) /\ n - 1 \in 0 .. Len(Lengths)
    BY <1>0, <1>3, <1>5
  <2>5. n - 1 \notin Without
    BY <1>4, <2>1
  <2>2. PICK f \in [1 .. (n - 1) -> Nat] : Lays(f, n - 1)
    BY <2>1, <2>5 DEF Without
  <2> DEFINE g == [k \in 1 .. n |-> IF k < n THEN f[k]
                                    ELSE IF n = 1 THEN 0 ELSE f[n - 1] + Lengths[n - 1] + Gap]
  <2>3. g \in [1 .. n -> Nat]
    BY <1>0, <2>1
  <2>4. ASSUME NEW k \in 1 .. n
        PROVE  g[k] = IF k = 1 THEN 0 ELSE g[k - 1] + Lengths[k - 1] + Gap
    <3>1. CASE k < n
      <4>1. k \in 1 .. n - 1 /\ (k # 1 => k - 1 \in 1 .. n - 1 /\ k - 1 < n /\ k - 1 \in 1 .. n)
        BY <2>1, <3>1
      <4> QED BY <2>2, <3>1, <4>1 DEF Lays
    <3>2. CASE k = n
      <4>1. k # 1 => k - 1 \in 1 .. n /\ k - 1 < n
        BY <2>1, <3>2
      <4> QED BY <2>1, <3>2, <4>1
    <3> QED BY <2>1, <3>1, <3>2
  <2> HIDE DEF g
  <2> QED BY <1>5, <2>3, <2>4 DEF Lays
<1> QED BY <1>2, <1>3

LEMMA OffsetIsPlace ==
  /\ Spk!Offset \in [DOMAIN Lengths -> Nat]
  /\ Lengths # <<>> => Spk!Offset[1] = 0
<1>0. DOMAIN Lengths = 1 .. Len(Lengths) /\ Len(Lengths) \in Nat
  BY SpeakersAssumption
<1>1. PICK f \in [DOMAIN Lengths -> Nat] : Lays(f, Len(Lengths))
  BY <1>0, LayoutExists
<1>2. f = [k \in DOMAIN Lengths |-> IF k = 1 THEN 0 ELSE f[k - 1] + Lengths[k - 1] + Gap]
  BY <1>0, <1>1 DEF Lays
<1> DEFINE rule(g) == g = [k \in DOMAIN Lengths |-> IF k = 1 THEN 0 ELSE g[k - 1] + Lengths[k - 1] + Gap]
<1>3. Spk!Offset = CHOOSE g : rule(g)
  BY DEF Spk!Offset
<1>4. rule(Spk!Offset)
  BY <1>2, <1>3
<1>5. \A k \in DOMAIN Lengths : Spk!Offset[k] = IF k = 1 THEN 0 ELSE Spk!Offset[k - 1] + Lengths[k - 1] + Gap
  BY <1>4
<1> DEFINE Astray == {k \in DOMAIN Lengths : Spk!Offset[k] \notin Nat}
<1>6. Astray = {}
  <2> SUFFICES ASSUME Astray # {} PROVE FALSE
    OBVIOUS
  <2>4. Astray \subseteq Nat
    BY <1>0
  <2>1. PICK k \in Astray : \A m \in Astray : k <= m
    <3> HIDE DEF Astray
    <3> QED BY <2>4, LeastNatural
  <2>2. CASE k = 1
    BY <1>5, <2>1, <2>2
  <2>3. CASE k # 1
    <3>1. k - 1 \in DOMAIN Lengths /\ k - 1 \notin Astray
      BY <1>0, <2>1, <2>3
    <3> QED BY <1>5, <2>1, <2>3, <3>1, SpeakersAssumption
  <2> QED BY <2>2, <2>3
<1>7. Lengths # <<>> => 1 \in DOMAIN Lengths
  BY <1>0, SpeakersAssumption
<1>8. \E S : Spk!Offset = [k \in DOMAIN Lengths |-> S[k]]
  BY <1>4
<1> QED BY <1>4, <1>5, <1>6, <1>7

(* The greater and the smaller of two numbers.                             *)
LEMMA OfTwo ==
  ASSUME NEW a \in Int, NEW b \in Int
  PROVE  /\ Spk!Max({a, b}) = IF a >= b THEN a ELSE b
         /\ Spk!Min({a, b}) = IF a <= b THEN a ELSE b
<1>1. \E x \in {a, b} : \A y \in {a, b} : x >= y
  OBVIOUS
<1>2. \E x \in {a, b} : \A y \in {a, b} : x <= y
  OBVIOUS
<1> QED BY <1>1, <1>2 DEF Spk!Max, Spk!Min

-----------------------------------------------------------------------------
(* Who speaks where (Spk is the module SpeakerRegions): the turns found,   *)
(* the regions and samples cut from them, the selection and its requests.  *)
RegionRow == [speaker : Spk!Labels, source : Spk!Sources, from : Nat, to : Nat]
Selections == {Spk!Absent, Spk!TornFile, Spk!Pending, Spk!Choice("auto", Solo)} \cup
              {Spk!Choice("user", s) : s \in Alpha}
Choosing == [at : {"checked", "writing"}, target : Alpha]
Places   == {"start", "ended", "failed", "buffers", "found", "heard", "regions", "single", "read",
             "selected", "summary"}

SpeakerShapes ==
  /\ count \in 1 .. Len(Lengths)
  /\ turns \subseteq Spk!Turns(Spk!Labels)
  /\ regions \subseteq RegionRow /\ samples \subseteq RegionRow
  /\ chosen \in Selections /\ read \in Selections
  /\ known \subseteq Spk!Labels /\ listed \subseteq Spk!Labels
  /\ target \in Spk!Labels \cup {None}
  /\ choosing \in {Spk!Idle} \cup Choosing
  /\ diarizer \in Places

(* A run of a single speaker: nobody is asked, and nobody but Solo heard.  *)
Alone == diarizer \in {"heard", "single"} \/ chosen.by = "auto"
Busy  == diarizer \notin Spk!Quiet
Heard(cuts) == \A r \in cuts : r.speaker \in Alpha

(* Who is asked whom to choose among is of those diarized.                 *)
SpeakersAreAsked ==
  /\ Alone => choosing = Spk!Idle /\ diarizer \notin {"start", "found", "regions", "read"}
  /\ ~Alone => /\ known \cup listed \subseteq Alpha
               /\ Heard(regions) /\ \A u \in turns : u[1] \in Alpha
  /\ diarizer = "start" => turns = {} /\ regions = {}
  /\ diarizer = "start" /\ chosen = Spk!Absent => known = {} /\ listed = {} /\ choosing = Spk!Idle
  /\ diarizer = "read" => read.by # "auto"

(* Unless a selection crossed the diarization, the file says what the      *)
(* worker made of it, and that is one who was heard.                       *)
ChoiceIsHeard ==
  /\ Busy /\ choosing # Spk!Idle => crossed
  /\ diarizer \in {"selected", "summary"} /\ ~crossed =>
       /\ chosen = read
       /\ read = Spk!Pending \/ read.target \in Spk!Available \cup {Solo}

SpeakerInv == SpeakerShapes /\ SpeakersAreAsked /\ ChoiceIsHeard /\ Spk!TargetIsHeard

-----------------------------------------------------------------------------
LEMMA PlaceOnTimeline ==
  ASSUME count \in 1 .. Len(Lengths), NEW k \in Spk!Sources
  PROVE  /\ k \in DOMAIN Lengths /\ k \in Nat /\ Spk!Offset[k] \in Nat /\ Lengths[k] \in Nat
         /\ Spk!Offset[1] = 0 /\ 1 \in Spk!Sources
         /\ Lengths \in Seq(Nat)
<1>1. k \in DOMAIN Lengths /\ k \in Nat /\ Lengths # <<>> /\ Lengths \in Seq(Nat) /\ 1 \in 1 .. count
  BY SpeakersAssumption DEF Spk!Sources
<1> QED BY <1>1, OffsetIsPlace DEF Spk!Sources

LEMMA TurnForm ==
  ASSUME NEW labels, NEW u \in Spk!Turns(labels)
  PROVE  u[1] \in labels /\ u[2] \in Nat /\ u[3] \in Nat /\ u[2] \in Bounds /\ u[3] \in Bounds
BY SpeakersAssumption DEF Spk!Turns

LEMMA FoundAreTurns ==
  ASSUME NEW n, NEW T, NEW found \in [1 .. n -> T]
  PROVE  Spk!ToSet(found) \subseteq T
BY DEF Spk!ToSet

(* What a turn leaves of itself in a recording.                            *)
Cut1(u, k) == Spk!Region(u[1], k, Spk!Max({u[2], Spk!Offset[k]}) - Spk!Offset[k],
                         Spk!Min({u[3], Spk!Offset[k] + Lengths[k]}) - Spk!Offset[k])

LEMMA PartForm ==
  ASSUME count \in 1 .. Len(Lengths), NEW k \in Spk!Sources,
         NEW u \in turns, turns \subseteq Spk!Turns(Spk!Labels)
  PROVE  LET r == Cut1(u, k) IN
         /\ r.speaker = u[1] /\ r.source = k /\ r.from \in Nat /\ r.to \in Int
         /\ r.from = IF u[2] >= Spk!Offset[k] THEN u[2] - Spk!Offset[k] ELSE 0
         /\ r.to = IF u[3] <= Spk!Offset[k] + Lengths[k] THEN u[3] - Spk!Offset[k] ELSE Lengths[k]
         /\ Spk!Size(r) > 0 => r \in RegionRow /\ r.to <= Lengths[k] /\ r.from < r.to
         /\ r.to <= u[3]
         /\ Spk!Size(r) = r.to - r.from
<1>1. Spk!Offset[k] \in Nat /\ Lengths[k] \in Nat
  BY PlaceOnTimeline
<1>2. u[1] \in Spk!Labels /\ u[2] \in Nat /\ u[3] \in Nat
  BY TurnForm
<1> DEFINE from == Spk!Max({u[2], Spk!Offset[k]}) - Spk!Offset[k]
           to   == Spk!Min({u[3], Spk!Offset[k] + Lengths[k]}) - Spk!Offset[k]
           r    == Cut1(u, k)
<1>3. /\ from = IF u[2] >= Spk!Offset[k] THEN u[2] - Spk!Offset[k] ELSE 0
      /\ to = IF u[3] <= Spk!Offset[k] + Lengths[k] THEN u[3] - Spk!Offset[k] ELSE Lengths[k]
  <2>1. Spk!Max({u[2], Spk!Offset[k]}) = IF u[2] >= Spk!Offset[k] THEN u[2] ELSE Spk!Offset[k]
    BY <1>1, <1>2, OfTwo
  <2>2. Spk!Min({u[3], Spk!Offset[k] + Lengths[k]})
          = IF u[3] <= Spk!Offset[k] + Lengths[k] THEN u[3] ELSE Spk!Offset[k] + Lengths[k]
    <3> DEFINE end == Spk!Offset[k] + Lengths[k]
    <3>1. end \in Int
      BY <1>1
    <3> HIDE DEF end
    <3>2. \A a, b \in Int : Spk!Min({a, b}) = IF a <= b THEN a ELSE b
      BY OfTwo
    <3>3. u[3] \in Int
      BY <1>2
    <3>4. Spk!Min({u[3], end}) = IF u[3] <= end THEN u[3] ELSE end
      BY ONLY <3>1, <3>2, <3>3, Zenon
    <3> QED BY <3>4 DEF end
  <2> QED BY <1>1, <1>2, <2>1, <2>2
<1>4. r.speaker = u[1] /\ r.source = k /\ r.from = from /\ r.to = to
      /\ r = [speaker |-> u[1], source |-> k, from |-> from, to |-> to]
  BY DEF Cut1, Spk!Region
<1> HIDE DEF from, to, r
<1>5. from \in Nat /\ to \in Int
  BY <1>1, <1>2, <1>3
<1>6. Spk!Size(r) = to - from
  BY <1>4 DEF Spk!Size
<1>7. to - from > 0 => to \in Nat /\ to <= Lengths[k] /\ from < to
  BY <1>1, <1>2, <1>3, <1>5
<1>9. to <= u[3]
  BY <1>1, <1>2, <1>3
<1>8. to \in Nat => r \in RegionRow
  BY <1>2, <1>4, <1>5 DEF RegionRow
<1> QED BY <1>3, <1>4, <1>5, <1>6, <1>7, <1>8, <1>9 DEF r

LEMMA RemappedForm ==
  ASSUME SpeakerShapes
  PROVE  /\ Spk!Remapped \subseteq RegionRow
         /\ \A r \in Spk!Remapped : r.from < r.to /\ r.to <= Lengths[r.source]
         /\ \A r \in Spk!Remapped : \E u \in turns : r.speaker = u[1] /\ r.to <= u[3]
         /\ Spk!Remapped = {r \in {Cut1(u, k) : u \in turns, k \in Spk!Sources} : Spk!Size(r) > 0}
<1>1. Spk!Remapped = {r \in {Cut1(u, k) : u \in turns, k \in Spk!Sources} : Spk!Size(r) > 0}
  BY DEF Spk!Remapped, Cut1
<1>2. ASSUME NEW r \in Spk!Remapped
      PROVE  r \in RegionRow /\ r.from < r.to /\ r.to <= Lengths[r.source]
             /\ \E u \in turns : r.speaker = u[1] /\ r.to <= u[3]
  <2>1. PICK u \in turns, k \in Spk!Sources : r = Cut1(u, k) /\ Spk!Size(r) > 0
    BY <1>1
  <2> QED BY <2>1, PartForm DEF SpeakerShapes
<1> QED BY <1>1, <1>2

LEMMA AsFoundForm ==
  ASSUME SpeakerShapes
  PROVE  /\ Spk!AsFound \subseteq RegionRow
         /\ \A r \in Spk!AsFound : r.from < r.to
         /\ \A r \in Spk!AsFound : \E u \in turns : r.speaker = u[1] /\ r.to <= u[3]
<1>1. ASSUME NEW r \in Spk!AsFound
      PROVE  r \in RegionRow /\ r.from < r.to /\ \E u \in turns : r.speaker = u[1] /\ r.to <= u[3]
  <2>1. PICK u \in turns : u[2] < u[3] /\ r = Spk!Region(u[1], 1, u[2], u[3])
    BY DEF Spk!AsFound
  <2>2. u[1] \in Spk!Labels /\ u[2] \in Nat /\ u[3] \in Nat
    BY TurnForm DEF SpeakerShapes
  <2>3. 1 \in Spk!Sources
    BY SpeakersAssumption DEF SpeakerShapes, Spk!Sources
  <2> QED BY <2>1, <2>2, <2>3 DEF Spk!Region, RegionRow
<1> QED BY <1>1

LEMMA SampledForm ==
  ASSUME NEW cuts, cuts \subseteq RegionRow
  PROVE  /\ Spk!Sampled(cuts) \subseteq RegionRow
         /\ \A m \in Spk!Sampled(cuts) : \E r \in cuts :
              /\ r.speaker = m.speaker /\ r.source = m.source
              /\ r.from = m.from /\ m.to <= r.to
<1> SUFFICES ASSUME NEW m \in Spk!Sampled(cuts)
             PROVE  m \in RegionRow /\ \E r \in cuts :
              /\ r.speaker = m.speaker /\ r.source = m.source
              /\ r.from = m.from /\ m.to <= r.to
  OBVIOUS
<1>1. PICK r \in cuts : m = [r EXCEPT !.to = Spk!Min({@, r.from + SampleLength})]
  BY DEF Spk!Sampled
<1>2. r \in RegionRow /\ r.from \in Nat /\ r.to \in Nat /\ SampleLength \in Nat
  BY SpeakersAssumption DEF RegionRow
<1>3. Spk!Min({r.to, r.from + SampleLength}) = IF r.to <= r.from + SampleLength THEN r.to ELSE r.from + SampleLength
  <2> DEFINE end == r.from + SampleLength
  <2>1. end \in Int
    BY <1>2
  <2> HIDE DEF end
  <2>2. \A a, b \in Int : Spk!Min({a, b}) = IF a <= b THEN a ELSE b
    BY OfTwo
  <2>3. r.to \in Int
    BY <1>2
  <2>4. Spk!Min({r.to, end}) = IF r.to <= end THEN r.to ELSE end
    BY ONLY <2>1, <2>2, <2>3, Zenon
  <2> QED BY <2>4 DEF end
<1>4. m = [r EXCEPT !.to = Spk!Min({r.to, r.from + SampleLength})]
  BY <1>1
<1>5. m \in RegionRow /\ m.speaker = r.speaker /\ m.source = r.source /\ m.from = r.from
      /\ m.to = Spk!Min({r.to, r.from + SampleLength})
  BY <1>2, <1>3, <1>4 DEF RegionRow
<1> QED BY <1>2, <1>3, <1>5

-----------------------------------------------------------------------------
(* The parts of RegionsAreTrue, of any regions and any samples.            *)
Tells(cuts) ==
  \A k \in Spk!Sources : \A t \in 0 .. Lengths[k] - 1 :
    {r.speaker : r \in {q \in cuts : q.source = k /\ q.from <= t /\ t < q.to}}
      = {u[1] : u \in {v \in turns : v[2] <= Spk!Offset[k] + t /\ Spk!Offset[k] + t < v[3]}}
Fits(cuts) == count > 1 => \A r \in cuts : r.from < r.to /\ r.to <= Lengths[r.source]
Sounding(cuts, kept) ==
  \A s \in {r.speaker : r \in cuts} : \E m \in kept :
    /\ m.speaker = s
    /\ \A r \in cuts : r.speaker = s => Spk!Size(m) >= Spk!Min({Spk!Size(r), SampleLength})
Backed(cuts, kept) ==
  \A m \in kept : \E r \in cuts :
    r.speaker = m.speaker /\ r.source = m.source /\ r.from = m.from /\ m.to <= r.to

LEMMA RemappedTells ==
  ASSUME SpeakerShapes
  PROVE  Tells(Spk!Remapped)
<1> SUFFICES ASSUME NEW k \in Spk!Sources, NEW t \in 0 .. Lengths[k] - 1
             PROVE  {r.speaker : r \in {q \in Spk!Remapped : q.source = k /\ q.from <= t /\ t < q.to}}
                    = {u[1] : u \in {v \in turns : v[2] <= Spk!Offset[k] + t /\ Spk!Offset[k] + t < v[3]}}
  BY DEF Tells
<1>0. Spk!Offset[k] \in Nat /\ Lengths[k] \in Nat /\ t \in Nat /\ t < Lengths[k]
  BY PlaceOnTimeline DEF SpeakerShapes
<1>1. ASSUME NEW r \in Spk!Remapped, r.source = k, r.from <= t, t < r.to
      PROVE  \E u \in turns : r.speaker = u[1] /\ u[2] <= Spk!Offset[k] + t /\ Spk!Offset[k] + t < u[3]
  <2>1. PICK u \in turns, h \in Spk!Sources : r = Cut1(u, h)
    BY RemappedForm
  <2>2. h = k
    BY <1>1, <2>1, PartForm DEF SpeakerShapes
  <2>3. /\ r.speaker = u[1]
        /\ r.from = IF u[2] >= Spk!Offset[k] THEN u[2] - Spk!Offset[k] ELSE 0
        /\ r.to = IF u[3] <= Spk!Offset[k] + Lengths[k] THEN u[3] - Spk!Offset[k] ELSE Lengths[k]
    BY <2>1, <2>2, PartForm DEF SpeakerShapes
  <2>4. u[2] \in Nat /\ u[3] \in Nat
    BY TurnForm DEF SpeakerShapes
  <2> QED BY <1>0, <1>1, <2>3, <2>4
<1>2. ASSUME NEW u \in turns, u[2] <= Spk!Offset[k] + t, Spk!Offset[k] + t < u[3]
      PROVE  \E r \in Spk!Remapped : r.speaker = u[1] /\ r.source = k /\ r.from <= t /\ t < r.to
  <2> DEFINE r == Cut1(u, k)
  <2>1. /\ r.speaker = u[1] /\ r.source = k
        /\ r.from = IF u[2] >= Spk!Offset[k] THEN u[2] - Spk!Offset[k] ELSE 0
        /\ r.to = IF u[3] <= Spk!Offset[k] + Lengths[k] THEN u[3] - Spk!Offset[k] ELSE Lengths[k]
        /\ Spk!Size(r) = r.to - r.from
    BY PartForm DEF SpeakerShapes
  <2> HIDE DEF r
  <2>2. u[2] \in Nat /\ u[3] \in Nat
    BY TurnForm DEF SpeakerShapes
  <2>3. r.from <= t /\ t < r.to /\ Spk!Size(r) > 0
    BY <1>0, <1>2, <2>1, <2>2
  <2>4. r \in Spk!Remapped
    BY <2>3, RemappedForm DEF r
  <2> QED BY <2>1, <2>3, <2>4
<1> QED BY <1>1, <1>2

LEMMA FoundTells ==
  ASSUME SpeakerShapes, count = 1
  PROVE  Tells(Spk!AsFound)
<1>1. Spk!Sources = {1} /\ Spk!Offset[1] = 0 /\ Lengths[1] \in Nat
  <2>1. Spk!Sources = {1}
    BY DEF Spk!Sources
  <2> QED BY <2>1, PlaceOnTimeline DEF SpeakerShapes
<1> SUFFICES ASSUME NEW k \in Spk!Sources, NEW t \in 0 .. Lengths[k] - 1
             PROVE  {r.speaker : r \in {q \in Spk!AsFound : q.source = k /\ q.from <= t /\ t < q.to}}
                    = {u[1] : u \in {v \in turns : v[2] <= Spk!Offset[k] + t /\ Spk!Offset[k] + t < v[3]}}
  BY DEF Tells
<1>0. k = 1 /\ Spk!Offset[k] + t = t
  BY <1>1
<1>2. Spk!AsFound = {[speaker |-> u[1], source |-> 1, from |-> u[2], to |-> u[3]] :
                       u \in {v \in turns : v[2] < v[3]}}
  BY DEF Spk!AsFound, Spk!Region
<1>3. ASSUME NEW u \in turns PROVE u[2] \in Nat /\ u[3] \in Nat
  BY TurnForm DEF SpeakerShapes
<1>4. ASSUME NEW r \in Spk!AsFound, r.from <= t, t < r.to
      PROVE  \E u \in turns : r.speaker = u[1] /\ u[2] <= Spk!Offset[k] + t /\ Spk!Offset[k] + t < u[3]
  BY <1>0, <1>2, <1>4
<1>5. ASSUME NEW u \in turns, u[2] <= Spk!Offset[k] + t, Spk!Offset[k] + t < u[3]
      PROVE  \E r \in Spk!AsFound : r.speaker = u[1] /\ r.source = k /\ r.from <= t /\ t < r.to
  <2>1. u[2] < u[3]
    BY <1>0, <1>1, <1>3, <1>5
  <2>2. [speaker |-> u[1], source |-> 1, from |-> u[2], to |-> u[3]] \in Spk!AsFound
    BY <1>2, <2>1
  <2> QED BY <1>0, <1>5, <2>2
<1> QED BY <1>4, <1>5

(* Of the regions of a speaker, one is the longest: none of the others are *)
(* ranked before it, and a sample is cut of it.                            *)
LEMMA LongestIsSampled ==
  ASSUME NEW cuts, cuts \subseteq RegionRow, NEW End \in Nat, \A r \in cuts : r.to <= End
  PROVE  Sounding(cuts, Spk!Sampled(cuts))
<1> SUFFICES ASSUME NEW r0 \in cuts
             PROVE  \E m \in Spk!Sampled(cuts) :
                      /\ m.speaker = r0.speaker
                      /\ \A r \in cuts : r.speaker = r0.speaker =>
                           Spk!Size(m) >= Spk!Min({Spk!Size(r), SampleLength})
  BY DEF Sounding
<1> DEFINE Of(s) == {r \in cuts : r.speaker = s}
           Before(r) == {q \in Of(r.speaker) :
                   \/ Spk!Size(q) > Spk!Size(r)
                   \/ Spk!Size(q) = Spk!Size(r) /\ q.source < r.source
                   \/ Spk!Size(q) = Spk!Size(r) /\ q.source = r.source /\ q.from < r.from}
           Own == Of(r0.speaker)
<1>1. \A r \in cuts : /\ r.from \in Nat /\ r.to \in Nat /\ r.source \in Nat
                      /\ Spk!Size(r) = r.to - r.from /\ Spk!Size(r) \in Int /\ End - Spk!Size(r) \in Nat
  BY DEF RegionRow, Spk!Size, Spk!Sources
<1>2. Own # {} /\ Own \subseteq cuts
  OBVIOUS
<1>3. PICK a \in Own : \A r \in Own : Spk!Size(r) <= Spk!Size(a)
  <2> DEFINE Short == {End - Spk!Size(r) : r \in Own}
  <2>1. Short \subseteq Nat /\ Short # {}
    BY <1>1, <1>2
  <2>2. PICK x \in Short : \A y \in Short : x <= y
    <3> HIDE DEF Short
    <3> QED BY <2>1, LeastNatural
  <2>3. PICK a \in Own : x = End - Spk!Size(a)
    BY <2>2
  <2>4. ASSUME NEW r \in Own PROVE Spk!Size(r) <= Spk!Size(a)
    <3>1. End - Spk!Size(a) <= End - Spk!Size(r)
      BY <2>2, <2>3
    <3>2. Spk!Size(r) \in Int /\ Spk!Size(a) \in Int
      BY <1>1, <1>2
    <3> QED BY <3>1, <3>2
  <2> QED BY <2>4
<1> DEFINE Long == {r \in Own : Spk!Size(r) = Spk!Size(a)}
<1>4. PICK b \in Long : \A r \in Long : b.source <= r.source
  <2> DEFINE Places1 == {r.source : r \in Long}
  <2>1. Places1 \subseteq Nat /\ Places1 # {}
    BY <1>1, <1>2
  <2>2. PICK x \in Places1 : \A y \in Places1 : x <= y
    <3> HIDE DEF Places1
    <3> QED BY <2>1, LeastNatural
  <2> QED BY <2>2
<1> DEFINE First == {r \in Long : r.source = b.source}
<1>5. PICK c \in First : \A r \in First : c.from <= r.from
  <2> DEFINE Starts == {r.from : r \in First}
  <2>1. Starts \subseteq Nat /\ Starts # {}
    BY <1>1, <1>2
  <2>2. PICK x \in Starts : \A y \in Starts : x <= y
    <3> HIDE DEF Starts
    <3> QED BY <2>1, LeastNatural
  <2> QED BY <2>2
<1>6. c \in cuts /\ c.speaker = r0.speaker /\ Spk!Size(c) = Spk!Size(a) /\ c.source = b.source
  BY <1>5
<1>7. Before(c) = {}
  <2> SUFFICES ASSUME NEW q \in Before(c) PROVE FALSE
    OBVIOUS
  <2>1. q \in Own /\ q \in cuts
    BY <1>6
  <2>2. Spk!Size(q) <= Spk!Size(c) /\ Spk!Size(q) \in Int /\ Spk!Size(c) \in Int
    BY <1>1, <1>3, <1>6, <2>1
  <2>3. Spk!Size(q) = Spk!Size(c) => q \in Long /\ c.source <= q.source
    BY <1>4, <1>6, <2>1
  <2>4. Spk!Size(q) = Spk!Size(c) /\ q.source = c.source => q \in First /\ c.from <= q.from
    BY <1>5, <1>6, <2>3
  <2>5. q.source \in Nat /\ c.source \in Nat /\ q.from \in Nat /\ c.from \in Nat
    BY <1>1, <1>6, <2>1
  <2>6. \/ Spk!Size(q) > Spk!Size(c)
        \/ Spk!Size(q) = Spk!Size(c) /\ q.source < c.source
        \/ Spk!Size(q) = Spk!Size(c) /\ q.source = c.source /\ q.from < c.from
    OBVIOUS
  <2> HIDE DEF Before, Own, Long, First
  <2> QED BY <2>2, <2>3, <2>4, <2>5, <2>6
<1>8. Spk!Cardinality({}) = 0
  <2>1. \A S : Spk!Cardinality(S) = Cardinality(S)
    BY DEF Spk!Cardinality, Cardinality
  <2> QED BY <2>1, FS_EmptySet
<1> DEFINE Short(r) == [r EXCEPT !.to = Spk!Min({@, r.from + SampleLength})]
           m == Short(c)
<1>9. Spk!Sampled(cuts) = {Short(r) : r \in {q \in cuts : Spk!Cardinality(Before(q)) < SampleCount}}
  BY DEF Spk!Sampled
<1>10. m \in Spk!Sampled(cuts)
  <2>1. Spk!Cardinality(Before(c)) < SampleCount
    <3> HIDE DEF Before
    <3> QED BY <1>7, <1>8, SpeakersAssumption
  <2> HIDE DEF Short, Before
  <2> QED BY <1>6, <1>9, <2>1
<1> HIDE DEF Before
<1>11. SampleLength \in Nat
  BY SpeakersAssumption
<1>12. \A x, y \in Int : Spk!Min({x, y}) = IF x <= y THEN x ELSE y
  BY OfTwo
<1>13. m.speaker = r0.speaker /\ Spk!Size(m) = IF Spk!Size(c) <= SampleLength THEN Spk!Size(c) ELSE SampleLength
  <2> DEFINE stop == c.from + SampleLength
  <2>1. stop \in Int /\ c.to \in Int
    BY <1>1, <1>6, <1>11
  <2>2. m = [c EXCEPT !.to = Spk!Min({c.to, stop})]
    OBVIOUS
  <2> HIDE DEF stop, m
  <2>3. Spk!Min({c.to, stop}) = IF c.to <= stop THEN c.to ELSE stop
    BY ONLY <1>12, <2>1, Zenon
  <2>4. c \in RegionRow
    BY <1>6
  <2>5. m.speaker = c.speaker /\ m.from = c.from /\ m.to = Spk!Min({c.to, stop})
    BY <2>2, <2>4 DEF RegionRow
  <2>6. Spk!Size(m) = (IF c.to <= c.from + SampleLength THEN c.to ELSE c.from + SampleLength) - c.from
    BY <2>3, <2>5 DEF Spk!Size, stop
  <2> QED BY <1>1, <1>6, <1>11, <2>5, <2>6
<1> HIDE DEF m, Short
<1>14. ASSUME NEW r \in cuts, r.speaker = r0.speaker
       PROVE  Spk!Size(m) >= Spk!Min({Spk!Size(r), SampleLength})
  <2>1. Spk!Size(r) <= Spk!Size(c) /\ Spk!Size(r) \in Int /\ Spk!Size(c) \in Int
    BY <1>1, <1>3, <1>6, <1>14
  <2>2. Spk!Min({Spk!Size(r), SampleLength}) = IF Spk!Size(r) <= SampleLength THEN Spk!Size(r) ELSE SampleLength
    BY <1>11, <1>12, <2>1
  <2> QED BY <1>11, <1>13, <2>1, <2>2
<1> QED BY <1>10, <1>13, <1>14

-----------------------------------------------------------------------------
SpeakersHold == SpeakerInv /\ Spk!RegionsAreTrue

LEMMA SelectionForms ==
  /\ \A c \in Selections : c.target \in Spk!Labels \cup {None} /\ (c.by = "user" => c.target \in Alpha)
  /\ Spk!Pending \in Selections /\ Spk!TornFile \in Selections /\ Spk!Choice("auto", Solo) \in Selections
  /\ \A s \in Alpha : Spk!Choice("user", s) \in Selections
  /\ Spk!Pending.target = None /\ Spk!Pending.by = "pending"
  /\ Spk!TornFile # Spk!Absent /\ Spk!TornFile.by = "torn"
  /\ Spk!Choice("auto", Solo).target = Solo /\ Spk!Choice("auto", Solo).by = "auto"
  /\ \A s : Spk!Choice("user", s).by = "user" /\ Spk!Choice("user", s) # Spk!Absent
  /\ Spk!Absent.by = "absent" /\ Spk!Absent \in Selections
<1> USE DEF Spk!Pending, Spk!TornFile, Spk!Absent, Spk!Choice
<1>1. ASSUME NEW c \in Selections
      PROVE  c.target \in Spk!Labels \cup {None} /\ (c.by = "user" => c.target \in Alpha)
  <2>1. CASE c \in {Spk!Absent, Spk!TornFile, Spk!Pending}
    BY <2>1
  <2>2. CASE c = Spk!Choice("auto", Solo)
    BY <2>2 DEF Spk!Labels
  <2>3. CASE \E s \in Alpha : c = Spk!Choice("user", s)
    BY <2>3 DEF Spk!Labels
  <2> QED BY <2>1, <2>2, <2>3 DEF Selections
<1>2. /\ Spk!Pending.target = None /\ Spk!Pending.by = "pending"
      /\ Spk!TornFile.by = "torn" /\ Spk!Absent.by = "absent"
      /\ Spk!Choice("auto", Solo).target = Solo /\ Spk!Choice("auto", Solo).by = "auto"
      /\ \A s : Spk!Choice("user", s).by = "user"
  OBVIOUS
<1>3. Spk!TornFile # Spk!Absent /\ \A s : Spk!Choice("user", s) # Spk!Absent
  BY <1>2
<1>4. /\ Spk!Pending \in Selections /\ Spk!TornFile \in Selections /\ Spk!Choice("auto", Solo) \in Selections
      /\ Spk!Absent \in Selections /\ \A s \in Alpha : Spk!Choice("user", s) \in Selections
  BY DEF Selections
<1> QED BY <1>1, <1>2, <1>3, <1>4

LEMMA ChoosingForms ==
  /\ \A c \in Choosing : c # Spk!Idle /\ c.target \in Alpha /\ [c EXCEPT !.at = "writing"] \in Choosing
  /\ Spk!Idle.at = "idle"
  /\ \A s \in Alpha : [at |-> "checked", target |-> s] \in Choosing
BY DEF Choosing, Spk!Idle

LEMMA TrueParts ==
  Spk!RegionsAreTrue <=>
    (diarizer \notin {"start", "found", "heard"} =>
       /\ Tells(regions) /\ Fits(regions)
       /\ Sounding(regions, samples) /\ Backed(regions, samples))
BY DEF Spk!RegionsAreTrue, Tells, Fits, Sounding, Backed, Spk!Available

LEMMA RegionsStay ==
  ASSUME Spk!RegionsAreTrue,
         \/ diarizer' \in {"start", "found", "heard"}
         \/ diarizer \notin {"start", "found", "heard"} /\ UNCHANGED <<count, turns, regions, samples>>
  PROVE  Spk!RegionsAreTrue'
<1>1. CASE diarizer' \in {"start", "found", "heard"}
  BY <1>1 DEF Spk!RegionsAreTrue
<1>2. CASE diarizer \notin {"start", "found", "heard"} /\ UNCHANGED <<count, turns, regions, samples>>
  BY <1>2 DEF Spk!RegionsAreTrue, Spk!Available, Spk!Sources
<1> QED BY <1>1, <1>2

LEMMA SpeakersStart ==
  ASSUME Spk!Init PROVE SpeakersHold
<1> USE SelectionForms, ChoosingForms
<1>1. SpeakerShapes
  <2>1. chosen \in Selections
    BY DEF Spk!Init
  <2>2. /\ count \in 1 .. Len(Lengths) /\ turns = {} /\ regions = {} /\ samples = {} /\ read = Spk!Absent
        /\ known \subseteq Alpha /\ listed = known /\ target = None /\ diarizer = "start" /\ choosing = Spk!Idle
    BY DEF Spk!Init
  <2> QED BY <2>1, <2>2 DEF SpeakerShapes, Spk!Labels, Places
<1>2. SpeakersAreAsked
  BY DEF Spk!Init, SpeakersAreAsked, Alone, Heard
<1>3. ChoiceIsHeard /\ Spk!TargetIsHeard /\ Spk!RegionsAreTrue
  BY DEF Spk!Init, ChoiceIsHeard, Spk!TargetIsHeard, Spk!RegionsAreTrue
<1> QED BY <1>1, <1>2, <1>3 DEF SpeakersHold, SpeakerInv

LEMMA FoundSpeakers ==
  ASSUME SpeakersHold, Spk!Diarize PROVE SpeakersHold'
<1> USE SelectionForms, ChoosingForms DEF SpeakersHold, SpeakerInv
<1>1. /\ diarizer = "start" /\ diarizer' = "found" /\ crossed' = (crossed \/ (choosing # Spk!Idle))
      /\ UNCHANGED <<count, regions, samples, listed, chosen, known, read, target, choosing>>
  BY DEF Spk!Diarize, Spk!Crossing
<1>2. turns' \subseteq Spk!Turns(Alpha)
  <2>1. PICK n \in 0 .. MaxTurns : \E found \in [1 .. n -> Spk!Turns(Alpha)] : turns' = Spk!ToSet(found)
    BY DEF Spk!Diarize
  <2> QED BY <2>1, FoundAreTurns
<1>3. turns' \subseteq Spk!Turns(Spk!Labels)' /\ \A u \in turns' : u[1] \in Alpha
  BY <1>1, <1>2 DEF Spk!Turns, Spk!Labels, Spk!Whole
<1>4. SpeakerShapes'
  BY <1>1, <1>3 DEF SpeakerShapes, Places, RegionRow, Spk!Sources
<1>5. ~Alone
  BY <1>1 DEF SpeakersAreAsked
<1>6. SpeakersAreAsked'
  BY <1>1, <1>3, <1>5 DEF SpeakersAreAsked, Alone, Heard
<1>7. ChoiceIsHeard'
  BY <1>1 DEF ChoiceIsHeard, Busy
<1>8. Spk!TargetIsHeard'
  BY <1>1 DEF Spk!TargetIsHeard
<1> QED BY <1>1, <1>4, <1>6, <1>7, <1>8, RegionsStay

LEMMA HeardSpeech ==
  ASSUME SpeakersHold, Spk!DetectSpeech PROVE SpeakersHold'
<1> USE SelectionForms, ChoosingForms DEF SpeakersHold, SpeakerInv
<1>1. /\ diarizer = "start" /\ diarizer' = "heard" /\ chosen = Spk!Absent
      /\ UNCHANGED <<count, regions, samples, listed, chosen, known, read, target, choosing, crossed>>
  BY DEF Spk!DetectSpeech
<1>2. turns' \subseteq Spk!Turns({Solo})
  <2> DEFINE Speech == {u \in Spk!Turns({Solo}) : u[2] < u[3] /\ \E k \in Spk!Sources :
                  Spk!Offset[k] <= u[2] /\ u[3] <= Spk!Offset[k] + Lengths[k]}
  <2>1. PICK n \in 0 .. MaxTurns : \E found \in [1 .. n -> Speech] : turns' = Spk!ToSet(found)
    BY DEF Spk!DetectSpeech
  <2>2. Speech \subseteq Spk!Turns({Solo})
    OBVIOUS
  <2> HIDE DEF Speech
  <2> QED BY <2>1, <2>2, FoundAreTurns
<1>3. turns' \subseteq Spk!Turns(Spk!Labels)'
  BY <1>1, <1>2 DEF Spk!Turns, Spk!Labels, Spk!Whole
<1>4. SpeakerShapes'
  BY <1>1, <1>3 DEF SpeakerShapes, Places, RegionRow, Spk!Sources
<1>5. choosing = Spk!Idle
  BY <1>1 DEF SpeakersAreAsked
<1>6. SpeakersAreAsked'
  BY <1>1, <1>5 DEF SpeakersAreAsked, Alone
<1>7. ChoiceIsHeard'
  BY <1>1, <1>5 DEF ChoiceIsHeard, Busy
<1>8. Spk!TargetIsHeard'
  BY <1>1 DEF Spk!TargetIsHeard
<1> QED BY <1>1, <1>4, <1>6, <1>7, <1>8, RegionsStay

LEMMA RegionsWritten ==
  ASSUME SpeakersHold, Spk!WriteRegions PROVE SpeakersHold'
<1> USE SelectionForms, ChoosingForms DEF SpeakersHold, SpeakerInv
<1>1. /\ diarizer \in {"found", "heard"} /\ diarizer' = IF diarizer = "found" THEN "regions" ELSE "single"
      /\ crossed' = (crossed \/ (choosing # Spk!Idle))
      /\ UNCHANGED <<count, turns, chosen, known, read, target, choosing>>
      /\ samples' = Spk!Sampled(regions')
      /\ listed' = {m.speaker : m \in samples'}
      /\ (regions' = Spk!AsFound /\ count = 1) \/ regions' = Spk!Remapped
  BY DEF Spk!WriteRegions, Spk!Crossing
<1>2. /\ regions' \subseteq RegionRow
      /\ \A r \in regions' : r.from < r.to
      /\ \A r \in regions' : \E u \in turns : r.speaker = u[1] /\ r.to <= u[3]
      /\ Tells(regions')
  BY <1>1, AsFoundForm, RemappedForm, FoundTells, RemappedTells
<1>3. Fits(regions')
  BY <1>1, RemappedForm DEF Fits, SpeakerShapes
<1>4. samples' \subseteq RegionRow /\ Backed(regions', samples')
      /\ \A m \in samples' : \E r \in regions' : r.speaker = m.speaker
  BY <1>1, <1>2, SampledForm DEF Backed
<1>5. Sounding(regions', samples')
  <2>1. Spk!Whole \in Nat
    <3>1. count \in Spk!Sources
      BY SpeakersAssumption DEF SpeakerShapes, Spk!Sources
    <3> QED BY <3>1, PlaceOnTimeline DEF SpeakerShapes, Spk!Whole
  <2>2. \A u \in turns : u[3] <= Spk!Whole + 1 /\ u[3] \in Nat
    BY SpeakersAssumption DEF SpeakerShapes, Spk!Turns
  <2>3. \A r \in regions' : r.to \in Nat
    BY <1>2 DEF RegionRow
  <2>4. \A r \in regions' : r.to <= Spk!Whole + 1
    BY <1>2, <2>1, <2>2, <2>3
  <2>5. Spk!Whole + 1 \in Nat
    BY <2>1
  <2> QED BY <1>1, <1>2, <2>4, <2>5, LongestIsSampled
<1>6. Spk!RegionsAreTrue'
  <2>1. Tells(regions)' /\ Fits(regions)' /\ Sounding(regions, samples)' /\ Backed(regions, samples)'
    BY <1>1, <1>2, <1>3, <1>4, <1>5 DEF Tells, Fits, Sounding, Backed, Spk!Sources
  <2> QED BY <2>1 DEF Spk!RegionsAreTrue, Tells, Fits, Sounding, Backed, Spk!Available
<1>7. (\A u \in turns : u[1] \in Spk!Labels) /\ (\A r \in regions' : r.speaker \in Spk!Labels)
  BY <1>2, TurnForm DEF SpeakerShapes
<1>8. listed' \subseteq Spk!Labels
  BY <1>1, <1>4, <1>7
<1>9. SpeakerShapes'
  <2>1. RegionRow' = RegionRow /\ Spk!Turns(Spk!Labels)' = Spk!Turns(Spk!Labels)
    BY <1>1 DEF RegionRow, Spk!Sources, Spk!Turns, Spk!Whole, Spk!Labels
  <2> QED BY <1>1, <1>2, <1>4, <1>8, <2>1 DEF SpeakerShapes, Places
<1>10. diarizer = "found" => ~Alone /\ ~Alone'
  BY <1>1 DEF SpeakersAreAsked, Alone
<1>11. diarizer = "heard" => Alone /\ Alone'
  BY <1>1 DEF Alone
<1>12. ~Alone => listed' \subseteq Alpha /\ \A r \in regions' : r.speaker \in Alpha
  BY <1>1, <1>2, <1>4 DEF SpeakersAreAsked
<1>13. SpeakersAreAsked'
  BY <1>1, <1>10, <1>11, <1>12 DEF SpeakersAreAsked, Heard, Alone
<1>14. ChoiceIsHeard'
  BY <1>1 DEF ChoiceIsHeard, Busy
<1>15. Spk!TargetIsHeard'
  BY <1>1 DEF Spk!TargetIsHeard
<1> QED BY <1>6, <1>9, <1>13, <1>14, <1>15

(* What the later steps of the worker, which leave the regions, the        *)
(* turns and the samples alone, must show.                                 *)
LEMMA LaterStep ==
  ASSUME SpeakersHold, UNCHANGED <<count, turns, regions, samples>>,
         diarizer \notin {"start", "found", "heard"},
         diarizer' \in Places, {chosen', read'} \subseteq Selections,
         known' \subseteq Spk!Labels, listed' \subseteq Spk!Labels,
         target' \in Spk!Labels \cup {None}, choosing' \in {Spk!Idle} \cup Choosing
  PROVE  SpeakerShapes' /\ Spk!RegionsAreTrue'
<1>1. SpeakerShapes'
  <2>1. RegionRow' = RegionRow /\ Spk!Turns(Spk!Labels)' = Spk!Turns(Spk!Labels)
    BY DEF RegionRow, Spk!Sources, Spk!Turns, Spk!Whole, Spk!Labels
  <2> QED BY <2>1 DEF SpeakersHold, SpeakerInv, SpeakerShapes
<1> QED BY <1>1, RegionsStay DEF SpeakersHold

LEMMA SelectionRead ==
  ASSUME SpeakersHold, Spk!ReadSelection PROVE SpeakersHold'
<1> USE SelectionForms, ChoosingForms DEF SpeakersHold, SpeakerInv
<1>1. /\ diarizer = "regions" /\ diarizer' \in {"read", "failed"}
      /\ crossed' = (crossed \/ (choosing # Spk!Idle))
      /\ read' = chosen \/ read' = read
      /\ diarizer' = "read" => read' = chosen
      /\ UNCHANGED <<count, turns, regions, samples, listed, chosen, known, target, choosing>>
  BY DEF Spk!ReadSelection, Spk!Fail, Spk!Crossing
<1>2. SpeakerShapes' /\ Spk!RegionsAreTrue'
  BY <1>1, LaterStep DEF Places, SpeakerShapes
<1>3. SpeakersAreAsked'
  BY <1>1 DEF SpeakersAreAsked, Alone, Heard
<1>4. ChoiceIsHeard'
  BY <1>1 DEF ChoiceIsHeard, Busy
<1>5. Spk!TargetIsHeard'
  BY <1>1 DEF Spk!TargetIsHeard
<1> QED BY <1>2, <1>3, <1>4, <1>5

LEMMA SelectionWritten ==
  ASSUME SpeakersHold, Spk!WriteSelection \/ Spk!SelectSolo PROVE SpeakersHold'
<1> USE SelectionForms, ChoosingForms DEF SpeakersHold, SpeakerInv
<1>1. /\ diarizer \in {"read", "single"} /\ diarizer' = "selected"
      /\ crossed => crossed'
      /\ choosing # Spk!Idle => crossed'
      /\ chosen' = read'
      /\ diarizer = "read" => read' = (IF read.target \in Spk!Available THEN read ELSE Spk!Pending)
      /\ diarizer = "single" => read' = Spk!Choice("auto", Solo)
      /\ UNCHANGED <<count, turns, regions, samples, listed, known, target, choosing>>
  <2>1. CASE Spk!WriteSelection
    BY <2>1 DEF Spk!WriteSelection, Spk!Crossing
  <2>2. CASE Spk!SelectSolo
    BY <2>2 DEF Spk!SelectSolo, SpeakersAreAsked, Alone
  <2> QED BY <2>1, <2>2
<1>2. SpeakerShapes' /\ Spk!RegionsAreTrue'
  BY <1>1, LaterStep DEF Places, SpeakerShapes
<1>3. Alone <=> diarizer = "single"
  BY <1>1 DEF SpeakersAreAsked, Alone
<1>4. diarizer = "read" => chosen'.by # "auto"
  BY <1>1 DEF SpeakersAreAsked
<1>5. SpeakersAreAsked'
  BY <1>1, <1>3, <1>4 DEF SpeakersAreAsked, Alone, Heard
<1>6. ChoiceIsHeard'
  BY <1>1 DEF ChoiceIsHeard, Busy, Spk!Available
<1>7. Spk!TargetIsHeard'
  BY <1>1 DEF Spk!TargetIsHeard
<1> QED BY <1>2, <1>5, <1>6, <1>7

LEMMA SummaryWritten ==
  ASSUME SpeakersHold, Spk!WriteSummary PROVE SpeakersHold'
<1> USE SelectionForms, ChoosingForms DEF SpeakersHold, SpeakerInv
<1>1. /\ diarizer = "selected" /\ diarizer' \in {"ended", "summary"}
      /\ crossed' = (crossed \/ (choosing # Spk!Idle))
      /\ known' = Spk!Available
      /\ UNCHANGED <<count, turns, regions, samples, listed, chosen, read, target, choosing>>
  BY DEF Spk!WriteSummary, Spk!Crossing
<1>2. known' \subseteq Spk!Labels /\ (~Alone => known' \subseteq Alpha)
  BY <1>1 DEF Spk!Available, SpeakerShapes, RegionRow, SpeakersAreAsked, Heard
<1>3. SpeakerShapes' /\ Spk!RegionsAreTrue'
  BY <1>1, <1>2, LaterStep DEF Places, SpeakerShapes
<1>4. SpeakersAreAsked'
  BY <1>1, <1>2 DEF SpeakersAreAsked, Alone, Heard
<1>5. ChoiceIsHeard'
  BY <1>1 DEF ChoiceIsHeard, Busy, Spk!Available
<1>6. Spk!TargetIsHeard'
  BY <1>1 DEF Spk!TargetIsHeard
<1> QED BY <1>3, <1>4, <1>5, <1>6

LEMMA BuffersBuilt ==
  ASSUME SpeakersHold, Spk!BuildBuffers PROVE SpeakersHold'
<1> USE SelectionForms, ChoosingForms DEF SpeakersHold, SpeakerInv
<1>1. /\ diarizer = "summary" /\ diarizer' \in {"buffers", "failed"}
      /\ crossed' = (crossed \/ (choosing # Spk!Idle))
      /\ diarizer' = "buffers" => target' = chosen.target /\ chosen.target # None
      /\ target' \in {target, chosen.target}
      /\ UNCHANGED <<count, turns, regions, samples, listed, chosen, known, read, choosing>>
  BY DEF Spk!BuildBuffers, Spk!Fail, Spk!Crossing
<1>2. SpeakerShapes' /\ Spk!RegionsAreTrue'
  BY <1>1, LaterStep DEF Places, SpeakerShapes
<1>3. SpeakersAreAsked'
  BY <1>1 DEF SpeakersAreAsked, Alone, Heard
<1>4. ChoiceIsHeard'
  BY <1>1 DEF ChoiceIsHeard, Busy, Spk!Quiet
<1>5. Spk!TargetIsHeard'
  BY <1>1 DEF Spk!TargetIsHeard, ChoiceIsHeard, Spk!Available
<1> QED BY <1>2, <1>3, <1>4, <1>5

LEMMA WorkerResumes ==
  ASSUME SpeakersHold, Spk!Resume PROVE SpeakersHold'
<1> USE SelectionForms, ChoosingForms DEF SpeakersHold, SpeakerInv
<1>1. /\ diarizer \in Spk!Quiet /\ diarizer' = "start" /\ chosen.by = "user"
      /\ turns' = {} /\ regions' = {} /\ samples' = {} /\ read' = Spk!Absent
      /\ crossed' = (choosing # Spk!Idle)
      /\ UNCHANGED <<count, listed, chosen, known, target, choosing>>
  BY DEF Spk!Resume
<1>2. SpeakerShapes'
  BY <1>1 DEF Places, SpeakerShapes
<1>3. ~Alone /\ ~Alone'
  BY <1>1 DEF Alone, Spk!Quiet
<1>4. SpeakersAreAsked'
  BY <1>1, <1>3 DEF SpeakersAreAsked, Heard
<1>5. ChoiceIsHeard' /\ Spk!TargetIsHeard'
  BY <1>1 DEF ChoiceIsHeard, Spk!TargetIsHeard, Busy, Spk!Quiet
<1> QED BY <1>1, <1>2, <1>4, <1>5, RegionsStay

LEMMA UserChooses ==
  ASSUME SpeakersHold, Spk!Ask \/ Spk!Truncate \/ Spk!Save PROVE SpeakersHold'
<1> USE SelectionForms, ChoosingForms DEF SpeakersHold, SpeakerInv
<1>1. /\ UNCHANGED <<count, turns, regions, samples, listed, known, read, target, diarizer>>
      /\ ~Alone
      /\ crossed => crossed'
      /\ (Busy /\ choosing = Spk!Idle) => crossed'
      /\ choosing' \in {Spk!Idle} \cup Choosing
      /\ \/ chosen' = chosen /\ choosing = Spk!Idle
            /\ ((diarizer = "start" /\ chosen = Spk!Absent) => FALSE)
         \/ chosen' = Spk!TornFile /\ choosing # Spk!Idle
         \/ (\E s \in Alpha : chosen' = Spk!Choice("user", s)) /\ choosing # Spk!Idle
  <2>1. CASE Spk!Ask
    <3>1. ~Alone /\ choosing = Spk!Idle
      BY <2>1 DEF Spk!Ask, Alone
    <3>2. PICK s \in known \cup listed : choosing' = [at |-> "checked", target |-> s]
      BY <2>1 DEF Spk!Ask
    <3>3. s \in Alpha
      BY <3>1, <3>2 DEF SpeakersAreAsked
    <3> QED BY <2>1, <3>1, <3>2, <3>3 DEF Spk!Ask, SpeakersAreAsked, Busy
  <2>2. ASSUME choosing.at \in {"checked", "writing"}
        PROVE  choosing \in Choosing /\ choosing # Spk!Idle /\ ~Alone
    BY <2>2 DEF SpeakerShapes, SpeakersAreAsked
  <2>3. CASE Spk!Truncate
    BY <2>2, <2>3 DEF Spk!Truncate
  <2>4. CASE Spk!Save
    BY <2>2, <2>4 DEF Spk!Save
  <2> QED BY <2>1, <2>3, <2>4
<1>2. chosen' \in Selections /\ chosen'.by # "auto"
  BY <1>1 DEF SpeakerShapes, Alone
<1>3. SpeakerShapes'
  <2>1. RegionRow' = RegionRow /\ Spk!Turns(Spk!Labels)' = Spk!Turns(Spk!Labels)
    BY <1>1 DEF RegionRow, Spk!Sources, Spk!Turns, Spk!Whole, Spk!Labels
  <2> QED BY <1>1, <1>2, <2>1 DEF SpeakerShapes
<1>4. ~Alone'
  BY <1>1, <1>2 DEF Alone
<1>5. SpeakersAreAsked'
  BY <1>1, <1>4 DEF SpeakersAreAsked, Heard
<1>6. ChoiceIsHeard'
  <2>1. Busy' = Busy
    BY <1>1 DEF Busy
  <2>2. (Busy /\ choosing' # Spk!Idle) => crossed'
    BY <1>1 DEF ChoiceIsHeard
  <2>3. diarizer \in {"selected", "summary"} => Busy
    BY DEF Busy, Spk!Quiet
  <2>4. (diarizer \in {"selected", "summary"} /\ ~crossed') => FALSE
    BY <1>1, <2>3 DEF ChoiceIsHeard
  <2> QED BY <1>1, <2>1, <2>2, <2>4 DEF ChoiceIsHeard
<1>7. Spk!TargetIsHeard'
  BY <1>1 DEF Spk!TargetIsHeard, Spk!Available
<1>8. Spk!RegionsAreTrue'
  BY <1>1 DEF Spk!RegionsAreTrue, Spk!Available, Spk!Sources
<1> QED BY <1>3, <1>5, <1>6, <1>7, <1>8

LEMMA StepSpeakers == ASSUME SpeakersHold, [Spk!Next]_speakers PROVE SpeakersHold'
<1>1. CASE UNCHANGED speakers
  <2>1. UNCHANGED <<count, turns, regions, samples, listed, chosen, known, read, target,
                    diarizer, choosing, crossed>>
    BY <1>1 DEF speakers
  <2>2. SpeakerShapes'
    <3>1. RegionRow' = RegionRow /\ Spk!Turns(Spk!Labels)' = Spk!Turns(Spk!Labels)
      BY <2>1 DEF RegionRow, Spk!Sources, Spk!Turns, Spk!Whole, Spk!Labels
    <3> QED BY <2>1, <3>1 DEF SpeakersHold, SpeakerInv, SpeakerShapes
  <2>3. SpeakersAreAsked' /\ ChoiceIsHeard'
    BY <2>1 DEF SpeakersHold, SpeakerInv, SpeakersAreAsked, ChoiceIsHeard, Alone, Busy, Heard, Spk!Available
  <2>4. Spk!TargetIsHeard' /\ Spk!RegionsAreTrue'
    BY <2>1 DEF SpeakersHold, SpeakerInv, Spk!TargetIsHeard, Spk!RegionsAreTrue, Spk!Available, Spk!Sources
  <2> QED BY <2>2, <2>3, <2>4 DEF SpeakersHold, SpeakerInv
<1>2. CASE Spk!Next
  BY <1>2, FoundSpeakers, HeardSpeech, RegionsWritten, SelectionRead, SelectionWritten,
     SummaryWritten, BuffersBuilt, WorkerResumes, UserChooses DEF Spk!Next
<1> QED BY <1>1, <1>2

LEMMA TypedSpeakers == ASSUME SpeakersHold PROVE Spk!TypeOK
<1>1. SpeakerShapes
  BY DEF SpeakersHold, SpeakerInv
<1>2. \A r \in RegionRow : r.speaker \in Spk!Labels /\ r.source \in Spk!Sources /\ r.from \in Nat /\ r.to \in Nat
  BY DEF RegionRow
<1>3. choosing \in {Spk!Idle} \cup [at : {"checked", "writing"}, target : Alpha]
  BY <1>1 DEF SpeakerShapes, Choosing
<1>4. chosen \in {Spk!Absent, Spk!TornFile, Spk!Pending, Spk!Choice("auto", Solo)} \cup
                 {Spk!Choice("user", s) : s \in Alpha}
  BY <1>1 DEF SpeakerShapes, Selections
<1>5. diarizer \in Spk!Quiet \cup {"found", "heard", "regions", "single", "read", "selected", "summary"}
  BY <1>1 DEF SpeakerShapes, Places, Spk!Quiet
<1> QED BY <1>1, <1>2, <1>3, <1>4, <1>5 DEF SpeakerShapes, Spk!TypeOK

(* Wherever a voice was heard it has a region, in its own recording and    *)
(* nowhere else, and can be listened to; and the buffers of a run are of a *)
(* speaker who has regions, unless a selection was under way during the    *)
(* diarization (diarization.py, dataset_runs.py): for any number of        *)
(* recordings, of any lengths, of speakers and of turns.                   *)
THEOREM SpeakersStayFound == Spec => []SpeakersAreFound
<1>1. Init => SpeakersHold
  BY SpeakersStart DEF Init
<1>2. SpeakersHold /\ [Next]_vars => SpeakersHold'
  <2>1. [Next]_vars => [Spk!Next]_speakers
    BY DEF Next, vars
  <2> QED BY <2>1, StepSpeakers
<1>3. SpeakersHold => SpeakersAreFound
  BY DEF SpeakersHold, SpeakerInv, SpeakersAreFound
<1> QED BY <1>1, <1>2, <1>3, PTL DEF Spec

-----------------------------------------------------------------------------
(* No save makes more commits than are allowed for.                        *)
FewCommits == Len(commits) <= MaxCommits

LEMMA FewCommitsStep ==
  ASSUME SliceInv, FewCommits, [Hist!Next]_slices
  PROVE  FewCommits'
<1>1. ASSUME NEW c \in Alpha, Hist!Save(c) PROVE FewCommits'
  <2> DEFINE base == Hist!Baseline(call[c])
  <2>1. base \in Seq(CommitRow)
    <3>1. call[c].pc = "save" /\ CallIsSound(call[c]) /\ commits \in Seq(CommitRow)
      BY <1>1 DEF Hist!Save, Hist!Here, SliceInv, SliceShapes
    <3>2. Hist!Commit(None, call[c].status, call[c].text, call[c].tags) \in CommitRow
      BY <3>1 DEF CallIsSound, ReadSoFar, Hist!Commit, CommitRow
    <3> HIDE DEF CommitRow
    <3> QED BY <3>1, <3>2 DEF Hist!Baseline
  <2>2. Len(base) \in Nat /\ Len(base) < MaxCommits
    BY <1>1, <2>1 DEF Hist!Save
  <2>3. \E entry : commits' = Append(base, entry)
    BY <1>1 DEF Hist!Save
  <2> HIDE DEF base
  <2> QED BY <2>1, <2>2, <2>3, SlicesAssumption DEF FewCommits
<1>2. ASSUME NEW c \in Alpha, \/ \E kind \in CallKind : Hist!ReadSlice(c, kind)
                              \/ Hist!ReadTranscript(c) \/ Hist!ReadTags(c) \/ Hist!Undo(c)
                              \/ Hist!ReadChild(c) \/ Hist!Redo(c)
      PROVE  UNCHANGED commits
  BY <1>2 DEF Hist!ReadSlice, Hist!ReadTranscript, Hist!ReadTags, Hist!Undo, Hist!ReadChild, Hist!Redo
<1>3. CASE UNCHANGED slices \/ Hist!WriteElsewhere
  BY <1>3 DEF slices, FewCommits, Hist!WriteElsewhere
<1> QED BY <1>1, <1>2, <1>3 DEF Hist!Next, FewCommits, CallKind

(* What a commit, the slice or a request names is one of these.            *)
LEMMA TypedSlices == ASSUME SliceInv, FewCommits PROVE Hist!TypeOK
<1>1. \A n \in DOMAIN commits : n \in Hist!CommitId
  BY SlicesAssumption DEF SliceInv, SliceShapes, FewCommits, Hist!CommitId
<1>2. slice \in [status : Status, text : Hist!Texts \cup {None}, tags : SUBSET Name,
                active : Hist!Parents]
  BY <1>1 DEF SliceInv, SliceShapes, SliceRow, Hist!ShownIsActive, Hist!Parents
<1>3. commits \in Seq(Hist!Commits)
  <2>1. ASSUME NEW n \in DOMAIN commits PROVE commits[n] \in Hist!Commits
    <3>1. commits[n] \in CommitRow /\ (commits[n].parent = None \/ commits[n].parent < n)
      BY DEF SliceInv, SliceShapes, Hist!ShownIsActive
    <3>2. n \in 1 .. MaxCommits
      BY <1>1 DEF Hist!CommitId
    <3>3. commits[n].parent \in Hist!CommitId \cup {None}
      BY <3>1, <3>2, SlicesAssumption DEF CommitRow, CommitNumber, Hist!CommitId
    <3> QED BY <3>1, <3>3 DEF CommitRow, Hist!Commits, Hist!Parents
  <2>2. commits \in Seq(CommitRow)
    BY DEF SliceInv, SliceShapes
  <2> QED BY <2>1, <2>2
<1>4. ASSUME NEW c \in Alpha
      PROVE  /\ call[c].active \in Hist!Parents
             /\ call[c].status \in Status \cup {None}
             /\ call[c].text \in Hist!Texts \cup {None}
             /\ call[c].tags \in Hist!Tags \cup {None}
  <2>1. call[c] \in SliceCall /\ ReadIsCommitted(call[c])
    BY DEF SliceInv, SliceShapes, CallIsSound
  <2> QED BY <1>1, <2>1 DEF SliceCall, ReadIsCommitted, Hist!Parents
<1> QED BY <1>2, <1>3, <1>4 DEF Hist!TypeOK, FewCommits, SliceInv, SliceShapes

-----------------------------------------------------------------------------
(* The files of decisions and scores have shapes, whatever step is next.   *)
FileShapes ==
  /\ cand \in CandFile \cup {None}
  /\ tq \in TextFile \cup {None, Torn}
  /\ sp \in VoiceFile \cup {None, Torn}
  /\ rank \in {None, "stands", "outdated"}
  /\ qc \in DecisionFile \cup {None, Torn}
  /\ exp \in [manifest : CutList \cup {None, Torn}, summary : ClipList \cup {None, Torn},
              clips : CutClips \cup {None}]
  /\ done \in 0 .. 4

LEMMA TypedFiles == ASSUME FileShapes PROVE Qual!TypeOK
<1>1. cand # None => cand.gen \in 1 .. MaxGen /\ cand.clips \in 0 .. MaxClips
  BY DEF FileShapes, CandFile
<1>2. /\ Qual!Whole(tq) => tq.good \subseteq Qual!Clips
      /\ Qual!Whole(sp) => sp.good \subseteq Qual!Clips /\ sp.calibrated \in BOOLEAN
  BY DEF FileShapes, TextFile, VoiceFile, Qual!Whole
<1>3. Qual!Whole(qc) => qc.accepted \cup qc.kept \subseteq Qual!Clips
  BY DEF FileShapes, DecisionFile, Qual!Whole
<1>4. /\ Qual!Whole(exp.manifest) => exp.manifest.clips \cup exp.manifest.uncut \subseteq Qual!Clips
      /\ exp.clips # None => exp.clips.cut \subseteq Qual!Clips
  BY DEF FileShapes, CutList, CutClips, Qual!Whole
<1> QED BY <1>1, <1>2, <1>3, <1>4 DEF Qual!TypeOK, FileShapes

LEMMA FilesStep ==
  ASSUME QualityIsSound, Qual!Step
  PROVE  FileShapes'
<1>1. QualityShapes /\ FileShapes
  BY DEF QualityIsSound, QualityShapes, FileShapes
<1>2. Qual!Listed \subseteq Qual!Clips /\ Qual!Exportable(qc) \subseteq Qual!Clips
  BY <1>1, ListedAreClips
<1>3. ASSUME NEW kind, NEW stop, Qual!Launch(kind, stop) PROVE FileShapes'
  BY <1>1, <1>3 DEF Qual!Launch, FileShapes
<1>4. CASE Qual!RerunSlicer \/ Qual!GenerateScores \/ Qual!RerunExport \/ Qual!Resume
  BY <1>3, <1>4 DEF Qual!RerunSlicer, Qual!GenerateScores, Qual!RerunExport, Qual!Resume
<1>5. cand # None => cand.gen \in 1 .. MaxGen /\ cand.clips \in 0 .. MaxClips
  BY <1>1 DEF FileShapes, CandFile
<1>6. CASE Qual!Clear
  <2>1. /\ UNCHANGED <<cand, done>> /\ tq' \in {tq, None} /\ sp' \in {sp, None} /\ rank' \in {rank, None}
        /\ qc' \in {qc, None}
    BY <1>6 DEF Qual!Clear, Qual!Goes
  <2>2. \/ UNCHANGED exp
        \/ exp' = [exp EXCEPT !.manifest = None]
        \/ exp' = [exp EXCEPT !.summary = None]
        \/ exp' = [exp EXCEPT !.clips = None]
        \/ cand # None /\ exp' = [exp EXCEPT !.clips = [gen |-> cand.gen, cut |-> {}]]
    BY <1>6 DEF Qual!Clear
  <2>3. cand # None => [gen |-> cand.gen, cut |-> {}] \in CutClips
    BY <1>5 DEF CutClips
  <2>4. exp' \in [manifest : CutList \cup {None, Torn}, summary : ClipList \cup {None, Torn},
                  clips : CutClips \cup {None}]
    BY <1>1, <2>2, <2>3 DEF FileShapes
  <2> QED BY <1>1, <2>1, <2>4 DEF FileShapes
<1>7. CASE Qual!Slice
  <2>1. cand' \in CandFile \cup {None}
    BY <1>7 DEF Qual!Slice, CandFile
  <2> QED BY <1>1, <1>7, <2>1 DEF Qual!Slice, Qual!Goes, FileShapes
<1>8. CASE Qual!Score
  <2>1. done' \in 0 .. 4 /\ rank' \in {None, "stands", "outdated"} /\ UNCHANGED <<cand, qc, exp>>
    <3>1. done' \in {done, 0} /\ UNCHANGED <<cand, qc, exp>>
      BY <1>8 DEF Qual!Score, Qual!Writes, Qual!Goes, Qual!Dies
    <3>2. rank' \in {rank, "stands", None, "outdated"}
      BY <1>8 DEF Qual!Score, Qual!Outdated
    <3> QED BY <1>1, <3>1, <3>2 DEF FileShapes
  <2>2. tq' \in TextFile \cup {None, Torn}
    <3>1. tq' \in [gen : {cand.gen}, good : SUBSET Qual!Listed] \cup {Torn, tq}
      BY <1>8 DEF Qual!Score, Qual!Writes
    <3>2. cand # None
      BY <1>8 DEF Qual!Score
    <3> QED BY <1>1, <1>2, <1>5, <3>1, <3>2 DEF TextFile, FileShapes
  <2>3. sp' \in VoiceFile \cup {None, Torn}
    <3>1. sp' \in [gen : {cand.gen}, good : SUBSET Qual!Listed, calibrated : {FALSE}] \cup {Torn, sp}
      BY <1>8 DEF Qual!Score, Qual!Writes
    <3>2. cand # None
      BY <1>8 DEF Qual!Score
    <3> QED BY <1>1, <1>2, <1>5, <3>1, <3>2 DEF VoiceFile, FileShapes
  <2> QED BY <1>1, <2>1, <2>2, <2>3 DEF FileShapes
<1>9. CASE Qual!Export
  <2>1. cand # None /\ UNCHANGED <<cand, tq, sp, rank, qc>> /\ done' \in {done, 0}
    BY <1>9 DEF Qual!Export, Qual!CutAccepted, Qual!Writes, Qual!Goes, Qual!Dies
  <2>5. job.cut \in SUBSET Qual!Clips
    BY <1>1, <1>9 DEF Qual!Export, Qual!CutAccepted, Qual!At, QualityShapes, JobRow
  <2>2. \A made \in SUBSET Qual!Clips :
          /\ Qual!Cut(made) \in CutClips /\ Qual!Manifest(made) \in CutList
          /\ Qual!Summary(made) \in ClipList
    BY <1>2, <1>5, <2>1 DEF Qual!Cut, Qual!Manifest, Qual!Summary, CutClips, CutList, ClipList
  <2>3. \/ \E made \in SUBSET Qual!Clips : exp' = [exp EXCEPT !.clips = Qual!Cut(made)]
        \/ \E m \in {Torn, Qual!Manifest(job.cut)} : exp' = [exp EXCEPT !.manifest = m]
        \/ \E m \in {Torn, Qual!Summary(job.cut)} : exp' = [exp EXCEPT !.summary = m]
    BY <1>2, <1>9 DEF Qual!Export, Qual!CutAccepted
  <2>4. exp' \in [manifest : CutList \cup {None, Torn}, summary : ClipList \cup {None, Torn},
                  clips : CutClips \cup {None}]
    BY <1>1, <2>2, <2>3, <2>5 DEF FileShapes
  <2> QED BY <1>1, <2>1, <2>4 DEF FileShapes
<1>10. CASE Qual!Completes
  <2>1. job \in JobRow
    BY <1>1, <1>10 DEF Qual!Completes, QualityShapes
  <2>2. done' \in 0 .. 4
    BY <1>10, <2>1 DEF Qual!Completes, JobRow
  <2> QED BY <1>1, <1>10, <2>2 DEF Qual!Completes, FileShapes
<1>11. CASE Qual!Stops
  <2>1. done' \in {0, 1}
    BY <1>11 DEF Qual!Stops, Qual!Dies
  <2> QED BY <1>1, <1>11, <2>1 DEF Qual!Stops, FileShapes
<1>12. CASE Qual!Finalize \/ Qual!Read \/ Qual!Judge \/ Qual!Abandon
  BY <1>1, <1>12 DEF Qual!Finalize, Qual!Read, Qual!Judge, Qual!Abandon, FileShapes
<1>13. CASE Qual!Write
  <2>1. UNCHANGED <<cand, tq, sp, rank, exp, done>>
    BY <1>13 DEF Qual!Write
  <2>2. qc' = Torn \/ (qc' = decision.new /\ decision # None /\ decision.pc = "writing")
    BY <1>13 DEF Qual!Write, Qual!Here
  <2>3. decision # None /\ decision.pc = "writing" => decision.new \in DecisionFile
    BY <1>1 DEF QualityShapes, ReadCall, WriteCall, ClearCall
  <2> QED BY <1>1, <2>1, <2>2, <2>3 DEF FileShapes
<1>14. CASE Qual!ClearExport
  <2>1. UNCHANGED <<cand, tq, sp, rank, qc, done>>
    BY <1>14 DEF Qual!ClearExport
  <2>2. \/ exp' = [exp EXCEPT !.manifest = None]
        \/ exp' = [exp EXCEPT !.summary = None]
        \/ exp' = [exp EXCEPT !.clips = None]
    BY <1>14 DEF Qual!ClearExport
  <2>3. exp' \in [manifest : CutList \cup {None, Torn}, summary : ClipList \cup {None, Torn},
                  clips : CutClips \cup {None}]
    BY <1>1, <2>2 DEF FileShapes
  <2> QED BY <1>1, <2>1, <2>3 DEF FileShapes
<1> QED BY <1>4, <1>6, <1>7, <1>8, <1>9, <1>10, <1>11, <1>12, <1>13, <1>14 DEF Qual!Step

-----------------------------------------------------------------------------
(* A pipe holds what it can, the ids given out are the first ones, and the *)
(* backend dies but once.                                                  *)
FewLines ==
  /\ \A i \in JobId : Len(ensurer[i].pipe) <= MaxPipe
  /\ 1 .. issued \subseteq JobId
  /\ losses \in 0 .. 1

(* What a step of one process makes of its output.                         *)
LEMMA PipeStep ==
  ASSUME JobsInv, FewLines, UNCHANGED <<issued, losses>>, NEW i \in JobId, NEW P,
         ensurer' = [ensurer EXCEPT ![i] = P],
         P.pipe \in Seq(AnyLine), Len(P.pipe) <= MaxPipe
  PROVE  FewLines'
BY DEF JobsInv, JobShapes, FewLines

LEMMA FewLinesStep ==
  ASSUME JobsInv, FewLines, [Asr!Next]_ensures
  PROVE  FewLines'
<1>0. /\ ensurer \in [JobId -> Downloader] /\ issued \in Nat
      /\ \A i \in JobId : ensurer[i].pipe \in Seq(AnyLine) /\ Len(ensurer[i].pipe) \in Nat
  BY DEF JobsInv, JobShapes, Downloader
<1>1. ASSUME NEW m \in Sizes, Asr!Ask(m) PROVE FewLines'
  <2>1. issued' = issued + 1 /\ issued + 1 \in JobId /\ UNCHANGED <<ensurer, losses>>
    BY <1>1 DEF Asr!Ask
  <2> QED BY <1>0, <2>1 DEF FewLines
<1>2. ASSUME NEW i \in JobId, Asr!Begin(i) \/ Asr!Waited(i) \/ Asr!HandleJob(i) \/ Asr!Finally(i)
      PROVE  FewLines'
  BY <1>2 DEF Asr!Begin, Asr!Waited, Asr!HandleJob, Asr!Finally, FewLines
<1>3. ASSUME NEW i \in JobId, NEW at, UNCHANGED <<issued, losses>>,
             ensurer' = [ensurer EXCEPT ![i] = [@ EXCEPT !.at = at]] PROVE FewLines'
  BY <1>0, <1>3 DEF FewLines, Downloader
<1>4. ASSUME NEW i \in JobId, Asr!Spawn(i) \/ Asr!Fetch(i) \/ Asr!Exit(i) \/ Asr!Die(i) PROVE FewLines'
  BY <1>3, <1>4 DEF Asr!Spawn, Asr!Fetch, Asr!Exit, Asr!Die, FewLines
<1>5. ASSUME NEW i \in JobId, Asr!Verify(i) PROVE FewLines'
  <2>1. /\ UNCHANGED <<issued, losses>>
        /\ \E found \in {"ok", "bad"} :
             ensurer' = [ensurer EXCEPT ![i] = [ensurer[i] EXCEPT !.at = "verified", !.found = found]]
    BY <1>0, <1>5 DEF Asr!Verify
  <2> QED BY <1>0, <2>1 DEF FewLines, Downloader
<1>6. ASSUME NEW i \in JobId, NEW line, NEW to, Asr!Told(i, line, to), UNCHANGED <<issued, losses>>,
             line \in AnyLine
      PROVE  FewLines'
  <2> DEFINE P == [ensurer[i] EXCEPT !.pipe = Append(ensurer[i].pipe, line), !.at = to]
  <2>1. ensurer' = [ensurer EXCEPT ![i] = P] /\ Len(ensurer[i].pipe) < MaxPipe
    BY <1>0, <1>6 DEF Asr!Told, Downloader
  <2>2. P.pipe = Append(ensurer[i].pipe, line)
    BY <1>0 DEF Downloader
  <2> HIDE DEF P
  <2>3. P.pipe \in Seq(AnyLine) /\ Len(P.pipe) <= MaxPipe
    BY <1>0, <1>6, <2>1, <2>2, EnsureAssumption
  <2> QED BY <1>6, <2>1, <2>3, PipeStep
<1>7. ASSUME NEW i \in JobId, Asr!Announce(i) \/ Asr!Tell(i) \/ Asr!Report(i) \/ Asr!Noise(i)
      PROVE  FewLines'
  <2>1. UNCHANGED <<issued, losses>> /\ \E line \in AnyLine : \E to : Asr!Told(i, line, to)
    <3>1. CASE Asr!Announce(i)
      <4>1. UNCHANGED <<issued, losses>> /\ Asr!Told(i, Asr!Line("unknown"), "fetch")
        BY <3>1 DEF Asr!Announce
      <4> QED BY <4>1, LineSorts
    <3>2. CASE Asr!Tell(i)
      <4>1. UNCHANGED <<issued, losses>> /\ Asr!Told(i, Asr!Line("some"), "fetch")
        BY <3>2 DEF Asr!Tell
      <4> QED BY <4>1, LineSorts
    <3>3. CASE Asr!Report(i)
      <4>1. (ensurer[i].found = "ok") \in BOOLEAN
        OBVIOUS
      <4>2. [event |-> "result", ok |-> ensurer[i].found = "ok"] \in AnyLine
        BY <4>1, LineSorts
      <4> QED BY <3>3, <4>2 DEF Asr!Report
    <3>4. CASE Asr!Noise(i)
      BY <3>4, LineSorts DEF Asr!Noise
    <3> QED BY <1>7, <3>1, <3>2, <3>3, <3>4
  <2> QED BY <1>6, <2>1
<1>8. ASSUME NEW i \in JobId, Asr!Read(i) PROVE FewLines'
  <2> DEFINE P == [ensurer[i] EXCEPT !.pipe = Tail(ensurer[i].pipe)]
  <2>1. ensurer' = [ensurer EXCEPT ![i] = P] /\ ensurer[i].pipe # <<>> /\ UNCHANGED <<issued, losses>>
    BY <1>0, <1>8 DEF Asr!Read, Downloader
  <2>2. P.pipe = Tail(ensurer[i].pipe)
    BY <1>0 DEF Downloader
  <2> HIDE DEF P
  <2>3. \A q \in Seq(AnyLine) : q # <<>> => Tail(q) \in Seq(AnyLine) /\ Len(Tail(q)) = Len(q) - 1
    OBVIOUS
  <2>4. Len(ensurer[i].pipe) <= MaxPipe
    BY DEF FewLines
  <2>5. P.pipe \in Seq(AnyLine) /\ Len(P.pipe) <= MaxPipe
    BY <1>0, <2>1, <2>2, <2>3, <2>4, EnsureAssumption
  <2> QED BY <2>1, <2>5, PipeStep
<1>9. ASSUME NEW i \in JobId, Asr!HandleProcess(i) \/ Asr!Broken(i) PROVE FewLines'
  <2> DEFINE P == Asr!Ended(ensurer[i])
  <2>1. ensurer' = [ensurer EXCEPT ![i] = P] /\ UNCHANGED <<issued, losses>>
    BY <1>0, <1>9 DEF Asr!HandleProcess, Asr!Broken
  <2>2. P.pipe = <<>>
    BY <1>0 DEF Asr!Ended, Downloader
  <2>3. <<>> \in Seq(AnyLine) /\ Len(<<>>) = 0
    OBVIOUS
  <2> HIDE DEF P
  <2>4. P.pipe \in Seq(AnyLine) /\ Len(P.pipe) <= MaxPipe
    BY <2>2, <2>3, EnsureAssumption
  <2> QED BY <2>1, <2>4, PipeStep
<1>10. CASE Asr!Restart
  <2>1. UNCHANGED issued /\ losses < 1 /\ losses' = losses + 1
        /\ ensurer' = [i \in JobId |-> [ensurer[i] EXCEPT !.pipe = <<>>]]
    BY <1>10 DEF Asr!Restart
  <2>2. \A i \in JobId : ensurer'[i].pipe = <<>>
    BY <1>0, <2>1 DEF Downloader
  <2>3. \A i \in JobId : Len(ensurer'[i].pipe) <= MaxPipe
    BY <2>2, EnsureAssumption
  <2>4. losses' \in 0 .. 1 /\ 1 .. issued' \subseteq JobId
    BY <2>1 DEF FewLines
  <2> QED BY <2>3, <2>4 DEF FewLines
<1>11. CASE UNCHANGED ensures
  BY <1>11 DEF ensures, FewLines
<1> QED BY <1>1, <1>2, <1>4, <1>5, <1>7, <1>8, <1>9, <1>10, <1>11 DEF Asr!Next

LEMMA FewLinesInit == Asr!Init => FewLines
<1> SUFFICES ASSUME Asr!Init PROVE FewLines
  OBVIOUS
<1>1. issued = 0 /\ losses = 0 /\ \A i \in JobId : ensurer[i] = Asr!NoProcess
  BY DEF Asr!Init
<1>2. Len(Asr!NoProcess.pipe) = 0
  BY JobSorts
<1>3. 1 .. issued = {}
  BY <1>1
<1> QED BY <1>1, <1>2, <1>3, EnsureAssumption DEF FewLines

LEMMA CardinalityIsTheSame == Asr!Cardinality(JobId) = Cardinality(JobId)
BY DEF Asr!Cardinality, Cardinality

LEMMA TypedJobs == ASSUME JobsInv, FewLines PROVE Asr!TypeOK
<1>1. \A i \in JobId : jobs[i] # Asr!Unknown =>
        /\ jobs[i].model \in Sizes
        /\ jobs[i].phase \in Asr!Open \cup {"complete", "failed"}
        /\ jobs[i].ok \in {"undecided", "yes", "no"}
        /\ jobs[i].files \in {"unknown", "some"}
  BY DEF JobsInv, JobShapes, Job
<1>2. tending \in [JobId -> {"none", "begin", "spawn", "read", "raised", "handled",
                        "finally", "done", "lost"}]
  BY DEF JobsInv, JobShapes, TendingPoint
<1>3. \A i \in JobId :
       /\ ensurer[i].at \in {"none", "start", "fetch", "tell", "verified", "leaving", "ended"}
       /\ Len(ensurer[i].pipe) <= MaxPipe
  BY DEF JobsInv, JobShapes, FewLines, Downloader, DownloaderPoint, Telling, Gone
<1>4. issued \in 0 .. Cardinality(JobId)
  <2>1. issued \in Nat
    BY DEF JobsInv, JobShapes
  <2>2. Cardinality(1 .. issued) = issued
    BY <2>1, FS_Interval
  <2>3. Cardinality(JobId) \in Nat /\ Cardinality(1 .. issued) <= Cardinality(JobId)
    BY EnsureAssumption, FS_Subset, FS_CardinalityType DEF FewLines
  <2> QED BY <2>1, <2>2, <2>3
<1>5. active \in [Sizes -> JobId \cup {0}] /\ cache \in [Sizes -> SUBSET Asr!File] /\ losses \in 0 .. 1
  BY DEF JobsInv, JobShapes, FewLines
<1> QED BY <1>1, <1>2, <1>3, <1>4, <1>5, CardinalityIsTheSame DEF Asr!TypeOK

-----------------------------------------------------------------------------
(* Model installation and the managed backend, with their proofs.          *)
Kept  == INSTANCE ModelInstallProofs WITH Installer <- Alpha, Size <- FilePieces
Owned == INSTANCE BackendServiceProofs WITH Child <- Alpha

(* Owned and Svc are one specification: both are BackendService about the  *)
(* same variables.                                                         *)
LEMMA BackendIsTheSame ==
  /\ Svc!Init <=> Owned!Init
  /\ Svc!Next <=> Owned!Next
BY DEF Svc!mine, Owned!mine, Svc!NoGroups, Svc!Live, Svc!IdentityMatches, Svc!GroupIsGone,
     Svc!Becomes, Svc!LeaderExits,
       Svc!OrphansExit, Svc!PidReused, Svc!StrangerExits, Svc!Thread, Svc!NoRecord, Svc!Intent,
       Svc!Nameless, Svc!Runs, Svc!Fresh, Svc!Idle, Svc!Init, Svc!Saved, Svc!Lost, Svc!At, Svc!Goes,
       Svc!Ends, Svc!FreshChild, Svc!StartsOver, Svc!Continues, Svc!Raises, Svc!Clears, Svc!Serves,
       Svc!Reconciled, Svc!Doubts, Svc!Finishes, Svc!Terminates, Svc!Stops, Svc!Reconciles,
       Svc!Check, Svc!Term, Svc!Kill, Svc!Serve, Svc!PersistIntent, Svc!Spawn, Svc!Recorded,
       Svc!Unnamed, Svc!Spawned, Svc!Health, Svc!ExitSeen, Svc!OtherCommit, Svc!Boot, Svc!Reconcile,
       Svc!Close, Svc!StopBackend, Svc!Release, Svc!Exit, Svc!System, Svc!Next, Owned!NoGroups,
       Owned!Live, Owned!IdentityMatches, Owned!GroupIsGone, Owned!Becomes, Owned!LeaderExits,
       Owned!OrphansExit, Owned!PidReused, Owned!StrangerExits, Owned!Thread, Owned!NoRecord,
       Owned!Intent, Owned!Nameless, Owned!Runs, Owned!Fresh, Owned!Idle, Owned!Init, Owned!Saved,
       Owned!Lost, Owned!At, Owned!Goes, Owned!Ends, Owned!FreshChild, Owned!StartsOver,
       Owned!Continues, Owned!Raises, Owned!Clears, Owned!Serves, Owned!Reconciled, Owned!Doubts,
       Owned!Finishes, Owned!Terminates, Owned!Stops, Owned!Reconciles, Owned!Check, Owned!Term,
       Owned!Kill, Owned!Serve, Owned!PersistIntent, Owned!Spawn, Owned!Recorded, Owned!Unnamed,
       Owned!Spawned, Owned!Health, Owned!ExitSeen, Owned!OtherCommit, Owned!Boot, Owned!Reconcile,
       Owned!Close, Owned!StopBackend, Owned!Release, Owned!Exit, Owned!System, Owned!Next

(* And so are Kept and Inst: both are ModelInstall.                        *)
LEMMA ModelsAreTheSame ==
  /\ Inst!Init <=> Kept!Init
  /\ Inst!Next <=> Kept!Next
BY DEF Inst!Correct, Inst!Verifies, Inst!NewStage, Inst!Idle, Inst!Init, Inst!Here, Inst!Goes,
       Inst!Of, Inst!Stages, Inst!Leaves, Inst!WithoutPayload, Inst!LockShared, Inst!Lock,
       Inst!TidyOther, Inst!TidyOwn, Inst!ReuseStage, Inst!Declines, Inst!MakeStageAnyway,
       Inst!MakeStage, Inst!ResumableBySize, Inst!Resumable, Inst!Open, Inst!Restarted, Inst!Retry,
       Inst!Whole, Inst!Partial, Inst!Refused, Inst!Read, Inst!Checkpoint, Inst!Broken, Inst!Finish,
       Inst!Materialize, Inst!Snapshots, Inst!AnotherTry, Inst!Acquire, Inst!Denied, Inst!Verify,
       Inst!Quarantine, Inst!Publish, Inst!RemoveStage, Inst!Dies, Inst!Next, Kept!Correct,
       Kept!Verifies, Kept!NewStage, Kept!Idle, Kept!Init, Kept!Here, Kept!Goes, Kept!Of,
       Kept!Stages, Kept!Leaves, Kept!WithoutPayload, Kept!LockShared, Kept!Lock, Kept!TidyOther,
       Kept!TidyOwn, Kept!ReuseStage, Kept!Declines, Kept!MakeStageAnyway, Kept!MakeStage,
       Kept!ResumableBySize, Kept!Resumable, Kept!Open, Kept!Restarted, Kept!Retry, Kept!Whole,
       Kept!Partial, Kept!Refused, Kept!Read, Kept!Checkpoint, Kept!Broken, Kept!Finish,
       Kept!Materialize, Kept!Snapshots, Kept!AnotherTry, Kept!Acquire, Kept!Denied, Kept!Verify,
       Kept!Quarantine, Kept!Publish, Kept!RemoveStage, Kept!Dies, Kept!Next

(* A step of the whole is one of the backend or leaves it alone.           *)
LEMMA BackendMoves == [Next]_vars => [Owned!Next]_(Owned!vars)
<1>1. [Next]_vars => [Svc!Next]_backend
  BY DEF Next, vars
<1>2. UNCHANGED backend => UNCHANGED Owned!vars
  BY DEF backend, Owned!vars, Owned!mine
<1> QED  BY <1>1, <1>2, BackendIsTheSame
-----------------------------------------------------------------------------
(* The properties are the same in both as well.                            *)
LEMMA ServesRecordedIsTheSame ==
  (Owned!ServesIsRecorded /\ Owned!StoppedFirst) <=> (Svc!ServesIsRecorded /\ Svc!StoppedFirst)
BY DEF Owned!ServesIsRecorded, Owned!StoppedFirst, Svc!ServesIsRecorded, Svc!StoppedFirst,
       Owned!Live, Svc!Live, Owned!mine, Svc!mine

(* A managed backend that may write is named in the state file, and none   *)
(* is left when the ownership of the installation is released              *)
(* (backend-service.js): for any number of starts, with a reused pid,      *)
(* deaths of controller and backend, and failures of every write.          *)
THEOREM BackendStaysOwned == Spec => []BackendIsOwned
<1>1. Init => Owned!IInv
  BY BackendIsTheSame, Owned!InitIInv DEF Init
<1>2. Owned!IInv /\ [Next]_vars => Owned!IInv'
  BY BackendMoves, Owned!StepIInv, NoneAssumption
<1>3. Owned!IInv => BackendIsOwned
  BY Owned!OwnedByIInv, ServesRecordedIsTheSame DEF BackendIsOwned
<1> QED  BY <1>1, <1>2, <1>3, PTL DEF Spec

-----------------------------------------------------------------------------
(* A step of the whole is one of model installation or leaves it alone.    *)
LEMMA ModelsMove == [Next]_vars => [Kept!Next]_(Kept!models)
<1>1. [Next]_vars => [Inst!Next]_models
  BY DEF Next, vars
<1>2. UNCHANGED models => UNCHANGED Kept!models
  BY DEF models, Kept!models
<1> QED  BY <1>1, <1>2, ModelsAreTheSame

(* What the proofs of model installation assume of its constants holds.    *)
LEMMA ModelParameters == Kept!Parameters
BY NoneAssumption, ModelsAssumption
   DEF Kept!Parameters, Kept!Stage, Kept!Pieces, Kept!Validators,
       Inst!Stage, Inst!Pieces, Inst!Validators

(* No key has a staging directory, and nobody holds a lock.                *)
LEMMA InitModels == Init => Kept!IInv
BY ModelsAreTheSame, ModelParameters, Kept!InitIInv DEF Init

(* Whichever part moves, the invariant of model installation stays.        *)
LEMMA StepModels == Kept!IInv /\ [Next]_vars => Kept!IInv'
BY ModelsMove, ModelParameters, Kept!StepIInv

(* An artifact that stands whole under its key is never moved away nor     *)
(* replaced, by whichever of any number of installers, dying anywhere      *)
(* (download.py).                                                          *)
THEOREM InstalledModelStays == Spec => InstalledStays
<1>1. ASSUME Kept!IInv, [Next]_vars
      PROVE  [\A k \in Key : tree[k] = "whole" => tree'[k] = "whole"]_(Inst!models)
  <2>1. ASSUME NEW k \in Key, tree[k] = "whole" PROVE tree'[k] = "whole"
    BY <1>1, <2>1, ModelsMove, ModelParameters, Kept!WholeStaysByIInv
  <2> QED  BY <2>1
<1> QED  BY <1>1, InitModels, StepModels, PTL DEF Spec, InstalledStays, Inst!InstalledStays

(* What a resumed transfer of a model appends to is what its running       *)
(* digest covers, and is of one version of the file (download.py); and a   *)
(* page that polls the download of a recognition model is told the truth   *)
(* of it, and somebody tends what is under way (asr_model_ensure.py).      *)
THEOREM DownloadsAreIntact == Spec => []DownloadIsIntact
<1>1. Init => Kept!IInv /\ JobsInv
  BY InitModels, InitJobs DEF Init
<1>2. Kept!IInv /\ JobsInv /\ [Next]_vars => Kept!IInv' /\ JobsInv'
  <2>1. [Next]_vars => [Asr!Next]_ensures
    BY DEF Next, vars
  <2> QED  BY <2>1, StepModels, StepJobs
<1>3. Kept!IInv /\ JobsInv => DownloadIsIntact
  <2>1. Kept!IInv => Inst!DownloadIsIntact
    BY ModelParameters, Kept!IntactByIInv
       DEF Kept!DownloadIsIntact, Inst!DownloadIsIntact, Kept!Of, Inst!Of
  <2> QED  BY <2>1, TendedJobs DEF DownloadIsIntact
<1> QED  BY <1>1, <1>2, <1>3, PTL DEF Spec

LEMMA TypedModels == ASSUME Kept!IInv PROVE Inst!TypeOK
<1>1. /\ tree \in [Key -> {"none", "broken", "whole"}]
      /\ stage \in [Key -> Inst!Stage \cup {None}]
      /\ holder \in [Key -> Alpha \cup {None}]
  BY DEF Kept!IInv, Kept!Shapes, Kept!Tree, Kept!Stage, Inst!Stage, Kept!Pieces, Inst!Pieces,
         Kept!Validators, Inst!Validators
<1>2. ASSUME NEW i \in Alpha
      PROVE  /\ proc[i].sum \in Inst!Pieces /\ proc[i].safe \in Inst!Pieces
             /\ {proc[i].tag, proc[i].safeTag, proc[i].from} \subseteq Inst!Validators
             /\ proc[i].tries \in 0 .. Attempts
  BY DEF Kept!IInv, Kept!Shapes, Kept!Process, Kept!Pieces, Inst!Pieces, Kept!Validators, Inst!Validators
<1>3. \A i \in Alpha : proc[i].pc # "idle" => holder[proc[i].key] = i
  BY DEF Kept!IInv, Kept!HoldsItsKey
<1> QED BY <1>1, <1>2, <1>3 DEF Inst!TypeOK

LEMMA TypedBackend == Owned!TypeOK => Svc!TypeOK
BY DEF Owned!TypeOK, Svc!TypeOK, Owned!Record, Svc!Record, Owned!Point, Svc!Point, Owned!Then, Svc!Then,
       Owned!Thread, Svc!Thread, Owned!GroupsOK, Svc!GroupsOK, Owned!GroupState, Svc!GroupState

-----------------------------------------------------------------------------
(* The shapes of all parts together.                                       *)
PartName == {"uploads", "models", "slices", "backend", "references", "installer",
             "quality", "speakers", "ensure"}
Typed ==
  /\ part \in PartName
  /\ UploadInv /\ Kept!IInv /\ SliceInv /\ FewCommits /\ Owned!IInv
  /\ ReferenceInv /\ InstallInv /\ QualityInv /\ FileShapes /\ SpeakersHold
  /\ JobsInv /\ FewLines

LEMMA InitTyped == Init => Typed
<1> SUFFICES ASSUME Init PROVE Typed
  OBVIOUS
<1>1. part \in PartName /\ UploadInv /\ Kept!IInv /\ SliceInv
  BY InitUploads, InitModels, InitSlices DEF Init, PartName
<1>2. FewCommits
  BY SlicesAssumption DEF Init, Hist!Init, FewCommits
<1>3. Owned!IInv
  BY BackendIsTheSame, Owned!InitIInv DEF Init
<1>4. ReferenceInv /\ InstallInv /\ QualityInv
  BY InitReferences, InitInstall, InitQuality DEF Init
<1>5. FileShapes
  <2>1. QualityIsSound
    BY <1>4 DEF QualityInv, Init, Qual!Init
  <2> QED BY <2>1 DEF QualityIsSound, QualityShapes, FileShapes
<1>6. SpeakersHold /\ JobsInv /\ FewLines
  BY SpeakersStart, InitJobs, FewLinesInit DEF Init
<1> QED BY <1>1, <1>2, <1>3, <1>4, <1>5, <1>6 DEF Typed

LEMMA StepTyped == Typed /\ [Next]_vars => Typed'
<1> SUFFICES ASSUME Typed, [Next]_vars PROVE Typed'
  OBVIOUS
<1>1. /\ [Up!Next]_uploads /\ [Hist!Next]_slices /\ [Refs!Next]_refs /\ [Lin!Next]_installer
      /\ [Qual!Next]_quality /\ [Spk!Next]_speakers /\ [Asr!Next]_ensures /\ UNCHANGED part
  BY DEF Next, vars
<1>2. part' \in PartName /\ UploadInv' /\ Kept!IInv' /\ SliceInv'
  BY <1>1, StepUploads, StepModels, StepSlices DEF Typed
<1>3. FewCommits' /\ FewLines' /\ JobsInv'
  BY <1>1, FewCommitsStep, FewLinesStep, StepJobs DEF Typed
<1>4. Owned!IInv'
  BY BackendMoves, Owned!StepIInv, NoneAssumption DEF Typed
<1>5. ReferenceInv' /\ QualityInv' /\ SpeakersHold'
  BY <1>1, StepReferences, StepQuality, StepSpeakers DEF Typed
<1>6. InstallInv'
  BY <1>1, KeepInstall DEF Typed
<1>7. FileShapes'
  <2>1. CASE UNCHANGED quality
    BY <2>1 DEF quality, Typed, FileShapes
  <2>2. CASE Qual!Next
    <3>1. QualityIsSound /\ Qual!Step
      BY <2>2 DEF Qual!Next, QualityInv, Typed
    <3> QED BY <3>1, FilesStep
  <2> QED BY <1>1, <2>1, <2>2
<1> QED BY <1>2, <1>3, <1>4, <1>5, <1>6, <1>7 DEF Typed

(* Each part's state has the shapes its code writes: for any number of     *)
(* actors and items of every part.                                         *)
THEOREM PartsAreTyped == Spec => []TypeOK
<1>1. Typed => TypeOK
  <2> SUFFICES ASSUME Typed PROVE TypeOK
    OBVIOUS
  <2>1. Up!TypeOK /\ Inst!TypeOK /\ Hist!TypeOK
    BY TypedUploads, TypedModels, TypedSlices DEF Typed
  <2>2. Svc!TypeOK
    <3>1. Owned!TypeOK
      BY DEF Typed, Owned!IInv
    <3> QED BY <3>1, TypedBackend
  <2>3. Refs!TypeOK /\ Lin!TypeOK
    BY TypedReferences, TypedInstall DEF Typed
  <2>4. Qual!TypeOK /\ Spk!TypeOK /\ Asr!TypeOK
    BY TypedFiles, TypedSpeakers, TypedJobs DEF Typed
  <2> QED BY <2>1, <2>2, <2>3, <2>4 DEF TypeOK, Typed, PartName
<1> QED BY <1>1, InitTyped, StepTyped, PTL DEF Spec

=============================================================================
