------------------------- MODULE ModelInstallProofs -------------------------
(***************************************************************************)
(* Theorems about ModelInstall for any installers, artifacts, versions and *)
(* sizes of the file.  The argument: whoever works on a key holds its      *)
(* lock, so that nobody else touches its tree or its staging directory;    *)
(* and a digest that has a strong validator covers pieces of the version   *)
(* the validator names, in memory, among the durable ones and in the       *)
(* record that an earlier process left.                                    *)
(***************************************************************************)
EXTENDS ModelInstall, TLAPS

(* None is no process and no directory; a size and a number of attempts.   *)
Parameters ==
  /\ None \notin Installer \cup Stage
  /\ Size \in Nat /\ Attempts \in Nat
  /\ Good \in Version

Fetching == {"request", "read"}
Ready    == {"tidy", "check", "acquire", "open"}
Working  == {"acquire", "open", "copy", "verify", "publish"} \cup Fetching
Point    == Working \cup Ready \cup {"idle", "published"}
Process  == [pc : Point, key : Key \cup {None}, sum : Pieces, tag : Validators,
             safe : Pieces, safeTag : Validators, from : Validators, tries : 0 .. Attempts]
Tree     == {"none", "broken", "whole"}

Shapes ==
  /\ tree \in [Key -> Tree]
  /\ stage \in [Key -> Stage \cup {None}]
  /\ holder \in [Key -> Installer \cup {None}]
  /\ proc \in [Installer -> Process]

AllFrom(s, v) == \A n \in DOMAIN s : s[n] = v
Covers(s, tag) == IF tag = None THEN s = <<>> ELSE AllFrom(s, tag)

(* A record with a validator names the version of every piece it covers.   *)
RecordIsSound(s) ==
  s # None /\ s.record # None /\ s.record.tag # None => AllFrom(s.record.sum, s.record.tag)

(* What a transfer knows of its bytes; those it would go back to; and,     *)
(* once a response is being read, that they are all the response's.        *)
TransferIsSound(p) ==
  /\ Covers(p.safe, p.safeTag)
  /\ p.pc = "request" => Covers(p.sum, p.tag)
  /\ p.pc = "read" => p.from \in Version /\ AllFrom(p.sum, p.from) /\ p.tag \in {None, p.from}

(* An installer p at work on a key whose staging directory is s and whose  *)
(* tree is t.                                                              *)
Sound(p, s, t) ==
  /\ p.pc \in Ready => p.sum = <<>> /\ p.tag = None /\ p.safe = <<>> /\ p.safeTag = None
  /\ p.pc \in Working => t # "whole" /\ s # None
  /\ p.pc = "published" => s # None
  /\ p.pc \in Fetching => s.part = p.sum /\ TransferIsSound(p)

HoldsItsKey(i) ==
  proc[i].pc # "idle" =>
    /\ proc[i].key \in Key
    /\ holder[proc[i].key] = i
    /\ Sound(proc[i], stage[proc[i].key], tree[proc[i].key])

IInv ==
  /\ Shapes
  /\ \A k \in Key : RecordIsSound(stage[k])
  /\ \A i \in Installer : HoldsItsKey(i)


-----------------------------------------------------------------------------
(* What an installation starts with has the shapes that are kept.          *)
LEMMA Sorts ==
  ASSUME Parameters
  PROVE  /\ <<>> \in Pieces /\ Correct \in Pieces
         /\ NewStage \in Stage /\ RecordIsSound(NewStage) /\ RecordIsSound(None)
         /\ Idle \in Process
         /\ \A s \in Stage : s # None
<1>1. <<>> \in [1 .. 0 -> Version] /\ Correct \in [1 .. Size -> Version]
  BY DEF Correct, Parameters
<1>2. <<>> \in Pieces /\ Correct \in Pieces
  BY <1>1 DEF Pieces, Parameters
<1>3. NewStage \in Stage /\ RecordIsSound(NewStage)
  BY <1>2 DEF NewStage, Stage, RecordIsSound
<1>4. Idle \in Process
  BY <1>2 DEF Idle, Process, Point, Validators, Parameters
<1> QED  BY <1>2, <1>3, <1>4 DEF RecordIsSound, Parameters

(* One more piece of a version on top of fewer than all is a sequence of   *)
(* pieces.                                                                 *)
LEMMA PiecesGrow ==
  ASSUME Parameters, NEW s \in Pieces, Len(s) < Size, NEW v \in Version
  PROVE  /\ Append(s, v) \in Pieces
         /\ SubSeq(s, 1, Len(s)) \o <<v>> = Append(s, v)
         /\ AllFrom(s, v) => AllFrom(Append(s, v), v)
<1>1. PICK n \in 0 .. Size : s \in [1 .. n -> Version]
  BY DEF Pieces
<1>2. s \in Seq(Version) /\ Len(s) = n /\ DOMAIN s = 1 .. n
  BY <1>1
<1>3. Append(s, v) \in [1 .. n + 1 -> Version] /\ n + 1 \in 0 .. Size
  <2>1. n + 1 \in 0 .. Size
    BY <1>2 DEF Parameters
  <2> DEFINE a == Append(s, v)
  <2>2. a \in Seq(Version) /\ Len(a) = n + 1
    BY <1>2
  <2> HIDE DEF a
  <2>3. a \in [1 .. n + 1 -> Version]
    BY <2>2
  <2> QED  BY <2>1, <2>3 DEF a
<1>4. SubSeq(s, 1, Len(s)) = s
  BY <1>2
<1>5. s \o <<v>> = Append(s, v)
  BY <1>2
<1>6. ASSUME AllFrom(s, v) PROVE AllFrom(Append(s, v), v)
  BY <1>2, <1>6 DEF AllFrom
<1> QED  BY <1>3, <1>4, <1>5, <1>6 DEF Pieces

(* An installer at work on a key touches what is that key's only: what it  *)
(* makes of them decides.                                                  *)
LEMMA OwnStep ==
  ASSUME Parameters, IInv, NEW i \in Installer, proc[i].pc # "idle",
         NEW p \in Process, NEW s \in Stage \cup {None}, NEW t \in Tree, NEW h \in {i, None},
         proc' = [proc EXCEPT ![i] = p],
         stage' = [stage EXCEPT ![proc[i].key] = s],
         tree' = [tree EXCEPT ![proc[i].key] = t],
         holder' = [holder EXCEPT ![proc[i].key] = h],
         RecordIsSound(s),
         p.pc # "idle" => p.key = proc[i].key /\ h = i /\ Sound(p, s, t)
  PROVE  IInv'
<1> DEFINE k == proc[i].key
<1>1. k \in Key /\ holder[k] = i /\ HoldsItsKey(i)
  BY DEF IInv, HoldsItsKey
<1>2. Shapes'
  BY <1>1 DEF IInv, Shapes
<1>3. ASSUME NEW l \in Key PROVE RecordIsSound(stage'[l])
  BY <1>1, <1>3 DEF IInv, Shapes
<1>4. ASSUME NEW j \in Installer PROVE HoldsItsKey(j)'
  <2>1. CASE j = i
    BY <1>1, <2>1 DEF IInv, Shapes, HoldsItsKey
  <2>2. CASE j # i
    <3>1. proc'[j] = proc[j]
      BY <2>2 DEF IInv, Shapes
    <3> SUFFICES ASSUME proc[j].pc # "idle" PROVE HoldsItsKey(j)'
      BY <3>1 DEF HoldsItsKey
    <3>2. proc[j].key \in Key /\ holder[proc[j].key] = j /\ HoldsItsKey(j)
      BY DEF IInv, HoldsItsKey
    <3>3. proc[j].key # k
      BY <1>1, <2>2, <3>2
    <3>4. /\ holder'[proc[j].key] = holder[proc[j].key]
          /\ stage'[proc[j].key] = stage[proc[j].key]
          /\ tree'[proc[j].key] = tree[proc[j].key]
      BY <1>1, <3>2, <3>3 DEF IInv, Shapes
    <3> QED  BY <3>1, <3>2, <3>4 DEF HoldsItsKey
  <2> QED  BY <2>1, <2>2
<1> QED  BY <1>2, <1>3, <1>4 DEF IInv

(* What an installer that is at work may rely on.                          *)
LEMMA AtWork ==
  ASSUME Parameters, IInv, NEW i \in Installer, proc[i].pc # "idle"
  PROVE  /\ proc[i] \in Process /\ proc[i].key \in Key
         /\ stage[proc[i].key] \in Stage \cup {None}
         /\ tree[proc[i].key] \in Tree
         /\ holder[proc[i].key] = i
         /\ RecordIsSound(stage[proc[i].key])
         /\ Sound(proc[i], stage[proc[i].key], tree[proc[i].key])
         /\ stage = [stage EXCEPT ![proc[i].key] = stage[proc[i].key]]
         /\ tree = [tree EXCEPT ![proc[i].key] = tree[proc[i].key]]
         /\ holder = [holder EXCEPT ![proc[i].key] = i]
BY DEF IInv, Shapes, HoldsItsKey

(* An installer leaves its key: nobody works on it, and the tree and the   *)
(* staging directory are what they may be without anybody.                 *)
LEMMA LeaveStep ==
  ASSUME Parameters, IInv, NEW i \in Installer, proc[i].pc # "idle", Leaves(i),
         NEW s \in Stage \cup {None}, Stages(i, s), RecordIsSound(s), UNCHANGED tree
  PROVE  IInv'
<1> DEFINE k == proc[i].key
<1>1. Idle \in Process /\ Idle.pc = "idle"
  BY Sorts DEF Idle
<1>2. /\ proc' = [proc EXCEPT ![i] = Idle] /\ holder' = [holder EXCEPT ![k] = None]
      /\ stage' = [stage EXCEPT ![k] = s]
  BY DEF Leaves, Stages
<1>3. tree' = [tree EXCEPT ![k] = tree[k]] /\ tree[k] \in Tree
  BY AtWork
<1> QED  BY <1>1, <1>2, <1>3, OwnStep

(* The installer goes on to another point; the staging directory may       *)
(* change.                                                                 *)
LEMMA GoStep ==
  ASSUME Parameters, IInv, NEW i \in Installer, proc[i].pc # "idle",
         NEW pc \in Point \ {"idle"}, Goes(i, pc), UNCHANGED <<tree, holder>>,
         NEW s \in Stage \cup {None}, Stages(i, s), RecordIsSound(s),
         Sound([proc[i] EXCEPT !.pc = pc], s, tree[proc[i].key])
  PROVE  IInv'
<1> DEFINE p == [proc[i] EXCEPT !.pc = pc]
<1>1. p \in Process /\ p.pc = pc /\ p.key = proc[i].key
  BY AtWork DEF Process
<1>2. proc' = [proc EXCEPT ![i] = p]
  BY DEF Goes, IInv, Shapes
<1>3. /\ tree' = [tree EXCEPT ![proc[i].key] = tree[proc[i].key]]
      /\ tree[proc[i].key] \in Tree
      /\ holder' = [holder EXCEPT ![proc[i].key] = i]
      /\ stage' = [stage EXCEPT ![proc[i].key] = s]
  BY AtWork DEF Stages
<1>4. Sound(p, s, tree[proc[i].key])
  OBVIOUS
<1> HIDE DEF p
<1> QED  BY <1>1, <1>2, <1>3, <1>4, OwnStep

(* Who takes a free lock starts with nothing read.                         *)
LEMMA LockStep ==
  ASSUME Parameters, IInv, NEW i \in Installer, NEW k \in Key, Lock(i, k) PROVE IInv'
<1> DEFINE p == [Idle EXCEPT !.pc = "tidy", !.key = k]
<1>1. p \in Process /\ p.pc = "tidy" /\ p.key = k
  BY Sorts DEF Process, Idle, Point, Ready
<1>2. Sound(p, stage[k], tree[k])
  BY DEF Idle, Sound, Ready, Working, Fetching
<1> HIDE DEF p
<1>3. /\ proc' = [proc EXCEPT ![i] = p] /\ holder' = [holder EXCEPT ![k] = i]
      /\ holder[k] = None /\ UNCHANGED <<tree, stage>>
  BY DEF Lock, p
<1>4. Shapes'
  BY <1>1, <1>3 DEF IInv, Shapes
<1>5. \A l \in Key : RecordIsSound(stage'[l])
  BY <1>3 DEF IInv
<1>6. ASSUME NEW j \in Installer PROVE HoldsItsKey(j)'
  <2>1. CASE j = i
    BY <1>1, <1>2, <1>3, <2>1 DEF IInv, Shapes, HoldsItsKey
  <2>2. CASE j # i
    <3>1. proc'[j] = proc[j] /\ HoldsItsKey(j)
      BY <1>3, <2>2 DEF IInv, Shapes
    <3>2. proc[j].pc # "idle" => proc[j].key \in Key /\ proc[j].key # k
      BY <1>3, <3>1 DEF HoldsItsKey, Parameters
    <3> QED  BY <1>3, <3>1, <3>2 DEF IInv, Shapes, HoldsItsKey
  <2> QED  BY <2>1, <2>2
<1> QED  BY <1>4, <1>5, <1>6 DEF IInv

(* A staging directory without its payload keeps its part file and its     *)
(* record.                                                                 *)
LEMMA WithoutPayloadIsSound ==
  ASSUME Parameters, IInv, NEW k \in Key
  PROVE  WithoutPayload(k) \in Stage \cup {None} /\ RecordIsSound(WithoutPayload(k))
<1>1. stage[k] \in Stage \cup {None} /\ RecordIsSound(stage[k])
  BY DEF IInv, Shapes
<1>2. CASE stage[k] = None \/ k \in Hub
  BY <1>1, <1>2 DEF WithoutPayload
<1>3. CASE ~(stage[k] = None \/ k \in Hub)
  <2>1. stage[k] \in Stage
    BY <1>1, <1>3
  <2>2. WithoutPayload(k) = [stage[k] EXCEPT !.payload = None]
    BY <1>3 DEF WithoutPayload
  <2>3. WithoutPayload(k) \in Stage /\ WithoutPayload(k).record = stage[k].record
    BY <2>1, <2>2 DEF Stage
  <2> QED  BY <1>1, <1>3, <2>3 DEF RecordIsSound
<1> QED  BY <1>2, <1>3

(* Another key is tidied only while nobody holds its lock.                 *)
LEMMA TidyOtherStep ==
  ASSUME Parameters, IInv, NEW i \in Installer, NEW k \in Key, TidyOther(i, k) PROVE IInv'
<1>1. PICK s \in {WithoutPayload(k), None} : stage' = [stage EXCEPT ![k] = s]
  BY DEF TidyOther
<1>2. s \in Stage \cup {None} /\ RecordIsSound(s)
  BY <1>1, WithoutPayloadIsSound, Sorts
<1>3. holder[k] = None /\ UNCHANGED <<tree, holder, proc>>
  BY DEF TidyOther
<1>4. Shapes'
  BY <1>1, <1>2, <1>3 DEF IInv, Shapes
<1>5. \A l \in Key : RecordIsSound(stage'[l])
  BY <1>1, <1>2 DEF IInv, Shapes
<1>6. ASSUME NEW j \in Installer PROVE HoldsItsKey(j)'
  <2>1. HoldsItsKey(j)
    BY DEF IInv
  <2>2. proc[j].pc # "idle" => proc[j].key \in Key /\ proc[j].key # k
    BY <1>3, <2>1 DEF HoldsItsKey, Parameters
  <2> QED  BY <1>1, <1>3, <2>1, <2>2 DEF IInv, Shapes, HoldsItsKey
<1> QED  BY <1>4, <1>5, <1>6 DEF IInv

(* Its own key is tidied before anything of it is read.                    *)
LEMMA TidyOwnStep ==
  ASSUME Parameters, IInv, NEW i \in Installer, TidyOwn(i) PROVE IInv'
<1>1. PICK s \in {WithoutPayload(proc[i].key), None} : Stages(i, s)
  BY DEF TidyOwn
<1>2. proc[i].pc = "tidy" /\ Goes(i, "check") /\ UNCHANGED <<tree, holder>>
  BY DEF TidyOwn, Here
<1>3. s \in Stage \cup {None} /\ RecordIsSound(s)
  BY <1>1, <1>2, AtWork, WithoutPayloadIsSound, Sorts
<1>4. Sound([proc[i] EXCEPT !.pc = "check"], s, tree[proc[i].key])
  BY <1>2, AtWork DEF Sound, Ready, Working, Fetching, Process
<1> QED  BY <1>1, <1>2, <1>3, <1>4, GoStep DEF Point, Ready, Working

(* A whole tree is used, and the staging directory goes.                   *)
LEMMA ReuseStageStep ==
  ASSUME Parameters, IInv, NEW i \in Installer, ReuseStage(i) PROVE IInv'
BY LeaveStep, Sorts DEF ReuseStage, Here

(* An installer declines, or dies anywhere, and leaves what is staged.     *)
LEMMA DeclinesStep ==
  ASSUME Parameters, IInv, NEW i \in Installer, Declines(i) \/ Dies(i) PROVE IInv'
<1>1. proc[i].pc # "idle" /\ Leaves(i) /\ UNCHANGED <<tree, stage>>
  BY DEF Declines, Dies, Here
<1>2. Stages(i, stage[proc[i].key])
  BY <1>1, AtWork DEF Stages
<1> QED  BY <1>1, <1>2, AtWork, LeaveStep

(* A staging directory is made, or the one left is used again.             *)
LEMMA MakeStageStep ==
  ASSUME Parameters, IInv, NEW i \in Installer, MakeStage(i) PROVE IInv'
<1> DEFINE k == proc[i].key
           s == IF stage[k] = None THEN NewStage ELSE stage[k]
           pc == IF k \in Hub THEN "acquire" ELSE "open"
<1>1. /\ proc[i].pc = "check" /\ tree[k] # "whole" /\ Stages(i, s)
      /\ Goes(i, pc) /\ UNCHANGED <<tree, holder>>
  BY DEF MakeStage, Here, Of
<1>2. s \in Stage /\ s # None /\ RecordIsSound(s)
  BY <1>1, AtWork, Sorts
<1>3. pc \in {"acquire", "open"}
  OBVIOUS
<1> HIDE DEF s, pc
<1>4. Sound([proc[i] EXCEPT !.pc = pc], s, tree[k])
  BY <1>1, <1>2, <1>3, AtWork DEF Sound, Ready, Working, Fetching, Process
<1> QED  BY <1>1, <1>2, <1>3, <1>4, GoStep DEF Point, Ready, Working


-----------------------------------------------------------------------------
(* The transfer.  What the part is cut back to and the digest restarts     *)
(* from are the durable bytes, or nothing.                                 *)
LEMMA RetryStep ==
  ASSUME Parameters, IInv, NEW i \in Installer, proc[i].pc \in Fetching,
         NEW p \in {proc[i], Restarted(proc[i])}, NEW s \in Stage, RecordIsSound(s),
         Retry(i, p, s), UNCHANGED tree
  PROVE  IInv'
<1> DEFINE k == proc[i].key
           kept == [s EXCEPT !.part = p.safe]
           q == [p EXCEPT !.pc = "request", !.sum = p.safe, !.tag = p.safeTag, !.from = None,
                          !.tries = p.tries + 1]
<1>1. proc[i].pc # "idle"
  BY DEF Fetching
<1>2. /\ p \in Process /\ p.key = k /\ Covers(p.safe, p.safeTag)
  <2>1. proc[i] \in Process /\ Covers(proc[i].safe, proc[i].safeTag)
    BY <1>1, AtWork DEF Sound, TransferIsSound
  <2>2. /\ Restarted(proc[i]) \in Process /\ Restarted(proc[i]).key = k
        /\ Covers(Restarted(proc[i]).safe, Restarted(proc[i]).safeTag)
    BY <2>1, Sorts DEF Restarted, Process, Covers, Validators
  <2> QED  BY <2>1, <2>2
<1>3. kept \in Stage /\ kept.part = p.safe /\ kept.record = s.record
  BY <1>2 DEF Stage, Process
<1>4. RecordIsSound(kept) /\ kept # None
  BY <1>3, Sorts DEF RecordIsSound
<1>5. CASE Leaves(i)
  BY <1>1, <1>3, <1>4, <1>5, LeaveStep DEF Retry
<1>6. CASE p.tries + 1 < Attempts /\ proc' = [proc EXCEPT ![i] = q] /\ UNCHANGED holder
  <2>1. q \in Process
    <3>1. p.tries \in 0 .. Attempts /\ Attempts \in Nat
      BY <1>2 DEF Process, Parameters
    <3>2. p.tries + 1 \in 0 .. Attempts
      BY <1>6, <3>1
    <3>3. "request" \in Point /\ None \in Validators
      BY DEF Point, Working, Fetching, Validators
    <3> QED  BY <1>2, <3>2, <3>3 DEF Process
  <2>2. q.pc = "request" /\ q.key = k /\ q.sum = p.safe /\ q.tag = p.safeTag
        /\ q.safe = p.safe /\ q.safeTag = p.safeTag
    BY <1>2 DEF Process
  <2>3. TransferIsSound(q)
    BY <1>2, <2>2 DEF TransferIsSound
  <2>4. tree[k] # "whole"
    BY <1>1, AtWork DEF Sound, Working
  <2>5. Sound(q, kept, tree[k])
    BY <1>3, <1>4, <2>2, <2>3, <2>4 DEF Sound, Ready
  <2> HIDE DEF q, kept
  <2>6. stage' = [stage EXCEPT ![k] = kept]
    BY DEF Retry, Stages, kept
  <2>7. tree' = [tree EXCEPT ![k] = tree[k]] /\ tree[k] \in Tree
        /\ holder' = [holder EXCEPT ![k] = i]
    BY <1>1, <1>6, AtWork
  <2> QED  BY <1>1, <1>3, <1>4, <1>6, <2>1, <2>2, <2>5, <2>6, <2>7, OwnStep
<1> QED  BY <1>5, <1>6 DEF Retry

(* The installer changes in more than its point.                           *)
LEMMA BecomeStep ==
  ASSUME Parameters, IInv, NEW i \in Installer, proc[i].pc # "idle",
         NEW p \in Process, proc' = [proc EXCEPT ![i] = p], p.key = proc[i].key,
         NEW s \in Stage \cup {None}, Stages(i, s), RecordIsSound(s),
         Sound(p, s, tree[proc[i].key]), UNCHANGED <<tree, holder>>
  PROVE  IInv'
<1>1. /\ tree' = [tree EXCEPT ![proc[i].key] = tree[proc[i].key]]
      /\ tree[proc[i].key] \in Tree
      /\ holder' = [holder EXCEPT ![proc[i].key] = i]
      /\ stage' = [stage EXCEPT ![proc[i].key] = s]
  BY AtWork DEF Stages
<1> QED  BY <1>1, OwnStep

(* What is known of an installer that transfers: its part file holds what  *)
(* its digest covers.                                                      *)
LEMMA AtTransfer ==
  ASSUME Parameters, IInv, NEW i \in Installer, proc[i].pc \in Fetching \cup {"open"}
  PROVE  /\ proc[i].pc # "idle" /\ proc[i] \in Process /\ proc[i].key \in Key
         /\ Of(i) = stage[proc[i].key] /\ Of(i) \in Stage /\ Of(i) # None
         /\ RecordIsSound(Of(i)) /\ tree[proc[i].key] # "whole"
         /\ proc[i].pc \in Fetching => Of(i).part = proc[i].sum /\ TransferIsSound(proc[i])
         /\ Sound(proc[i], Of(i), tree[proc[i].key])
<1>1. proc[i].pc # "idle" /\ proc[i].pc \in Working
  BY DEF Fetching, Working
<1> QED  BY <1>1, AtWork DEF Of, Sound

(* A record is resumed only if its digest is of the part file; what is     *)
(* resumed with a validator is of one version.                             *)
LEMMA OpenStep ==
  ASSUME Parameters, IInv, NEW i \in Installer, Open(i) PROVE IInv'
<1> DEFINE k == proc[i].key
           s == Of(i)
<1>1. /\ proc[i].pc = "open" /\ proc[i].pc # "idle" /\ s \in Stage /\ s # None
      /\ RecordIsSound(s) /\ tree[k] # "whole" /\ proc[i] \in Process
      /\ s = stage[k] /\ Sound(proc[i], s, tree[k])
  BY AtTransfer DEF Open, Here
<1>2. UNCHANGED <<tree, holder>>
  BY DEF Open
<1>3. UNCHANGED stage => Stages(i, s)
  BY <1>1, AtWork DEF Stages
<1>4. CASE Goes(i, "copy") /\ UNCHANGED stage
  <2>1. Sound([proc[i] EXCEPT !.pc = "copy"], s, tree[k])
    BY <1>1 DEF Sound, Ready, Working, Fetching, Process
  <2> HIDE DEF s, k
  <2> QED  BY <1>1, <1>2, <1>3, <1>4, <2>1, GoStep DEF Point, Working, k
<1>5. CASE /\ Resumable(s) /\ UNCHANGED stage
           /\ proc' = [proc EXCEPT ![i] = [@ EXCEPT
                !.pc = "request", !.sum = s.part, !.tag = s.record.tag,
                !.safe = s.part, !.safeTag = s.record.tag]]
  <2> DEFINE p == [proc[i] EXCEPT
                !.pc = "request", !.sum = s.part, !.tag = s.record.tag,
                !.safe = s.part, !.safeTag = s.record.tag]
  <2>1. s.record.tag \in Validators /\ s.part \in Pieces /\ Covers(s.part, s.record.tag)
    BY <1>1, <1>5 DEF Resumable, RecordIsSound, Stage, Covers
  <2>2. p \in Process
    BY <1>1, <2>1 DEF Process, Point, Working, Fetching
  <2>3. /\ p.pc = "request" /\ p.key = k /\ p.sum = s.part /\ p.tag = s.record.tag
        /\ p.safe = s.part /\ p.safeTag = s.record.tag
    BY <1>1 DEF Process
  <2>4. proc' = [proc EXCEPT ![i] = p]
    BY <1>5
  <2> HIDE DEF p
  <2>5. Sound(p, s, tree[k])
    BY <1>1, <2>1, <2>3 DEF Sound, Ready, Working, Fetching, TransferIsSound
  <2> HIDE DEF s, k
  <2> QED  BY <1>1, <1>2, <1>3, <1>5, <2>2, <2>3, <2>4, <2>5, BecomeStep DEF k
<1>6. CASE Stages(i, [s EXCEPT !.part = <<>>]) /\ Goes(i, "request")
  <2> DEFINE empty == [s EXCEPT !.part = <<>>]
  <2>1. empty \in Stage /\ empty.part = <<>> /\ empty.record = s.record
    BY <1>1, Sorts DEF Stage
  <2>2. RecordIsSound(empty) /\ empty # None
    BY <1>1, <2>1, Sorts DEF RecordIsSound
  <2>3. Stages(i, empty)
    BY <1>6
  <2> HIDE DEF empty
  <2>4. Sound([proc[i] EXCEPT !.pc = "request"], empty, tree[k])
    BY <1>1, <2>1, <2>2 DEF Sound, Ready, Working, Fetching, Process, TransferIsSound, Covers
  <2> HIDE DEF s, k
  <2> QED  BY <1>1, <1>2, <1>6, <2>1, <2>2, <2>3, <2>4, GoStep DEF Point, Working, Fetching, k
<1> QED  BY <1>4, <1>5, <1>6 DEF Open

(* A full response starts the digest anew, with the version that is sent.  *)
LEMMA WholeStep ==
  ASSUME Parameters, IInv, NEW i \in Installer, Whole(i) PROVE IInv'
<1> DEFINE k == proc[i].key
           s == [Of(i) EXCEPT !.part = <<>>]
<1>1. PICK v \in Version, strong \in BOOLEAN :
        proc' = [proc EXCEPT ![i] = [Restarted(proc[i]) EXCEPT
                   !.pc = "read", !.from = v, !.tag = IF strong THEN v ELSE None]]
  BY DEF Whole
<1> DEFINE p == [Restarted(proc[i]) EXCEPT
                   !.pc = "read", !.from = v, !.tag = IF strong THEN v ELSE None]
<1>2. /\ proc[i].pc # "idle" /\ proc[i] \in Process /\ Of(i) \in Stage
      /\ RecordIsSound(Of(i)) /\ tree[k] # "whole"
  BY AtTransfer DEF Whole, Here, Fetching
<1>3. s \in Stage /\ s.part = <<>> /\ s.record = Of(i).record
  BY <1>2, Sorts DEF Stage
<1>4. RecordIsSound(s) /\ s # None
  BY <1>2, <1>3, Sorts DEF RecordIsSound
<1>5. p \in Process /\ p.pc = "read" /\ p.key = k /\ p.sum = <<>> /\ p.from = v
      /\ p.tag \in {None, v} /\ p.safe = <<>> /\ p.safeTag = None
  BY <1>2, Sorts DEF Restarted, Process, Point, Working, Fetching, Validators
<1>6. proc' = [proc EXCEPT ![i] = p] /\ Stages(i, s) /\ UNCHANGED <<tree, holder>>
  BY <1>1 DEF Whole
<1> HIDE DEF p, s
<1>7. Sound(p, s, tree[k])
  BY <1>2, <1>3, <1>4, <1>5 DEF Sound, Ready, TransferIsSound, Covers, AllFrom
<1> QED  BY <1>2, <1>3, <1>4, <1>5, <1>6, <1>7, BecomeStep

(* A partial response continues the bytes only with the validator they     *)
(* have; it is of the same version.                                        *)
LEMMA PartialStep ==
  ASSUME Parameters, IInv, NEW i \in Installer, Partial(i) PROVE IInv'
<1> DEFINE k == proc[i].key
<1>1. PICK v \in Version, strong \in BOOLEAN :
        IF proc[i].tag # None /\ strong /\ v = proc[i].tag
          THEN /\ proc' = [proc EXCEPT ![i].pc = "read", ![i].from = v]
               /\ UNCHANGED <<stage, holder>>
          ELSE Retry(i, Restarted(proc[i]), Of(i))
  BY DEF Partial
<1>2. /\ proc[i].pc = "request" /\ proc[i].pc # "idle" /\ proc[i] \in Process /\ Of(i) \in Stage
      /\ RecordIsSound(Of(i)) /\ tree[k] # "whole" /\ Of(i) # None /\ Of(i) = stage[k]
      /\ Of(i).part = proc[i].sum /\ TransferIsSound(proc[i])
      /\ Sound(proc[i], Of(i), tree[k]) /\ UNCHANGED tree
  BY AtTransfer DEF Partial, Here, Fetching
<1>3. CASE Retry(i, Restarted(proc[i]), Of(i))
  BY <1>2, <1>3, RetryStep DEF Fetching
<1>4. CASE /\ proc[i].tag # None /\ v = proc[i].tag /\ UNCHANGED <<stage, holder>>
           /\ proc' = [proc EXCEPT ![i].pc = "read", ![i].from = v]
  <2> DEFINE p == [proc[i] EXCEPT !.pc = "read", !.from = v]
  <2>1. proc' = [proc EXCEPT ![i] = p]
    BY <1>4 DEF IInv, Shapes
  <2>2. p \in Process /\ p.pc = "read" /\ p.key = k /\ p.sum = proc[i].sum /\ p.from = v
        /\ p.tag = proc[i].tag /\ p.safe = proc[i].safe /\ p.safeTag = proc[i].safeTag
    BY <1>2 DEF Process, Point, Working, Fetching, Validators
  <2> HIDE DEF p
  <2>3. Sound(p, Of(i), tree[k])
    BY <1>2, <1>4, <2>2 DEF Sound, Ready, TransferIsSound, Covers
  <2>4. Stages(i, Of(i))
    BY <1>2, <1>4, AtWork DEF Stages
  <2> QED  BY <1>2, <1>4, <2>1, <2>2, <2>3, <2>4, BecomeStep
<1> QED  BY <1>1, <1>3, <1>4

(* Any other answer discards what was kept, keeps what is durable, or ends *)
(* the installation.                                                       *)
LEMMA RefusedStep ==
  ASSUME Parameters, IInv, NEW i \in Installer, Refused(i) PROVE IInv'
<1>1. /\ proc[i].pc \in Fetching /\ proc[i].pc # "idle" /\ Of(i) \in Stage
      /\ RecordIsSound(Of(i)) /\ Of(i) = stage[proc[i].key] /\ UNCHANGED tree
  BY AtTransfer DEF Refused, Here, Fetching
<1>2. CASE Retry(i, Restarted(proc[i]), Of(i)) \/ Retry(i, proc[i], Of(i))
  BY <1>1, <1>2, RetryStep
<1>3. CASE Leaves(i) /\ UNCHANGED stage
  <2>1. Stages(i, stage[proc[i].key])
    BY <1>1, <1>3, AtWork DEF Stages
  <2> QED  BY <1>1, <1>3, <2>1, LeaveStep
<1> QED  BY <1>2, <1>3 DEF Refused

(* One more piece of the response is written and digested.                 *)
LEMMA ReadStep ==
  ASSUME Parameters, IInv, NEW i \in Installer, Read(i) PROVE IInv'
<1> DEFINE k == proc[i].key
           m == proc[i].sum
           v == proc[i].from
           s == [Of(i) EXCEPT !.part = SubSeq(@, 1, Len(m)) \o <<v>>]
           p == [proc[i] EXCEPT !.sum = Append(m, v)]
<1>1. /\ proc[i].pc = "read" /\ proc[i].pc # "idle" /\ proc[i] \in Process /\ Of(i) \in Stage
      /\ RecordIsSound(Of(i)) /\ tree[k] # "whole"
      /\ Of(i).part = m /\ TransferIsSound(proc[i])
      /\ Len(m) < Size /\ UNCHANGED <<tree, holder>>
  BY AtTransfer DEF Read, Here, Fetching
<1>2. m \in Pieces /\ v \in Version /\ AllFrom(m, v)
  BY <1>1 DEF Process, TransferIsSound
<1>3. /\ Append(m, v) \in Pieces /\ SubSeq(m, 1, Len(m)) \o <<v>> = Append(m, v)
      /\ AllFrom(Append(m, v), v)
  BY <1>1, <1>2, PiecesGrow
<1>4. s = [Of(i) EXCEPT !.part = Append(m, v)]
  BY <1>1, <1>3
<1>5. s \in Stage /\ s.part = Append(m, v) /\ s.record = Of(i).record
  BY <1>1, <1>3, <1>4 DEF Stage
<1>6. RecordIsSound(s) /\ s # None
  BY <1>1, <1>5, Sorts DEF RecordIsSound
<1>7. p \in Process /\ p.pc = "read" /\ p.key = k /\ p.sum = Append(m, v) /\ p.from = v
      /\ p.tag = proc[i].tag /\ p.safe = proc[i].safe /\ p.safeTag = proc[i].safeTag
  BY <1>1, <1>3 DEF Process
<1>8. proc' = [proc EXCEPT ![i] = p] /\ Stages(i, s)
  BY DEF Read, IInv, Shapes
<1> HIDE DEF p, s
<1>9. Sound(p, s, tree[k])
  BY <1>1, <1>2, <1>3, <1>5, <1>6, <1>7 DEF Sound, Ready, TransferIsSound
<1> QED  BY <1>1, <1>5, <1>6, <1>7, <1>8, <1>9, BecomeStep

(* A record is written of bytes that are all of one version, the one its   *)
(* validator names.                                                        *)
LEMMA Recording ==
  ASSUME Parameters, IInv, NEW i \in Installer, proc[i].pc = "read",
         NEW s, s = [Of(i) EXCEPT !.record = [sum |-> proc[i].sum, tag |-> proc[i].tag]]
  PROVE  s \in Stage /\ s.part = Of(i).part /\ s.part = proc[i].sum /\ s # None /\ RecordIsSound(s)
<1> DEFINE r == [sum |-> proc[i].sum, tag |-> proc[i].tag]
<1>1. proc[i] \in Process /\ Of(i) \in Stage /\ TransferIsSound(proc[i]) /\ Of(i).part = proc[i].sum
  BY AtTransfer DEF Fetching
<1>2. r \in [sum : Pieces, tag : Validators] /\ r.sum = proc[i].sum /\ r.tag = proc[i].tag
  BY <1>1 DEF Process
<1> HIDE DEF r
<1>3. s \in Stage /\ s.part = Of(i).part /\ s.record = r
  BY <1>1, <1>2 DEF Stage, r
<1>4. r.tag # None => AllFrom(r.sum, r.tag)
  BY <1>1, <1>2 DEF TransferIsSound
<1> QED  BY <1>1, <1>3, <1>4, Sorts DEF RecordIsSound

(* What was digested is made durable and recorded.                         *)
LEMMA CheckpointStep ==
  ASSUME Parameters, IInv, NEW i \in Installer, Checkpoint(i) PROVE IInv'
<1> DEFINE k == proc[i].key
           s == [Of(i) EXCEPT !.record = [sum |-> proc[i].sum, tag |-> proc[i].tag]]
           p == [proc[i] EXCEPT !.safe = proc[i].sum, !.safeTag = proc[i].tag]
<1>1. /\ proc[i].pc = "read" /\ proc[i].pc # "idle" /\ proc[i] \in Process
      /\ tree[k] # "whole" /\ TransferIsSound(proc[i]) /\ Of(i).part = proc[i].sum
      /\ proc[i].tag # None /\ UNCHANGED <<tree, holder>>
  BY AtTransfer DEF Checkpoint, Here, Fetching
<1>2. s \in Stage /\ s.part = proc[i].sum /\ s # None /\ RecordIsSound(s)
  BY <1>1, Recording
<1>3. p \in Process /\ p.pc = "read" /\ p.key = k /\ p.sum = proc[i].sum /\ p.from = proc[i].from
      /\ p.tag = proc[i].tag /\ p.safe = proc[i].sum /\ p.safeTag = proc[i].tag
  BY <1>1 DEF Process
<1>4. proc' = [proc EXCEPT ![i] = p] /\ Stages(i, s)
  BY DEF Checkpoint
<1> HIDE DEF p, s
<1>5. Sound(p, s, tree[k])
  BY <1>1, <1>2, <1>3 DEF Sound, Ready, TransferIsSound, Covers
<1> QED  BY <1>1, <1>2, <1>3, <1>4, <1>5, BecomeStep

(* A transfer that breaks goes back to what is durable, or gives up.       *)
LEMMA BrokenStep ==
  ASSUME Parameters, IInv, NEW i \in Installer, Broken(i) PROVE IInv'
<1>1. /\ proc[i].pc \in Fetching /\ Of(i) \in Stage
      /\ RecordIsSound(Of(i)) /\ UNCHANGED tree
  BY AtTransfer DEF Broken, Here, Fetching
<1> QED  BY <1>1, RetryStep DEF Broken

(* The file has its size, and its digest decides.                          *)
LEMMA FinishStep ==
  ASSUME Parameters, IInv, NEW i \in Installer, Finish(i) PROVE IInv'
<1> DEFINE k == proc[i].key
<1>1. /\ proc[i].pc = "read" /\ proc[i].pc # "idle" /\ proc[i] \in Process /\ Of(i) \in Stage
      /\ RecordIsSound(Of(i)) /\ tree[k] # "whole" /\ UNCHANGED tree
  BY AtTransfer DEF Finish, Here, Fetching
<1>2. CASE /\ Stages(i, [Of(i) EXCEPT !.record = [sum |-> proc[i].sum, tag |-> proc[i].tag]])
           /\ Goes(i, "copy") /\ UNCHANGED holder
  <2> DEFINE s == [Of(i) EXCEPT !.record = [sum |-> proc[i].sum, tag |-> proc[i].tag]]
  <2>1. s \in Stage /\ s # None /\ RecordIsSound(s)
    BY <1>1, Recording
  <2>2. Stages(i, s)
    BY <1>2
  <2> HIDE DEF s
  <2>3. Sound([proc[i] EXCEPT !.pc = "copy"], s, tree[k])
    BY <1>1, <2>1 DEF Sound, Ready, Working, Fetching, Process
  <2> QED  BY <1>1, <1>2, <2>1, <2>2, <2>3, GoStep DEF Point, Working
<1>3. CASE Stages(i, [Of(i) EXCEPT !.part = <<>>]) /\ Leaves(i)
  <2> DEFINE s == [Of(i) EXCEPT !.part = <<>>]
  <2>1. s \in Stage /\ s.record = Of(i).record
    BY <1>1, Sorts DEF Stage
  <2>2. RecordIsSound(s)
    BY <1>1, <2>1, Sorts DEF RecordIsSound
  <2> HIDE DEF s
  <2> QED  BY <1>1, <1>3, <2>1, <2>2, LeaveStep DEF s
<1> QED  BY <1>2, <1>3 DEF Finish


-----------------------------------------------------------------------------
(* The payload is copied from the part file.                               *)
LEMMA MaterializeStep ==
  ASSUME Parameters, IInv, NEW i \in Installer, Materialize(i) PROVE IInv'
<1> DEFINE k == proc[i].key
           s == [Of(i) EXCEPT !.payload = Of(i).part]
<1>1. /\ proc[i].pc = "copy" /\ proc[i].pc # "idle" /\ proc[i] \in Process
      /\ Of(i) = stage[k] /\ Sound(proc[i], Of(i), tree[k])
      /\ Of(i) \in Stage \cup {None} /\ RecordIsSound(Of(i))
      /\ Goes(i, "verify") /\ UNCHANGED <<tree, holder>> /\ Stages(i, s)
  BY AtWork DEF Materialize, Here, Of
<1>2. Of(i) # None /\ tree[k] # "whole"
  BY <1>1 DEF Sound, Working
<1>3. s \in Stage /\ s.record = Of(i).record
  BY <1>1, <1>2 DEF Stage
<1>4. RecordIsSound(s) /\ s # None
  BY <1>1, <1>2, <1>3, Sorts DEF RecordIsSound
<1> HIDE DEF s
<1>5. Sound([proc[i] EXCEPT !.pc = "verify"], s, tree[k])
  BY <1>1, <1>2, <1>4 DEF Sound, Ready, Working, Fetching, Process
<1> QED  BY <1>1, <1>3, <1>4, <1>5, GoStep DEF Point, Working

(* What the client of the hub puts together is a sequence of pieces.       *)
LEMMA SnapshotsArePieces ==
  ASSUME Parameters PROVE Snapshots \subseteq Pieces \cup {None}
<1>1. ASSUME NEW v \in Version PROVE [Correct EXCEPT ![1] = v] \in Pieces
  <2>1. Correct \in [1 .. Size -> Version]
    BY DEF Correct, Parameters
  <2>2. [Correct EXCEPT ![1] = v] \in [1 .. Size -> Version]
    BY <2>1
  <2> QED  BY <2>2 DEF Pieces, Parameters
<1> QED  BY <1>1, Sorts DEF Snapshots

(* The client of the hub tries again.                                      *)
LEMMA AnotherTryStep ==
  ASSUME Parameters, IInv, NEW i \in Installer, proc[i].pc = "acquire", AnotherTry(i),
         NEW s \in Stage, RecordIsSound(s), Stages(i, s), UNCHANGED tree
  PROVE  IInv'
<1> DEFINE k == proc[i].key
           p == [proc[i] EXCEPT !.tries = @ + 1]
<1>1. /\ proc[i].pc # "idle" /\ proc[i] \in Process /\ Sound(proc[i], stage[k], tree[k])
      /\ tree[k] # "whole" /\ s # None
  BY AtWork, Sorts DEF Sound, Working
<1>2. CASE Leaves(i)
  BY <1>1, <1>2, LeaveStep
<1>3. CASE proc[i].tries + 1 < Attempts /\ proc' = [proc EXCEPT ![i] = p] /\ UNCHANGED holder
  <2>1. proc[i].tries \in 0 .. Attempts /\ Attempts \in Nat
    BY <1>1 DEF Process, Parameters
  <2>2. proc[i].tries + 1 \in 0 .. Attempts
    BY <1>3, <2>1
  <2>3. p \in Process /\ p.key = k
    BY <1>1, <2>2 DEF Process
  <2>4. Sound(p, s, tree[k])
    BY <1>1 DEF Sound, Process, Ready, Working, Fetching
  <2> HIDE DEF p
  <2> QED  BY <1>1, <1>3, <2>3, <2>4, BecomeStep
<1>4. proc' = [proc EXCEPT ![i].tries = @ + 1] => proc' = [proc EXCEPT ![i] = p]
  BY DEF IInv, Shapes
<1> QED  BY <1>2, <1>3, <1>4 DEF AnotherTry

(* The client of the hub fills the payload, or gives up.                   *)
LEMMA AcquireStep ==
  ASSUME Parameters, IInv, NEW i \in Installer, Acquire(i) PROVE IInv'
<1> DEFINE k == proc[i].key
<1>1. /\ proc[i].pc = "acquire" /\ proc[i].pc # "idle" /\ proc[i] \in Process
      /\ Of(i) = stage[k] /\ Sound(proc[i], Of(i), tree[k])
      /\ Of(i) \in Stage \cup {None} /\ RecordIsSound(Of(i)) /\ UNCHANGED tree
  BY AtWork DEF Acquire, Here, Of
<1>2. Of(i) # None /\ tree[k] # "whole"
  BY <1>1 DEF Sound, Working
<1>3. PICK payload \in Snapshots :
        /\ Stages(i, [Of(i) EXCEPT !.payload = payload])
        /\ IF Verifies(payload) THEN Goes(i, "verify") /\ UNCHANGED holder ELSE AnotherTry(i)
  BY DEF Acquire
<1> DEFINE s == [Of(i) EXCEPT !.payload = payload]
<1>4. s \in Stage /\ s.record = Of(i).record
  BY <1>1, <1>2, SnapshotsArePieces DEF Stage
<1>5. RecordIsSound(s) /\ s # None /\ Stages(i, s)
  BY <1>1, <1>2, <1>3, <1>4, Sorts DEF RecordIsSound
<1> HIDE DEF s
<1>6. Sound([proc[i] EXCEPT !.pc = "verify"], s, tree[k])
  BY <1>1, <1>2, <1>5 DEF Sound, Ready, Working, Fetching, Process
<1>7. CASE Goes(i, "verify") /\ UNCHANGED holder
  BY <1>1, <1>4, <1>5, <1>6, <1>7, GoStep DEF Point, Working
<1>8. CASE AnotherTry(i)
  BY <1>1, <1>4, <1>5, <1>8, AnotherTryStep
<1> QED  BY <1>3, <1>7, <1>8

(* The hub denies the access.                                              *)
LEMMA DeniedStep ==
  ASSUME Parameters, IInv, NEW i \in Installer, Denied(i) PROVE IInv'
<1> DEFINE k == proc[i].key
<1>1. /\ proc[i].pc = "acquire" /\ proc[i].pc # "idle"
      /\ stage[k] \in Stage \cup {None} /\ RecordIsSound(stage[k])
      /\ stage[k] # None /\ UNCHANGED <<tree, stage>>
  BY AtWork DEF Denied, Here, Sound, Working
<1>2. Stages(i, stage[k])
  BY <1>1, AtWork DEF Stages
<1> QED  BY <1>1, <1>2, AnotherTryStep DEF Denied

(* Only a payload that verifies goes on to be published.                   *)
LEMMA VerifyStep ==
  ASSUME Parameters, IInv, NEW i \in Installer, Verify(i) PROVE IInv'
<1> DEFINE k == proc[i].key
<1>1. /\ proc[i].pc = "verify" /\ proc[i].pc # "idle" /\ proc[i] \in Process
      /\ Sound(proc[i], stage[k], tree[k])
      /\ stage[k] \in Stage \cup {None} /\ RecordIsSound(stage[k]) /\ UNCHANGED <<tree, stage>>
  BY AtWork DEF Verify, Here
<1>2. Stages(i, stage[k])
  BY <1>1, AtWork DEF Stages
<1>3. Sound([proc[i] EXCEPT !.pc = "publish"], stage[k], tree[k])
  BY <1>1 DEF Sound, Ready, Working, Fetching, Process
<1>4. CASE Goes(i, "publish") /\ UNCHANGED holder
  BY <1>1, <1>2, <1>3, <1>4, GoStep DEF Point, Working
<1>5. CASE Leaves(i)
  BY <1>1, <1>2, <1>5, LeaveStep
<1> QED  BY <1>4, <1>5 DEF Verify

(* A tree that is not whole is moved away before the payload takes its     *)
(* place.                                                                  *)
LEMMA QuarantineStep ==
  ASSUME Parameters, IInv, NEW i \in Installer, Quarantine(i) PROVE IInv'
<1> DEFINE k == proc[i].key
<1>1. /\ proc[i].pc = "publish" /\ proc[i].pc # "idle" /\ proc[i] \in Process
      /\ Sound(proc[i], stage[k], tree[k]) /\ proc[i].key = k
      /\ stage[k] \in Stage \cup {None} /\ RecordIsSound(stage[k])
      /\ tree' = [tree EXCEPT ![k] = "none"] /\ UNCHANGED <<stage, holder, proc>>
  BY AtWork DEF Quarantine, Here
<1>2. proc' = [proc EXCEPT ![i] = proc[i]] /\ stage' = [stage EXCEPT ![k] = stage[k]]
      /\ holder' = [holder EXCEPT ![k] = i]
  BY <1>1, AtWork DEF IInv, Shapes
<1>3. Sound(proc[i], stage[k], "none") /\ "none" \in Tree
  BY <1>1 DEF Sound, Fetching, Working, Tree
<1> QED  BY <1>1, <1>2, <1>3, OwnStep

(* A payload that verified takes the place under the key.                  *)
LEMMA PublishStep ==
  ASSUME Parameters, IInv, NEW i \in Installer, Publish(i) PROVE IInv'
<1> DEFINE k == proc[i].key
           s == [Of(i) EXCEPT !.payload = None]
           t == IF Verifies(Of(i).payload) THEN "whole" ELSE "broken"
           p == [proc[i] EXCEPT !.pc = "published"]
<1>1. /\ proc[i].pc = "publish" /\ proc[i].pc # "idle" /\ proc[i] \in Process
      /\ Of(i) = stage[k] /\ Sound(proc[i], Of(i), tree[k])
      /\ Of(i) \in Stage \cup {None} /\ RecordIsSound(Of(i)) /\ UNCHANGED holder
      /\ tree' = [tree EXCEPT ![k] = t] /\ Stages(i, s) /\ Goes(i, "published")
  BY AtWork DEF Publish, Here, Of
<1>2. Of(i) # None
  BY <1>1 DEF Sound, Working
<1>3. s \in Stage /\ s.record = Of(i).record
  BY <1>1, <1>2 DEF Stage
<1>4. RecordIsSound(s) /\ s # None
  BY <1>1, <1>2, <1>3, Sorts DEF RecordIsSound
<1>5. p \in Process /\ p.key = k /\ p.pc = "published"
  BY <1>1 DEF Process, Point
<1>6. Sound(p, s, t)
  BY <1>4, <1>5 DEF Sound, Ready, Working, Fetching
<1>7. t \in Tree
  BY DEF Tree
<1>8. /\ proc' = [proc EXCEPT ![i] = p] /\ stage' = [stage EXCEPT ![k] = s]
      /\ holder' = [holder EXCEPT ![k] = i]
  BY <1>1, AtWork DEF Goes, Stages, IInv, Shapes
<1> HIDE DEF s, t, p
<1> QED  BY <1>1, <1>3, <1>4, <1>5, <1>6, <1>7, <1>8, OwnStep

(* The staging directory goes once the payload is published.               *)
LEMMA RemoveStageStep ==
  ASSUME Parameters, IInv, NEW i \in Installer, RemoveStage(i) PROVE IInv'
BY LeaveStep, Sorts DEF RemoveStage, Here

-----------------------------------------------------------------------------
(* No key has a staging directory, and nobody is at work.                  *)
LEMMA InitIInv == ASSUME Parameters, Init PROVE IInv
<1>1. \A i \in Installer : proc[i] = Idle /\ Idle.pc = "idle"
  BY DEF Init, Idle
<1>2. Shapes
  BY Sorts DEF Init, Shapes, Tree
<1>3. \A k \in Key : RecordIsSound(stage[k])
  BY Sorts DEF Init
<1> QED  BY <1>1, <1>2, <1>3 DEF IInv, HoldsItsKey

(* Every step of every installer, and every death, keeps the invariant.    *)
LEMMA StepIInv == ASSUME Parameters, IInv, [Next]_models PROVE IInv'
<1>1. CASE UNCHANGED models
  BY <1>1 DEF models, IInv, Shapes, RecordIsSound, HoldsItsKey
<1>2. ASSUME NEW i \in Installer, NEW k \in Key, Lock(i, k) \/ TidyOther(i, k) PROVE IInv'
  BY <1>2, LockStep, TidyOtherStep
<1>3. ASSUME NEW i \in Installer,
             TidyOwn(i) \/ ReuseStage(i) \/ Declines(i) \/ MakeStage(i) \/ Dies(i) PROVE IInv'
  BY <1>3, TidyOwnStep, ReuseStageStep, DeclinesStep, MakeStageStep
<1>4. ASSUME NEW i \in Installer,
             \/ Open(i) \/ Whole(i) \/ Partial(i) \/ Refused(i) \/ Read(i) \/ Checkpoint(i)
             \/ Broken(i) \/ Finish(i)
      PROVE  IInv'
  BY <1>4, OpenStep, WholeStep, PartialStep, RefusedStep, ReadStep, CheckpointStep,
     BrokenStep, FinishStep
<1>5. ASSUME NEW i \in Installer,
             \/ Materialize(i) \/ Acquire(i) \/ Denied(i) \/ Verify(i) \/ Quarantine(i)
             \/ Publish(i) \/ RemoveStage(i)
      PROVE  IInv'
  BY <1>5, MaterializeStep, AcquireStep, DeniedStep, VerifyStep, QuarantineStep,
     PublishStep, RemoveStageStep
<1> QED  BY <1>1, <1>2, <1>3, <1>4, <1>5 DEF Next

(* What the invariant says of a digest is what the download needs: the     *)
(* bytes of a transfer are all of one version.                             *)
LEMMA IntactByIInv == ASSUME Parameters, IInv PROVE DownloadIsIntact
<1> SUFFICES ASSUME NEW i \in Installer, proc[i].pc \in Fetching
             PROVE  /\ Of(i) # None /\ Of(i).part = proc[i].sum
                    /\ \A m, n \in DOMAIN proc[i].sum : proc[i].sum[m] = proc[i].sum[n]
  BY DEF DownloadIsIntact, Fetching
<1>1. Of(i) # None /\ Of(i).part = proc[i].sum /\ TransferIsSound(proc[i])
  BY AtTransfer
<1>2. CASE proc[i].pc = "read"
  BY <1>1, <1>2 DEF TransferIsSound, AllFrom
<1>3. CASE proc[i].pc = "request"
  <2>1. Covers(proc[i].sum, proc[i].tag)
    BY <1>1, <1>3 DEF TransferIsSound
  <2>2. DOMAIN <<>> = {}
    OBVIOUS
  <2> QED  BY <1>1, <2>1, <2>2 DEF Covers, AllFrom
<1> QED  BY <1>1, <1>2, <1>3 DEF Fetching

(* Only what is not whole is moved away or written over.                   *)
LEMMA WholeStaysByIInv ==
  ASSUME Parameters, IInv, [Next]_models, NEW k \in Key, tree[k] = "whole"
  PROVE  tree'[k] = "whole"
<1>1. CASE UNCHANGED tree
  BY <1>1
<1>2. ASSUME NEW i \in Installer, Quarantine(i) \/ Publish(i) PROVE tree'[k] = "whole"
  <2>1. /\ proc[i].pc = "publish" /\ proc[i].pc # "idle"
        /\ \E t \in Tree : tree' = [tree EXCEPT ![proc[i].key] = t]
    BY <1>2 DEF Quarantine, Publish, Here, Tree
  <2>2. proc[i].key \in Key /\ tree[proc[i].key] # "whole"
    BY <2>1, AtWork DEF Sound, Working
  <2> QED  BY <2>1, <2>2 DEF IInv, Shapes
<1>3. [Next]_models => \/ UNCHANGED tree
                       \/ \E i \in Installer : Quarantine(i) \/ Publish(i)
  BY DEF models, Next, Lock, TidyOther, TidyOwn, ReuseStage, Declines, MakeStage, Open, Whole,
         Partial, Refused, Read, Checkpoint, Broken, Finish, Materialize, Acquire, Denied,
         Verify, RemoveStage, Dies
<1> QED  BY <1>1, <1>2, <1>3

=============================================================================
