---------------------------- MODULE ModelInstall -----------------------------
(***************************************************************************)
(* The installation of a model artifact                                    *)
(* (packages/model_manager/speechcraft_models/download.py): a resumable    *)
(* download into a staging directory, a copy into a payload, its           *)
(* verification, and its publication under the artifact's key.             *)
(*                                                                         *)
(* An installer is a process.  It holds the key's file lock, which the     *)
(* kernel drops when the process dies, from start to end.  The staging     *)
(* directory outlives it: the part file, and the resume record that names  *)
(* the validator (ETag), size and digest of what was last made durable.    *)
(* A file's bytes are a sequence of pieces, each from one version of the   *)
(* file upstream; a strong validator identifies its version.  A digest is  *)
(* the sequence it covers.                                                 *)
(***************************************************************************)
EXTENDS Naturals, Sequences

CONSTANTS
  Installer,   \* processes
  Key,         \* artifacts of one model
  Hub,         \* those of Key fetched by the Hugging Face client
  Version,     \* versions of the file a server may send
  Good,        \* the version the catalog's digest names
  None,        \* no stage, record, payload, validator or holder
  Size,        \* pieces of the file
  Attempts     \* transfers tried before the installer gives up

VARIABLES
  tree,    \* what stands under each key: "none", "broken" or "whole"
  stage,   \* each key's staging directory, or None
  holder,  \* who holds each key's lock
  proc     \* the installers

models == <<tree, stage, holder, proc>>

Correct  == [n \in 1 .. Size |-> Good]
(* manifest.py: a tree verifies if it holds the files of the catalog, each *)
(* with its size and digest, and nothing else.                             *)
Verifies(payload) == payload = Correct
NewStage == [part |-> <<>>, record |-> None, payload |-> None]
Idle     == [pc |-> "idle", key |-> None, sum |-> <<>>, tag |-> None,
             safe |-> <<>>, safeTag |-> None, from |-> None, tries |-> 0]

Init ==
  /\ tree \in [Key -> {"none", "broken"}]
  /\ stage = [k \in Key |-> None]
  /\ holder = [k \in Key |-> None]
  /\ proc = [i \in Installer |-> Idle]

-----------------------------------------------------------------------------
Here(i, pc) == proc[i].pc = pc
Goes(i, pc) == proc' = [proc EXCEPT ![i].pc = pc]

Of(i)        == stage[proc[i].key]
Stages(i, s) == stage' = [stage EXCEPT ![proc[i].key] = s]

(* The installer returns or raises: its descriptors close, the lock falls. *)
Leaves(i) ==
  /\ proc' = [proc EXCEPT ![i] = Idle]
  /\ holder' = [holder EXCEPT ![proc[i].key] = None]

(* The payloads of an abandoned attempt; the Hugging Face client's own     *)
(* directory is kept for it to resume.                                     *)
WithoutPayload(k) ==
  IF stage[k] = None \/ k \in Hub THEN stage[k] ELSE [stage[k] EXCEPT !.payload = None]

-----------------------------------------------------------------------------
(* Mutant of Lock: the lock of a key is not exclusive.                     *)
LockShared(i, k) ==
  /\ Here(i, "idle")
  /\ holder' = [holder EXCEPT ![k] = i]
  /\ proc' = [proc EXCEPT ![i] = [Idle EXCEPT !.pc = "tidy", !.key = k]]
  /\ UNCHANGED <<tree, stage>>

Lock(i, k) ==
  /\ Here(i, "idle")
  /\ holder[k] = None
  /\ holder' = [holder EXCEPT ![k] = i]
  /\ proc' = [proc EXCEPT ![i] = [Idle EXCEPT !.pc = "tidy", !.key = k]]
  /\ UNCHANGED <<tree, stage>>

(* Another key's staging directory is tidied only if its lock is free at   *)
(* that moment; one not touched for a week goes altogether.                *)
TidyOther(i, k) ==
  /\ Here(i, "tidy")
  /\ k # proc[i].key
  /\ holder[k] = None
  /\ stage[k] # None
  /\ \E s \in {WithoutPayload(k), None} : stage' = [stage EXCEPT ![k] = s]
  /\ UNCHANGED <<tree, holder, proc>>

TidyOwn(i) ==
  /\ Here(i, "tidy")
  /\ \E s \in {WithoutPayload(proc[i].key), None} : Stages(i, s)
  /\ Goes(i, "check")
  /\ UNCHANGED <<tree, holder>>

(* A tree that verifies is used as it is.  Otherwise the staging directory *)
(* is made, unless the disk lacks the room or the tree cannot be read.     *)
ReuseStage(i) ==
  /\ Here(i, "check")
  /\ tree[proc[i].key] = "whole"
  /\ Stages(i, None)
  /\ Leaves(i)
  /\ UNCHANGED tree

Declines(i) ==
  /\ Here(i, "check")
  /\ tree[proc[i].key] # "whole"
  /\ Leaves(i)
  /\ UNCHANGED <<tree, stage>>

(* Mutant of MakeStage: an installer that waited for the lock does not     *)
(* look again at what stands under the key.                                *)
MakeStageAnyway(i) ==
  /\ Here(i, "check")
  /\ Stages(i, IF Of(i) = None THEN NewStage ELSE Of(i))
  /\ Goes(i, IF proc[i].key \in Hub THEN "acquire" ELSE "open")
  /\ UNCHANGED <<tree, holder>>

MakeStage(i) ==
  /\ Here(i, "check")
  /\ tree[proc[i].key] # "whole"
  /\ Stages(i, IF Of(i) = None THEN NewStage ELSE Of(i))
  /\ Goes(i, IF proc[i].key \in Hub THEN "acquire" ELSE "open")
  /\ UNCHANGED <<tree, holder>>

-----------------------------------------------------------------------------
(* Mutant of Resumable: only the number of bytes is compared.              *)
ResumableBySize(s) ==
  /\ s.part # <<>>
  /\ s.record # None
  /\ s.record.tag # None
  /\ Len(s.record.sum) = Len(s.part)

(* download_file.  What an earlier process left is resumed only if the     *)
(* record has a strong validator and accounts for every byte of the part,  *)
(* and the digest of those bytes is the one recorded.                      *)
Resumable(s) ==
  /\ s.part # <<>>
  /\ s.record # None
  /\ s.record.tag # None
  /\ s.record.sum = s.part

Open(i) ==
  LET s == Of(i)
  IN /\ Here(i, "open")
     /\ \/ /\ Resumable(s)
           /\ s.part = Correct
           /\ Goes(i, "copy")
           /\ UNCHANGED stage
        \/ /\ Resumable(s)
           /\ Len(s.part) < Size
           /\ proc' = [proc EXCEPT ![i] = [@ EXCEPT
                !.pc = "request", !.sum = s.part, !.tag = s.record.tag,
                !.safe = s.part, !.safeTag = s.record.tag]]
           /\ UNCHANGED stage
        \/ /\ Resumable(s) => Len(s.part) = Size /\ s.part # Correct
           /\ Stages(i, [s EXCEPT !.part = <<>>])
           /\ Goes(i, "request")
     /\ UNCHANGED <<tree, holder>>

(* The state a transfer restarts from: nothing kept.                       *)
Restarted(p) == [p EXCEPT !.sum = <<>>, !.tag = None, !.safe = <<>>, !.safeTag = None]

(* After a failed attempt the bytes past the last durable ones go.         *)
Retry(i, p, s) ==
  /\ Stages(i, [s EXCEPT !.part = p.safe])
  /\ \/ /\ p.tries + 1 < Attempts
        /\ proc' = [proc EXCEPT ![i] = [p EXCEPT
             !.pc = "request", !.sum = p.safe, !.tag = p.safeTag, !.from = None,
             !.tries = p.tries + 1]]
        /\ UNCHANGED holder
     \/ /\ p.tries + 1 >= Attempts
        /\ Leaves(i)

(* The whole file, from its beginning, in version v; the old validator is  *)
(* replaced by the response's, which may be weak or missing.               *)
Whole(i) ==
  /\ Here(i, "request")
  /\ \E v \in Version, strong \in BOOLEAN :
       proc' = [proc EXCEPT ![i] = [Restarted(proc[i]) EXCEPT
                  !.pc = "read", !.from = v, !.tag = IF strong THEN v ELSE None]]
  /\ Stages(i, [Of(i) EXCEPT !.part = <<>>])
  /\ UNCHANGED <<tree, holder>>

(* The rest of the file: taken only if it carries the validator sent.      *)
Partial(i) ==
  /\ Here(i, "request")
  /\ proc[i].sum # <<>>
  /\ \E v \in Version, strong \in BOOLEAN :
       IF proc[i].tag # None /\ strong /\ v = proc[i].tag
         THEN /\ proc' = [proc EXCEPT ![i].pc = "read", ![i].from = v]
              /\ UNCHANGED <<stage, holder>>
         ELSE Retry(i, Restarted(proc[i]), Of(i))
  /\ UNCHANGED tree

(* An unexpected status or a range the server cannot satisfy discards the  *)
(* part; a transient error keeps what is durable; any other status ends    *)
(* the installation.                                                       *)
Refused(i) ==
  /\ Here(i, "request")
  /\ \/ Retry(i, Restarted(proc[i]), Of(i))
     \/ Retry(i, proc[i], Of(i))
     \/ Leaves(i) /\ UNCHANGED stage
  /\ UNCHANGED tree

Read(i) ==
  LET p == proc[i]
  IN /\ Here(i, "read")
     /\ Len(p.sum) < Size
     /\ Stages(i, [Of(i) EXCEPT !.part = SubSeq(@, 1, Len(p.sum)) \o <<p.from>>])
     /\ proc' = [proc EXCEPT ![i].sum = Append(@, p.from)]
     /\ UNCHANGED <<tree, holder>>

(* Every so many bytes or seconds the part is flushed and then recorded.   *)
Checkpoint(i) ==
  LET p == proc[i]
  IN /\ Here(i, "read")
     /\ p.tag # None
     /\ p.sum # p.safe
     /\ Stages(i, [Of(i) EXCEPT !.record = [sum |-> p.sum, tag |-> p.tag]])
     /\ proc' = [proc EXCEPT ![i] = [@ EXCEPT !.safe = p.sum, !.safeTag = p.tag]]
     /\ UNCHANGED <<tree, holder>>

Broken(i) ==
  /\ Here(i, "read")
  /\ Len(proc[i].sum) < Size
  /\ Retry(i, proc[i], Of(i))
  /\ UNCHANGED tree

(* The file has its size: its digest decides.                              *)
Finish(i) ==
  LET p == proc[i]
  IN /\ Here(i, "read")
     /\ Len(p.sum) = Size
     /\ \/ /\ p.sum = Correct
           /\ Stages(i, [Of(i) EXCEPT !.record = [sum |-> p.sum, tag |-> p.tag]])
           /\ Goes(i, "copy")
           /\ UNCHANGED holder
        \/ /\ p.sum # Correct
           /\ Stages(i, [Of(i) EXCEPT !.part = <<>>])
           /\ Leaves(i)
     /\ UNCHANGED tree

-----------------------------------------------------------------------------
Materialize(i) ==
  /\ Here(i, "copy")
  /\ Stages(i, [Of(i) EXCEPT !.payload = Of(i).part])
  /\ Goes(i, "verify")
  /\ UNCHANGED <<tree, holder>>

(* The Hugging Face client fills its own directory, over several calls and *)
(* processes; files that do not verify are removed before the next try.    *)
Snapshots == {Correct, None} \cup {[Correct EXCEPT ![1] = v] : v \in Version}

AnotherTry(i) ==
  \/ /\ proc[i].tries + 1 < Attempts
     /\ proc' = [proc EXCEPT ![i].tries = @ + 1]
     /\ UNCHANGED holder
  \/ Leaves(i)

Acquire(i) ==
  /\ Here(i, "acquire")
  /\ \E payload \in Snapshots :
       /\ Stages(i, [Of(i) EXCEPT !.payload = payload])
       /\ IF Verifies(payload) THEN Goes(i, "verify") /\ UNCHANGED holder ELSE AnotherTry(i)
  /\ UNCHANGED tree

(* The hub refuses the credential or the access to a gated repository, or  *)
(* does not answer, before a file is fetched: what is staged stays, even   *)
(* if it is all there.                                                     *)
Denied(i) ==
  /\ Here(i, "acquire")
  /\ AnotherTry(i)
  /\ UNCHANGED <<tree, stage>>

Verify(i) ==
  /\ Here(i, "verify")
  /\ IF Verifies(Of(i).payload) THEN Goes(i, "publish") /\ UNCHANGED holder ELSE Leaves(i)
  /\ UNCHANGED <<tree, stage>>

(* What stands under the key is renamed into quarantine, then the payload  *)
(* is renamed into its place, then the staging directory goes.             *)
Quarantine(i) ==
  /\ Here(i, "publish")
  /\ tree[proc[i].key] # "none"
  /\ tree' = [tree EXCEPT ![proc[i].key] = "none"]
  /\ UNCHANGED <<stage, holder, proc>>

Publish(i) ==
  /\ Here(i, "publish")
  /\ tree[proc[i].key] = "none"
  /\ tree' = [tree EXCEPT ![proc[i].key] = IF Verifies(Of(i).payload) THEN "whole" ELSE "broken"]
  /\ Stages(i, [Of(i) EXCEPT !.payload = None])
  /\ Goes(i, "published")
  /\ UNCHANGED holder

RemoveStage(i) ==
  /\ Here(i, "published")
  /\ Stages(i, None)
  /\ Leaves(i)
  /\ UNCHANGED tree

(* The installer dies, or fails on a file: the kernel drops its lock.      *)
Dies(i) ==
  /\ ~Here(i, "idle")
  /\ Leaves(i)
  /\ UNCHANGED <<tree, stage>>

Next ==
  \E i \in Installer :
    \/ \E k \in Key : Lock(i, k) \/ TidyOther(i, k)
    \/ TidyOwn(i) \/ ReuseStage(i) \/ Declines(i) \/ MakeStage(i)
    \/ Open(i) \/ Whole(i) \/ Partial(i) \/ Refused(i) \/ Read(i) \/ Checkpoint(i)
    \/ Broken(i) \/ Finish(i) \/ Materialize(i) \/ Acquire(i) \/ Denied(i) \/ Verify(i)
    \/ Quarantine(i) \/ Publish(i) \/ RemoveStage(i) \/ Dies(i)

Spec == Init /\ [][Next]_models

-----------------------------------------------------------------------------
Pieces     == UNION {[1 .. n -> Version] : n \in 0 .. Size}
Validators == Version \cup {None}
Stage == [part : Pieces, record : [sum : Pieces, tag : Validators] \cup {None},
          payload : Pieces \cup {None}]

(* Every tree, staging directory, lock and installer has one of the shapes *)
(* the code writes, and a lock is held by the installer at work on its key.*)
TypeOK ==
  /\ tree \in [Key -> {"none", "broken", "whole"}]
  /\ stage \in [Key -> Stage \cup {None}]
  /\ holder \in [Key -> Installer \cup {None}]
  /\ \A i \in Installer :
       /\ proc[i].sum \in Pieces /\ proc[i].safe \in Pieces
       /\ {proc[i].tag, proc[i].safeTag, proc[i].from} \subseteq Validators
       /\ proc[i].tries \in 0 .. Attempts
       /\ proc[i].pc # "idle" => holder[proc[i].key] = i

(* While a file is being transferred, its part is still in the staging     *)
(* directory, the running digest covers exactly the part's bytes, and they *)
(* all come from one version of the file, whatever earlier processes left  *)
(* there, the server sent, and other installers tidied.                    *)
DownloadIsIntact ==
  \A i \in Installer : proc[i].pc \in {"request", "read"} =>
    /\ Of(i) # None
    /\ Of(i).part = proc[i].sum
    /\ \A m, n \in DOMAIN proc[i].sum : proc[i].sum[m] = proc[i].sum[n]

(* An artifact that stands whole under its key is never moved away nor     *)
(* replaced, by whichever installer: one that comes second finds it whole. *)
InstalledStays ==
  [][\A k \in Key : tree[k] = "whole" => tree'[k] = "whole"]_models

=============================================================================
