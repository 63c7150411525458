---------------------------- MODULE SliceHistory -----------------------------
(***************************************************************************)
(* Save, undo and redo of a slice in the native Clip Lab                   *)
(* (backend/app/native_cliplab.py).  A slice's edits form a tree of        *)
(* commits with one active; a commit is a snapshot of the status, the text *)
(* and the tags.  A tag is a row that all slices share, found by its name  *)
(* with case folded; a commit keeps spelling and colour as they were sent. *)
(* A request's SELECTs run one by one, outside any transaction, and its    *)
(* first write opens the transaction that its commit closes: between its   *)
(* reads and its writes other requests may commit.                         *)
(***************************************************************************)
EXTENDS Naturals, Sequences

CONSTANTS
  Client,      \* request threads
  Status, Text,
  Name,        \* the names of tags, with case folded
  Spelling, Colour,
  Original,    \* the text the slice was created with
  Empty,       \* a text of blanks: such a text counts as not modified
  None,        \* no modified text, commit or change
  MaxCommits   \* bound: commits of a slice

VARIABLES
  slice,     \* the slice with its transcript and the names of its tags
  tag,       \* the tags' rows, of all slices: a name's spelling and colour
  commits,   \* its commits in order of creation
  call       \* the request each client is serving

slices == <<slice, tag, commits, call>>

CommitId == 1 .. MaxCommits
Idle == [pc |-> "idle", kind |-> None, active |-> None, status |-> None,
         text |-> None, tags |-> None]

(* Tags as a page sends them and as a commit keeps them: how each name is  *)
(* spelled and coloured.                                                   *)
Tags == UNION {[S -> [spelling : Spelling, colour : Colour]] : S \in SUBSET Name}

Init ==
  /\ tag \in Tags
  /\ \E s \in Status, names \in SUBSET DOMAIN tag :
       slice = [status |-> s, text |-> None, tags |-> names, active |-> None]
  /\ commits = <<>>
  /\ call = [c \in Client |-> Idle]

(* A modified text that is blank is passed over for the original.          *)
Current(text) == IF text \in {None, Empty} THEN Original ELSE text

Commit(parent, status, text, tags) ==
  [parent |-> parent, status |-> status, text |-> text, tags |-> tags]

(* The tags a slice shows: its names as the shared rows have them.         *)
Shown == [n \in slice.tags |-> tag[n]]

(* Writing a slice's tags adds the rows that are missing and recolours the *)
(* others; a row keeps its spelling.                                       *)
Replaced(sent) ==
  [n \in DOMAIN tag \cup DOMAIN sent |->
     IF n \notin DOMAIN tag THEN sent[n]
     ELSE [tag[n] EXCEPT !.colour = IF n \in DOMAIN sent THEN sent[n].colour ELSE @]]

Here(c, pc) == call[c].pc = pc

-----------------------------------------------------------------------------
(* A save names some of the three fields and takes the others from what it *)
(* reads: the slice's row, the transcript's row, the tags.                 *)

ReadSlice(c, kind) ==
  /\ Here(c, "idle")
  /\ call' = [call EXCEPT ![c] =
       [Idle EXCEPT !.pc = IF kind = "save" THEN "transcript" ELSE kind, !.kind = kind,
                    !.active = slice.active, !.status = slice.status]]
  /\ UNCHANGED <<slice, tag, commits>>

ReadTranscript(c) ==
  /\ Here(c, "transcript")
  /\ call' = [call EXCEPT ![c].text = Current(slice.text), ![c].pc = "tags"]
  /\ UNCHANGED <<slice, tag, commits>>

ReadTags(c) ==
  /\ Here(c, "tags")
  /\ call' = [call EXCEPT ![c].tags = Shown, ![c].pc = "save"]
  /\ UNCHANGED <<slice, tag, commits>>

(* One transaction: the baseline if the slice had no commit, the three     *)
(* fields, the new commit under the one that was active, and the pointer.  *)
(* After a baseline the tags are read again, inside the transaction.       *)
Baseline(a) ==
  IF a.active # None THEN commits
  ELSE Append(commits, Commit(None, a.status, a.text, a.tags))

Save(c) ==
  LET a      == call[c]
      base   == Baseline(a)
      parent == IF a.active # None THEN a.active ELSE Len(base)
  IN /\ Here(c, "save")
     /\ Len(base) < MaxCommits
     /\ \E status \in {a.status} \cup Status, text \in {a.text} \cup Text,
           tags \in {IF a.active # None THEN a.tags ELSE Shown} \cup Tags :
          /\ slice' = [status |-> status, text |-> text, tags |-> DOMAIN tags,
                       active |-> Len(base) + 1]
          /\ tag' = Replaced(tags)
          /\ commits' = Append(base, Commit(parent, status, text, tags))
     /\ call' = [call EXCEPT ![c] = Idle]

(* Undo restores the active commit's parent; redo the latest child of the  *)
(* active commit.                                                          *)
Restored(n) ==
  [status |-> commits[n].status, text |-> commits[n].text,
   tags |-> DOMAIN commits[n].tags, active |-> n]

(* Mutant of Undo: the tags are not restored.                              *)
UndoKeepingTags(c) ==
  LET a == call[c]
  IN /\ Here(c, "undo")
     /\ \/ /\ a.active # None
           /\ commits[a.active].parent # None
           /\ slice' = [Restored(commits[a.active].parent) EXCEPT !.tags = slice.tags]
           /\ UNCHANGED tag
        \/ /\ a.active # None => commits[a.active].parent = None
           /\ UNCHANGED <<slice, tag>>
     /\ call' = [call EXCEPT ![c] = Idle]
     /\ UNCHANGED commits

Undo(c) ==
  LET a == call[c]
  IN /\ Here(c, "undo")
     /\ \/ /\ a.active # None
           /\ commits[a.active].parent # None
           /\ slice' = Restored(commits[a.active].parent)
           /\ tag' = Replaced(commits[commits[a.active].parent].tags)
        \/ /\ a.active # None => commits[a.active].parent = None
           /\ UNCHANGED <<slice, tag>>
     /\ call' = [call EXCEPT ![c] = Idle]
     /\ UNCHANGED commits

Children(n) == {m \in DOMAIN commits : commits[m].parent = n /\ n # None}

ReadChild(c) ==
  /\ Here(c, "redo")
  /\ \/ \E m \in Children(call[c].active) :
          /\ \A n \in Children(call[c].active) : n <= m
          /\ call' = [call EXCEPT ![c].pc = "restore", ![c].active = m]
     \/ Children(call[c].active) = {} /\ call' = [call EXCEPT ![c] = Idle]
  /\ UNCHANGED <<slice, tag, commits>>

Redo(c) ==
  /\ Here(c, "restore")
  /\ slice' = Restored(call[c].active)
  /\ tag' = Replaced(commits[call[c].active].tags)
  /\ call' = [call EXCEPT ![c] = Idle]
  /\ UNCHANGED commits

(* A save, an undo or a redo of another slice writes the rows it names.    *)
WriteElsewhere ==
  /\ \E sent \in Tags : tag' = Replaced(sent)
  /\ UNCHANGED <<slice, commits, call>>

Next ==
  \/ WriteElsewhere
  \/ \E c \in Client :
       \/ \E kind \in {"save", "undo", "redo"} : ReadSlice(c, kind)
       \/ ReadTranscript(c) \/ ReadTags(c) \/ Save(c) \/ Undo(c) \/ ReadChild(c) \/ Redo(c)

Spec == Init /\ [][Next]_slices

-----------------------------------------------------------------------------
Texts   == Text \cup {Original, Empty}
Parents == CommitId \cup {None}
Commits == [parent : Parents, status : Status, text : Texts, tags : Tags]

(* The slice, its commits and the requests have the shapes of their rows.  *)
TypeOK ==
  /\ slice \in [status : Status, text : Texts \cup {None}, tags : SUBSET Name, active : Parents]
  /\ tag \in Tags
  /\ commits \in Seq(Commits) /\ Len(commits) <= MaxCommits
  /\ \A c \in Client :
       /\ call[c].active \in Parents
       /\ call[c].status \in Status \cup {None}
       /\ call[c].text \in Texts \cup {None}
       /\ call[c].tags \in Tags \cup {None}

(* Once a slice has a history, its status, its text and the names of its   *)
(* tags, but for case, are those of its active commit, each of the tags    *)
(* has its row, and the commit's line goes back to a baseline through ever *)
(* earlier commits, whatever saves, undos and redos overlapped, of this    *)
(* slice or of others.  Nothing is said of spelling and colour: the rows   *)
(* are shared, and every save rewrites the colours of those it names.      *)
ShownIsActive ==
  /\ slice.active # None =>
       /\ slice.active \in DOMAIN commits
       /\ slice = Restored(slice.active)
  /\ slice.tags \subseteq DOMAIN tag
  /\ \A n \in DOMAIN commits : commits[n].parent = None \/ commits[n].parent < n

=============================================================================
