------------------------------ MODULE Migrations ------------------------------
(***************************************************************************)
(* What SQLiteRepository does to the database when it is opened            *)
(* (backend/app/repository.py, __post_init__): tables are created, missing *)
(* columns added, enumerations rewritten, the tables of a removed feature  *)
(* purged, artifact rows added, a first project seeded, and data migrated  *)
(* by the database's user_version.                                         *)
(*                                                                         *)
(* The backend and the worker both do it, perhaps at the same time, and    *)
(* either may die between any two statements.  Only a statement that       *)
(* writes rows opens a transaction: every CREATE, ALTER, DROP or RENAME    *)
(* outside of one is committed by itself, and what was read before is not  *)
(* protected.  A statement that the database refuses ends the start.       *)
(***************************************************************************)
EXTENDS Naturals, FiniteSets

CONSTANTS
  Process,   \* the backend, the worker
  RunCols,   \* the columns that the tables of dataset runs have gained
  JobCols    \* those that the tables of import batches and jobs have gained

VARIABLES
  db,     \* the database and the media file of the seeded recording
  proc,   \* where each process is in its start, and what it has read
  lost,   \* a start died in its copy of media while another was starting
  was     \* the database at first: "fresh", with "legacy" assets or "later"

migrations == <<db, proc, lost, was>>

Cols == RunCols \cup JobCols
Down == [pc |-> "down", seen |-> {}, version |-> 0, alone |-> TRUE]

Current ==
  [tables |-> TRUE, cols |-> Cols, names |-> FALSE, windows |-> FALSE, old |-> FALSE,
   jobs |-> {"current"}, project |-> TRUE, artifact |-> TRUE,
   assets |-> "current", aside |-> "none", keys |-> "relative",
   media |-> "new", file |-> "new", version |-> 3]

Fresh == [Current EXCEPT !.tables = FALSE, !.cols = {}, !.project = FALSE, !.assets = "none",
            !.artifact = FALSE, !.jobs = {}, !.version = 0]

(* Databases of earlier releases: each feature came on its own, and the    *)
(* data's version tells which of its migrations have been made.            *)
Release(C, n, w, a, v, m) ==
  [Current EXCEPT !.cols = C, !.names = n, !.windows = w, !.old = w,
     !.jobs = IF w THEN {"current", "purged"} ELSE {"current"}, !.artifact = a,
     !.assets = IF v < 1 THEN "legacy" ELSE "current",
     !.keys = IF v < 2 THEN "absolute" ELSE "relative",
     !.media = IF v < 3 THEN m ELSE "new", !.file = IF v < 3 THEN m ELSE "new",
     !.version = v]

Earlier ==
  {Release(C, n, w, a, v, m) :
    C \in SUBSET Cols, n \in BOOLEAN, w \in BOOLEAN, a \in BOOLEAN, v \in 0 .. 3,
    m \in {"old", "new"}}

Init ==
  /\ db \in {Fresh} \cup Earlier
  /\ proc = [p \in Process |-> Down]
  /\ lost = FALSE
  /\ was = IF ~db.tables THEN "fresh" ELSE IF db.assets = "legacy" THEN "legacy" ELSE "later"

-----------------------------------------------------------------------------
Here(p, pc)  == proc[p].pc = pc
Goes(p, pc)  == proc' = [proc EXCEPT ![p].pc = pc]
Sees(p, S, pc) == proc' = [proc EXCEPT ![p].pc = pc, ![p].seen = S]
Starting(p)  == proc[p].pc \notin {"down", "up", "failed"}

(* A statement: refused unless "ok", or else the database becomes "new".   *)
Statement(p, ok, new, pc) ==
  /\ IF ok THEN db' = new /\ Goes(p, pc)
     ELSE Goes(p, "failed") /\ UNCHANGED db
  /\ UNCHANGED <<lost, was>>

(* Whoever starts keeps the others that are starting company.              *)
Start(p) ==
  LET others == {q \in Process \ {p} : Starting(q)}
  IN /\ ~Starting(p)
     /\ proc' = [q \in Process |->
          IF q = p THEN [Down EXCEPT !.pc = "tables?", !.alone = (others = {})]
          ELSE IF q \in others THEN [proc[q] EXCEPT !.alone = FALSE]
          ELSE proc[q]]
     /\ UNCHANGED <<db, lost, was>>

Dies(p) ==
  /\ Starting(p)
  /\ proc' = [proc EXCEPT ![p] = Down]
  /\ lost' = (lost \/ (Here(p, "copying") /\ ~proc[p].alone))
  /\ UNCHANGED <<db, was>>

-----------------------------------------------------------------------------
(* Absent tables are created in their current form.                        *)
Created(d) ==
  IF d.tables THEN [d EXCEPT !.assets = IF @ = "none" THEN "current" ELSE @]
  ELSE [d EXCEPT !.tables = TRUE, !.cols = Cols, !.assets = "current"]

LookForTables(p) ==
  /\ Here(p, "tables?")
  /\ Sees(p, {t \in {"all", "assets"} :
                IF t = "all" THEN ~db.tables ELSE db.assets = "none"}, "tables")
  /\ UNCHANGED <<db, lost, was>>

CreateTables(p) ==
  /\ Here(p, "tables")
  /\ Statement(p, /\ "all" \in proc[p].seen => ~db.tables
                  /\ "assets" \in proc[p].seen => db.assets = "none",
               IF proc[p].seen = {} THEN db ELSE Created(db), "runcols?")

(* The columns a table has are read, then the missing ones added, each by  *)
(* a statement of its own.                                                 *)
LookForColumns(p, from, cols, to) ==
  /\ Here(p, from)
  /\ Sees(p, cols \ db.cols, to)
  /\ UNCHANGED <<db, lost, was>>

AddColumn(p, at, to) ==
  /\ Here(p, at)
  /\ IF proc[p].seen = {} THEN Goes(p, to) /\ UNCHANGED db
     ELSE \E c \in proc[p].seen :
            IF c \in db.cols THEN Goes(p, "failed") /\ UNCHANGED db
            ELSE /\ db' = [db EXCEPT !.cols = @ \cup {c}]
                 /\ Sees(p, proc[p].seen \ {c}, at)
  /\ UNCHANGED <<lost, was>>

RunColumns(p) ==
  LookForColumns(p, "runcols?", RunCols, "runcols") \/ AddColumn(p, "runcols", "names")

(* Enumerations stored by name are rewritten to their values.              *)
RewriteNames(p) ==
  /\ Here(p, "names")
  /\ Statement(p, TRUE, [db EXCEPT !.names = FALSE], "jobcols?")

JobColumns(p) ==
  LookForColumns(p, "jobcols?", JobCols, "jobcols") \/ AddColumn(p, "jobcols", "purge?")

(* Jobs of the removed kinds are deleted, which opens a transaction; the   *)
(* table of jobs is copied without the columns of the removed feature, and *)
(* the tables of that feature, read before, are dropped.                   *)
LookForPurge(p) ==
  /\ Here(p, "purge?")
  /\ Sees(p, IF db.old THEN {"old"} ELSE {}, "purge")
  /\ UNCHANGED <<db, lost, was>>

Purge(p) ==
  /\ Here(p, "purge")
  /\ Statement(p, /\ db.windows => JobCols \subseteq db.cols
                  /\ "old" \in proc[p].seen => db.old,
               [db EXCEPT !.jobs = @ \ {"purged"}, !.windows = FALSE,
                          !.old = IF proc[p].seen = {} THEN @ ELSE FALSE],
               "artifact?")

(* Every recording gets its artifact row.                                  *)
LookForArtifact(p) ==
  /\ Here(p, "artifact?")
  /\ Sees(p, IF db.project /\ ~db.artifact THEN {"artifact"} ELSE {}, "artifact")
  /\ UNCHANGED <<db, lost, was>>

AddArtifact(p) ==
  /\ Here(p, "artifact")
  /\ Statement(p, proc[p].seen # {} => ~db.artifact,
               [db EXCEPT !.artifact = @ \/ proc[p].seen # {}], "project?")

(* A first project, with one recording, if there is none.                  *)
LookForProject(p) ==
  /\ Here(p, "project?")
  /\ Sees(p, IF db.project THEN {} ELSE {"project"}, "project")
  /\ UNCHANGED <<db, lost, was>>

Seed(p) ==
  /\ Here(p, "project")
  /\ Statement(p, proc[p].seen # {} => ~db.project, [db EXCEPT !.project = TRUE], "version?")

-----------------------------------------------------------------------------
(* _run_data_migrations: the version is read once, and set after each      *)
(* migration.                                                              *)
ReadVersion(p) ==
  /\ Here(p, "version?")
  /\ proc' = [proc EXCEPT ![p].version = db.version,
                          ![p].pc = IF db.version < 1 THEN "assets?" ELSE "aside"]
  /\ UNCHANGED <<db, lost, was>>

SetVersion(p, at, v, pc) ==
  /\ Here(p, at)
  /\ Statement(p, TRUE, [db EXCEPT !.version = v], pc)

(* Mutant of LookForAssets: goes by the version alone.                     *)
RenameWhatever(p) ==
  /\ Here(p, "assets?")
  /\ Sees(p, {"rename"}, "rename")
  /\ UNCHANGED <<db, lost, was>>

(* A table of assets of the old form is renamed aside and created anew.    *)
LookForAssets(p) ==
  /\ Here(p, "assets?")
  /\ Sees(p, IF db.assets = "legacy" THEN {"rename"} ELSE {}, "rename")
  /\ UNCHANGED <<db, lost, was>>

RenameAssets(p) ==
  /\ Here(p, "rename")
  /\ Statement(p, proc[p].seen # {} => db.assets # "none" /\ db.aside = "none",
               IF proc[p].seen = {} THEN db
               ELSE [db EXCEPT !.assets = "none",
                               !.aside = IF db.assets = "legacy" THEN "rows" ELSE "empty"],
               "recreate")

RecreateAssets(p) ==
  /\ Here(p, "recreate")
  /\ Statement(p, TRUE, Created(db), "report")

(* Rows set aside are reported, at every start; an empty table is dropped. *)
ReportAside(p) ==
  /\ Here(p, "report") \/ Here(p, "aside")
  /\ Statement(p, TRUE, [db EXCEPT !.aside = IF @ = "rows" THEN "rows" ELSE "none"],
               IF Here(p, "report") THEN "version1"
               ELSE IF proc[p].version < 2 THEN "keys"
               ELSE IF proc[p].version < 3 THEN "media?" ELSE "up")

(* Media of asset variants are named relative to the media root.           *)
RewriteKeys(p) ==
  /\ Here(p, "keys")
  /\ Statement(p, TRUE, [db EXCEPT !.keys = "relative"], "version2")

(* A seeded recording's media is copied again from the file it came from,  *)
(* then its row is committed with the format read from the copy.           *)
LookForMedia(p) ==
  /\ Here(p, "media?")
  /\ Goes(p, IF db.media = "new" THEN "version3" ELSE "copy")
  /\ UNCHANGED <<db, lost, was>>

CopyMedia(p) ==
  \/ Here(p, "copy") /\ Statement(p, TRUE, [db EXCEPT !.file = "torn"], "copying")
  \/ Here(p, "copying") /\ Statement(p, TRUE, [db EXCEPT !.file = "new"], "describe")

DescribeMedia(p) ==
  /\ Here(p, "describe")
  /\ Statement(p, db.file = "new", [db EXCEPT !.media = "new"], "version3")

Versions(p) ==
  \/ SetVersion(p, "version1", 1, "keys")
  \/ SetVersion(p, "version2", 2, "media?")
  \/ SetVersion(p, "version3", 3, "up")

Next ==
  \E p \in Process :
    \/ Start(p) \/ Dies(p)
    \/ LookForTables(p) \/ CreateTables(p) \/ RunColumns(p) \/ RewriteNames(p)
    \/ JobColumns(p) \/ LookForPurge(p) \/ Purge(p) \/ LookForArtifact(p)
    \/ AddArtifact(p) \/ LookForProject(p) \/ Seed(p) \/ ReadVersion(p)
    \/ LookForAssets(p) \/ RenameAssets(p) \/ RecreateAssets(p) \/ ReportAside(p)
    \/ RewriteKeys(p) \/ LookForMedia(p) \/ CopyMedia(p) \/ DescribeMedia(p)
    \/ Versions(p)

Spec == Init /\ [][Next]_migrations

-----------------------------------------------------------------------------
(* The database has one of the forms a release or a migration gives it.    *)
TypeOK ==
  /\ db.cols \subseteq Cols
  /\ db.jobs \subseteq {"current", "purged"}
  /\ db.assets \in {"legacy", "none", "current"}
  /\ db.aside \in {"none", "empty", "rows"}
  /\ {db.media, db.file} \subseteq {"old", "torn", "new"}
  /\ db.version \in 0 .. 3

(* A process that starts alone is refused no statement, whatever state an  *)
(* earlier release, a crash or a refused start left.                       *)
LoneStartSucceeds == \A p \in Process : Here(p, "failed") => ~proc[p].alone

(* With a process up and none starting, the database is in its current     *)
(* form, and the seeded recording's row describes its file, unless a start *)
(* died in a copy that another had already made.                           *)
UpIsCurrent ==
  ((\E p \in Process : Here(p, "up")) /\ (\A p \in Process : ~Starting(p))) =>
    /\ db.tables /\ db.cols = Cols /\ ~db.names /\ ~db.windows /\ ~db.old
    /\ "purged" \notin db.jobs
    /\ db.project /\ db.assets = "current" /\ db.keys = "relative"
    /\ lost \/ db.file = db.media

(* Rows are carried through: the jobs of current kinds, and the old assets *)
(* until somebody has looked at the report.                                *)
RowsStay ==
  /\ was # "fresh" => "current" \in db.jobs
  /\ was = "legacy" => (db.assets = "legacy" \/ db.aside = "rows")

(* What a start relies on and leaves behind.                               *)
StartsRecover == LoneStartSucceeds /\ UpIsCurrent /\ RowsStay

=============================================================================
