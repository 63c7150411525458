------------------------------- MODULE Uploads -------------------------------
(***************************************************************************)
(* Resumable uploads of source recordings (backend/app/audio_ingestion.py, *)
(* the finalize route of main.py and the recovery of source files in       *)
(* repository.py).  A session keeps its chunks and a session.json; a       *)
(* finalization assembles the chunks, writes a promotion marker that names *)
(* the files it is about to create, moves them among the sources, inserts  *)
(* the recording's row, and only then notes the recording in the session   *)
(* and drops the marker.  The backend may die between any two of these     *)
(* steps; its next start sweeps what the markers name.  A sweep passes     *)
(* over a file or a marker it cannot remove, and the project may be        *)
(* deleted meanwhile.                                                      *)
(*                                                                         *)
(* Chunks are written under one process-wide lock and a session is         *)
(* finalized under a lock of its own.  The verification of a session's     *)
(* chunks reads session.json before it takes the lock, and mark_completed  *)
(* rewrites it without the lock: both may write back what they read.       *)
(***************************************************************************)
EXTENDS Naturals, FiniteSets

CONSTANTS
  Session,     \* upload ids
  Chunk,       \* the chunks of a file
  Recording,   \* source recording ids
  Request,     \* the backend's request threads
  None,        \* no session, recording, row or marker
  MaxCrashes   \* bound: how often the backend dies

VARIABLES
  session,   \* session.json of each upload, or None: chunks entered, recording
  chunk,     \* the chunk files: "none", "good" or "bad"
  marker,    \* the promotion markers: the recording and its files, or None
  sources,   \* the files among the sources: recording and name
  rows,      \* the recordings' rows: the upload and the files, or None
  request,   \* the request each thread is serving
  deletion,  \* of the project: "none", "read", "unlink" or "over"
  doomed,    \* the rows the deletion read
  lost,      \* history: files that nothing names any more
  up,        \* FALSE while the backend starts
  crashes

uploads ==
  <<session, chunk, marker, sources, rows, request, deletion, doomed, lost, up, crashes>>

Names == {"original", "working"}
Blank == [chunks |-> {}, rec |-> None]
Idle  == [pc |-> "idle", u |-> None, data |-> Blank, rec |-> None, names |-> {}]

Init ==
  /\ session = [u \in Session |-> None]
  /\ chunk = [u \in Session |-> [i \in Chunk |-> "none"]]
  /\ marker = [u \in Session |-> None]
  /\ sources = {}
  /\ rows = [r \in Recording |-> None]
  /\ request = [q \in Request |-> Idle]
  /\ deletion = "none"
  /\ doomed = {}
  /\ lost = {}
  /\ up = TRUE
  /\ crashes = 0

-----------------------------------------------------------------------------
(* Helpers.                                                                *)

Here(q, pc) == up /\ request[q].pc = pc
Goes(q, pc) == request' = [request EXCEPT ![q].pc = pc]
Ends(q)     == request' = [request EXCEPT ![q] = Idle]

(* The manager's re-entrant lock is held from the write of a chunk to the  *)
(* save of its entry; a session's finalization lock from entry to end.     *)
Unlocked == \A q \in Request : request[q].pc # "enter chunk"
Finalizing(u) ==
  \E q \in Request : request[q].u = u /\ request[q].pc \notin {"enter chunk", "verify"}

(* The project has its row until the deletion's, which takes the rows of   *)
(* the recordings it has read with it; ids are not used again.             *)
Standing     == deletion \in {"none", "read"}
Gone         == IF Standing THEN {} ELSE doomed
Kept         == {r \in Recording : rows[r] # None} \ Gone

RowsOf(u)    == {r \in Kept : rows[r].u = u}
FilesOf(r, names) == {r} \X names
Referenced   == UNION {FilesOf(r, rows[r].names) : r \in Kept}

(* Fresh ids are random: never those of a session, a marker, a file, a row *)
(* or a request under way.                                                 *)
FreshSession(u) ==
  /\ session[u] = None /\ marker[u] = None
  /\ \A r \in Recording : rows[r] # None => rows[r].u # u
  /\ \A q \in Request : request[q].u # u
FreshRecording(r) ==
  /\ rows[r] = None
  /\ \A f \in sources : f[1] # r
  /\ \A u \in Session : marker[u] # None => marker[u].rec # r
  /\ \A q \in Request : request[q].rec # r

-----------------------------------------------------------------------------
(* A client that names its upload gets the session already created for it; *)
(* the search and the creation are not one step.                           *)

Scan(q) ==
  /\ Here(q, "idle")
  /\ Standing
  /\ \A u \in Session : session[u] = None
  /\ Goes(q, "make")
  /\ UNCHANGED <<session, chunk, marker, sources, rows, deletion, doomed, lost, up, crashes>>

Create(q) ==
  /\ Here(q, "make")
  /\ \E u \in Session : FreshSession(u) /\ session' = [session EXCEPT ![u] = Blank]
  /\ Ends(q)
  /\ UNCHANGED <<chunk, marker, sources, rows, deletion, doomed, lost, up, crashes>>

(* A chunk without an entry is written, then entered in session.json.      *)
WriteChunk(q) ==
  /\ Here(q, "idle")
  /\ Unlocked
  /\ \E u \in Session, i \in Chunk :
       /\ session[u] # None
       /\ i \notin session[u].chunks
       /\ chunk' = [chunk EXCEPT ![u][i] = "good"]
       /\ request' = [request EXCEPT ![q] =
            [Idle EXCEPT !.pc = "enter chunk", !.u = u,
                         !.data = [session[u] EXCEPT !.chunks = @ \cup {i}]]]
  /\ UNCHANGED <<session, marker, sources, rows, deletion, doomed, lost, up, crashes>>

EnterChunk(q) ==
  /\ Here(q, "enter chunk")
  /\ session' = [session EXCEPT ![request[q].u] = request[q].data]
  /\ Ends(q)
  /\ UNCHANGED <<chunk, marker, sources, rows, deletion, doomed, lost, up, crashes>>

(* A status request reads the session, then, under the lock, drops every   *)
(* chunk whose file is missing or differs, and saves the session it read.  *)
ReadStatus(q) ==
  /\ Here(q, "idle")
  /\ \E u \in Session :
       /\ session[u] # None
       /\ request' = [request EXCEPT ![q] =
            [Idle EXCEPT !.pc = "verify", !.u = u, !.data = session[u]]]
  /\ UNCHANGED <<session, chunk, marker, sources, rows, deletion, doomed, lost, up, crashes>>

Verify(q) ==
  LET u    == request[q].u
      data == request[q].data
      bad  == {i \in data.chunks : chunk[u][i] # "good"}
  IN /\ Here(q, "verify")
     /\ Unlocked
     /\ chunk' = [chunk EXCEPT ![u] = [i \in Chunk |-> IF i \in bad THEN "none" ELSE @[i]]]
     /\ session' = IF bad = {} THEN session
                   ELSE [session EXCEPT ![u] = [data EXCEPT !.chunks = @ \ bad]]
     /\ Ends(q)
     /\ UNCHANGED <<marker, sources, rows, deletion, doomed, lost, up, crashes>>

(* A chunk file is damaged on the disk.                                    *)
Damage ==
  /\ \E u \in Session, i \in Chunk :
       chunk[u][i] = "good" /\ chunk' = [chunk EXCEPT ![u][i] = "bad"]
  /\ UNCHANGED <<session, marker, sources, rows, request, deletion, doomed, lost, up, crashes>>

-----------------------------------------------------------------------------
(* The finalization of a session, one file or row at a time.               *)

Finalize(q) ==
  /\ Here(q, "idle")
  /\ \E u \in Session :
       /\ session[u] # None
       /\ ~Finalizing(u)
       /\ request' = [request EXCEPT ![q] =
            [Idle EXCEPT !.pc = IF session[u].rec # None THEN "unmark" ELSE "find", !.u = u]]
  /\ UNCHANGED <<session, chunk, marker, sources, rows, deletion, doomed, lost, up, crashes>>

(* Mutant of FindRow: a retry does not look for the row of the earlier     *)
(* attempt.                                                                *)
FindNothing(q) ==
  /\ Here(q, "find")
  /\ Goes(q, "sweep")
  /\ UNCHANGED <<session, chunk, marker, sources, rows, deletion, doomed, lost, up, crashes>>

(* A row an earlier attempt committed for this upload is adopted.          *)
FindRow(q) ==
  LET u == request[q].u
  IN /\ Here(q, "find")
     /\ \/ \E r \in RowsOf(u) :
             request' = [request EXCEPT ![q].rec = r, ![q].pc = "mark"]
        \/ RowsOf(u) = {} /\ Goes(q, "sweep")
     /\ UNCHANGED <<session, chunk, marker, sources, rows, deletion, doomed, lost, up, crashes>>

(* What cleanup_orphan_source_files does with a marker: the marker of an   *)
(* upload that has its row is dropped; of another, every file that no row  *)
(* refers to is removed and then the marker.                               *)
Strays(u) == (sources \cap FilesOf(marker[u].rec, marker[u].names)) \ Referenced

SweepFile(u) ==
  /\ marker[u] # None
  /\ RowsOf(u) = {}
  /\ \E f \in Strays(u) : sources' = sources \ {f}
  /\ UNCHANGED marker

SweepMarker(u) ==
  /\ marker[u] # None
  /\ RowsOf(u) # {} \/ Strays(u) = {}
  /\ marker' = [marker EXCEPT ![u] = None]
  /\ UNCHANGED sources

(* The sweep ends when the marker is gone or, the marker kept, at a file   *)
(* that cannot be removed; either way the finalization goes on, if the     *)
(* project is still there.                                                 *)
Sweep(q) ==
  /\ Here(q, "sweep")
  /\ \/ SweepFile(request[q].u) /\ UNCHANGED request
     \/ SweepMarker(request[q].u) /\ UNCHANGED request
     \/ Standing /\ Goes(q, "assemble") /\ UNCHANGED <<marker, sources>>
     \/ ~Standing /\ Ends(q) /\ UNCHANGED <<marker, sources>>
  /\ UNCHANGED <<session, chunk, rows, deletion, doomed, lost, up, crashes>>

(* Every chunk is entered and its file is still what was entered.          *)
Assemble(q) ==
  LET u == request[q].u
  IN /\ Here(q, "assemble")
     /\ Unlocked
     /\ \/ /\ session[u].chunks = Chunk
           /\ \A i \in Chunk : chunk[u][i] = "good"
           /\ Goes(q, "inspect")
        \/ /\ session[u].chunks # Chunk \/ \E i \in Chunk : chunk[u][i] # "good"
           /\ Ends(q)
     /\ UNCHANGED <<session, chunk, marker, sources, rows, deletion, doomed, lost, up, crashes>>

(* PCM16 WAV audio is its own working file; any other is converted and     *)
(* keeps its original beside the working file; unreadable audio is refused.*)
Inspect(q) ==
  /\ Here(q, "inspect")
  /\ \/ \E r \in Recording, names \in {{"working"}, Names} :
          /\ FreshRecording(r)
          /\ request' = [request EXCEPT ![q].rec = r, ![q].names = names, ![q].pc = "promise"]
     \/ Ends(q)
  /\ UNCHANGED <<session, chunk, marker, sources, rows, deletion, doomed, lost, up, crashes>>

(* The marker takes the place of one that the sweep has kept: the files    *)
(* that it named are lost.                                                 *)
WriteMarker(q) ==
  LET a == request[q]
  IN /\ Here(q, "promise")
     /\ marker' = [marker EXCEPT ![a.u] = [rec |-> a.rec, names |-> a.names]]
     /\ lost' = lost \cup (IF marker[a.u] = None THEN {} ELSE Strays(a.u))
     /\ Goes(q, "move")
     /\ UNCHANGED <<session, chunk, sources, rows, deletion, doomed, up, crashes>>

(* The original is moved first.                                            *)
Move(q) ==
  LET a    == request[q]
      left == {n \in a.names : <<a.rec, n>> \notin sources}
      next == IF "original" \in left THEN "original" ELSE "working"
  IN /\ Here(q, "move")
     /\ sources' = sources \cup {<<a.rec, next>>}
     /\ IF left = {next} THEN Goes(q, "look") ELSE UNCHANGED request
     /\ UNCHANGED <<session, chunk, marker, rows, deletion, doomed, lost, up, crashes>>

(* The row is inserted after a look at the project's.                      *)
LookUp(q) ==
  /\ Here(q, "look")
  /\ IF Standing THEN Goes(q, "insert") ELSE Ends(q)
  /\ UNCHANGED <<session, chunk, marker, sources, rows, deletion, doomed, lost, up, crashes>>

InsertRow(q) ==
  LET a == request[q]
  IN /\ Here(q, "insert")
     /\ rows' = [rows EXCEPT ![a.rec] = [u |-> a.u, names |-> a.names]]
     /\ Goes(q, "mark")
     /\ UNCHANGED <<session, chunk, marker, sources, deletion, doomed, lost, up, crashes>>

(* mark_completed reads the session and rewrites it, outside the lock.     *)
ReadMark(q) ==
  /\ Here(q, "mark")
  /\ request' = [request EXCEPT ![q].data = session[request[q].u], ![q].pc = "complete"]
  /\ UNCHANGED <<session, chunk, marker, sources, rows, deletion, doomed, lost, up, crashes>>

Complete(q) ==
  LET a == request[q]
  IN /\ Here(q, "complete")
     /\ session' = [session EXCEPT ![a.u] = [a.data EXCEPT !.rec = a.rec]]
     /\ Goes(q, "unmark")
     /\ UNCHANGED <<chunk, marker, sources, rows, deletion, doomed, lost, up, crashes>>

DropMarker(q) ==
  /\ Here(q, "unmark")
  /\ marker' = [marker EXCEPT ![request[q].u] = None]
  /\ Ends(q)
  /\ UNCHANGED <<session, chunk, sources, rows, deletion, doomed, lost, up, crashes>>

(* A full disk, a file that cannot be replaced or removed or a refused row *)
(* ends the request where it stands.                                       *)
Fails(q) ==
  /\ up
  /\ request[q].pc \in {"promise", "move", "look", "insert", "mark", "complete", "unmark"}
  /\ Ends(q)
  /\ UNCHANGED <<session, chunk, marker, sources, rows, deletion, doomed, lost, up, crashes>>

-----------------------------------------------------------------------------
(* The deletion of the project reads the rows, deletes those it has read,  *)
(* and then removes the files that a row's columns name, one at a time,    *)
(* until one cannot be removed: the path of an original is within the      *)
(* artifact's metadata and is not among them.                              *)

Columns(R) == R \X {"working"}

ReadProject ==
  /\ up
  /\ deletion = "none"
  /\ deletion' = "read"
  /\ doomed' = Kept
  /\ UNCHANGED <<session, chunk, marker, sources, rows, request, lost, up, crashes>>

DeleteRows ==
  /\ up
  /\ deletion = "read"
  /\ deletion' = "unlink"
  /\ lost' = lost \cup UNION {FilesOf(r, rows[r].names \ {"working"}) : r \in doomed}
  /\ UNCHANGED <<session, chunk, marker, sources, rows, request, doomed, up, crashes>>

DeleteFile ==
  /\ up
  /\ deletion = "unlink"
  /\ \E f \in Columns(doomed) \cap sources : sources' = sources \ {f}
  /\ UNCHANGED <<session, chunk, marker, rows, request, deletion, doomed, lost, up, crashes>>

(* Where it ends before its time the files it has not come to are lost.    *)
EndDeletion ==
  /\ up
  /\ deletion = "unlink"
  /\ deletion' = "over"
  /\ lost' = lost \cup (Columns(doomed) \cap sources)
  /\ UNCHANGED <<session, chunk, marker, sources, rows, request, doomed, up, crashes>>

-----------------------------------------------------------------------------
(* The backend dies with its requests, and with a deletion: the database   *)
(* undoes what is not committed.  Its next start removes sessions a day    *)
(* old and sweeps the markers before it serves.                            *)

Crash ==
  /\ crashes < MaxCrashes
  /\ crashes' = crashes + 1
  /\ up' = FALSE
  /\ request' = [q \in Request |-> Idle]
  /\ deletion' = IF Standing THEN "none" ELSE "over"
  /\ lost' = lost \cup (Columns(Gone) \cap sources)
  /\ UNCHANGED <<session, chunk, marker, sources, rows, doomed>>

CleanupStale ==
  /\ ~up
  /\ \E u \in Session :
       /\ session[u] # None
       /\ session' = [session EXCEPT ![u] = None]
       /\ chunk' = [chunk EXCEPT ![u] = [i \in Chunk |-> "none"]]
  /\ UNCHANGED <<marker, sources, rows, request, deletion, doomed, lost, up, crashes>>

Recover ==
  /\ ~up
  /\ \E u \in Session : SweepFile(u) \/ SweepMarker(u)
  /\ UNCHANGED <<session, chunk, rows, request, deletion, doomed, lost, up, crashes>>

Ready ==
  /\ ~up
  /\ up' = TRUE
  /\ UNCHANGED <<session, chunk, marker, sources, rows, request, deletion, doomed, lost, crashes>>

Serve(q) ==
  \/ Scan(q) \/ Create(q) \/ WriteChunk(q) \/ EnterChunk(q) \/ ReadStatus(q) \/ Verify(q)
  \/ Finalize(q) \/ FindRow(q) \/ Sweep(q) \/ Assemble(q) \/ Inspect(q) \/ WriteMarker(q)
  \/ Move(q) \/ LookUp(q) \/ InsertRow(q) \/ ReadMark(q) \/ Complete(q) \/ DropMarker(q) \/ Fails(q)

Next ==
  \/ \E q \in Request : Serve(q)
  \/ ReadProject \/ DeleteRows \/ DeleteFile \/ EndDeletion
  \/ Damage \/ Crash \/ CleanupStale \/ Recover \/ Ready

Spec == Init /\ [][Next]_uploads

-----------------------------------------------------------------------------
Json == [chunks : SUBSET Chunk, rec : Recording \cup {None}]

(* Every session, chunk file, marker, row and request has one of the       *)
(* shapes the manager writes.                                              *)
TypeOK ==
  /\ session \in [Session -> Json \cup {None}]
  /\ chunk \in [Session -> [Chunk -> {"none", "good", "bad"}]]
  /\ marker \in [Session -> [rec : Recording, names : SUBSET Names] \cup {None}]
  /\ sources \subseteq Recording \X Names
  /\ rows \in [Recording -> [u : Session, names : SUBSET Names] \cup {None}]
  /\ \A q \in Request :
       /\ request[q].u \in Session \cup {None}
       /\ request[q].data \in Json
       /\ request[q].rec \in Recording \cup {None}
       /\ request[q].names \subseteq Names
  /\ deletion \in {"none", "read", "unlink", "over"}
  /\ doomed \subseteq Recording
  /\ lost \subseteq Recording \X Names
  /\ up \in BOOLEAN
  /\ crashes \in 0 .. MaxCrashes

(* Whatever a finalization was doing when it failed or the backend died,   *)
(* and whatever a sweep could not remove, an upload has at most one        *)
(* recording, a recording has all its files, and a file among the sources  *)
(* belongs to a recording, is named by the upload's marker, is still to be *)
(* removed by the deletion of the project, or is one of the files the code *)
(* leaves with nothing to name them: those of a marker that was kept by a  *)
(* failed sweep and then replaced, the originals of a deleted project, and *)
(* what its deletion had not removed when it ended.                        *)
SourcesAreAccounted ==
  /\ \A u \in Session : Cardinality(RowsOf(u)) <= 1
  /\ Referenced \subseteq sources
  /\ \A f \in (sources \ Referenced) \ lost :
       \/ deletion = "unlink" /\ f \in Columns(doomed)
       \/ \E u \in Session : marker[u] # None /\ f \in FilesOf(marker[u].rec, marker[u].names)

=============================================================================
