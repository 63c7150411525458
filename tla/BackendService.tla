---------------------------- MODULE BackendService ----------------------------
(***************************************************************************)
(* The backend that the setup controller supervises: BackendService and    *)
(* reconcileOwnedService (setup-controller/src/backend-service.js), with   *)
(* startServices and shutdown (runtime-tasks.js), which call them, and the *)
(* order of startup and close (server.js).                                 *)
(*                                                                         *)
(* The child waits at a gate, one byte on its stdin, which is written only *)
(* when its pid is in the state file.  Three threads of control interleave *)
(* at the awaits: a call of startServices (or the reconciliation at        *)
(* startup, when nothing else runs), the one automatic restart, and the    *)
(* close of the controller.  What only awaits settled promises is one      *)
(* action.  stored is service_process in memory, which the next commit of  *)
(* anybody writes, and disk the one in the state file.                     *)
(***************************************************************************)
EXTENDS ProcessGroups

CONSTANTS None,     \* no child
          Crashes,  \* TRUE: the controller may be killed
          Faults    \* TRUE: commits, spawns, signals and identities may fail

VARIABLES
  ctl,           \* down, boot, up, closing, stuck, released
  stored, disk,  \* service_process in memory and in the state file
  svc,           \* the service object: record, child, stopping, restartCount > 0
  open,          \* the children whose gate was opened
  watch,         \* the children whose exit is still to be handled
  thread,        \* where each thread of control is
  late           \* history: a restart was looking for a port when
                 \* the backend was to be stopped

mine == <<stored, disk, svc, open, watch, thread>>
vars == <<ctl, mine, late, group>>

Thread == {"serve", "restart", "close"}
Point  == {"idle", "port", "spawn", "spawned", "health",
           "check", "term", "kill", "listener"}
Then   == {"idle", "new", "listener"}
Record == [state : {"none", "starting", "running", "stopping", "uncertain"},
           id : Child \cup {None}, known : BOOLEAN]

NoRecord == [state |-> "none", id |-> None, known |-> FALSE]
Intent   == [NoRecord EXCEPT !.state = "starting"]
Nameless(c) == [Intent EXCEPT !.id = c]
Runs(c)  == [state |-> "running", id |-> c, known |-> TRUE]

Fresh == [rec |-> NoRecord, kid |-> None, stopping |-> FALSE, restarted |-> FALSE]
Idle  == [at |-> "idle", id |-> None, then |-> "idle", reconciles |-> FALSE]

TypeOK ==
  /\ ctl \in {"down", "boot", "up", "closing", "stuck", "released"}
  /\ stored \in Record /\ disk \in Record
  /\ svc \in [rec : Record, kid : Child \cup {None}, stopping : BOOLEAN,
              restarted : BOOLEAN]
  /\ open \subseteq Child /\ watch \subseteq Child
  /\ thread \in [Thread -> [at : Point, id : Child \cup {None}, then : Then,
                            reconciles : BOOLEAN]]
  /\ late \in BOOLEAN
  /\ GroupsOK

Init ==
  /\ ctl = "down" /\ late = FALSE
  /\ stored = NoRecord /\ disk = NoRecord
  /\ svc = Fresh /\ open = {} /\ watch = {}
  /\ thread = [t \in Thread |-> Idle]
  /\ NoGroups

-----------------------------------------------------------------------------
(* StateStore.commit: durable first, then in memory; or it throws, and the *)
(* file may hold either.                                                   *)
Saved(rec) == stored' = rec /\ disk' = rec
Lost(rec)  == Faults /\ UNCHANGED stored /\ disk' \in {disk, rec}

At(t, point)   == thread[t].at = point
Goes(t, point) == thread' = [thread EXCEPT ![t] = [Idle EXCEPT !.at = point]]
Ends(t)        == Goes(t, "idle")

(* A number that nothing remembers. *)
FreshChild == {c \in Child : GroupIsGone(c) /\ c \notin {stored.id, disk.id, svc.rec.id, svc.kid}
                             /\ \A t \in Thread : thread[t].id # c}

(* start() up to the first await that can take time, of a new object or of *)
(* one whose record is gone.                                               *)
StartsOver(t) == svc' = Fresh /\ Goes(t, "port")

(* What follows a stop() or a reconciliation that succeeded. *)
Continues(t, then, service) ==
  IF then = "new" THEN StartsOver(t) ELSE Goes(t, then) /\ svc' = service

(* ... or threw.  A close that fails is not repeated. *)
Raises(t) == /\ Ends(t)
             /\ ctl' = CASE t = "close"   -> "stuck"
                         [] ctl = "boot" -> "down"
                         [] OTHER        -> ctl

-----------------------------------------------------------------------------
(* clear(), the end of stop(): the record in memory goes first.  If the    *)
(* commit throws, stopping is never reset.                                 *)
Clears(t, then) ==
  LET cleared == [svc EXCEPT !.rec = NoRecord, !.kid = None]
  IN  \/ /\ Saved(NoRecord) /\ ctl' = ctl
         /\ Continues(t, then, [cleared EXCEPT !.stopping = FALSE])
      \/ /\ Lost(NoRecord) /\ Raises(t)
         /\ svc' = [cleared EXCEPT !.stopping = TRUE]

(* The end of reconcileOwnedService; at startup the controller then serves. *)
Serves(t, then) ==
  /\ ctl' = IF ctl = "boot" THEN "up" ELSE ctl
  /\ Continues(t, then, svc)

Reconciled(t, then) ==
  \/ Saved(NoRecord) /\ Serves(t, then)
  \/ Lost(NoRecord) /\ Raises(t) /\ UNCHANGED svc

(* terminateRecoveredProcess throws: stop() forgets that it was stopping,  *)
(* reconcileOwnedService notes the doubt.                                  *)
Doubts(t, reconciles) ==
  /\ Raises(t)
  /\ IF reconciles
       THEN /\ UNCHANGED svc
            /\ LET rec == [stored EXCEPT !.state = "uncertain"]
               IN  Saved(rec) \/ Lost(rec)
       ELSE svc' = [svc EXCEPT !.stopping = FALSE] /\ UNCHANGED <<stored, disk>>

(* The group is gone; stop() also wants the close event of its child. *)
Finishes(t, then, reconciles) ==
  \/ reconciles /\ Reconciled(t, then)
  \/ ~reconciles /\ Clears(t, then)
  \/ ~reconciles /\ Faults /\ svc.kid # None /\ Doubts(t, FALSE)

(* terminateRecoveredProcess up to its first wait. *)
Terminates(t, id, known, then, reconciles) ==
  \/ /\ known /\ GroupIsGone(id)
     /\ Finishes(t, then, reconciles)
  \/ /\ known /\ IdentityMatches(id)
     /\ thread' = [thread EXCEPT ![t] = [at |-> "term", id |-> id, then |-> then,
                                         reconciles |-> reconciles]]
     /\ svc' = IF reconciles THEN svc ELSE [svc EXCEPT !.stopping = TRUE]
     /\ UNCHANGED <<ctl, stored, disk>>
  \/ ~known /\ Doubts(t, reconciles)
  \/ /\ known /\ ~GroupIsGone(id) /\ (Faults \/ ~IdentityMatches(id))
     /\ Doubts(t, reconciles)

(* stop(): a record without pid or identity cannot be terminated. *)
Stops(t, then) ==
  IF svc.rec = NoRecord
    THEN Continues(t, then, svc) /\ UNCHANGED <<ctl, stored, disk>>
    ELSE Terminates(t, svc.rec.id, svc.rec.known, then, FALSE)

(* reconcileOwnedService: an intent without a pid means the gate was never *)
(* opened.                                                                 *)
Reconciles(t, then) ==
  \/ stored = NoRecord /\ Serves(t, then) /\ UNCHANGED <<stored, disk>>
  \/ stored = Intent /\ Reconciled(t, then)
  \/ /\ stored.id # None /\ UNCHANGED svc
     /\ LET rec == [stored EXCEPT !.state = "stopping"]
        IN  \/ /\ Saved(rec) /\ ctl' = ctl
               /\ thread' = [thread EXCEPT ![t] =
                    [at |-> "check", id |-> stored.id, then |-> then,
                     reconciles |-> TRUE]]
            \/ Lost(rec) /\ Raises(t)

Check(t) ==
  /\ At(t, "check")
  /\ Terminates(t, stored.id, stored.known, thread[t].then, TRUE)
  /\ UNCHANGED <<open, watch, late, group>>

(* The wait after SIGTERM: the group is gone, or after the grace period    *)
(* SIGKILL is sent if the leader is still the one that was recorded.       *)
Term(t) ==
  /\ At(t, "term")
  /\ LET me == thread[t]
     IN \/ GroupIsGone(me.id) /\ Finishes(t, me.then, me.reconciles)
        \/ /\ IdentityMatches(me.id)
           /\ thread' = [thread EXCEPT ![t].at = "kill"]
           /\ UNCHANGED <<ctl, svc, stored, disk>>
        \/ ~GroupIsGone(me.id) /\ (Faults \/ ~IdentityMatches(me.id))
             /\ Doubts(t, me.reconciles)
  /\ UNCHANGED <<open, watch, late, group>>

(* The wait after SIGKILL. *)
Kill(t) ==
  /\ At(t, "kill")
  /\ LET me == thread[t]
     IN IF GroupIsGone(me.id) THEN Finishes(t, me.then, me.reconciles)
                              ELSE Doubts(t, me.reconciles)
  /\ UNCHANGED <<open, watch, late, group>>

-----------------------------------------------------------------------------
(* startServices, called by a job or by a restoration: a healthy backend   *)
(* is reused, a sick one stopped, a recorded one reconciled, and a new     *)
(* service object starts the next.  Bound: not while a restart is in       *)
(* flight.                                                                 *)
Serve ==
  /\ ctl = "up" /\ At("serve", "idle") /\ At("restart", "idle")
  /\ IF svc.rec # NoRecord /\ svc.kid # None /\ group[svc.kid] = "led"
       THEN Stops("serve", "new")
       ELSE Reconciles("serve", "new")
  /\ UNCHANGED <<open, watch, late, group>>

(* persist(record) of a launch intent. *)
PersistIntent(t) ==
  /\ At(t, "port")
  /\ svc' = [svc EXCEPT !.rec = Intent]
  /\ \/ Saved(Intent) /\ Goes(t, "spawn")
     \/ Lost(Intent) /\ Ends(t)
  /\ UNCHANGED <<ctl, open, watch, late, group>>

(* spawn(), or its error event. *)
Spawn(t) ==
  /\ At(t, "spawn")
  /\ \/ \E c \in FreshChild :
          /\ Becomes(c, "led")
          /\ svc' = [svc EXCEPT !.kid = c]
          /\ open' = open \ {c} /\ watch' = watch \ {c}
          /\ thread' = [thread EXCEPT ![t] = [Idle EXCEPT !.at = "spawned", !.id = c]]
          /\ UNCHANGED <<stored, disk>>
     \/ /\ Faults
        /\ svc' = [svc EXCEPT !.rec = NoRecord]
        /\ Saved(NoRecord) \/ Lost(NoRecord)
        /\ Ends(t) /\ UNCHANGED <<open, watch, group>>
  /\ UNCHANGED <<ctl, late>>

(* The commit of the record, which is the object in stored unless somebody *)
(* committed since, so that stored may change before the commit.  If the   *)
(* commit throws, stdin is closed.  Without an identity stop() throws and  *)
(* the child stays at its gate.                                            *)
Recorded(t, running) ==
  \/ Saved(running) /\ Goes(t, "health")
  \/ /\ Faults
     /\ stored' \in {stored, running} /\ disk' \in {disk, running}
     /\ Ends(t)

Unnamed(t, unknown) ==
  /\ svc' = [svc EXCEPT !.rec = unknown, !.stopping = FALSE]
  /\ stored' \in {stored, unknown} /\ UNCHANGED disk
  /\ Ends(t)

(* Mutant: the byte is written before the record is durable. *)
SpawnedUngated(t) ==
  /\ At(t, "spawned")
  /\ LET c == thread[t].id
     IN \/ /\ IdentityMatches(c)
           /\ svc' = [svc EXCEPT !.rec = Runs(c)]
           /\ Recorded(t, Runs(c))
           /\ open' = open \cup {c} /\ watch' = watch \cup {c}
        \/ /\ Faults \/ ~IdentityMatches(c)
           /\ Unnamed(t, Nameless(c)) /\ UNCHANGED <<open, watch>>
  /\ UNCHANGED <<ctl, late, group>>

(* The spawn event: the record is made durable, then the gate opened and   *)
(* the exit watched.                                                       *)
Spawned(t) ==
  /\ At(t, "spawned")
  /\ LET c == thread[t].id
     IN \/ /\ IdentityMatches(c)
           /\ svc' = [svc EXCEPT !.rec = Runs(c)]
           /\ Recorded(t, Runs(c))
           /\ LET opened == IF thread'[t].at = "health" THEN {c} ELSE {}
              IN  open' = open \cup opened /\ watch' = watch \cup opened
        \/ /\ Faults \/ ~IdentityMatches(c)
           /\ Unnamed(t, Nameless(c)) /\ UNCHANGED <<open, watch>>
  /\ UNCHANGED <<ctl, late, group>>

(* The health poll answers, or the loop throws: no answer in time, the     *)
(* child has exited, or a call was aborted.                                *)
Health(t) ==
  /\ At(t, "health")
  /\ \/ Ends(t) /\ UNCHANGED <<ctl, stored, disk, svc>>
     \/ Stops(t, "idle")
  /\ UNCHANGED <<open, watch, late, group>>

(* handleExit: one restart, unless the exit was wanted or the record is    *)
(* no longer the one in the store.                                         *)
ExitSeen(c) ==
  /\ ctl \in {"up", "closing", "stuck", "released"}
  /\ c \in watch /\ group[c] # "led"
  /\ watch' = watch \ {c}
  /\ IF svc.stopping \/ svc.rec.id # c \/ stored # Runs(c) \/ svc.restarted
       THEN UNCHANGED <<ctl, stored, disk, svc, thread>>
       ELSE \/ /\ GroupIsGone(c)
               /\ thread' = [thread EXCEPT !["restart"] = [Idle EXCEPT !.at = "port"]]
               /\ svc' = [Fresh EXCEPT !.restarted = TRUE]
               /\ Saved(NoRecord) /\ ctl' = ctl
            \/ /\ GroupIsGone(c) /\ Lost(NoRecord)
               /\ svc' = [Fresh EXCEPT !.stopping = TRUE, !.restarted = TRUE]
               /\ UNCHANGED <<ctl, thread>>
            \/ /\ ~GroupIsGone(c)
               /\ svc' = [svc EXCEPT !.restarted = TRUE]
               /\ UNCHANGED <<ctl, stored, disk, thread>>
  /\ UNCHANGED <<open, late, group>>

(* Any other commit of the controller writes what is stored. *)
OtherCommit ==
  /\ ctl \in {"up", "closing", "stuck", "released"}
  /\ disk' = stored
  /\ UNCHANGED <<ctl, stored, svc, open, watch, thread, late, group>>

-----------------------------------------------------------------------------
(* StateStore.open and reconcileOwnedService of createSetupController. *)
Boot ==
  /\ ctl = "down"
  /\ ctl' = "boot" /\ stored' = disk
  /\ UNCHANGED <<disk, svc, open, watch, thread, late, group>>

Reconcile ==
  /\ ctl = "boot" /\ At("serve", "idle")
  /\ Reconciles("serve", "idle")
  /\ UNCHANGED <<open, watch, late, group>>

(* close(): calls are aborted and awaited, then the backend is stopped. *)
Close ==
  /\ ctl = "up"
  /\ ctl' = "closing"
  /\ UNCHANGED <<mine, late, group>>

StopBackend ==
  /\ ctl = "closing" /\ At("serve", "idle") /\ At("close", "idle")
  /\ Stops("close", "listener")
  /\ late' = At("restart", "port")
  /\ UNCHANGED <<open, watch, group>>

(* The listener is closed, and ownership of the installation released. *)
Release ==
  /\ At("close", "listener")
  /\ Ends("close") /\ ctl' = "released"
  /\ UNCHANGED <<stored, disk, svc, open, watch, late, group>>

(* The process exits after the release, or is killed.  The pipes of its    *)
(* children close, so a gate that is shut stays shut.                      *)
Exit ==
  /\ ctl = "released" \/ (Crashes /\ ctl # "down")
  /\ ctl' = "down" /\ late' = FALSE
  /\ stored' = NoRecord /\ svc' = Fresh /\ watch' = {}
  /\ thread' = [t \in Thread |-> Idle]
  /\ UNCHANGED <<disk, open, group>>

System ==
  /\ \E c \in Child : LeaderExits(c) \/ OrphansExit(c) \/ PidReused(c) \/ StrangerExits(c)
  /\ UNCHANGED <<ctl, mine, late>>

Next ==
  \/ Serve \/ OtherCommit \/ Boot \/ Reconcile \/ Close \/ StopBackend \/ Release
  \/ Exit \/ System
  \/ \E c \in Child : ExitSeen(c)
  \/ \E t \in Thread : \/ Check(t) \/ Term(t) \/ Kill(t) \/ PersistIntent(t) \/ Spawn(t)
                       \/ Spawned(t) \/ Health(t)

Spec == Init /\ [][Next]_vars

-----------------------------------------------------------------------------
(* A backend that may write application data is named in the state file,   *)
(* with what is needed to terminate it, whatever commit failed or          *)
(* controller died; so there is never a second one.                        *)
ServesIsRecorded ==
  \A c \in open : Live(c) => disk.id = c /\ disk.known

(* When the ownership of the installation is released no backend is left,  *)
(* unless an automatic restart was still looking for a port.               *)
StoppedFirst == ctl = "released" /\ ~late => \A c \in open : ~Live(c)

=============================================================================
