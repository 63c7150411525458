------------------------ MODULE BackendServiceProofs ------------------------
(***************************************************************************)
(* An inductive invariant of BackendService, for any number of starts.     *)
(* The argument: a backend that serves is named in the file, in memory and *)
(* by the service object, whichever of them the controller would look at;  *)
(* while one serves nobody starts another, and whoever ends something ends *)
(* it; a start goes from an intent that was recorded; and the order of the *)
(* threads of a controller tells who may wait for whom, so that after the  *)
(* stop of the close nothing is started any more.                          *)
(***************************************************************************)
EXTENDS BackendService, TLAPS

Starting == {"port", "spawn", "spawned"}
Waiting  == {"term", "kill"}
Ending   == {"check"} \cup Waiting

Serving     == {c \in open : Live(c)}
Names(r, c) == r.id = c /\ r.known

(* A backend that serves is named wherever the controller would look for   *)
(* it: in the file, in memory once the file was read, and, once the        *)
(* controller is up, by the service object.                                *)
Recording(c) ==
  /\ Names(disk, c)
  /\ ctl # "down" => Names(stored, c)
  /\ ctl \notin {"down", "boot"} => svc.rec = Runs(c)

(* Nothing is being started beside it, and whoever is ending something is  *)
(* ending it.                                                              *)
OnlyOne(c) ==
  \A t \in Thread :
    /\ thread[t].at \notin Starting
    /\ thread[t].at \in Ending => thread[t].id = c

ServesAlone == \A c \in Serving : Recording(c) /\ OnlyOne(c)

(* What the service object records while a thread starts a backend.        *)
StartsFromIntent ==
  \A t \in Thread :
    /\ thread[t].at = "port" => svc.rec = NoRecord
    /\ thread[t].at \in {"spawn", "spawned"} => svc.rec = Intent
    /\ thread[t].at = "spawned" => thread[t].id \in Child

StartupIsAlone ==
  /\ ctl \in {"down", "boot"} => svc = Fresh /\ At("restart", "idle") /\ At("close", "idle")
  /\ ctl = "down" => At("serve", "idle")
  /\ ctl = "boot" => /\ thread["serve"].at \in {"idle"} \cup Ending
                     /\ thread["serve"].at # "idle" => thread["serve"].reconciles

(* Where each thread may be, and who waits for whom.                       *)
ThreadsAreOrdered ==
  LET serve == thread["serve"]  restart == thread["restart"]  close == thread["close"]
  IN /\ serve.at # "listener" /\ serve.then # "listener"
     /\ serve.at \in Starting => restart.at = "idle"
     /\ serve.at = "check" => serve.reconciles
     /\ serve.at \in Ending /\ (serve.reconciles \/ serve.then = "new") => restart.at = "idle"
     /\ serve.at \in Ending /\ serve.reconciles => stored.state # "running"
     /\ restart.at \notin {"check", "listener"} /\ restart.then = "idle" /\ ~restart.reconciles
     /\ restart.at # "idle" => svc.restarted
     /\ restart.at \in Starting => serve.at \in {"idle", "health"} /\ close.at \notin Waiting
     /\ close.at \in {"idle", "listener"} \cup Waiting /\ ~close.reconciles
     /\ close.at \in Waiting => close.then = "listener"
     /\ close.at # "idle" => serve.at = "idle" /\ ctl = "closing"
     /\ ctl = "released" => serve.at = "idle"
     /\ \A t \in Thread : thread[t].at \in Waiting /\ ~thread[t].reconciles
                            => svc.stopping \/ svc.restarted

(* Once the backend was stopped for the close.                             *)
StaysStopped ==
  (At("close", "listener") \/ ctl = "released") /\ ~late =>
    svc.rec = NoRecord /\ thread["restart"].at \notin Starting

ThreadRecord  == [at : Point, id : Child \cup {None}, then : Then, reconciles : BOOLEAN]
ServiceRecord == [rec : Record, kid : Child \cup {None}, stopping : BOOLEAN, restarted : BOOLEAN]

IInv ==
  /\ TypeOK /\ ServesAlone /\ StartsFromIntent
  /\ StartupIsAlone /\ ThreadsAreOrdered /\ StaysStopped

-----------------------------------------------------------------------------
(* Who may stop or reconcile, and what follows.                            *)
Caller(t, then, reconciles) ==
  /\ t \in Thread /\ reconciles \in BOOLEAN
  /\ thread[t].at \notin Starting
  /\ ctl # "down"
  /\ ctl = "boot" => t = "serve" /\ reconciles
  /\ t = "serve" => /\ then \in {"new", "idle"}
                    /\ reconciles \/ then = "new" => At("restart", "idle")
                    /\ At("close", "idle") /\ ctl # "released"
  /\ t = "restart" => /\ then = "idle" /\ ~reconciles
                      /\ thread[t].at \in {"health"} \cup Waiting
  /\ t = "close"   => /\ then = "listener" /\ ~reconciles
                      /\ ctl = "closing" /\ At("serve", "idle")
                      /\ thread[t].at \in {"idle"} \cup Waiting

NobodyStarts == \A t \in Thread : thread[t].at \notin Starting

(* Only the stop of the close looks anew whether a restart is under way.   *)
LateIsKept(t) == late' \in BOOLEAN /\ (t = "close" \/ late' = late)

(* The forms of the record and of the service object.                      *)
LEMMA Sorts ==
  /\ NoRecord \in Record /\ Intent \in Record
  /\ NoRecord.id = None /\ Intent.id = None /\ ~NoRecord.known /\ ~Intent.known
  /\ NoRecord.state = "none" /\ Intent.state = "starting"
  /\ \A c \in Child : /\ Runs(c) \in Record /\ Nameless(c) \in Record
                      /\ Runs(c).id = c /\ Runs(c).known /\ Runs(c).state = "running"
                      /\ Nameless(c).id = c /\ ~Nameless(c).known
  /\ Idle \in ThreadRecord /\ Idle.at = "idle" /\ Idle.then = "idle" /\ ~Idle.reconciles
  /\ Fresh \in ServiceRecord /\ Fresh.rec = NoRecord /\ ~Fresh.stopping /\ ~Fresh.restarted
BY DEF NoRecord, Intent, Record, Runs, Nameless, Idle, ThreadRecord, Point, Then, Fresh,
       ServiceRecord

(* The parts of the type invariant in the form the proofs use.             *)
LEMMA Types ==
  ASSUME TypeOK
  PROVE  /\ stored \in Record /\ disk \in Record /\ svc \in ServiceRecord
         /\ thread \in [Thread -> ThreadRecord] /\ svc.rec \in Record
BY DEF TypeOK, ThreadRecord, ServiceRecord

(* The three threads after one of them moved.                              *)
LEMMA Moves ==
  ASSUME TypeOK, NEW t \in Thread, NEW q, thread' = [thread EXCEPT ![t] = q]
  PROVE  /\ thread'[t] = q
         /\ \A u \in Thread : u # t => thread'[u] = thread[u]
         /\ q \in ThreadRecord => thread' \in [Thread -> ThreadRecord]
BY Types

(* A thread goes on, what it is about staying.                             *)
LEMMA GoesTo ==
  ASSUME NEW t \in Thread, NEW point \in Point, Goes(t, point)
  PROVE  \E q \in ThreadRecord : /\ thread' = [thread EXCEPT ![t] = q]
                                 /\ q.at = point /\ q.then = "idle" /\ ~q.reconciles
<1> DEFINE q == [Idle EXCEPT !.at = point]
<1>1. q \in ThreadRecord /\ q.at = point /\ q.then = "idle" /\ ~q.reconciles
  BY Sorts DEF ThreadRecord
<1>2. thread' = [thread EXCEPT ![t] = q]
  BY DEF Goes
<1> HIDE DEF q
<1> QED  BY <1>1, <1>2

(* Something threw, after the state of the record may have been changed,   *)
(* but neither whom it names nor what is known of it.                      *)
LEMMA NoteStep ==
  ASSUME IInv, NEW t, NEW then, NEW r, Caller(t, then, r), Raises(t), LateIsKept(t),
         UNCHANGED <<open, watch, group>>,
         svc' \in ServiceRecord, svc'.rec = svc.rec, svc'.restarted = svc.restarted,
         r => svc' = svc,
         NEW s \in Record, s.id = stored.id, s.known = stored.known, s.state # "running",
         stored' \in {stored, s}, disk' \in {disk, s}, ~r => stored' = stored /\ disk' = disk
  PROVE  IInv'
<1>1. t \in Thread /\ r \in BOOLEAN /\ TypeOK
  BY DEF Caller, IInv
<1>2. PICK q \in ThreadRecord : /\ thread' = [thread EXCEPT ![t] = q]
                                /\ q.at = "idle" /\ q.then = "idle" /\ ~q.reconciles
  BY <1>1, GoesTo DEF Raises, Ends, Point
<1>3. /\ thread'[t] = q /\ thread' \in [Thread -> ThreadRecord]
      /\ \A u \in Thread : u # t => thread'[u] = thread[u]
  BY <1>1, <1>2, Moves
<1>4. /\ t = "close" => ctl' = "stuck"
      /\ t # "close" /\ ctl = "boot" => ctl' = "down"
      /\ t # "close" /\ ctl # "boot" => ctl' = ctl
  BY DEF Raises, Caller
<1>5. TypeOK'
  BY <1>1, <1>3, <1>4 DEF TypeOK, LateIsKept, ThreadRecord, ServiceRecord, GroupsOK
<1>6. ServesAlone'
  <2> SUFFICES ASSUME NEW c \in Serving PROVE Recording(c)' /\ OnlyOne(c)'
    BY DEF ServesAlone, Serving, Live
  <2>1. Recording(c) /\ OnlyOne(c)
    BY DEF IInv, ServesAlone
  <2>2. Recording(c)'
    BY <2>1, <1>4 DEF Recording, Names, Caller
  <2>3. OnlyOne(c)'
    BY <2>1, <1>2, <1>3 DEF OnlyOne, Starting, Ending, Waiting
  <2> QED  BY <2>2, <2>3
<1>7. StartsFromIntent'
  BY <1>2, <1>3 DEF IInv, StartsFromIntent
<1>8. StartupIsAlone'
  BY <1>1, <1>2, <1>3, <1>4 DEF IInv, StartupIsAlone, Caller, At, Thread
<1>9. ThreadsAreOrdered'
  BY <1>1, <1>2, <1>3, <1>4 DEF IInv, ThreadsAreOrdered, Caller, At, Thread,
     Starting, Waiting, Ending
<1>10. StaysStopped'
  BY <1>1, <1>2, <1>3, <1>4 DEF IInv, StaysStopped, Caller, At, Thread, LateIsKept,
     Starting, Waiting
<1> QED  BY <1>5, <1>6, <1>7, <1>8, <1>9, <1>10 DEF IInv

(* A record whose state alone is noted names the process it named.         *)
LEMMA Noted ==
  ASSUME TypeOK, NEW state \in {"stopping", "uncertain"}
  PROVE  LET s == [stored EXCEPT !.state = state]
         IN  s \in Record /\ s.id = stored.id /\ s.known = stored.known /\ s.state = state
BY Types DEF Record

(* A record that cannot be told to be a backend of ours is left, and the   *)
(* controller raises.                                                      *)
LEMMA DoubtsStep ==
  ASSUME IInv, NEW t, NEW then, NEW r, Caller(t, then, r), Doubts(t, r), LateIsKept(t),
         UNCHANGED <<open, watch, group>>
  PROVE  IInv'
<1> DEFINE s == [stored EXCEPT !.state = "uncertain"]
<1>1. r \in BOOLEAN /\ TypeOK
  BY DEF Caller, IInv
<1>2. s \in Record /\ s.id = stored.id /\ s.known = stored.known /\ s.state # "running"
  BY <1>1, Noted
<1>3. /\ svc' \in ServiceRecord /\ svc'.rec = svc.rec /\ svc'.restarted = svc.restarted
      /\ r => svc' = svc
      /\ stored' \in {stored, s} /\ disk' \in {disk, s}
      /\ ~r => stored' = stored /\ disk' = disk
      /\ Raises(t)
  BY <1>1, Types DEF Doubts, Saved, Lost, ServiceRecord
<1> HIDE DEF s
<1> QED  BY <1>2, <1>3, NoteStep

(* A stop or a reconciliation that failed when nobody serves.              *)
LEMMA RaiseStep ==
  ASSUME IInv, NEW t, NEW then, NEW r, Caller(t, then, r), Serving = {},
         Raises(t), LateIsKept(t), UNCHANGED <<stored, open, watch, group>>,
         disk' \in Record, svc' \in ServiceRecord,
         svc'.restarted = svc.restarted, svc.stopping => svc'.stopping,
         svc' # svc => svc'.rec = NoRecord /\ NobodyStarts /\ ~r
  PROVE  IInv'
<1>1. t \in Thread /\ r \in BOOLEAN /\ TypeOK
  BY DEF Caller, IInv
<1>2. PICK q \in ThreadRecord : /\ thread' = [thread EXCEPT ![t] = q]
                                /\ q.at = "idle" /\ q.then = "idle" /\ ~q.reconciles
  BY <1>1, GoesTo DEF Raises, Ends, Point
<1>3. /\ thread'[t] = q /\ thread' \in [Thread -> ThreadRecord]
      /\ \A u \in Thread : u # t => thread'[u] = thread[u]
  BY <1>1, <1>2, Moves
<1>4. /\ t = "close" => ctl' = "stuck"
      /\ t # "close" /\ ctl = "boot" => ctl' = "down"
      /\ t # "close" /\ ctl # "boot" => ctl' = ctl
  BY DEF Raises, Caller
<1>5. TypeOK'
  BY <1>1, <1>3, <1>4 DEF TypeOK, LateIsKept, ThreadRecord, ServiceRecord, GroupsOK
<1>6. ServesAlone'
  BY DEF ServesAlone, Serving, Live
<1>7. StartsFromIntent'
  BY <1>2, <1>3 DEF IInv, StartsFromIntent, NobodyStarts, Starting
<1>8. StartupIsAlone'
  BY <1>1, <1>2, <1>3, <1>4 DEF IInv, StartupIsAlone, Caller, At, Thread
<1>9. ThreadsAreOrdered'
  BY <1>1, <1>2, <1>3, <1>4 DEF IInv, ThreadsAreOrdered, Caller, At, Thread,
     Starting, Waiting, Ending
<1>10. StaysStopped'
  BY <1>1, <1>2, <1>3, <1>4 DEF IInv, StaysStopped, Caller, At, Thread, LateIsKept,
     Starting, Waiting
<1> QED  BY <1>5, <1>6, <1>7, <1>8, <1>9, <1>10 DEF IInv

(* A thread goes on to what follows a stop or a reconciliation.            *)
LEMMA ContinuesTo ==
  ASSUME NEW t \in Thread, NEW then \in Then, NEW service, Continues(t, then, service)
  PROVE  \E q \in ThreadRecord :
           /\ thread' = [thread EXCEPT ![t] = q] /\ q.then = "idle" /\ ~q.reconciles
           /\ then = "new" => q.at = "port" /\ svc' = Fresh
           /\ then # "new" => q.at = then /\ svc' = service
<1>1. CASE then = "new"
  BY <1>1, GoesTo DEF Continues, StartsOver, Point
<1>2. CASE then # "new"
  BY <1>2, GoesTo DEF Continues, Point, Then
<1> QED  BY <1>1, <1>2

(* One that succeeded: nobody serves, and the caller goes on.              *)
LEMMA ContinueStep ==
  ASSUME IInv, NEW t, NEW then, NEW r, Caller(t, then, r), Serving = {},
         NEW service \in ServiceRecord, Continues(t, then, service), LateIsKept(t),
         UNCHANGED <<open, watch, group>>,
         stored' \in {stored, NoRecord}, disk' \in Record,
         ctl' = (IF ctl = "boot" THEN "up" ELSE ctl),
         service.restarted = svc.restarted,
         service # svc => service.rec = NoRecord /\ NobodyStarts,
         t = "close" => /\ service.rec = NoRecord
                        /\ ~late' => thread["restart"].at \notin Starting
  PROVE  IInv'
<1>1. t \in Thread /\ r \in BOOLEAN /\ TypeOK /\ then \in Then
  BY DEF Caller, IInv, Then, Thread
<1>2. PICK q \in ThreadRecord :
           /\ thread' = [thread EXCEPT ![t] = q] /\ q.then = "idle" /\ ~q.reconciles
           /\ then = "new" => q.at = "port" /\ svc' = Fresh
           /\ then # "new" => q.at = then /\ svc' = service
  BY <1>1, ContinuesTo
<1>3. /\ thread'[t] = q /\ thread' \in [Thread -> ThreadRecord]
      /\ \A u \in Thread : u # t => thread'[u] = thread[u]
  BY <1>1, <1>2, Moves
<1>4. /\ svc' \in ServiceRecord /\ ctl' # "boot" /\ ctl' # "down"
      /\ ctl # "boot" => ctl' = ctl
      /\ ctl = "boot" => t = "serve" /\ ctl' = "up"
  BY <1>1, <1>2, Sorts DEF Caller
<1>5. TypeOK'
  BY <1>1, <1>3, <1>4, Sorts DEF TypeOK, LateIsKept, ThreadRecord, ServiceRecord, GroupsOK
<1>6. ServesAlone'
  BY DEF ServesAlone, Serving, Live
<1>7. then = "new" => t = "serve" /\ At("restart", "idle") /\ At("close", "idle")
  BY <1>1 DEF Caller, Thread
<1>8. StartsFromIntent'
  <2>1. CASE then = "new"
    BY <2>1, <1>2, <1>3, <1>7, Sorts DEF StartsFromIntent, At, Thread
  <2>2. CASE then # "new"
    BY <2>2, <1>1, <1>2, <1>3 DEF IInv, StartsFromIntent, NobodyStarts, Starting, Then
  <2> QED  BY <2>1, <2>2
<1>9. StartupIsAlone'
  BY <1>4 DEF StartupIsAlone
<1>10. ThreadsAreOrdered'
  <2>1. CASE then = "new"
    BY <2>1, <1>1, <1>2, <1>3, <1>4, <1>7, Sorts DEF IInv, ThreadsAreOrdered, Caller, At, Thread,
       Starting, Waiting, Ending
  <2>2. CASE then # "new"
    BY <2>2, <1>1, <1>2, <1>3, <1>4, Sorts DEF IInv, ThreadsAreOrdered, Caller, At, Thread,
       Starting, Waiting, Ending
  <2> QED  BY <2>1, <2>2
<1>11. StaysStopped'
  <2>1. CASE t = "close"
    BY <2>1, <1>2, <1>3 DEF StaysStopped, Caller, Thread, At
  <2>2. CASE t = "serve"
    BY <2>2, <1>2, <1>3, <1>4 DEF StaysStopped, Caller, Thread, At
  <2>3. CASE t = "restart"
    BY <2>3, <1>2, <1>3, <1>4 DEF IInv, StaysStopped, Caller, Thread, At, LateIsKept, Starting
  <2> QED  BY <1>1, <2>1, <2>2, <2>3 DEF Thread
<1> QED  BY <1>5, <1>6, <1>8, <1>9, <1>10, <1>11 DEF IInv

(* A thread begins or goes on to wait for the exit of a group.             *)
LEMMA WaitStep ==
  ASSUME IInv, NEW t, NEW q \in ThreadRecord, Caller(t, q.then, q.reconciles),
         q.at \in Waiting, thread' = [thread EXCEPT ![t] = q], LateIsKept(t),
         \A c \in Serving : c = q.id, NobodyStarts,
         q.reconciles => svc' = svc /\ stored.state # "running",
         ~q.reconciles => \/ svc' = [svc EXCEPT !.stopping = TRUE]
                          \/ svc' = svc /\ (svc.stopping \/ svc.restarted),
         UNCHANGED <<ctl, stored, disk, open, watch, group>>
  PROVE  IInv'
<1>1. t \in Thread /\ TypeOK
  BY DEF Caller, IInv
<1>2. /\ thread'[t] = q /\ thread' \in [Thread -> ThreadRecord]
      /\ \A u \in Thread : u # t => thread'[u] = thread[u]
  BY <1>1, Moves
<1>3. /\ svc' \in ServiceRecord /\ svc'.rec = svc.rec /\ svc'.restarted = svc.restarted
      /\ svc.stopping => svc'.stopping
      /\ ~q.reconciles => svc'.stopping \/ svc'.restarted
      /\ q.reconciles => svc' = svc
  <2>1. svc \in ServiceRecord
    BY <1>1, Types
  <2>2. CASE svc' = svc /\ (q.reconciles \/ svc.stopping \/ svc.restarted)
    BY <2>1, <2>2
  <2>3. CASE svc' = [svc EXCEPT !.stopping = TRUE] /\ ~q.reconciles
    BY <2>1, <2>3 DEF ServiceRecord
  <2> QED  BY <2>2, <2>3
<1>4. TypeOK'
  BY <1>1, <1>2, <1>3 DEF TypeOK, LateIsKept, ThreadRecord, ServiceRecord, GroupsOK
<1>5. ServesAlone'
  <2> SUFFICES ASSUME NEW c \in Serving PROVE Recording(c)' /\ OnlyOne(c)'
    BY DEF ServesAlone, Serving, Live
  <2>1. Recording(c) /\ OnlyOne(c)
    BY DEF IInv, ServesAlone
  <2>2. Recording(c)'
    BY <2>1, <1>3 DEF Recording, Names
  <2>3. OnlyOne(c)'
    BY <2>1, <1>2 DEF OnlyOne, Starting, Ending, Waiting
  <2> QED  BY <2>2, <2>3
<1>6. StartsFromIntent'
  BY <1>2, <1>3 DEF IInv, StartsFromIntent, Waiting
<1>7. StartupIsAlone'
  BY <1>1, <1>2, <1>3 DEF IInv, StartupIsAlone, Caller, At, Thread, Ending, Waiting
<1>8. ThreadsAreOrdered'
  BY <1>1, <1>2, <1>3 DEF IInv, ThreadsAreOrdered, Caller, At, Thread,
     Starting, Waiting, Ending, NobodyStarts
<1>9. StaysStopped'
  BY <1>1, <1>2, <1>3 DEF IInv, StaysStopped, Caller, At, Thread, LateIsKept,
     Starting, Waiting
<1> QED  BY <1>4, <1>5, <1>6, <1>7, <1>8, <1>9 DEF IInv

(* The backend is gone, and the thread clears the record and goes on.      *)
LEMMA FinishesStep ==
  ASSUME IInv, NEW t, NEW then, NEW r, Caller(t, then, r), Finishes(t, then, r), LateIsKept(t),
         Serving = {}, NobodyStarts, UNCHANGED <<open, watch, group>>
  PROVE  IInv'
<1>1. t \in Thread /\ r \in BOOLEAN /\ svc \in ServiceRecord /\ stored \in Record /\ disk \in Record
      /\ (t = "close" => thread["restart"].at \notin Starting)
  BY Types DEF Caller, IInv, NobodyStarts, Thread
<1>2. CASE r /\ Reconciled(t, then)
  <2>1. t # "close"
    BY <1>2 DEF Caller
  <2>2. CASE Saved(NoRecord) /\ Serves(t, then)
    BY <2>1, <2>2, <1>1, ContinueStep, Sorts DEF Saved, Serves
  <2>3. CASE Lost(NoRecord) /\ Raises(t) /\ UNCHANGED svc
    BY <2>3, <1>1, RaiseStep, Sorts DEF Lost
  <2> QED  BY <1>2, <2>2, <2>3 DEF Reconciled
<1>3. CASE ~r /\ Clears(t, then)
  <2> DEFINE cleared == [svc EXCEPT !.rec = NoRecord, !.kid = None]
             done    == [cleared EXCEPT !.stopping = FALSE]
             failed  == [cleared EXCEPT !.stopping = TRUE]
  <2>1. /\ done \in ServiceRecord /\ failed \in ServiceRecord
        /\ done.rec = NoRecord /\ failed.rec = NoRecord
        /\ done.restarted = svc.restarted /\ failed.restarted = svc.restarted /\ failed.stopping
    BY <1>1, Sorts DEF ServiceRecord
  <2>2. \/ Saved(NoRecord) /\ ctl' = ctl /\ Continues(t, then, done)
        \/ Lost(NoRecord) /\ Raises(t) /\ svc' = failed
    BY <1>3 DEF Clears
  <2> HIDE DEF done, failed
  <2>3. CASE Saved(NoRecord) /\ ctl' = ctl /\ Continues(t, then, done)
    <3>1. ctl # "boot"
      BY <1>3 DEF Caller
    <3> QED  BY <2>1, <2>3, <3>1, <1>1, ContinueStep, Sorts DEF Saved
  <2>4. CASE Lost(NoRecord) /\ Raises(t) /\ svc' = failed
    BY <2>1, <2>4, <1>1, <1>3, RaiseStep, Sorts DEF Lost
  <2> QED  BY <2>2, <2>3, <2>4
<1>4. CASE ~r /\ Doubts(t, FALSE)
  BY <1>4, <1>1, DoubtsStep
<1> QED  BY <1>2, <1>3, <1>4 DEF Finishes

(* A backend is asked to end, by the one thread that may.                  *)
LEMMA TerminatesStep ==
  ASSUME IInv, NEW t, NEW then, NEW r, Caller(t, then, r), LateIsKept(t),
         NEW id \in Child \cup {None}, NEW known \in BOOLEAN, Terminates(t, id, known, then, r),
         known => NobodyStarts /\ \A c \in Serving : c = id,
         r => stored.state # "running",
         UNCHANGED <<open, watch, group>>
  PROVE  IInv'
<1>1. CASE known /\ GroupIsGone(id) /\ Finishes(t, then, r)
  <2>1. Serving = {}
    BY <1>1 DEF Serving, Live, GroupIsGone
  <2> QED  BY <2>1, <1>1, FinishesStep
<1>2. CASE /\ known
           /\ thread' = [thread EXCEPT ![t] = [at |-> "term", id |-> id, then |-> then,
                                               reconciles |-> r]]
           /\ svc' = IF r THEN svc ELSE [svc EXCEPT !.stopping = TRUE]
           /\ UNCHANGED <<ctl, stored, disk>>
  <2> DEFINE q == [at |-> "term", id |-> id, then |-> then, reconciles |-> r]
  <2>1. /\ q \in ThreadRecord /\ q.at \in Waiting /\ q.then = then /\ q.reconciles = r /\ q.id = id
    BY DEF Caller, ThreadRecord, Point, Then, Waiting, Thread
  <2>2. thread' = [thread EXCEPT ![t] = q] /\ r \in BOOLEAN
    BY <1>2 DEF Caller
  <2> HIDE DEF q
  <2> QED  BY <2>1, <2>2, <1>2, WaitStep
<1>3. CASE Doubts(t, r)
  BY <1>3, DoubtsStep
<1> QED  BY <1>1, <1>2, <1>3 DEF Terminates

(* A backend that serves is the one that the service object names, and     *)
(* nobody starts another beside it.                                        *)
LEMMA ServiceNames ==
  ASSUME IInv, ctl \notin {"down", "boot"}, None \notin Child
  PROVE  /\ \A c \in Serving : c = svc.rec.id /\ svc.rec # NoRecord
         /\ svc.rec.known => NobodyStarts
<1>1. \A c \in Serving : svc.rec = Runs(c)
  BY DEF IInv, ServesAlone, Recording
<1>2. \A c \in Serving : c = svc.rec.id /\ svc.rec # NoRecord
  <2> SUFFICES ASSUME NEW c \in Serving PROVE c = svc.rec.id /\ svc.rec # NoRecord
    OBVIOUS
  <2>1. c \in Child /\ svc.rec = Runs(c)
    BY <1>1 DEF Serving, IInv, TypeOK
  <2> QED  BY <2>1, Sorts
<1>3. ASSUME svc.rec.known PROVE NobodyStarts
  BY <1>3, Sorts DEF IInv, StartsFromIntent, NobodyStarts, Starting
<1> QED  BY <1>2, <1>3

(* A stop ends the backend of the service object, or finds none.           *)
LEMMA StopsStep ==
  ASSUME IInv, NEW t, NEW then, Caller(t, then, FALSE), Stops(t, then), None \notin Child,
         IF t = "close" THEN late' = At("restart", "port") ELSE late' = late,
         UNCHANGED <<open, watch, group>>
  PROVE  IInv'
<1> DEFINE r == FALSE
<1>0. ~r /\ Caller(t, then, r)
  OBVIOUS
<1>1. ctl \notin {"down", "boot"}
  BY DEF Caller
<1>2. LateIsKept(t)
  BY DEF LateIsKept, IInv, TypeOK, At
<1>3. CASE svc.rec = NoRecord
  <2>1. Serving = {}
    BY <1>1, <1>3, ServiceNames
  <2>2. Continues(t, then, svc) /\ UNCHANGED <<ctl, stored, disk>>
    BY <1>3 DEF Stops
  <2>3. t = "close" /\ ~late' => thread["restart"].at \notin Starting
    BY <1>3, Sorts DEF IInv, StartsFromIntent, Starting, At, Thread
  <2> QED  BY <2>1, <2>2, <2>3, <1>1, <1>2, <1>3, ContinueStep, Types DEF IInv
<1>4. CASE svc.rec # NoRecord
  <2>1. Terminates(t, svc.rec.id, svc.rec.known, then, r)
    BY <1>4 DEF Stops
  <2>2. svc.rec.id \in Child \cup {None} /\ svc.rec.known \in BOOLEAN
    BY Types DEF IInv, Record
  <2>3. svc.rec.known => NobodyStarts /\ \A c \in Serving : c = svc.rec.id
    BY <1>1, ServiceNames
  <2> HIDE DEF r
  <2> QED  BY <2>1, <2>2, <2>3, <1>0, <1>2, TerminatesStep
<1> QED  BY <1>3, <1>4

(* The reconciliation starts by marking the record as being stopped.       *)
LEMMA CheckStep ==
  ASSUME IInv, NEW then, Caller("serve", then, TRUE), late' = late,
         NEW s \in Record, s.id = stored.id, s.known = stored.known, s.state # "running",
         Saved(s), ctl' = ctl, UNCHANGED <<svc, open, watch, group>>,
         thread' = [thread EXCEPT !["serve"] =
                      [at |-> "check", id |-> stored.id, then |-> then, reconciles |-> TRUE]]
  PROVE  IInv'
<1> DEFINE q == [at |-> "check", id |-> stored.id, then |-> then, reconciles |-> TRUE]
<1>1. TypeOK
  BY DEF IInv
<1>2. /\ q \in ThreadRecord /\ q.at = "check" /\ q.id = stored.id /\ q.then = then /\ q.reconciles
      /\ then \in {"new", "idle"}
  BY <1>1, Types DEF Caller, ThreadRecord, Point, Then, Record
<1>3. thread' = [thread EXCEPT !["serve"] = q] /\ "serve" \in Thread
  BY DEF Thread
<1> HIDE DEF q
<1>4. /\ thread'["serve"] = q /\ thread' \in [Thread -> ThreadRecord]
      /\ \A u \in Thread : u # "serve" => thread'[u] = thread[u]
  BY <1>1, <1>2, <1>3, Moves
<1>5. stored' = s /\ disk' = s
  BY DEF Saved
<1>6. TypeOK'
  BY <1>1, <1>4, <1>5 DEF TypeOK, ThreadRecord, GroupsOK
<1>7. ServesAlone'
  <2> SUFFICES ASSUME NEW c \in Serving PROVE Recording(c)' /\ OnlyOne(c)'
    BY DEF ServesAlone, Serving, Live
  <2>1. Recording(c) /\ OnlyOne(c) /\ ctl # "down"
    BY DEF IInv, ServesAlone, Caller
  <2>2. Recording(c)'
    BY <2>1, <1>5 DEF Recording, Names
  <2>3. OnlyOne(c)'
    BY <2>1, <1>2, <1>4 DEF OnlyOne, Starting, Ending, Waiting, Recording, Names
  <2> QED  BY <2>2, <2>3
<1>8. StartsFromIntent'
  BY <1>2, <1>4 DEF IInv, StartsFromIntent
<1>9. StartupIsAlone'
  BY <1>2, <1>4 DEF IInv, StartupIsAlone, Caller, At, Thread, Ending
<1>10. ThreadsAreOrdered'
  BY <1>1, <1>2, <1>4, <1>5 DEF IInv, ThreadsAreOrdered, Caller, At, Thread,
     Starting, Waiting, Ending
<1>11. StaysStopped'
  BY <1>2, <1>4 DEF IInv, StaysStopped, Caller, At, Thread, Starting
<1> QED  BY <1>6, <1>7, <1>8, <1>9, <1>10, <1>11 DEF IInv

(* Whoever reconciles does so beside no other thread.                      *)
LEMMA ReconcilesAlone ==
  ASSUME IInv, NEW t, NEW then, Caller(t, then, TRUE)
  PROVE  /\ t = "serve" /\ NobodyStarts
         /\ \A c \in Serving : c = stored.id /\ stored.known
BY DEF Caller, NobodyStarts, IInv, ThreadsAreOrdered, At, Thread, Starting, Waiting, ServesAlone,
       Recording, Names

(* A reconciliation looks at the record that an earlier controller left.   *)
LEMMA ReconcilesStep ==
  ASSUME IInv, NEW then, Caller("serve", then, TRUE), Reconciles("serve", then), late' = late,
         UNCHANGED <<open, watch, group>>
  PROVE  IInv'
<1> DEFINE r == TRUE
<1>0. r /\ Caller("serve", then, r)
  OBVIOUS
<1>1. TypeOK /\ stored \in Record /\ disk \in Record /\ svc \in ServiceRecord
  BY Types DEF IInv
<1>2. LateIsKept("serve")
  BY <1>1 DEF LateIsKept, TypeOK
<1>3. NobodyStarts /\ \A c \in Serving : c = stored.id /\ stored.known
  BY ReconcilesAlone
<1> HIDE DEF r
<1>4. CASE stored = NoRecord /\ Serves("serve", then) /\ UNCHANGED <<stored, disk>>
  <2>1. Serving = {}
    BY <1>3, <1>4, Sorts
  <2> QED  BY <2>1, <1>0, <1>1, <1>2, <1>4, ContinueStep DEF Serves
<1>5. CASE stored = Intent /\ Reconciled("serve", then)
  <2>1. Serving = {}
    BY <1>3, <1>5, Sorts
  <2>2. Finishes("serve", then, r)
    BY <1>0, <1>5 DEF Finishes
  <2> QED  BY <2>1, <2>2, <1>0, <1>2, <1>3, FinishesStep
<1> DEFINE s == [stored EXCEPT !.state = "stopping"]
<1>6. s \in Record /\ s.id = stored.id /\ s.known = stored.known /\ s.state # "running"
  BY <1>1, Noted
<1>7. CASE /\ Saved(s) /\ ctl' = ctl /\ UNCHANGED svc
           /\ thread' = [thread EXCEPT !["serve"] =
                [at |-> "check", id |-> stored.id, then |-> then, reconciles |-> TRUE]]
  <2> HIDE DEF s
  <2> QED  BY <1>6, <1>7, CheckStep
<1>8. CASE Lost(s) /\ Raises("serve") /\ UNCHANGED svc
  <2> HIDE DEF s
  <2>1. stored' = stored /\ disk' \in {disk, s}
    BY <1>8 DEF Lost
  <2> QED  BY <2>1, <1>0, <1>1, <1>2, <1>6, <1>8, NoteStep
<1> QED  BY <1>4, <1>5, <1>7, <1>8 DEF Reconciles

-----------------------------------------------------------------------------
(* Who waits for a group does so for whoever called, and alone.            *)
LEMMA WaitsAlone ==
  ASSUME IInv, NEW t \in Thread, thread[t].at \in Waiting
  PROVE  /\ Caller(t, thread[t].then, thread[t].reconciles)
         /\ NobodyStarts /\ \A c \in Serving : c = thread[t].id
         /\ thread[t].reconciles => stored.state # "running"
         /\ ~thread[t].reconciles => svc.stopping \/ svc.restarted
<1>1. thread[t] \in ThreadRecord
  BY Types DEF IInv
<1>2. thread[t].then \in {"idle", "new", "listener"} /\ thread[t].reconciles \in BOOLEAN
  BY <1>1 DEF ThreadRecord, Then
<1>3. Caller(t, thread[t].then, thread[t].reconciles)
  BY <1>2 DEF Caller, IInv, ThreadsAreOrdered, StartupIsAlone, At, Thread, Starting, Waiting, Ending
<1>4. NobodyStarts
  BY DEF NobodyStarts, IInv, ThreadsAreOrdered, Thread, Starting, Waiting, Ending
<1>5. \A c \in Serving : c = thread[t].id
  BY DEF IInv, ServesAlone, OnlyOne, Ending
<1>6. /\ thread[t].reconciles => stored.state # "running"
      /\ ~thread[t].reconciles => svc.stopping \/ svc.restarted
  BY DEF IInv, ThreadsAreOrdered, Thread, Waiting, Ending
<1> QED  BY <1>3, <1>4, <1>5, <1>6

(* The identity of the recorded process was looked at.                     *)
LEMMA CheckActStep ==
  ASSUME IInv, NEW t \in Thread, Check(t)
  PROVE  IInv'
<1> DEFINE r == TRUE
<1>0. r
  OBVIOUS
<1>1. TypeOK /\ stored \in Record /\ thread[t] \in ThreadRecord
  BY Types DEF IInv
<1>2. /\ t = "serve" /\ thread[t].then \in {"new", "idle"}
      /\ thread[t].reconciles /\ thread[t].at = "check"
  BY <1>1 DEF Check, At, IInv, ThreadsAreOrdered, Thread, Waiting, ThreadRecord, Then
<1>3. Caller(t, thread[t].then, r)
  BY <1>0, <1>2 DEF Caller, IInv, ThreadsAreOrdered, StartupIsAlone, At, Thread, Starting, Ending
<1>4. NobodyStarts /\ (\A c \in Serving : c = stored.id)
  BY <1>3, ReconcilesAlone
<1>5. stored.state # "running"
  BY <1>2 DEF IInv, ThreadsAreOrdered, Ending
<1>6. LateIsKept(t) /\ stored.id \in Child \cup {None} /\ stored.known \in BOOLEAN
  BY <1>1 DEF Check, LateIsKept, TypeOK, Record
<1>7. Terminates(t, stored.id, stored.known, thread[t].then, r) /\ UNCHANGED <<open, watch, group>>
  BY DEF Check
<1> HIDE DEF r
<1> QED  BY <1>3, <1>4, <1>5, <1>6, <1>7, TerminatesStep

(* After SIGTERM the group is gone, SIGKILL follows, or the controller     *)
(* raises.                                                                 *)
LEMMA TermStep ==
  ASSUME IInv, NEW t \in Thread, Term(t)
  PROVE  IInv'
<1> DEFINE me == thread[t]
<1>1. /\ Caller(t, me.then, me.reconciles) /\ NobodyStarts
      /\ \A c \in Serving : c = me.id
      /\ me.reconciles => stored.state # "running"
      /\ ~me.reconciles => svc.stopping \/ svc.restarted
  BY WaitsAlone DEF Term, At, Waiting
<1>2. TypeOK /\ me \in ThreadRecord /\ LateIsKept(t)
  BY Types DEF IInv, Term, LateIsKept, TypeOK
<1>3. UNCHANGED <<open, watch, group>>
  BY DEF Term
<1>4. CASE GroupIsGone(me.id) /\ Finishes(t, me.then, me.reconciles)
  <2>1. Serving = {}
    BY <1>1, <1>4 DEF Serving, Live, GroupIsGone
  <2> HIDE DEF me
  <2> QED  BY <2>1, <1>1, <1>2, <1>3, <1>4, FinishesStep
<1>5. CASE thread' = [thread EXCEPT ![t].at = "kill"] /\ UNCHANGED <<ctl, svc, stored, disk>>
  <2> DEFINE q == [me EXCEPT !.at = "kill"]
  <2>1. /\ q \in ThreadRecord /\ q.at = "kill" /\ q.id = me.id /\ q.then = me.then
        /\ q.reconciles = me.reconciles
    BY <1>2 DEF ThreadRecord, Point
  <2>2. thread' = [thread EXCEPT ![t] = q]
    BY <1>5
  <2> HIDE DEF me, q
  <2> QED  BY <2>1, <2>2, <1>1, <1>2, <1>3, <1>5, WaitStep DEF Waiting
<1>6. CASE Doubts(t, me.reconciles)
  <2> HIDE DEF me
  <2> QED  BY <1>1, <1>2, <1>3, <1>6, DoubtsStep
<1> QED  BY <1>4, <1>5, <1>6 DEF Term

(* After SIGKILL the group is gone, or the controller raises.              *)
LEMMA KillStep ==
  ASSUME IInv, NEW t \in Thread, Kill(t)
  PROVE  IInv'
<1> DEFINE me == thread[t]
<1>1. /\ Caller(t, me.then, me.reconciles) /\ NobodyStarts
      /\ \A c \in Serving : c = me.id
  BY WaitsAlone DEF Kill, At, Waiting
<1>2. LateIsKept(t)
  BY DEF IInv, Kill, LateIsKept, TypeOK
<1>3. UNCHANGED <<open, watch, group>>
  BY DEF Kill
<1>4. CASE GroupIsGone(me.id) /\ Finishes(t, me.then, me.reconciles)
  <2>1. Serving = {}
    BY <1>1, <1>4 DEF Serving, Live, GroupIsGone
  <2> HIDE DEF me
  <2> QED  BY <2>1, <1>1, <1>2, <1>3, <1>4, FinishesStep
<1>5. CASE Doubts(t, me.reconciles)
  <2> HIDE DEF me
  <2> QED  BY <1>1, <1>2, <1>3, <1>5, DoubtsStep
<1> QED  BY <1>4, <1>5 DEF Kill

-----------------------------------------------------------------------------
(* Nobody serves while a thread starts a backend, and no other one starts, *)
(* stops or reconciles; the start is never called once the controller is   *)
(* down, and a service stopped for the close stays so.                     *)
LEMMA StartsAlone ==
  ASSUME IInv, NEW t \in Thread, thread[t].at \in Starting
  PROVE  /\ Serving = {} /\ t # "close" /\ ctl \notin {"down", "boot"}
         /\ At("serve", "health") \/ At("serve", "idle") \/ t = "serve"
         /\ At("restart", "idle") \/ t = "restart"
         /\ thread["close"].at \in {"idle", "listener"}
         /\ t = "serve" => ctl # "released" /\ At("close", "idle")
         /\ t = "restart" => svc.restarted
         /\ (At("close", "listener") \/ ctl = "released") => late
<1>1. Serving = {}
  BY DEF IInv, ServesAlone, OnlyOne
<1>2. t # "close" /\ ctl \notin {"down", "boot"}
  BY DEF IInv, ThreadsAreOrdered, StartupIsAlone, Starting, Ending, Waiting, Thread, At
<1>3. /\ At("serve", "health") \/ At("serve", "idle") \/ t = "serve"
      /\ At("restart", "idle") \/ t = "restart"
      /\ thread["close"].at \in {"idle", "listener"}
      /\ t = "serve" => ctl # "released" /\ At("close", "idle")
      /\ t = "restart" => svc.restarted
  BY <1>2 DEF IInv, ThreadsAreOrdered, Starting, Ending, Waiting, Thread, At
<1>4. (At("close", "listener") \/ ctl = "released") => late
  BY <1>2, <1>3 DEF IInv, StaysStopped, Thread, At
<1> QED  BY <1>1, <1>2, <1>3, <1>4

(* One step of such a start, after which still nobody serves unless it is  *)
(* the backend that has just been recorded.                                *)
LEMMA StartStep ==
  ASSUME IInv, NEW t \in Thread, thread[t].at \in Starting,
         NEW q \in ThreadRecord, thread' = [thread EXCEPT ![t] = q],
         q.at \in Starting \cup {"idle", "health"}, q.then = "idle", ~q.reconciles,
         q.at # "port", q.at \in {"spawn", "spawned"} => svc'.rec = Intent,
         q.at = "spawned" => q.id \in Child,
         svc' \in ServiceRecord, svc'.restarted = svc.restarted,
         stored' \in Record, disk' \in Record, ctl' = ctl, late' = late,
         open' \subseteq Child, watch' \subseteq Child, group' \in [Child -> GroupState],
         \A c \in open' : Live(c)' => q.at = "health" /\ Recording(c)'
  PROVE  IInv'
<1>1. TypeOK
  BY DEF IInv
<1>2. /\ thread'[t] = q /\ thread' \in [Thread -> ThreadRecord]
      /\ \A u \in Thread : u # t => thread'[u] = thread[u]
  BY <1>1, Moves
<1>3. /\ t # "close" /\ ctl \notin {"down", "boot"}
      /\ thread["serve"].at \in {"health", "idle"} \/ t = "serve"
      /\ thread["restart"].at = "idle" \/ t = "restart"
      /\ thread["close"].at \in {"idle", "listener"}
      /\ t = "serve" => ctl # "released" /\ thread["close"].at = "idle"
      /\ t = "restart" => svc.restarted
      /\ (thread["close"].at = "listener" \/ ctl = "released") => late
  BY StartsAlone DEF At
<1>4. TypeOK'
  BY <1>1, <1>2 DEF TypeOK, ThreadRecord, ServiceRecord, GroupsOK
<1>5. ServesAlone'
  <2> SUFFICES ASSUME NEW c \in open', Live(c)' PROVE Recording(c)' /\ OnlyOne(c)'
    BY DEF ServesAlone, Serving
  <2>1. Recording(c)' /\ q.at = "health"
    OBVIOUS
  <2>2. OnlyOne(c)'
    BY <2>1, <1>2, <1>3 DEF OnlyOne, Starting, Ending, Waiting, Thread
  <2> QED  BY <2>1, <2>2
<1>6. StartsFromIntent'
  BY <1>2, <1>3 DEF StartsFromIntent, Thread
<1>7. StartupIsAlone'
  BY <1>3 DEF StartupIsAlone
<1>8. ThreadsAreOrdered'
  BY <1>1, <1>2, <1>3 DEF IInv, ThreadsAreOrdered, At, Thread, Starting, Waiting, Ending
<1>9. StaysStopped'
  BY <1>2, <1>3 DEF StaysStopped, At, Thread
<1> QED  BY <1>4, <1>5, <1>6, <1>7, <1>8, <1>9 DEF IInv

(* The intent is persisted before the process is spawned.                  *)
LEMMA PersistStep ==
  ASSUME IInv, NEW t \in Thread, PersistIntent(t)
  PROVE  IInv'
<1>1. TypeOK /\ svc \in ServiceRecord /\ stored \in Record /\ disk \in Record
  BY Types DEF IInv
<1>2. thread[t].at \in Starting /\ Serving = {}
  BY StartsAlone DEF PersistIntent, At, Starting
<1>3. svc' \in ServiceRecord /\ svc'.rec = Intent /\ svc'.restarted = svc.restarted
  BY <1>1, Sorts DEF PersistIntent, ServiceRecord
<1>4. stored' \in Record /\ disk' \in Record
  BY <1>1, Sorts DEF PersistIntent, Saved, Lost
<1>5. Goes(t, "spawn") \/ Goes(t, "idle")
  BY DEF PersistIntent, Ends
<1>6. PICK q \in ThreadRecord : /\ thread' = [thread EXCEPT ![t] = q] /\ q.then = "idle"
                                /\ ~q.reconciles /\ q.at \in {"spawn", "idle"}
  BY <1>5, GoesTo DEF Point
<1>7. UNCHANGED <<ctl, open, watch, late, group>>
  BY DEF PersistIntent
<1>8. \A c \in open' : ~Live(c)'
  BY <1>2, <1>7 DEF Serving, Live
<1>9. open' \subseteq Child /\ watch' \subseteq Child /\ group' \in [Child -> GroupState]
  BY <1>1, <1>7 DEF TypeOK, GroupsOK
<1> QED  BY <1>2, <1>3, <1>4, <1>6, <1>7, <1>8, <1>9, StartStep DEF Starting

(* A backend is spawned where only an intent is recorded.                  *)
LEMMA SpawnStep ==
  ASSUME IInv, NEW t \in Thread, Spawn(t)
  PROVE  IInv'
<1>1. /\ TypeOK /\ svc \in ServiceRecord /\ stored \in Record /\ disk \in Record
      /\ open \subseteq Child /\ watch \subseteq Child /\ group \in [Child -> GroupState]
  BY Types DEF IInv, TypeOK, GroupsOK
<1>2. thread[t].at \in Starting /\ Serving = {} /\ svc.rec = Intent
  BY StartsAlone DEF Spawn, At, Starting, IInv, StartsFromIntent
<1>3. ctl' = ctl /\ late' = late
  BY DEF Spawn
<1>4. CASE \E c \in FreshChild :
             /\ Becomes(c, "led")
             /\ svc' = [svc EXCEPT !.kid = c]
             /\ open' = open \ {c} /\ watch' = watch \ {c}
             /\ thread' = [thread EXCEPT ![t] = [Idle EXCEPT !.at = "spawned", !.id = c]]
             /\ UNCHANGED <<stored, disk>>
  <2> PICK c \in Child : /\ group' = [group EXCEPT ![c] = "led"]
                         /\ svc' = [svc EXCEPT !.kid = c]
                         /\ open' = open \ {c} /\ watch' = watch \ {c}
                         /\ thread' =
                              [thread EXCEPT ![t] = [Idle EXCEPT !.at = "spawned", !.id = c]]
                         /\ UNCHANGED <<stored, disk>>
    BY <1>4 DEF FreshChild, Becomes
  <2> DEFINE q == [Idle EXCEPT !.at = "spawned", !.id = c]
  <2>1. /\ q \in ThreadRecord /\ q.at = "spawned" /\ q.id = c /\ q.then = "idle" /\ ~q.reconciles
    BY DEF Idle, ThreadRecord, Point, Then
  <2>2. thread' = [thread EXCEPT ![t] = q]
    OBVIOUS
  <2>3. svc' \in ServiceRecord /\ svc'.rec = Intent /\ svc'.restarted = svc.restarted
    BY <1>1, <1>2 DEF ServiceRecord
  <2>4. /\ open' \subseteq Child /\ watch' \subseteq Child /\ group' \in [Child -> GroupState]
        /\ \A d \in open' : ~Live(d)'
    BY <1>1, <1>2 DEF GroupState, Serving, Live
  <2> HIDE DEF q
  <2> QED  BY <1>1, <1>2, <1>3, <2>1, <2>2, <2>3, <2>4, StartStep DEF Starting
<1>5. CASE /\ svc' = [svc EXCEPT !.rec = NoRecord]
           /\ Saved(NoRecord) \/ Lost(NoRecord)
           /\ Ends(t) /\ UNCHANGED <<open, watch, group>>
  <2>1. PICK q \in ThreadRecord : /\ thread' = [thread EXCEPT ![t] = q]
                                  /\ q.at = "idle" /\ q.then = "idle" /\ ~q.reconciles
    BY <1>5, GoesTo DEF Ends, Point
  <2>2. svc' \in ServiceRecord /\ svc'.restarted = svc.restarted
    BY <1>1, <1>5, Sorts DEF ServiceRecord
  <2>3. stored' \in Record /\ disk' \in Record
    BY <1>1, <1>5, Sorts DEF Saved, Lost
  <2>4. \A c \in open' : ~Live(c)'
    BY <1>2, <1>5 DEF Serving, Live
  <2> QED  BY <1>1, <1>2, <1>3, <1>5, <2>1, <2>2, <2>3, <2>4, StartStep
<1> QED  BY <1>4, <1>5 DEF Spawn

(* The gate of the backend that was spawned is opened only once its record *)
(* is durable.                                                             *)
LEMMA SpawnedStep ==
  ASSUME IInv, NEW t \in Thread, Spawned(t)
  PROVE  IInv'
<1> DEFINE c == thread[t].id
<1>1. /\ TypeOK /\ svc \in ServiceRecord /\ stored \in Record /\ disk \in Record
      /\ open \subseteq Child /\ watch \subseteq Child /\ group \in [Child -> GroupState]
  BY Types DEF IInv, TypeOK, GroupsOK
<1>2. /\ thread[t].at \in Starting /\ Serving = {} /\ c \in Child
  BY StartsAlone DEF Spawned, At, Starting, IInv, StartsFromIntent
<1>3. ctl' = ctl /\ late' = late /\ group' = group
  BY DEF Spawned
<1>4. /\ Runs(c) \in Record /\ Nameless(c) \in Record
      /\ Runs(c).id = c /\ Runs(c).known
  BY <1>2, Sorts
<1>5. CASE Goes(t, "health") /\ Saved(Runs(c)) /\ svc' = [svc EXCEPT !.rec = Runs(c)]
           /\ open' = open \cup {c} /\ watch' = watch \cup {c}
  <2>1. PICK q \in ThreadRecord : /\ thread' = [thread EXCEPT ![t] = q]
                                  /\ q.at = "health" /\ q.then = "idle" /\ ~q.reconciles
    BY <1>5, GoesTo DEF Point
  <2>2. svc' \in ServiceRecord /\ svc'.rec = Runs(c) /\ svc'.restarted = svc.restarted
    BY <1>1, <1>4, <1>5 DEF ServiceRecord
  <2>3. stored' = Runs(c) /\ disk' = Runs(c)
    BY <1>5 DEF Saved
  <2>4. ASSUME NEW d \in open', Live(d)' PROVE Recording(d)'
    <3>1. d = c
      BY <2>4, <1>2, <1>3, <1>5 DEF Serving, Live
    <3> QED  BY <3>1, <2>2, <2>3, <1>4 DEF Recording, Names
  <2>5. /\ open' \subseteq Child /\ watch' \subseteq Child /\ group' \in [Child -> GroupState]
    BY <1>1, <1>2, <1>3, <1>5
  <2> HIDE DEF c
  <2> QED  BY <1>2, <1>3, <1>4, <2>1, <2>2, <2>3, <2>4, <2>5, StartStep DEF Starting
<1>6. CASE /\ Ends(t) /\ UNCHANGED <<open, watch>>
           /\ \E rec \in {Runs(c), Nameless(c)} :
                /\ stored' \in {stored, rec} /\ disk' \in {disk, rec}
                /\ \/ svc' = [svc EXCEPT !.rec = rec]
                   \/ svc' = [svc EXCEPT !.rec = rec, !.stopping = FALSE]
  <2>1. PICK q \in ThreadRecord : /\ thread' = [thread EXCEPT ![t] = q]
                                  /\ q.at = "idle" /\ q.then = "idle" /\ ~q.reconciles
    BY <1>6, GoesTo DEF Ends, Point
  <2>2. PICK rec \in Record :
           /\ stored' \in {stored, rec} /\ disk' \in {disk, rec}
           /\ svc' = [svc EXCEPT !.rec = rec] \/ svc' = [svc EXCEPT !.rec = rec, !.stopping = FALSE]
    BY <1>4, <1>6
  <2>3. svc' \in ServiceRecord /\ svc'.restarted = svc.restarted
    BY <1>1, <2>2 DEF ServiceRecord
  <2>4. stored' \in Record /\ disk' \in Record
    BY <1>1, <2>2
  <2>5. \A d \in open' : ~Live(d)'
    BY <1>2, <1>3, <1>6 DEF Serving, Live
  <2> HIDE DEF c
  <2> QED  BY <1>1, <1>2, <1>3, <1>6, <2>1, <2>3, <2>4, <2>5, StartStep
<1>7. CASE /\ svc' = [svc EXCEPT !.rec = Runs(c)] /\ Recorded(t, Runs(c))
           /\ LET opened == IF thread'[t].at = "health" THEN {c} ELSE {}
              IN  open' = open \cup opened /\ watch' = watch \cup opened
  <2>1. CASE Saved(Runs(c)) /\ Goes(t, "health")
    <3>1. thread'[t].at = "health"
      <4>1. PICK q \in ThreadRecord : thread' = [thread EXCEPT ![t] = q] /\ q.at = "health"
        BY <2>1, GoesTo DEF Point
      <4> QED  BY <4>1, <1>1, Moves
    <3> QED  BY <2>1, <3>1, <1>5, <1>7
  <2>2. CASE stored' \in {stored, Runs(c)} /\ disk' \in {disk, Runs(c)} /\ Ends(t)
    <3>1. thread'[t].at # "health"
      <4>1. PICK q \in ThreadRecord : thread' = [thread EXCEPT ![t] = q] /\ q.at = "idle"
        BY <2>2, GoesTo DEF Point, Ends
      <4> QED  BY <4>1, <1>1, Moves
    <3>2. open' = open /\ watch' = watch
      BY <3>1, <1>7
    <3> QED  BY <2>2, <3>2, <1>6, <1>7
  <2> QED  BY <2>1, <2>2, <1>7 DEF Recorded
<1>8. CASE Unnamed(t, Nameless(c)) /\ UNCHANGED <<open, watch>>
  BY <1>6, <1>8 DEF Unnamed
<1> QED  BY <1>7, <1>8 DEF Spawned

(* The poll of a new backend ends, or has it stopped.                      *)
LEMMA HealthStep ==
  ASSUME IInv, NEW t \in Thread, Health(t), None \notin Child
  PROVE  IInv'
<1>1. /\ TypeOK /\ svc \in ServiceRecord /\ stored \in Record /\ disk \in Record
  BY Types DEF IInv
<1>2. Caller(t, "idle", FALSE)
  BY DEF Health, At, Caller, IInv, ThreadsAreOrdered, StartupIsAlone, Thread, Starting, Waiting,
         Ending
<1>3. CASE Ends(t) /\ UNCHANGED <<ctl, stored, disk, svc>>
  <2>1. PICK q \in ThreadRecord : /\ thread' = [thread EXCEPT ![t] = q]
                                  /\ q.at = "idle" /\ q.then = "idle" /\ ~q.reconciles
    BY <1>3, GoesTo DEF Ends, Point
  <2>2. /\ thread'[t] = q /\ thread' \in [Thread -> ThreadRecord]
        /\ \A u \in Thread : u # t => thread'[u] = thread[u]
    BY <1>1, <2>1, Moves
  <2>3. TypeOK'
    BY <1>1, <1>3, <2>2 DEF TypeOK, ThreadRecord, GroupsOK, Health
  <2>4. ServesAlone'
    BY <1>3, <2>1, <2>2 DEF IInv, ServesAlone, Serving, Live, Recording, OnlyOne, Names, Health,
       Starting, Ending, Waiting
  <2>5. StartsFromIntent'
    BY <1>3, <2>1, <2>2 DEF IInv, StartsFromIntent
  <2>6. StartupIsAlone'
    BY <1>2, <1>3 DEF StartupIsAlone, Caller
  <2>7. ThreadsAreOrdered'
    BY <1>2, <1>3, <2>1, <2>2 DEF IInv, ThreadsAreOrdered, Caller, At, Thread, Starting, Waiting,
            Ending
  <2>8. StaysStopped'
    BY <1>2, <1>3, <2>1, <2>2 DEF IInv, StaysStopped, Caller, At, Thread, Starting, Waiting, Health
  <2> QED  BY <2>3, <2>4, <2>5, <2>6, <2>7, <2>8 DEF IInv
<1>4. CASE Stops(t, "idle")
  <2>1. t # "close"
    BY <1>2 DEF Caller
  <2> QED  BY <1>2, <1>4, <2>1, StopsStep DEF Health
<1> QED  BY <1>3, <1>4 DEF Health

(* A sick backend is stopped, and a recorded one reconciled, before the    *)
(* next one starts.                                                        *)
LEMMA ServeStep ==
  ASSUME IInv, Serve, None \notin Child
  PROVE  IInv'
<1>1. ASSUME NEW r \in BOOLEAN PROVE Caller("serve", "new", r)
  BY DEF Serve, Caller, At, IInv, ThreadsAreOrdered, Starting, Thread
<1>2. Caller("serve", "new", TRUE) /\ Caller("serve", "new", FALSE)
  BY <1>1
<1>3. CASE Stops("serve", "new")
  BY <1>2, <1>3, StopsStep DEF Serve
<1>4. CASE Reconciles("serve", "new")
  BY <1>2, <1>4, ReconcilesStep DEF Serve
<1> QED  BY <1>3, <1>4 DEF Serve

(* The controller that starts reconciles before it serves anybody.         *)
LEMMA ReconcileStep ==
  ASSUME IInv, Reconcile
  PROVE  IInv'
<1>1. Caller("serve", "idle", TRUE)
  BY DEF Reconcile, Caller, At, IInv, StartupIsAlone, Starting, Thread
<1> QED  BY <1>1, ReconcilesStep DEF Reconcile

(* The close stops the backend once the calls it awaits are over.          *)
LEMMA StopBackendStep ==
  ASSUME IInv, StopBackend, None \notin Child
  PROVE  IInv'
<1>1. Caller("close", "listener", FALSE)
  BY DEF StopBackend, Caller, At, IInv, Starting, Thread
<1> QED  BY <1>1, StopsStep DEF StopBackend

(* Once the controller is up only the recorded backend serves.             *)
LEMMA ExitStep ==
  ASSUME IInv, NEW c \in Child, ExitSeen(c), None \notin Child
  PROVE  IInv'
<1>1. /\ TypeOK /\ svc \in ServiceRecord /\ stored \in Record /\ disk \in Record
      /\ watch' \subseteq Child /\ UNCHANGED <<open, late, group>> /\ ctl' = ctl
      /\ ctl \notin {"down", "boot"}
  BY Types DEF IInv, ExitSeen, TypeOK
<1>2. CASE UNCHANGED <<stored, disk, svc, thread>>
  BY <1>1, <1>2 DEF IInv, TypeOK, GroupsOK, ServesAlone, Serving, Live, Recording, OnlyOne, Names,
     StartsFromIntent, StartupIsAlone, ThreadsAreOrdered, StaysStopped, At
<1> DEFINE Wanted == svc.stopping \/ svc.rec.id # c \/ stored # Runs(c) \/ svc.restarted
<1>3. ASSUME ~Wanted
      PROVE  /\ NobodyStarts /\ thread["restart"].at = "idle"
             /\ \A t \in Thread : thread[t].at \in {"idle", "health", "listener"}
             /\ svc.rec # NoRecord /\ \A d \in Serving : d = c
             /\ ~((At("close", "listener") \/ ctl = "released") /\ ~late)
  <2>1. svc.rec # NoRecord /\ svc.rec # Intent
    BY <1>3, Sorts
  <2>2. NobodyStarts
    BY <2>1 DEF NobodyStarts, IInv, StartsFromIntent, Starting
  <2>3. thread["restart"].at = "idle"
    BY <1>3 DEF IInv, ThreadsAreOrdered
  <2>4. stored.state = "running"
    BY <1>3, Sorts
  <2>5. ASSUME NEW t \in Thread PROVE thread[t].at \notin Waiting
    <3>1. thread[t].at \in Waiting => thread[t].reconciles
      BY <1>3 DEF IInv, ThreadsAreOrdered
    <3>2. thread[t].reconciles /\ thread[t].at \in Waiting => t = "serve"
      BY DEF IInv, ThreadsAreOrdered, Thread
    <3> QED  BY <3>1, <3>2, <2>4 DEF IInv, ThreadsAreOrdered, Ending
  <2>6. \A t \in Thread : thread[t].at # "check"
    BY <2>4 DEF IInv, ThreadsAreOrdered, Thread, Waiting, Ending
  <2>7. \A t \in Thread : thread[t].at \in Point
    BY <1>1, Types DEF ThreadRecord
  <2>8. \A t \in Thread : thread[t].at \in {"idle", "health", "listener"}
    BY <2>2, <2>5, <2>6, <2>7 DEF NobodyStarts, Starting, Waiting, Point
  <2>9. \A d \in Serving : d = c
    BY <1>1, <1>3, ServiceNames
  <2>10. ~((At("close", "listener") \/ ctl = "released") /\ ~late)
    BY <2>1 DEF IInv, StaysStopped
  <2> QED  BY <2>1, <2>2, <2>3, <2>8, <2>9, <2>10
<1>4. CASE /\ ~Wanted /\ GroupIsGone(c)
           /\ thread' = [thread EXCEPT !["restart"] = [Idle EXCEPT !.at = "port"]]
           /\ svc' = [Fresh EXCEPT !.restarted = TRUE] /\ Saved(NoRecord)
  <2> DEFINE q == [Idle EXCEPT !.at = "port"]
  <2>1. q \in ThreadRecord /\ q.at = "port" /\ q.then = "idle" /\ ~q.reconciles
    BY DEF Idle, ThreadRecord, Point, Then
  <2>2. thread' = [thread EXCEPT !["restart"] = q] /\ "restart" \in Thread
    BY <1>4 DEF Thread
  <2> HIDE DEF q
  <2>3. /\ thread'["restart"] = q /\ thread' \in [Thread -> ThreadRecord]
        /\ \A u \in Thread : u # "restart" => thread'[u] = thread[u]
    BY <1>1, <2>1, <2>2, Moves
  <2>4. svc' \in ServiceRecord /\ svc'.rec = NoRecord /\ svc'.restarted
    BY <1>4, Sorts DEF ServiceRecord
  <2>5. stored' = NoRecord /\ disk' = NoRecord
    BY <1>4 DEF Saved
  <2>6. TypeOK'
    BY <1>1, <2>3, <2>4, <2>5, Sorts DEF TypeOK, ThreadRecord, ServiceRecord, GroupsOK
  <2>7. Serving' = {}
    BY <1>1, <1>3, <1>4 DEF Serving, Live, GroupIsGone
  <2>8. ServesAlone'
    BY <2>7 DEF ServesAlone
  <2>9. StartsFromIntent'
    BY <1>3, <1>4, <2>1, <2>3, <2>4 DEF StartsFromIntent, Starting, NobodyStarts
  <2>10. StartupIsAlone'
    BY <1>1 DEF StartupIsAlone
  <2>11. ThreadsAreOrdered'
    BY <1>1, <1>3, <1>4, <2>1, <2>3, <2>4 DEF IInv, ThreadsAreOrdered, Thread, Starting, Waiting,
            Ending
  <2>12. StaysStopped'
    BY <1>1, <1>3, <1>4, <2>3 DEF StaysStopped, At, Thread
  <2> QED  BY <2>6, <2>8, <2>9, <2>10, <2>11, <2>12 DEF IInv
<1>5. CASE /\ ~Wanted /\ UNCHANGED <<stored, thread>> /\ disk' \in Record /\ svc' \in ServiceRecord
           /\ svc'.restarted
           /\ \/ GroupIsGone(c)
              \/ svc'.rec = svc.rec /\ disk' = disk
  <2>1. TypeOK'
    BY <1>1, <1>5 DEF TypeOK, ServiceRecord, GroupsOK
  <2>2. ServesAlone'
    <3>1. CASE GroupIsGone(c)
      <4>1. Serving' = {}
        BY <1>1, <1>3, <1>5, <3>1 DEF Serving, Live, GroupIsGone
      <4> QED  BY <4>1 DEF ServesAlone
    <3>2. CASE svc'.rec = svc.rec /\ disk' = disk
      BY <1>1, <1>5, <3>2 DEF IInv, ServesAlone, Serving, Live, Recording, OnlyOne, Names
    <3> QED  BY <3>1, <3>2, <1>5
  <2>3. StartsFromIntent'
    BY <1>3, <1>5 DEF StartsFromIntent, NobodyStarts, Starting
  <2>4. StartupIsAlone'
    BY <1>1 DEF StartupIsAlone
  <2>5. ThreadsAreOrdered'
    BY <1>1, <1>5 DEF IInv, ThreadsAreOrdered, At
  <2>6. StaysStopped'
    BY <1>1, <1>3, <1>5 DEF StaysStopped, At
  <2> QED  BY <2>1, <2>2, <2>3, <2>4, <2>5, <2>6 DEF IInv
<1>6. CASE ~Wanted /\ GroupIsGone(c) /\ Lost(NoRecord) /\ UNCHANGED thread
           /\ svc' = [Fresh EXCEPT !.stopping = TRUE, !.restarted = TRUE]
  <2>1. svc' \in ServiceRecord /\ svc'.restarted
    BY <1>6, Sorts DEF ServiceRecord
  <2>2. stored' = stored /\ disk' \in Record
    BY <1>1, <1>6, Sorts DEF Lost
  <2> QED  BY <1>5, <1>6, <2>1, <2>2
<1>7. CASE ~Wanted /\ svc' = [svc EXCEPT !.restarted = TRUE] /\ UNCHANGED <<stored, disk, thread>>
  <2>1. svc' \in ServiceRecord /\ svc'.restarted /\ svc'.rec = svc.rec
    BY <1>1, <1>7 DEF ServiceRecord
  <2> QED  BY <1>1, <1>5, <1>7, <2>1
<1> QED  BY <1>2, <1>4, <1>6, <1>7 DEF ExitSeen

-----------------------------------------------------------------------------
(* Another part of the state is committed: the record in memory reaches    *)
(* the file.                                                               *)
LEMMA OtherCommitStep ==
  ASSUME IInv, OtherCommit
  PROVE  IInv'
BY DEF OtherCommit, IInv, TypeOK, GroupsOK, ServesAlone, Serving, Live, Recording, OnlyOne, Names,
   StartsFromIntent, StartupIsAlone, ThreadsAreOrdered, StaysStopped, At

(* A controller that starts reads the file.                                *)
LEMMA BootStep ==
  ASSUME IInv, Boot
  PROVE  IInv'
<1>1. /\ ctl = "down" /\ ctl' = "boot" /\ stored' = disk
      /\ UNCHANGED <<disk, svc, open, watch, thread, late, group>>
  BY DEF Boot
<1>2. TypeOK'
  BY <1>1 DEF IInv, TypeOK, GroupsOK
<1>3. ServesAlone'
  BY <1>1 DEF IInv, ServesAlone, Serving, Live, Recording, OnlyOne, Names
<1>4. StartsFromIntent' /\ StartupIsAlone' /\ StaysStopped'
  BY <1>1 DEF IInv, StartsFromIntent, StartupIsAlone, StaysStopped, At
<1>5. ThreadsAreOrdered'
  BY <1>1 DEF IInv, StartupIsAlone, ThreadsAreOrdered, At, Starting, Ending, Waiting
<1> QED  BY <1>2, <1>3, <1>4, <1>5 DEF IInv

(* The close begins.                                                       *)
LEMMA CloseStep ==
  ASSUME IInv, Close
  PROVE  IInv'
BY DEF Close, mine, IInv, TypeOK, GroupsOK, ServesAlone, Serving, Live, Recording, OnlyOne, Names,
   StartsFromIntent, StartupIsAlone, ThreadsAreOrdered, StaysStopped, At

(* The ownership of the installation is released.                          *)
LEMMA ReleaseStep ==
  ASSUME IInv, Release
  PROVE  IInv'
<1>1. PICK q \in ThreadRecord : /\ thread' = [thread EXCEPT !["close"] = q]
                                /\ q.at = "idle" /\ q.then = "idle" /\ ~q.reconciles
  BY GoesTo DEF Release, Ends, Point, Thread
<1>2. /\ thread'["close"] = q /\ thread' \in [Thread -> ThreadRecord]
      /\ \A u \in Thread : u # "close" => thread'[u] = thread[u]
  BY <1>1, Moves DEF Thread, IInv
<1>3. /\ thread["close"].at = "listener" /\ ctl = "closing" /\ ctl' = "released"
      /\ thread["serve"].at = "idle"
      /\ UNCHANGED <<stored, disk, svc, open, watch, late, group>>
  BY DEF Release, At, IInv, ThreadsAreOrdered
<1>4. TypeOK'
  BY <1>2, <1>3 DEF IInv, TypeOK, ThreadRecord, GroupsOK
<1>5. ServesAlone'
  BY <1>1, <1>2, <1>3 DEF IInv, ServesAlone, Serving, Live, Recording, OnlyOne, Names,
     Starting, Ending, Waiting
<1>6. StartsFromIntent' /\ StartupIsAlone'
  BY <1>1, <1>2, <1>3 DEF IInv, StartsFromIntent, StartupIsAlone
<1>7. ThreadsAreOrdered'
  BY <1>1, <1>2, <1>3 DEF IInv, ThreadsAreOrdered, Thread, Starting, Waiting, Ending
<1>8. StaysStopped'
  BY <1>1, <1>2, <1>3 DEF IInv, StaysStopped, At, Thread
<1> QED  BY <1>4, <1>5, <1>6, <1>7, <1>8 DEF IInv

(* The controller exits or dies, and a gate that is shut stays shut.       *)
LEMMA ProcessExitStep ==
  ASSUME IInv, Exit
  PROVE  IInv'
<1>1. /\ ctl' = "down" /\ ~late' /\ stored' = NoRecord /\ svc' = Fresh /\ watch' = {}
      /\ UNCHANGED <<disk, open, group>> /\ late' \in BOOLEAN
  BY DEF Exit
<1>2. /\ thread' \in [Thread -> ThreadRecord]
      /\ \A t \in Thread :
           thread'[t].at = "idle" /\ thread'[t].then = "idle" /\ ~thread'[t].reconciles
  BY Sorts DEF Exit
<1>3. TypeOK'
  BY <1>1, <1>2, Sorts DEF IInv, TypeOK, ThreadRecord, ServiceRecord, GroupsOK
<1>4. ServesAlone'
  BY <1>1, <1>2 DEF IInv, ServesAlone, Serving, Live, Recording, OnlyOne, Names,
     Starting, Ending, Waiting
<1>5. StartsFromIntent' /\ StartupIsAlone' /\ ThreadsAreOrdered' /\ StaysStopped'
  BY <1>1, <1>2 DEF StartsFromIntent, StartupIsAlone, ThreadsAreOrdered, StaysStopped, At, Thread,
     Starting, Ending, Waiting
<1> QED  BY <1>3, <1>4, <1>5 DEF IInv

(* What happens to the groups makes no backend serve that did not.         *)
LEMMA SystemStep ==
  ASSUME IInv, System
  PROVE  IInv'
<1>1. UNCHANGED <<ctl, stored, disk, svc, open, watch, thread, late>>
  BY DEF System, mine
<1>2. group' \in [Child -> GroupState] /\ \A c \in Child : Live(c)' => Live(c)
  <2>1. group \in [Child -> GroupState]
    BY DEF IInv, TypeOK, GroupsOK
  <2>2. PICK d \in Child : LeaderExits(d) \/ OrphansExit(d) \/ PidReused(d) \/ StrangerExits(d)
    BY DEF System
  <2>3. PICK g \in GroupState : /\ group' = [group EXCEPT ![d] = g]
                                /\ g \in {"led", "orphaned"} => Live(d)
    BY <2>2 DEF LeaderExits, OrphansExit, PidReused, StrangerExits, Becomes, Live, GroupState
  <2> QED  BY <2>1, <2>3 DEF Live
<1>3. TypeOK'
  BY <1>1, <1>2 DEF IInv, TypeOK, GroupsOK
<1>4. ServesAlone'
  BY <1>1, <1>2 DEF IInv, TypeOK, ServesAlone, Serving, Recording, OnlyOne, Names
<1>5. StartsFromIntent' /\ StartupIsAlone' /\ ThreadsAreOrdered' /\ StaysStopped'
  BY <1>1 DEF IInv, StartsFromIntent, StartupIsAlone, ThreadsAreOrdered, StaysStopped, At
<1> QED  BY <1>3, <1>4, <1>5 DEF IInv

(* Nothing was started yet.                                                *)
LEMMA InitIInv == Init => IInv
<1> SUFFICES ASSUME Init PROVE IInv
  OBVIOUS
<1>1. /\ ctl = "down" /\ late = FALSE /\ stored = NoRecord /\ disk = NoRecord
      /\ svc = Fresh /\ open = {} /\ watch = {} /\ group \in [Child -> GroupState]
  BY DEF Init, NoGroups, GroupState
<1>2. /\ thread \in [Thread -> ThreadRecord]
      /\ \A t \in Thread : thread[t].at = "idle" /\ thread[t].then = "idle" /\ ~thread[t].reconciles
  BY Sorts DEF Init
<1>3. TypeOK
  BY <1>1, <1>2, Sorts DEF TypeOK, ThreadRecord, ServiceRecord, GroupsOK
<1>4. ServesAlone
  BY <1>1 DEF ServesAlone, Serving
<1>5. StartsFromIntent /\ StartupIsAlone /\ ThreadsAreOrdered /\ StaysStopped
  BY <1>1, <1>2 DEF StartsFromIntent, StartupIsAlone, ThreadsAreOrdered, StaysStopped, At, Thread,
     Starting, Ending, Waiting
<1> QED  BY <1>3, <1>4, <1>5 DEF IInv

(* Every step of a thread of the controller, of a process and of the       *)
(* system keeps the invariant.                                             *)
LEMMA StepIInv ==
  ASSUME None \notin Child, IInv, [Next]_vars
  PROVE  IInv'
<1>1. CASE UNCHANGED vars
  BY <1>1 DEF vars, mine, IInv, TypeOK, GroupsOK, ServesAlone, Serving, Live, Recording, OnlyOne,
            Names,
     StartsFromIntent, StartupIsAlone, ThreadsAreOrdered, StaysStopped, At
<1>2. CASE \E c \in Child : ExitSeen(c)
  BY <1>2, ExitStep
<1>3. CASE \E t \in Thread : \/ Check(t) \/ Term(t) \/ Kill(t) \/ PersistIntent(t) \/ Spawn(t)
                             \/ Spawned(t) \/ Health(t)
  BY <1>3, CheckActStep, TermStep, KillStep, PersistStep, SpawnStep, SpawnedStep, HealthStep
<1> QED  BY <1>1, <1>2, <1>3, ServeStep, OtherCommitStep, BootStep, ReconcileStep, CloseStep,
     StopBackendStep, ReleaseStep, ProcessExitStep, SystemStep DEF Next

(* The invariant says that who may write is recorded, and stopped first.   *)
LEMMA OwnedByIInv == IInv => ServesIsRecorded /\ StoppedFirst
<1> SUFFICES ASSUME IInv PROVE ServesIsRecorded /\ StoppedFirst
  OBVIOUS
<1>1. ServesIsRecorded
  BY DEF IInv, ServesAlone, Serving, Recording, Names, ServesIsRecorded
<1>2. ASSUME ctl = "released", ~late, NEW c \in Serving PROVE FALSE
  <2>1. svc.rec = NoRecord /\ svc.rec = Runs(c) /\ c \in Child
    BY <1>2 DEF IInv, TypeOK, StaysStopped, ServesAlone, Recording, Serving
  <2> QED  BY <2>1, Sorts
<1>3. StoppedFirst
  BY <1>2 DEF StoppedFirst, Serving
<1> QED  BY <1>1, <1>3

=============================================================================
