-------------------------- MODULE DatasetRunProofs --------------------------
(***************************************************************************)
(* Theorems about a dataset run (DatasetRun), for any stages, any number   *)
(* of workers and any number of calls at once, whatever they are for.      *)
(***************************************************************************)
EXTENDS DatasetRun, TLAPS

-----------------------------------------------------------------------------
(* Workers are launched in order of their pids, and while they did not     *)
(* overlap only the last one is alive.                                     *)
Ran(p) == worker[p].life # "none"
IsLast(p) == \A q \in Pid : Ran(q) => q <= p

WorkersAreSound ==
  /\ \A p, q \in Pid : p < q /\ Ran(q) => Ran(p)
  /\ row.pid # NoPid => Ran(row.pid)
  /\ row.pid = NoPid /\ ~overtaken => row.status = "pending"
  /\ \A p \in Live : ~worker[p].booted => worker[p].kind \in Pipeline
  /\ ~overlapped => \A p \in Live : IsLast(p)

(* status.json, and what a poll has read of it. *)
Starting == Says("null", 0, FALSE)

FileIsSound(f) ==
  /\ f.cancelled => f.done /\ f.ok = "false"
  /\ f.ok = "null" => ~f.done
  /\ f.ok = "true" => f.done /\ f.stage > 0

HasRead(c) == call[c].op = "refresh" /\ call[c].at \in {"pid", "commit"}

Rerunning == {"slicer", "qc", "export"}

FilesAreSound ==
  /\ FileIsSound(file)
  /\ file.ok = "true" => reached >= file.stage
  /\ \A c \in Call : HasRead(c) => FileIsSound(call[c].file)
  /\ (\E c \in Call : call[c].op \in Rerunning) => reached >= 2
  /\ (\E p \in Live : worker[p].kind \in Rerunning) => reached >= 2

(* The pid a launch is about to record is known to no other call, and      *)
(* until a call commits over a later launch's the pids that calls remember *)
(* are not later than the row's.                                           *)
Launching(c) == call[c].op \in Kind /\ call[c].at = "commit"

CallsAreSound ==
  \A c \in Call :
    /\ call[c].row.pid # NoPid => Ran(call[c].row.pid)
    /\ call[c].op \in {"refresh", "cancel"} => call[c].row.pid # NoPid
    /\ Launching(c) =>
         /\ call[c].row.pid # NoPid /\ row.pid # call[c].row.pid
         /\ \A d \in Call \ {c} : call[d].row.pid # call[c].row.pid
    /\ call[c].op = "cancel" /\ call[c].at = "commit" => call[c].row.pid \notin Live
    /\ call[c].op \in {"refresh", "cancel", "select"} /\ ~overtaken => call[c].row.pid <= row.pid

(* The polls of the worker in the row.  Until it says that it starts,      *)
(* nobody changes the stage in status.json, so whatever such a poll has    *)
(* read or has put into the row is the stage that stands there.            *)
Polls(c)    == call[c].op = "refresh" /\ call[c].row.pid = row.pid
Current(c)  == HasRead(c) /\ call[c].row.pid = row.pid
Recorded    == ~overlapped /\ ~overtaken /\ LastIsRecorded /\ row.pid # NoPid
Unbooted    == row.pid \in Live /\ ~worker[row.pid].booted

PollsAreSound ==
  Recorded /\ Unbooted => \A c \in Call :
     /\ Polls(c) => row.stage \in {call[c].row.stage, file.stage}
     /\ Current(c) => call[c].file.stage \in {0, file.stage}

(* Before the worker has entered a stage, a run that is or may be shown as *)
(* completed is so by what an earlier worker had finished, and every stage *)
(* that a poll may still put into the row is on disk.                      *)
Fresh       == Unbooted \/ file = Starting
SeenDone(c) == Current(c) /\ call[c].file.ok = "true"
Done        == row.status = "completed" \/ \E c \in Call : SeenDone(c)
SeenAgain(c) == SeenDone(c) /\ call[c].row.stage = call[c].file.stage

ShownIsReached ==
  Recorded /\ Fresh /\ Done =>
     /\ reached >= file.stage
     /\ \A c \in Call : Current(c) => reached >= call[c].file.stage
     /\ (row.status = "completed" \/ \E c \in Call : SeenAgain(c)) => reached >= row.stage

StaysCancelled ==
  stopped /\ ~overlapped =>
    /\ Live = {} /\ file.cancelled /\ file.done
    /\ \A c \in Call : call[c].op \notin Kind

IInv == /\ TypeOK /\ WorkersAreSound /\ FilesAreSound /\ CallsAreSound
        /\ PollsAreSound /\ ShownIsReached /\ StaysCancelled

-----------------------------------------------------------------------------
(* Types. *)
LEMMA Pids == 0 \notin Pid /\ Pid \subseteq Nat /\ NoPid = 0
  BY DatasetRunAssumption DEF Pid, NoPid

LEMMA SaysAFile ==
  ASSUME NEW ok \in {"null", "true", "false"}, NEW stage \in Rank, NEW done \in BOOLEAN
  PROVE  /\ Says(ok, stage, done) \in File
         /\ Says(ok, stage, done).ok = ok /\ Says(ok, stage, done).stage = stage
         /\ Says(ok, stage, done).done = done /\ Says(ok, stage, done).cancelled = FALSE
  BY DEF Says, File

LEMMA NoFileIs ==
  /\ NoFile \notin File /\ NoFile.ok = "none" /\ NoFile.stage = 0
  /\ NoFile.done = FALSE /\ NoFile.cancelled = FALSE
  BY DEF NoFile, Says, File

LEMMA FirstIsAStage ==
  ASSUME NEW kind \in Kind
  PROVE  First(kind) \in Stage /\ First(kind) = (CASE kind \in Pipeline -> 1
                                                  [] kind = "slicer" -> 2
                                                  [] kind = "qc" -> 3
                                                  [] kind = "export" -> 4)
  BY DEF First, Kind, Pipeline, Stage

LEMMA NoCallIs == NoCall \in CallState /\ NoCall.op = "none" /\ NoRow \in Row
  BY DEF NoCall, CallState, NoRow, Row, Op, Status, Rank, AnyFile

LEMMA ReapedIs ==
  ASSUME NEW w \in Worker
  PROVE  /\ Reaped(w) \in Worker /\ Reaped(w).kind = w.kind /\ Reaped(w).at = w.at
         /\ Reaped(w).booted = w.booted /\ Reaped(w).goal = w.goal
         /\ (Reaped(w).life = "none") = (w.life = "none")
         /\ (Reaped(w).life = "alive") = (w.life = "alive")
  BY DEF Reaped, Worker, Life

(* A status that is applied to a row. *)
LEMMA AppliedIs ==
  ASSUME NEW f \in AnyFile, NEW old \in Row, NEW alive \in BOOLEAN
  PROVE  /\ Applied(f, old, alive) \in Row /\ Applied(f, old, alive).pid = old.pid
         /\ Applied(f, old, alive).status = AppliedStatus(f, old.status, alive)
         /\ Applied(f, old, alive).stage = IF f.stage = 0 THEN old.stage ELSE f.stage
         /\ Refreshed(f, old, alive) \in Row /\ Refreshed(f, old, alive).pid = old.pid
<1>1. AppliedStatus(f, old.status, alive) \in Status
  BY DEF AppliedStatus, Status, Row
<1>2. f.stage \in Rank
  BY NoFileIs DEF AnyFile, File, Rank
<1> DEFINE stage == IF f.stage = 0 THEN old.stage ELSE f.stage
           status == AppliedStatus(f, old.status, alive)
           named == [old EXCEPT !.status = status]
<1>3. stage \in Rank /\ status \in Status
  BY <1>1, <1>2 DEF Row
<1>4. Applied(f, old, alive) = [named EXCEPT !.stage = stage]
  BY DEF Applied
<1> HIDE DEF stage, status
<1>5. named \in Row /\ named.status = status /\ named.stage = old.stage /\ named.pid = old.pid
  BY <1>3 DEF Row
<1> HIDE DEF named
<1>6. /\ Applied(f, old, alive) \in Row /\ Applied(f, old, alive).pid = old.pid
      /\ Applied(f, old, alive).status = status /\ Applied(f, old, alive).stage = stage
  BY <1>3, <1>4, <1>5 DEF Row
<1>7. [old EXCEPT !.status = "failed"] \in Row /\ [old EXCEPT !.status = "failed"].pid = old.pid
  BY DEF Row, Status
<1> QED  BY <1>6, <1>7 DEF stage, status, Refreshed

LEMMA CommitIs ==
  ASSUME NEW old \in Row, NEW new \in Row, row \in Row, Commit(old, new)
  PROVE  /\ row' \in Row
         /\ old.status = row.status => row'.status = new.status
         /\ old.stage = row.stage => row'.stage = new.stage
         /\ old.pid = row.pid => row'.pid = new.pid
  BY DEF Commit, Column, Row

-----------------------------------------------------------------------------
(* What the steps of a call and of a worker change. *)
LEMMA RememberedIs ==
  ASSUME TypeOK, NEW op \in Op
  PROVE  /\ Remembered(op) \in Row
         /\ op \in Kind => Remembered(op) = NoRow /\ Remembered(op).pid = NoPid
         /\ op = "refresh" => Remembered(op) = row
         /\ op \in {"cancel", "select"} => Remembered(op).pid = row.pid
<1> DEFINE named == [NoRow EXCEPT !.pid = row.pid]
<1>1. row \in Row /\ row.pid \in Pid \cup {NoPid}
  BY DEF TypeOK, Row
<1>2. named \in Row /\ named.pid = row.pid
  BY <1>1, NoCallIs DEF Row
<1>3. NoRow.pid = NoPid
  BY DEF NoRow
<1> HIDE DEF named
<1>4. CASE op \in Kind
  BY <1>3, <1>4, NoCallIs DEF Remembered, Kind, Pipeline
<1>5. CASE op = "refresh"
  BY <1>1, <1>5 DEF Remembered, Kind, Pipeline
<1>6. CASE op \notin Kind /\ op # "refresh"
  BY <1>2, <1>6 DEF Remembered, named
<1> QED  BY <1>4, <1>5, <1>6

LEMMA BeginIs ==
  ASSUME TypeOK, NEW c \in Call, NEW op \in Op, NEW at \in {"read", "launch", "commit", "pid", "kill"},
         NEW goal \in Rank, Begin(c, op, at, goal)
  PROVE  /\ call' \in [Call -> CallState] /\ call[c].op = "none"
         /\ call'[c].op = op /\ call'[c].at = at /\ call'[c].row = Remembered(op) /\ call'[c].goal = goal
         /\ \A d \in Call \ {c} : call'[d] = call[d]
<1> DEFINE b == [NoCall EXCEPT !.op = op, !.at = at, !.row = Remembered(op), !.goal = goal]
           b1 == [NoCall EXCEPT !.op = op]
           b2 == [b1 EXCEPT !.at = at]
           b3 == [b2 EXCEPT !.row = Remembered(op)]
<1>1. b1 \in CallState /\ b1.op = op
  BY NoCallIs DEF CallState
<1> HIDE DEF b1
<1>2. b2 \in CallState /\ b2.op = op /\ b2.at = at
  BY <1>1 DEF CallState
<1> HIDE DEF b2
<1>0. Remembered(op) \in Row
  BY RememberedIs
<1>3. b3 \in CallState /\ b3.op = op /\ b3.at = at /\ b3.row = Remembered(op)
  BY <1>0, <1>2 DEF CallState
<1>4. b = [b3 EXCEPT !.goal = goal]
  BY DEF b1, b2
<1> HIDE DEF b3, b
<1>5. b \in CallState /\ b.op = op /\ b.at = at /\ b.row = Remembered(op) /\ b.goal = goal
  BY <1>3, <1>4 DEF CallState
<1>6. call[c].op = "none" /\ call' = [call EXCEPT ![c] = b] /\ call \in [Call -> CallState]
  BY DEF Begin, TypeOK, b
<1> QED  BY <1>5, <1>6

LEMMA ReturnIs ==
  ASSUME TypeOK, NEW c \in Call, Return(c)
  PROVE  /\ call' \in [Call -> CallState] /\ call'[c] = NoCall
         /\ \A d \in Call \ {c} : call'[d] = call[d]
  BY NoCallIs DEF Return, TypeOK

(* A call that asks for a worker, with what it has checked. *)
LEMMA AsksIs ==
  ASSUME TypeOK, NEW c \in Call, Asks(c)
  PROVE  /\ call' \in [Call -> CallState] /\ call[c].op = "none"
         /\ call'[c].op \in Kind /\ call'[c].at = "launch" /\ call'[c].row.pid = NoPid
         /\ \A d \in Call \ {c} : call'[d] = call[d]
         /\ file' \in AnyFile /\ stopped' = FALSE
         /\ UNCHANGED <<row, selected, reached, worker, overtaken>>
         /\ call'[c].op \in Rerunning => reached >= 2
         /\ \/ file' = file /\ overlapped' = overlapped
            \/ /\ \E stage \in Stage : file' = Says("null", stage, FALSE)
               /\ overlapped' = (overlapped \/ Live # {})
<1>1. stopped' = FALSE /\ UNCHANGED <<row, selected, reached, worker, overtaken>>
  BY DEF Asks
<1>2. ASSUME NEW op \in Kind, NEW goal \in Rank, Begin(c, op, "launch", goal)
      PROVE  /\ call' \in [Call -> CallState] /\ call[c].op = "none"
             /\ call'[c].op = op /\ call'[c].at = "launch" /\ call'[c].row.pid = NoPid
             /\ \A d \in Call \ {c} : call'[d] = call[d]
  <2>1. op \in Op /\ "launch" \in {"read", "launch", "commit", "pid", "kill"}
    BY DEF Op, Kind, Pipeline
  <2>2. /\ call' \in [Call -> CallState] /\ call[c].op = "none"
        /\ call'[c].op = op /\ call'[c].at = "launch" /\ call'[c].row = Remembered(op)
        /\ \A d \in Call \ {c} : call'[d] = call[d]
    BY <1>2, <2>1, BeginIs
  <2> QED  BY <2>1, <2>2, RememberedIs
<1>3. CASE Start(c)
  <2>1. PICK stop \in Stop : Begin(c, "start", "launch", IF selected THEN stop ELSE 1)
    BY <1>3 DEF Start
  <2>2. (IF selected THEN stop ELSE 1) \in Rank /\ "start" \in Kind /\ "start" \notin Rerunning
    BY DatasetRunAssumption DEF Rank, Kind, Pipeline, Rerunning
  <2>3. UNCHANGED <<file, overlapped>>
    BY <1>3 DEF Start
  <2> QED  BY <1>1, <1>2, <2>1, <2>2, <2>3 DEF TypeOK
<1>4. CASE Resume(c)
  <2>1. PICK stop \in Stop : Begin(c, "resume", "launch", stop)
    BY <1>4 DEF Resume
  <2>2. stop \in Rank /\ "resume" \in Kind /\ "resume" \notin Rerunning
    BY DatasetRunAssumption DEF Rank, Kind, Pipeline, Rerunning
  <2>3. UNCHANGED <<file, overlapped>>
    BY <1>4 DEF Resume
  <2> QED  BY <1>1, <1>2, <2>1, <2>2, <2>3 DEF TypeOK
<1>5. ASSUME NEW kind \in Rerunning, Rerun(c, kind)
      PROVE  /\ call' \in [Call -> CallState] /\ call[c].op = "none"
             /\ call'[c].op = kind /\ call'[c].at = "launch" /\ call'[c].row.pid = NoPid
             /\ \A d \in Call \ {c} : call'[d] = call[d]
             /\ reached >= 2 /\ kind \in Kind
             /\ \E stage \in Stage : file' = Says("null", stage, FALSE)
             /\ overlapped' = (overlapped \/ Live # {})
  <2>1. /\ reached >= 2 /\ file' = Says("null", First(kind), FALSE)
        /\ Begin(c, kind, "launch", IF kind = "slicer" THEN 3 ELSE First(kind))
        /\ overlapped' = (overlapped \/ Live # {})
    BY <1>5 DEF Rerun
  <2>2. kind \in Kind
    BY DEF Kind, Rerunning
  <2>3. First(kind) \in Stage /\ (IF kind = "slicer" THEN 3 ELSE First(kind)) \in Rank
    BY <2>2, FirstIsAStage DEF Stage, Rank
  <2> QED  BY <1>2, <2>1, <2>2, <2>3
<1>6. ASSUME NEW stage \in Stage PROVE Says("null", stage, FALSE) \in AnyFile
  <2>1. stage \in Rank
    BY DEF Stage, Rank
  <2>2. "null" \in {"null", "true", "false"} /\ FALSE \in BOOLEAN
    OBVIOUS
  <2>3. Says("null", stage, FALSE) \in File
    BY <2>1, <2>2, SaysAFile
  <2> QED  BY <2>3 DEF AnyFile
<1> QED  BY <1>1, <1>3, <1>4, <1>5, <1>6 DEF Asks, Rerunning

LEMMA LaunchIs ==
  ASSUME TypeOK, NEW c \in Call, Launch(c)
  PROVE  \E p \in Pid :
           /\ call[c].op \in Kind /\ call[c].at = "launch"
           /\ ~Ran(p) /\ \A q \in 1..(p - 1) : Ran(q)
           /\ worker' \in [Pid -> Worker]
           /\ worker'[p].life = "alive" /\ worker'[p].kind = call[c].op
           /\ worker'[p].booted = (call[c].op \notin Pipeline)
           /\ \A q \in Pid \ {p} : worker'[q] = Reaped(worker[q])
           /\ call' \in [Call -> CallState] /\ call'[c].op = call[c].op /\ call'[c].at = "commit"
           /\ call'[c].row \in Row /\ call'[c].row.status = call[c].row.status
           /\ call'[c].row.stage = call[c].row.stage /\ call'[c].row.pid = p
           /\ \A d \in Call \ {c} : call'[d] = call[d]
           /\ overlapped' = (overlapped \/ Live # {})
           /\ stopped' = FALSE
           /\ UNCHANGED <<row, file, selected, reached, overtaken>>
<1>1. PICK p \in Pid :
        /\ worker[p].life = "none" /\ \A q \in 1..(p - 1) : worker[q].life # "none"
        /\ worker' = [[q \in Pid |-> Reaped(worker[q])] EXCEPT ![p] =
             [life |-> "alive", kind |-> call[c].op, at |-> 0,
              booted |-> call[c].op \notin Pipeline, goal |-> call[c].goal]]
        /\ call' = [call EXCEPT ![c].at = "commit", ![c].row = [@ EXCEPT !.pid = p]]
  BY DEF Launch
<1> DEFINE w == [life |-> "alive", kind |-> call[c].op, at |-> 0,
                 booted |-> call[c].op \notin Pipeline, goal |-> call[c].goal]
           b1 == [call[c] EXCEPT !.at = "commit"]
           r  == [call[c].row EXCEPT !.pid = p]
           b3 == [b1 EXCEPT !.row = r]
<1>2. call[c] \in CallState /\ call[c].op \in Kind /\ call[c].at = "launch"
  BY DEF Launch, TypeOK
<1>3. w \in Worker /\ w.life = "alive" /\ w.kind = call[c].op
      /\ w.booted = (call[c].op \notin Pipeline)
  BY <1>2 DEF Worker, CallState, Life, Rank
<1> HIDE DEF w
<1>4. /\ worker' \in [Pid -> Worker] /\ worker'[p] = w
      /\ \A q \in Pid \ {p} : worker'[q] = Reaped(worker[q])
  <2>1. worker' = [[q \in Pid |-> Reaped(worker[q])] EXCEPT ![p] = w]
    BY <1>1 DEF w
  <2>2. \A q \in Pid : Reaped(worker[q]) \in Worker
    BY ReapedIs DEF TypeOK
  <2> QED  BY <1>3, <2>1, <2>2
<1>5. r \in Row /\ r.status = call[c].row.status /\ r.stage = call[c].row.stage /\ r.pid = p
  BY <1>2 DEF CallState, Row
<1> HIDE DEF r
<1>6. b1 \in CallState /\ b1.op = call[c].op /\ b1.at = "commit"
  BY <1>2 DEF CallState
<1>7. call' = [call EXCEPT ![c] = b3]
  BY <1>1 DEF TypeOK, r
<1> HIDE DEF b1
<1>9. b3 \in CallState /\ b3.op = call[c].op /\ b3.at = "commit" /\ b3.row = r
  BY <1>5, <1>6 DEF CallState
<1> HIDE DEF b3
<1>10. call' \in [Call -> CallState] /\ call'[c] = b3 /\ \A d \in Call \ {c} : call'[d] = call[d]
  BY <1>7, <1>9 DEF TypeOK
<1>11. /\ overlapped' = (overlapped \/ Live # {}) /\ stopped' = FALSE
       /\ UNCHANGED <<row, file, selected, reached, overtaken>>
  BY DEF Launch
<1>12. ~Ran(p) /\ \A q \in 1..(p - 1) : Ran(q)
  BY <1>1 DEF Ran
<1> QED  BY <1>2, <1>3, <1>4, <1>5, <1>9, <1>10, <1>11, <1>12

-----------------------------------------------------------------------------
(* What the steps of a worker change: none is launched, none comes back.   *)
Fewer ==
  \A q \in Pid :
    /\ (worker'[q].life = "none") = (worker[q].life = "none")
    /\ worker'[q].life = "alive" =>
         /\ worker[q].life = "alive" /\ worker'[q].kind = worker[q].kind
         /\ worker[q].booted => worker'[q].booted

LEMMA EndedIs ==
  /\ NoWorker \in Worker /\ [NoWorker EXCEPT !.life = "zombie"] \in Worker
  /\ [NoWorker EXCEPT !.life = "zombie"].life = "zombie"
<1>1. NoWorker \in Worker
  BY DEF NoWorker, Worker, Life, Kind, Pipeline, Rank
<1> QED  BY <1>1 DEF Worker, Life

LEMMA EndsIs ==
  ASSUME TypeOK, NEW p \in Pid, Ran(p), Ends(p)
  PROVE  /\ worker' \in [Pid -> Worker] /\ Fewer
         /\ worker'[p].life = "zombie" /\ \A q \in Pid \ {p} : worker'[q] = worker[q]
<1> DEFINE w == [NoWorker EXCEPT !.life = "zombie"]
<1>1. worker[p] \in Worker /\ worker \in [Pid -> Worker] /\ worker[p].life # "none"
  BY DEF TypeOK, Ran
<1>2. w \in Worker /\ w.life = "zombie"
  BY EndedIs
<1>3. worker' = [worker EXCEPT ![p] = w]
  BY DEF Ends
<1> HIDE DEF w
<1>4. worker' \in [Pid -> Worker] /\ worker'[p] = w /\ \A q \in Pid \ {p} : worker'[q] = worker[q]
  BY <1>1, <1>2, <1>3
<1> QED  BY <1>1, <1>2, <1>4 DEF Fewer

LEMMA ReapIs ==
  ASSUME TypeOK, worker' = [p \in Pid |-> Reaped(worker[p])]
  PROVE  worker' \in [Pid -> Worker] /\ Fewer
<1>1. \A p \in Pid : worker[p] \in Worker
  BY DEF TypeOK
<1> QED  BY <1>1, ReapedIs DEF Fewer

LEMMA BootIs ==
  ASSUME TypeOK, NEW p \in Pid, Boot(p)
  PROVE  /\ worker' \in [Pid -> Worker] /\ Fewer /\ p \in Live /\ ~worker[p].booted
         /\ worker'[p].booted /\ file' = Starting /\ file' \in AnyFile
         /\ UNCHANGED <<row, selected, reached, call, overlapped, overtaken, stopped>>
<1> DEFINE w == [worker[p] EXCEPT !.booted = TRUE]
<1>1. worker[p] \in Worker /\ worker \in [Pid -> Worker]
  BY DEF TypeOK
<1>2. w \in Worker /\ w.life = worker[p].life /\ w.kind = worker[p].kind /\ w.booted = TRUE
  BY <1>1 DEF Worker
<1>3. worker' = [worker EXCEPT ![p] = w]
  BY DEF Boot
<1> HIDE DEF w
<1>4. worker' \in [Pid -> Worker] /\ worker'[p] = w /\ \A q \in Pid \ {p} : worker'[q] = worker[q]
  BY <1>1, <1>2, <1>3
<1>5. Fewer
  BY <1>2, <1>4 DEF Fewer
<1>6. Starting \in AnyFile
  BY DEF Starting, Says, AnyFile, File, Rank
<1> QED  BY <1>2, <1>4, <1>5, <1>6 DEF Boot, Alive, Live, Starting

(* The stage a worker enters, and the artifacts there are then. *)
LEMMA EnterIs ==
  ASSUME TypeOK, NEW p \in Pid, Enter(p)
  PROVE  /\ worker' \in [Pid -> Worker] /\ Fewer /\ p \in Live
         /\ worker[p].booted /\ worker'[p].booted
         /\ \E next \in Stage : file' = Says("null", next, FALSE)
         /\ reached' \in Rank
         /\ \/ reached' >= reached
            \/ worker[p].kind \in Rerunning /\ (reached >= 2 => reached' >= 2)
         /\ UNCHANGED <<row, selected, call, overlapped, overtaken, stopped>>
<1> DEFINE next == IF worker[p].at = 0 THEN First(worker[p].kind) ELSE worker[p].at + 1
           w == [worker[p] EXCEPT !.at = next]
<1>1. worker[p] \in Worker /\ worker \in [Pid -> Worker] /\ worker[p].life = "alive"
  BY DEF TypeOK, Enter, Alive
<1>2. worker[p].kind \in Kind /\ worker[p].at \in Rank /\ worker[p].goal \in Rank /\ worker[p].at < worker[p].goal
  BY <1>1 DEF Worker, Enter
<1>3. next \in Stage
  BY <1>2, FirstIsAStage DEF Rank, Stage
<1>4. worker' = [worker EXCEPT ![p] = w] /\ file' = Says("null", next, FALSE)
  BY DEF Enter
<1>5. reached' = IF worker[p].at = 0 /\ worker[p].kind \in {"slicer", "qc"}
                 THEN Lower(reached, 2) ELSE Higher(reached, worker[p].at)
  BY DEF Enter
<1> HIDE DEF next
<1>6. w \in Worker /\ w.life = worker[p].life /\ w.kind = worker[p].kind /\ w.booted = worker[p].booted
  BY <1>1, <1>3 DEF Worker, Rank, Stage
<1> HIDE DEF w
<1>7. worker' \in [Pid -> Worker] /\ worker'[p] = w /\ \A q \in Pid \ {p} : worker'[q] = worker[q]
  BY <1>1, <1>4, <1>6
<1>8. Fewer
  BY <1>6, <1>7 DEF Fewer
<1>9. reached \in Rank /\ reached' \in Rank /\ (reached >= 2 => reached' >= 2)
      /\ (worker[p].kind \notin {"slicer", "qc"} => reached' >= reached)
  BY <1>2, <1>5 DEF TypeOK, Rank, Lower, Higher
<1>10. UNCHANGED <<row, selected, call, overlapped, overtaken, stopped>>
  BY DEF Enter
<1>11. worker[p].booted /\ worker'[p].booted
  BY <1>6, <1>7 DEF Enter
<1> QED  BY <1>1, <1>3, <1>4, <1>7, <1>8, <1>9, <1>10, <1>11 DEF Live, Rerunning

LEMMA FinishIs ==
  ASSUME TypeOK, NEW p \in Pid, Finish(p)
  PROVE  /\ worker' \in [Pid -> Worker] /\ Fewer /\ p \in Live /\ p \notin Live'
         /\ \E stage \in Stage :
               /\ file' = Says("true", stage, TRUE)
               /\ reached' >= stage \/ (stage = 2 /\ worker[p].kind \in Rerunning)
         /\ reached' \in Rank /\ reached' >= reached
         /\ UNCHANGED <<row, selected, call, overlapped, overtaken, stopped>>
<1>1. worker[p] \in Worker /\ worker[p].life = "alive" /\ worker[p].at > 0 /\ reached \in Rank
  BY DEF TypeOK, Finish, Alive
<1>2. worker[p].at \in Stage /\ Ends(p) /\ Ran(p)
  BY <1>1 DEF Worker, Rank, Stage, Finish, Ran
<1>3. worker' \in [Pid -> Worker] /\ Fewer /\ p \notin Live'
  BY <1>2, EndsIs DEF Live
<1>4. reached' \in Rank /\ reached' >= reached
  <2>1. reached' = reached \/ reached' = Higher(reached, worker[p].at)
    BY DEF Finish
  <2>2. \A a \in Stage, r \in Rank : Higher(r, a) \in Rank /\ Higher(r, a) >= r /\ r >= r
    BY DEF Higher, Rank, Stage
  <2> QED  BY <1>1, <1>2, <2>1, <2>2
<1>5. \E stage \in Stage : /\ file' = Says("true", stage, TRUE)
                           /\ reached' >= stage \/ (stage = 2 /\ worker[p].kind \in Rerunning)
  <2>1. CASE file' = Says("true", worker[p].at, TRUE) /\ reached' = Higher(reached, worker[p].at)
    <3>1. reached' >= worker[p].at
      BY <1>1, <1>2, <2>1 DEF Higher, Rank, Stage
    <3> QED  BY <1>2, <2>1, <3>1
  <2>2. CASE file' = Says("true", 2, TRUE) /\ worker[p].kind = "slicer"
    <3>1. 2 \in Stage /\ worker[p].kind \in Rerunning
      BY <2>2 DEF Stage, Rerunning
    <3> QED  BY <2>2, <3>1
  <2> QED  BY <2>1, <2>2 DEF Finish
<1> QED  BY <1>1, <1>3, <1>4, <1>5 DEF Live, Finish

LEMMA ReadsIs ==
  ASSUME TypeOK, NEW c \in Call, RefreshReads(c)
  PROVE  /\ call' \in [Call -> CallState]
         /\ call[c].op = "refresh" /\ call[c].at = "read"
         /\ call'[c].op = "refresh" /\ call'[c].at = "pid" /\ call'[c].row = call[c].row
         /\ call'[c].file = file \/ (call'[c].file = NoFile /\ Live # {})
         /\ \A d \in Call \ {c} : call'[d] = call[d]
         /\ UNCHANGED <<row, file, selected, reached, worker, overlapped, overtaken, stopped>>
<1>1. PICK f \in {file} \cup (IF Live # {} THEN {NoFile} ELSE {}) :
        call' = [call EXCEPT ![c].at = "pid", ![c].file = f]
  BY DEF RefreshReads
<1> DEFINE b1 == [call[c] EXCEPT !.at = "pid"]
           b2 == [b1 EXCEPT !.file = f]
<1>2. call[c] \in CallState /\ call \in [Call -> CallState] /\ f \in AnyFile
  BY <1>1 DEF TypeOK, AnyFile
<1>3. b1 \in CallState /\ b1.op = call[c].op /\ b1.at = "pid" /\ b1.row = call[c].row
  BY <1>2 DEF CallState
<1>4. call' = [call EXCEPT ![c] = b2]
  BY <1>1, <1>2
<1> HIDE DEF b1
<1>5. b2 \in CallState /\ b2.op = call[c].op /\ b2.at = "pid" /\ b2.row = call[c].row /\ b2.file = f
  BY <1>2, <1>3 DEF CallState
<1> HIDE DEF b2
<1>6. call' \in [Call -> CallState] /\ call'[c] = b2 /\ \A d \in Call \ {c} : call'[d] = call[d]
  BY <1>2, <1>4, <1>5
<1>7. f = file \/ (f = NoFile /\ Live # {})
  BY <1>1
<1> QED  BY <1>5, <1>6, <1>7 DEF RefreshReads

LEMMA AsksForThePidIs ==
  ASSUME TypeOK, NEW c \in Call, RefreshAsks(c)
  PROVE  /\ call' \in [Call -> CallState]
         /\ call[c].op = "refresh" /\ call[c].at = "pid"
         /\ call'[c].op = "refresh" /\ call'[c].at = "commit" /\ call'[c].row = call[c].row
         /\ call'[c].file = call[c].file
         /\ \A d \in Call \ {c} : call'[d] = call[d]
         /\ UNCHANGED <<row, file, selected, reached, worker, overlapped, overtaken, stopped>>
<1> DEFINE alive == Answers(call[c].row.pid)
           b1 == [call[c] EXCEPT !.at = "commit"]
           b2 == [b1 EXCEPT !.alive = alive]
<1>1. call[c] \in CallState /\ call \in [Call -> CallState] /\ alive \in BOOLEAN
  BY DEF TypeOK, Answers
<1>2. b1 \in CallState /\ b1.op = call[c].op /\ b1.at = "commit" /\ b1.row = call[c].row
      /\ b1.file = call[c].file
  BY <1>1 DEF CallState
<1>3. call' = [call EXCEPT ![c] = b2]
  BY <1>1 DEF RefreshAsks
<1> HIDE DEF b1, alive
<1>4. b2 \in CallState /\ b2.op = call[c].op /\ b2.at = "commit" /\ b2.row = call[c].row
      /\ b2.file = call[c].file
  BY <1>1, <1>2 DEF CallState
<1> HIDE DEF b2
<1>5. call' \in [Call -> CallState] /\ call'[c] = b2 /\ \A d \in Call \ {c} : call'[d] = call[d]
  BY <1>1, <1>3, <1>4
<1> QED  BY <1>4, <1>5 DEF RefreshAsks

LEMMA KillsIs ==
  ASSUME TypeOK, NEW c \in Call, call[c].row.pid \in Pid, CancelKills(c)
  PROVE  /\ call' \in [Call -> CallState]
         /\ call[c].op = "cancel" /\ call[c].at = "kill"
         /\ call'[c].op = "cancel" /\ call'[c].at = "commit" /\ call'[c].row = call[c].row
         /\ \A d \in Call \ {c} : call'[d] = call[d]
         /\ worker' \in [Pid -> Worker] /\ Fewer /\ call[c].row.pid \notin Live'
         /\ file' = file \/ (file' = NoFile /\ call[c].row.pid \in Live)
         /\ UNCHANGED <<row, selected, reached, overlapped, overtaken, stopped>>
<1> DEFINE p == call[c].row.pid
           b == [call[c] EXCEPT !.at = "commit"]
<1>1. call[c] \in CallState /\ call \in [Call -> CallState]
  BY DEF TypeOK
<1>2. b \in CallState /\ b.op = call[c].op /\ b.at = "commit" /\ b.row = call[c].row
  BY <1>1 DEF CallState
<1>3. call' = [call EXCEPT ![c] = b]
  BY <1>1 DEF CancelKills
<1> HIDE DEF b
<1>4. call' \in [Call -> CallState] /\ call'[c] = b /\ \A d \in Call \ {c} : call'[d] = call[d]
  BY <1>1, <1>2, <1>3
<1>5. CASE Alive(p) /\ Ends(p) /\ file' \in {file, NoFile}
  <2>1. Ran(p)
    BY <1>5 DEF Alive, Ran
  <2>2. worker' \in [Pid -> Worker] /\ Fewer /\ worker'[p].life = "zombie"
    BY <1>5, <2>1, EndsIs
  <2> QED  BY <1>2, <1>4, <1>5, <2>2 DEF CancelKills, Live, Alive
<1>6. CASE ~Alive(p) /\ UNCHANGED <<worker, file>>
  <2>1. worker' \in [Pid -> Worker] /\ Fewer
    BY <1>6 DEF TypeOK, Fewer
  <2> QED  BY <1>2, <1>4, <1>6, <2>1 DEF CancelKills, Live, Alive
<1> QED  BY <1>5, <1>6 DEF CancelKills

LEMMA MarkIs ==
  ASSUME TypeOK, NEW c \in Call, CancelCommits(c)
  PROVE  /\ file' \in File /\ file'.ok = "false" /\ file'.cancelled /\ file'.done
         /\ row' \in Row /\ row'.status = "cancelled" /\ row'.pid = call[c].row.pid
         /\ file'.stage = file.stage /\ row'.stage = row.stage
<1> DEFINE f  == IF file = NoFile THEN Says("null", 0, FALSE) ELSE file
           f1 == [f EXCEPT !.ok = "false"]
           f2 == [f1 EXCEPT !.cancelled = TRUE]
           r  == [row EXCEPT !.status = "cancelled"]
<1>1. f \in File /\ f.stage = file.stage
  BY NoFileIs DEF TypeOK, AnyFile, Says, File, Rank
<1> HIDE DEF f
<1>2. f1 \in File /\ f1.ok = "false" /\ f1.stage = file.stage
  BY <1>1 DEF File
<1> HIDE DEF f1
<1>3. f2 \in File /\ f2.ok = "false" /\ f2.cancelled = TRUE /\ f2.stage = file.stage
  BY <1>2 DEF File
<1>4. file' = [f2 EXCEPT !.done = TRUE]
  BY DEF CancelCommits, f, f1
<1> HIDE DEF f2
<1>5. /\ file' \in File /\ file'.ok = "false" /\ file'.cancelled = TRUE /\ file'.done = TRUE
      /\ file'.stage = file.stage
  BY <1>3, <1>4 DEF File
<1>6. r \in Row /\ r.status = "cancelled" /\ r.stage = row.stage /\ call[c].row.pid \in Pid \cup {NoPid}
  BY DEF TypeOK, Row, Status, CallState
<1>7. row' = [r EXCEPT !.pid = call[c].row.pid]
  BY DEF CancelCommits
<1> HIDE DEF r
<1> QED  BY <1>5, <1>6, <1>7 DEF Row

LEMMA OvertakesIs ==
  ASSUME TypeOK, NEW c \in Call, Overtakes(c)
  PROVE  overtaken' \in BOOLEAN
  BY DEF Overtakes, TypeOK

LEMMA CallIs == ASSUME TypeOK, NEW c \in Call
                      PROVE  /\ call[c].row \in Row /\ call[c].file \in AnyFile
                             /\ call[c].alive \in BOOLEAN /\ row \in Row
                             /\ call[c].row.pid \in Pid \cup {NoPid} /\ row.pid \in Pid \cup {NoPid}
  BY DEF TypeOK, CallState, Row

-----------------------------------------------------------------------------
(* Types are kept, whatever calls are in progress. *)
LEMMA InitTyped == Init => TypeOK
<1> SUFFICES ASSUME Init PROVE TypeOK
  OBVIOUS
<1>1. NoWorker \in Worker
  BY DEF NoWorker, Worker, Life, Kind, Pipeline, Rank
<1>2. worker \in [Pid -> Worker] /\ call \in [Call -> CallState]
  BY <1>1, NoCallIs DEF Init
<1>3. row \in Row /\ file \in AnyFile /\ reached \in Rank
  BY NoCallIs DEF Init, AnyFile, Rank
<1>4. selected \in BOOLEAN /\ overlapped \in BOOLEAN /\ overtaken \in BOOLEAN /\ stopped \in BOOLEAN
  BY DEF Init
<1> QED  BY <1>2, <1>3, <1>4 DEF TypeOK

LEMMA CallsTyped ==
  ASSUME TypeOK, NEW c \in Call,
         Asks(c) \/ Refresh(c) \/ Cancel(c) \/ CancelEnded(c) \/ Select(c) \/ Serves(c)
  PROVE  TypeOK'
<1> USE DEF TypeOK
<1>1. CASE Asks(c)
  BY <1>1, AsksIs DEF AnyFile
<1>2. CASE Refresh(c) \/ Cancel(c) \/ Select(c)
  <2>1. \E op \in Op, at \in {"read", "kill", "commit"} : Begin(c, op, at, 0)
    BY <1>2 DEF Refresh, Cancel, Select, Op
  <2>2. call' \in [Call -> CallState]
    BY <2>1, BeginIs DEF Rank
  <2> QED  BY <1>2, <2>2 DEF Refresh, Cancel, Select
<1>3. CASE CancelEnded(c)
  <2>1. row' = Applied(file, row, FALSE)
    BY <1>3 DEF CancelEnded
  <2> QED  BY <1>3, <2>1, AppliedIs DEF CancelEnded
<1>4. CASE Launch(c)
  BY <1>4, LaunchIs
<1>5. CASE Launched(c)
  <2>1. row' \in Row
    BY <1>5, CallIs, FirstIsAStage DEF Launched, Row, Status, Stage, Rank
  <2> QED  BY <1>5, <2>1, ReturnIs, OvertakesIs DEF Launched
<1>6. CASE RefreshReads(c)
  BY <1>6, ReadsIs
<1>7. CASE RefreshAsks(c)
  BY <1>7, AsksForThePidIs
<1>8. CASE RefreshCommits(c)
  <2>1. row' \in Row
    BY <1>8, CallIs, AppliedIs, CommitIs DEF RefreshCommits
  <2> QED  BY <1>8, <2>1, ReturnIs, OvertakesIs DEF RefreshCommits
<1>9. CASE CancelKills(c)
  <2> DEFINE p == call[c].row.pid
             w == [NoWorker EXCEPT !.life = "zombie"]
             b == [call[c] EXCEPT !.at = "commit"]
  <2>1. b \in CallState
    BY DEF CallState
  <2>2. call' = [call EXCEPT ![c] = b]
    BY <1>9 DEF CancelKills
  <2>3. worker' \in [Pid -> Worker]
    <3>1. worker' = worker \/ worker' = [worker EXCEPT ![p] = w]
      BY <1>9 DEF CancelKills, Ends
    <3>2. w \in Worker
      BY EndedIs
    <3> HIDE DEF w, p
    <3> QED  BY <3>1, <3>2
  <2>4. file' \in AnyFile
    BY <1>9 DEF CancelKills, AnyFile
  <2> HIDE DEF b
  <2> QED  BY <1>9, <2>1, <2>2, <2>3, <2>4 DEF CancelKills
<1>10. CASE CancelCommits(c)
  <2>1. call' \in [Call -> CallState] /\ stopped' \in BOOLEAN /\ overtaken' \in BOOLEAN
    BY <1>10, ReturnIs, OvertakesIs DEF CancelCommits, NothingSince
  <2> QED  BY <1>10, <2>1, MarkIs DEF CancelCommits, AnyFile
<1>11. CASE SelectCommits(c)
  <2>1. row' \in Row
    BY <1>11, CallIs DEF SelectCommits, Row
  <2> QED  BY <1>11, <2>1, ReturnIs, OvertakesIs DEF SelectCommits
<1> QED  BY <1>1, <1>2, <1>3, <1>4, <1>5, <1>6, <1>7, <1>8, <1>9, <1>10, <1>11 DEF Serves

LEMMA WorkersTyped ==
  ASSUME TypeOK, NEW p \in Pid, Runs(p) \/ Break(p) \/ Die(p)
  PROVE  TypeOK'
<1> USE DEF TypeOK
<1>1. \A stage \in Rank : Says("null", stage, FALSE) \in AnyFile
                          /\ Says("true", stage, TRUE) \in AnyFile
                          /\ Says("false", stage, TRUE) \in AnyFile
  BY DEF Says, AnyFile, File
<1>2. Stage \subseteq Rank
  BY DEF Stage, Rank
<1>3. CASE Boot(p)
  BY <1>3, BootIs
<1>4. CASE Enter(p)
  BY <1>1, <1>2, <1>4, EnterIs
<1>5. CASE Finish(p)
  BY <1>1, <1>2, <1>5, FinishIs
<1>6. CASE Break(p)
  <2>1. Ran(p) /\ worker[p].at \in Rank /\ Ends(p)
    BY <1>6 DEF Break, Alive, Ran, Worker
  <2>2. worker' \in [Pid -> Worker]
    BY <2>1, EndsIs
  <2> QED  BY <1>1, <1>6, <2>1, <2>2 DEF Break
<1>7. CASE Die(p)
  <2>1. Ran(p) /\ Ends(p)
    BY <1>7 DEF Die, Alive, Ran
  <2>2. worker' \in [Pid -> Worker]
    BY <2>1, EndsIs
  <2> QED  BY <1>7, <2>2 DEF Die, AnyFile
<1> QED  BY <1>3, <1>4, <1>5, <1>6, <1>7 DEF Runs

LEMMA NextTyped == TypeOK /\ [Next]_vars => TypeOK'
<1> SUFFICES ASSUME TypeOK, [Next]_vars PROVE TypeOK'
  OBVIOUS
<1>1. CASE Reap
  BY <1>1, ReapIs DEF Reap, TypeOK
<1>2. CASE Restart
  BY <1>2, ReapIs, NoCallIs DEF Restart, TypeOK
<1>3. CASE UNCHANGED vars
  BY <1>3 DEF vars, TypeOK
<1> QED  BY <1>1, <1>2, <1>3, CallsTyped, WorkersTyped DEF Next

(* Every variable keeps its type whatever calls overlap: status.json is    *)
(* what a worker or a cancellation writes, or unreadable, and a launch has  *)
(* a pid of its own to give.                                               *)
THEOREM TypeCorrect == Spec => []TypeOK
BY InitTyped, NextTyped, PTL DEF Spec

-----------------------------------------------------------------------------
(* What stays so while no worker is launched and no call begins. *)
LEMMA PidsAre ==
  ASSUME TypeOK
  PROVE  /\ row.pid \in Nat /\ \A c \in Call : call[c].row.pid \in Nat
         /\ row.pid # NoPid => row.pid \in Pid
         /\ \A c \in Call : call[c].row.pid # NoPid => call[c].row.pid \in Pid
<1>1. row.pid \in Pid \cup {NoPid} /\ \A c \in Call : call[c].row.pid \in Pid \cup {NoPid}
  BY CallIs DEF TypeOK, Row
<1>2. Pid \subseteq Nat /\ NoPid \in Nat
  BY Pids
<1> QED  BY <1>1, <1>2

LEMMA WorkersKept ==
  ASSUME TypeOK, WorkersAreSound, Fewer, overlapped' = overlapped, overtaken => overtaken',
         row'.pid # NoPid => row'.pid \in Pid /\ Ran(row'.pid),
         row'.pid = NoPid /\ ~overtaken' => row'.status = "pending"
  PROVE  /\ WorkersAreSound' /\ Live' \subseteq Live
         /\ \A p \in Pid : Ran(p)' = Ran(p) /\ IsLast(p)' = IsLast(p)
<1>1. \A p \in Pid : Ran(p)' = Ran(p)
  BY DEF Fewer, Ran
<1>2. \A p \in Pid : IsLast(p)' = IsLast(p)
  BY <1>1 DEF IsLast
<1>3. Live' \subseteq Live
  BY DEF Fewer, Live
<1>4. WorkersAreSound'
  <2>1. (\A p, q \in Pid : p < q /\ Ran(q) => Ran(p))'
    BY <1>1 DEF WorkersAreSound
  <2>2. (row.pid # NoPid => Ran(row.pid))'
    BY <1>1 DEF Ran
  <2>3. (row.pid = NoPid /\ ~overtaken => row.status = "pending")'
    OBVIOUS
  <2>4. (\A p \in Live : ~worker[p].booted => worker[p].kind \in Pipeline)'
    BY <1>3 DEF WorkersAreSound, Fewer, Live
  <2>5. (~overlapped => \A p \in Live : IsLast(p))'
    BY <1>2, <1>3 DEF WorkersAreSound, Live
  <2> QED  BY <2>1, <2>2, <2>3, <2>4, <2>5 DEF WorkersAreSound
<1> QED  BY <1>1, <1>2, <1>3, <1>4

(* While no second worker was alive at once, one that is alive is the one  *)
(* in the row, once the last launch is. *)
LEMMA LiveIsRecorded ==
  ASSUME TypeOK, WorkersAreSound, ~overlapped, LastIsRecorded, NEW p \in Live
  PROVE  p = row.pid /\ Ran(p) /\ p \in Pid
<1>1. p \in Pid /\ Ran(p) /\ IsLast(p) /\ p <= row.pid
  BY DEF Live, WorkersAreSound, Ran, LastIsRecorded
<1>2. p \in Nat /\ row.pid \in Nat /\ p > 0
  BY <1>1, PidsAre, Pids DEF Pid
<1>3. row.pid # NoPid
  BY <1>1, <1>2, Pids
<1>4. Ran(row.pid) /\ row.pid \in Pid
  BY <1>3, PidsAre DEF WorkersAreSound
<1>5. row.pid <= p
  BY <1>1, <1>4 DEF IsLast
<1> QED  BY <1>1, <1>2, <1>5

(* A call does nothing, ends, or goes on with what it had read; a cancel   *)
(* goes on when its worker has ended.                                      *)
Follows(c) ==
  \/ call'[c] = call[c]
  \/ call'[c] = NoCall
  \/ /\ call[c].op = "refresh" /\ call[c].at = "pid"
     /\ call'[c].op = "refresh" /\ call'[c].at = "commit"
     /\ call'[c].row = call[c].row /\ call'[c].file = call[c].file
  \/ /\ call[c].op = "cancel" /\ call[c].row.pid \notin Live'
     /\ call'[c].op = "cancel" /\ call'[c].row = call[c].row

LEMMA FollowsIs ==
  ASSUME NEW c \in Call, Follows(c)
  PROVE  /\ call'[c].row.pid \in {call[c].row.pid, NoPid}
         /\ call'[c].op # "none" => call'[c].op = call[c].op /\ call'[c].row = call[c].row
         /\ Launching(c)' => call'[c] = call[c] /\ Launching(c)
         /\ call'[c].op = "cancel" => call'[c] = call[c] \/ call'[c].row.pid \notin Live'
         /\ HasRead(c)' => HasRead(c) /\ call'[c].file = call[c].file
<1>1. NoCall.op = "none" /\ NoCall.row.pid = NoPid
  BY DEF NoCall, NoRow
<1>2. "none" \notin Kind /\ "refresh" \notin Kind /\ "cancel" \notin Kind
  BY DEF Kind, Pipeline
<1> QED  BY <1>1, <1>2 DEF Follows, Launching, HasRead

LEMMA FilesKept ==
  ASSUME FilesAreSound, \A c \in Call : Follows(c), Fewer, file' = file, reached' = reached
  PROVE  FilesAreSound'
<1>1. FileIsSound(file)' /\ (file.ok = "true" => reached >= file.stage)'
  BY DEF FilesAreSound, FileIsSound
<1>2. (\A c \in Call : HasRead(c) => FileIsSound(call[c].file))'
  BY FollowsIs DEF FilesAreSound, FileIsSound
<1>3. ((\E c \in Call : call[c].op \in Rerunning) => reached >= 2)'
  BY FollowsIs DEF FilesAreSound, Rerunning
<1>4. ((\E p \in Live : worker[p].kind \in Rerunning) => reached >= 2)'
  BY DEF FilesAreSound, Fewer, Live
<1> QED  BY <1>1, <1>2, <1>3, <1>4 DEF FilesAreSound

LEMMA CallsKept ==
  ASSUME TypeOK, TypeOK', CallsAreSound, \A c \in Call : Follows(c), Fewer,
         \/ row'.pid = row.pid
         \/ \E c \in Call : call'[c] = NoCall /\ row'.pid = call[c].row.pid,
         ~overtaken' => ~overtaken /\ row.pid <= row'.pid
  PROVE  CallsAreSound'
<1> SUFFICES ASSUME NEW c \in Call
             PROVE  /\ (call[c].row.pid # NoPid => Ran(call[c].row.pid))'
                    /\ (call[c].op \in {"refresh", "cancel"} => call[c].row.pid # NoPid)'
                    /\ (Launching(c) =>
                           /\ call[c].row.pid # NoPid /\ row.pid # call[c].row.pid
                           /\ \A d \in Call \ {c} : call[d].row.pid # call[c].row.pid)'
                    /\ (call[c].op = "cancel" /\ call[c].at = "commit" => call[c].row.pid \notin Live)'
                    /\ (call[c].op \in {"refresh", "cancel", "select"} /\ ~overtaken
                            => call[c].row.pid <= row.pid)'
  BY DEF CallsAreSound
<1>1. (call[c].row.pid # NoPid => Ran(call[c].row.pid))'
  BY FollowsIs, PidsAre DEF CallsAreSound, Fewer, Ran
<1>2. (call[c].op \in {"refresh", "cancel"} => call[c].row.pid # NoPid)'
  BY FollowsIs DEF CallsAreSound
<1>3. (Launching(c) =>
         /\ call[c].row.pid # NoPid /\ row.pid # call[c].row.pid
         /\ \A d \in Call \ {c} : call[d].row.pid # call[c].row.pid)'
  <2> SUFFICES ASSUME Launching(c)'
               PROVE  /\ call'[c].row.pid # NoPid /\ row'.pid # call'[c].row.pid
                      /\ \A d \in Call \ {c} : call'[d].row.pid # call'[c].row.pid
    OBVIOUS
  <2>1. /\ Launching(c) /\ call'[c] = call[c] /\ call[c].row.pid # NoPid /\ row.pid # call[c].row.pid
        /\ \A d \in Call \ {c} : call[d].row.pid # call[c].row.pid
    BY FollowsIs DEF CallsAreSound
  <2>2. \A d \in Call : call'[d] = NoCall => d # c
    BY <2>1 DEF Launching, NoCall, Kind, Pipeline
  <2> QED  BY <2>1, <2>2, FollowsIs
<1>4. (call[c].op = "cancel" /\ call[c].at = "commit" => call[c].row.pid \notin Live)'
  BY FollowsIs DEF CallsAreSound, Fewer, Live
<1>5. (call[c].op \in {"refresh", "cancel", "select"} /\ ~overtaken => call[c].row.pid <= row.pid)'
  <2>1. /\ row.pid \in Nat /\ row'.pid \in Nat /\ call[c].row.pid \in Nat
    BY PidsAre, CallIs, Pids DEF TypeOK, Row
  <2>2. call'[c].op \in {"refresh", "cancel", "select"} =>
          call'[c].op = call[c].op /\ call'[c].row = call[c].row
    BY FollowsIs
  <2> QED  BY <2>1, <2>2 DEF CallsAreSound
<1> QED  BY <1>1, <1>2, <1>3, <1>4, <1>5

LEMMA RecordedKept ==
  ASSUME Fewer, row'.pid = row.pid, overlapped' = overlapped, overtaken => overtaken'
  PROVE  Recorded' => Recorded
<1>1. LastIsRecorded' => LastIsRecorded
  BY DEF LastIsRecorded, Fewer
<1> QED  BY <1>1 DEF Recorded

LEMMA PollsKept ==
  ASSUME PollsAreSound, \A c \in Call : Follows(c),
         Recorded' => Recorded /\ row'.pid = row.pid,
         Recorded' /\ Unbooted' =>
           Unbooted /\ file'.stage = file.stage /\ row'.stage \in {row.stage, file.stage}
  PROVE  PollsAreSound'
<1> SUFFICES ASSUME Recorded', Unbooted', NEW c \in Call
             PROVE  /\ Polls(c)' => row'.stage \in {call'[c].row.stage, file'.stage}
                    /\ Current(c)' => call'[c].file.stage \in {0, file'.stage}
  BY DEF PollsAreSound
<1>1. /\ Polls(c) => row.stage \in {call[c].row.stage, file.stage}
      /\ Current(c) => call[c].file.stage \in {0, file.stage}
  BY DEF PollsAreSound
<1>2. Polls(c)' => Polls(c) /\ call'[c].row = call[c].row
  BY FollowsIs DEF Polls
<1>3. Current(c)' => Current(c) /\ call'[c].file = call[c].file
  BY FollowsIs DEF Current, HasRead
<1> QED  BY <1>1, <1>2, <1>3

LEMMA CurrentKept ==
  ASSUME NEW c \in Call, Follows(c), row'.pid = row.pid
  PROVE  /\ Current(c)' => Current(c) /\ call'[c].file = call[c].file
         /\ SeenDone(c)' => SeenDone(c)
         /\ SeenAgain(c)' => SeenAgain(c)
<1>1. HasRead(c)' => HasRead(c) /\ call'[c].file = call[c].file /\ call'[c].row = call[c].row
  BY FollowsIs DEF HasRead
<1> QED  BY <1>1 DEF Current, SeenDone, SeenAgain

LEMMA ShownKept ==
  ASSUME TypeOK, TypeOK', ShownIsReached, \A c \in Call : Follows(c),
         Recorded' => Recorded /\ row'.pid = row.pid,
         Recorded' /\ Fresh' => /\ Fresh /\ file'.stage \in {0, file.stage}
                               /\ reached' = reached /\ row'.stage = row.stage,
         row'.status = "completed" => row.status = "completed"
  PROVE  ShownIsReached'
<1> SUFFICES ASSUME Recorded', Fresh', Done'
             PROVE  /\ reached' >= file'.stage
                    /\ \A c \in Call : Current(c)' => reached' >= call'[c].file.stage
                    /\ (row'.status = "completed" \/ \E c \in Call : SeenAgain(c)') => reached' >= row'.stage
  BY DEF ShownIsReached
<1>1. Done
  BY CurrentKept DEF Done
<1>2. /\ reached >= file.stage
      /\ \A c \in Call : Current(c) => reached >= call[c].file.stage
      /\ (row.status = "completed" \/ \E c \in Call : SeenAgain(c)) => reached >= row.stage
  BY <1>1 DEF ShownIsReached
<1>3. reached >= 0
  BY DEF TypeOK, Rank
<1> QED  BY <1>2, <1>3, CurrentKept

LEMMA StaysKept ==
  ASSUME StaysCancelled, \A c \in Call : Follows(c), Fewer,
         ~overlapped' => ~overlapped, stopped' => stopped, file' = file \/ Live # {}
  PROVE  StaysCancelled'
<1>1. Live' \subseteq Live
  BY DEF Fewer, Live
<1>2. \A c \in Call : call'[c].op \in Kind => call[c].op \in Kind
  BY FollowsIs DEF Kind, Pipeline
<1> QED  BY <1>1, <1>2 DEF StaysCancelled

Sound == /\ WorkersAreSound /\ FilesAreSound /\ CallsAreSound
         /\ PollsAreSound /\ ShownIsReached /\ StaysCancelled

-----------------------------------------------------------------------------
(* Each step keeps the invariant. *)
LEMMA RestsSoundly ==
  ASSUME IInv, TypeOK', Fewer, \A c \in Call : Follows(c),
         UNCHANGED <<row, file, reached, overlapped, overtaken, stopped>>
  PROVE  Sound'
<1> USE DEF IInv
<1>1. WorkersAreSound'
  BY WorkersKept, PidsAre DEF WorkersAreSound
<1>2. Recorded' => Recorded
  BY RecordedKept
<1>3. FilesAreSound'
  BY FilesKept
<1>4. CallsAreSound'
  <2>1. row.pid <= row'.pid
    BY PidsAre
  <2> QED  BY <2>1, CallsKept
<1>5. Recorded' /\ Unbooted' => Unbooted
  BY PidsAre DEF Unbooted, Fewer, Live
<1>6. PollsAreSound'
  BY <1>2, <1>5, PollsKept
<1>7. ShownIsReached'
  <2>1. Recorded' /\ Fresh' => Fresh
    BY <1>5 DEF Fresh
  <2> QED  BY <1>2, <2>1, ShownKept
<1>8. StaysCancelled'
  BY StaysKept
<1> QED  BY <1>1, <1>3, <1>4, <1>6, <1>7, <1>8 DEF Sound

(* The worker in the row is the only one alive, and what it writes ends    *)
(* what had been seen, except that it starts. *)
LEMMA WorksSoundly ==
  ASSUME IInv, TypeOK', Fewer, NEW p \in Live, worker'[p].booted \/ p \notin Live',
         FileIsSound(file)', file'.ok = "true" => reached' >= file'.stage,
         file' = Starting => ~worker[p].booted /\ reached' = reached,
         reached >= 2 => reached' >= 2,
         \A c \in Call : Follows(c),
         UNCHANGED <<row, overlapped, overtaken, stopped>>
  PROVE  Sound'
<1> USE DEF IInv
<1>1. WorkersAreSound' /\ Live' \subseteq Live /\ p \in Pid
  BY WorkersKept, PidsAre DEF WorkersAreSound, Live
<1>3. Recorded' => Recorded /\ p = row.pid
  <2>1. Recorded' => Recorded
    BY RecordedKept
  <2> QED  BY <2>1, LiveIsRecorded DEF Recorded
<1>4. FilesAreSound'
  <2>1. (\A c \in Call : HasRead(c) => FileIsSound(call[c].file))'
    BY FollowsIs DEF FilesAreSound, FileIsSound
  <2>2. ((\E c \in Call : call[c].op \in Rerunning) => reached >= 2)'
    BY FollowsIs DEF FilesAreSound, Rerunning
  <2>3. ((\E q \in Live : worker[q].kind \in Rerunning) => reached >= 2)'
    BY DEF FilesAreSound, Fewer, Live
  <2> QED  BY <2>1, <2>2, <2>3 DEF FilesAreSound
<1>5. CallsAreSound'
  <2>1. row.pid <= row'.pid
    BY PidsAre
  <2> QED  BY <2>1, CallsKept
<1>6. Recorded' => ~Unbooted'
  BY <1>3 DEF Unbooted
<1>7. PollsAreSound'
  BY <1>3, <1>6, PollsKept
<1>8. ShownIsReached'
  <2>1. ASSUME Recorded', Fresh' PROVE Fresh /\ file'.stage = 0 /\ reached' = reached
    <3>1. file' = Starting /\ Starting.stage = 0
      BY <1>6, <2>1 DEF Fresh, Starting, Says
    <3>2. ~worker[p].booted /\ p = row.pid
      BY <1>3, <2>1, <3>1
    <3> QED  BY <3>1, <3>2 DEF Fresh, Unbooted
  <2> QED  BY <1>3, <2>1, ShownKept
<1>9. StaysCancelled'
  BY StaysKept
<1> QED  BY <1>1, <1>4, <1>5, <1>7, <1>8, <1>9 DEF Sound

LEMMA RunsSoundly ==
  ASSUME IInv, TypeOK', NEW p \in Pid, Runs(p) \/ Break(p) \/ Die(p)
  PROVE  Sound'
<1> USE DEF IInv
<1>1. TypeOK /\ reached \in Rank /\ FileIsSound(file) /\ (file.ok = "true" => reached >= file.stage)
  BY DEF TypeOK, FilesAreSound
<1>0. call' = call => \A c \in Call : Follows(c)
  BY DEF Follows
<1>2. CASE Boot(p)
  <2>1. /\ Fewer /\ p \in Live /\ ~worker[p].booted /\ worker'[p].booted /\ file' = Starting
        /\ UNCHANGED <<row, selected, reached, call, overlapped, overtaken, stopped>>
    BY <1>2, BootIs
  <2>2. FileIsSound(file)' /\ file'.ok # "true"
    BY <2>1 DEF FileIsSound, Starting, Says
  <2> QED  BY <2>1, <2>2, <1>0, WorksSoundly
<1>3. CASE Enter(p)
  <2>1. /\ Fewer /\ p \in Live /\ worker'[p].booted /\ reached' \in Rank
        /\ reached' >= reached \/ (reached >= 2 => reached' >= 2)
        /\ UNCHANGED <<row, selected, call, overlapped, overtaken, stopped>>
    BY <1>3, EnterIs
  <2>2. PICK next \in Stage : file' = Says("null", next, FALSE)
    BY <1>3, EnterIs
  <2>3. FileIsSound(file)' /\ file'.ok # "true" /\ file' # Starting
    BY <2>2 DEF FileIsSound, Starting, Says, Stage
  <2>4. reached >= 2 => reached' >= 2
    BY <1>1, <2>1 DEF Rank
  <2> QED  BY <2>1, <2>3, <2>4, <1>0, WorksSoundly
<1>4. CASE Finish(p)
  <2>1. /\ Fewer /\ p \in Live /\ p \notin Live' /\ reached' \in Rank /\ reached' >= reached
        /\ UNCHANGED <<row, selected, call, overlapped, overtaken, stopped>>
    BY <1>4, FinishIs
  <2>2. PICK stage \in Stage : /\ file' = Says("true", stage, TRUE)
                               /\ reached' >= stage \/ (stage = 2 /\ worker[p].kind \in Rerunning)
    BY <1>4, FinishIs
  <2>3. worker[p].kind \in Rerunning => reached >= 2
    BY <2>1 DEF FilesAreSound
  <2>4. reached' >= stage /\ (reached >= 2 => reached' >= 2)
    BY <1>1, <2>1, <2>2, <2>3 DEF Rank, Stage
  <2>5. FileIsSound(file)' /\ file' # Starting /\ (file'.ok = "true" => reached' >= file'.stage)
    BY <2>2, <2>4 DEF FileIsSound, Starting, Says, Stage
  <2> QED  BY <2>1, <2>4, <2>5, <1>0, WorksSoundly
<1>5. ASSUME Break(p) \/ Die(p)
      PROVE  /\ Ends(p) /\ p \in Live /\ Fewer /\ p \notin Live'
             /\ UNCHANGED <<row, selected, reached, call, overlapped, overtaken, stopped>>
  <2>1. /\ Ends(p) /\ p \in Live /\ Ran(p)
        /\ UNCHANGED <<row, selected, reached, call, overlapped, overtaken, stopped>>
    BY <1>5 DEF Break, Die, Alive, Live, Ran
  <2>2. Fewer /\ worker'[p].life = "zombie"
    BY <2>1, EndsIs
  <2> QED  BY <2>1, <2>2 DEF Live
<1>6. CASE Break(p)
  <2>1. file' = Says("false", worker[p].at, TRUE)
    BY <1>6 DEF Break
  <2>2. FileIsSound(file)' /\ file'.ok # "true" /\ file' # Starting
    BY <2>1 DEF FileIsSound, Starting, Says
  <2> QED  BY <1>5, <1>6, <2>2, <1>0, WorksSoundly
<1>7. CASE Die(p) /\ file' = NoFile
  <2>1. FileIsSound(file)' /\ file'.ok # "true" /\ file' # Starting
    BY <1>7, NoFileIs DEF FileIsSound, Starting, Says
  <2> QED  BY <1>5, <1>7, <2>1, <1>0, WorksSoundly
<1>8. CASE Die(p) /\ file' = file
  <2>1. \A c \in Call : Follows(c)
    BY <1>5, <1>8 DEF Follows
  <2> QED  BY <1>5, <1>8, <2>1, RestsSoundly
<1> QED  BY <1>2, <1>3, <1>4, <1>6, <1>7, <1>8 DEF Runs, Die

(* The steps that only begin a call, and what it has checked by then. *)
LEMMA BeginsSoundly ==
  ASSUME IInv, TypeOK', NEW c \in Call, Refresh(c) \/ Cancel(c) \/ Select(c)
  PROVE  Sound'
<1> USE DEF IInv
<1>1. UNCHANGED <<row, file, selected, reached, worker, overlapped, overtaken, stopped>>
  BY DEF Refresh, Cancel, Select
<1>2. /\ \A d \in Call \ {c} : call'[d] = call[d]
      /\ call'[c].op \in {"refresh", "cancel", "select"} /\ call'[c].row.pid = row.pid
      /\ call'[c].op \in {"refresh", "cancel"} => row.pid # NoPid
      /\ call'[c].op = "refresh" => call'[c].row = row /\ call'[c].at = "read"
      /\ call'[c].op = "cancel" => call'[c].at = "kill"
  <2>1. CASE Refresh(c)
    BY <2>1, BeginIs, RememberedIs DEF Refresh, Op, Rank
  <2>2. CASE Cancel(c)
    BY <2>2, BeginIs, RememberedIs DEF Cancel, Op, Rank, Owned
  <2>3. CASE Select(c)
    BY <2>3, BeginIs, RememberedIs DEF Select, Op, Rank
  <2> QED  BY <2>1, <2>2, <2>3
<1>3. ~HasRead(c)' /\ call'[c].op \notin Kind /\ call'[c].op \notin Rerunning
  BY <1>2 DEF HasRead, Kind, Pipeline, Rerunning
<1>4. WorkersAreSound' /\ LastIsRecorded' = LastIsRecorded
  BY <1>1 DEF WorkersAreSound, Live, IsLast, Ran, LastIsRecorded
<1>5. FilesAreSound'
  <2>1. FileIsSound(file)' /\ (file.ok = "true" => reached >= file.stage)'
    BY <1>1 DEF FilesAreSound, FileIsSound
  <2>2. (\A d \in Call : HasRead(d) => FileIsSound(call[d].file))'
    BY <1>2, <1>3 DEF FilesAreSound, FileIsSound, HasRead
  <2>3. ((\E d \in Call : call[d].op \in Rerunning) => reached >= 2)'
    BY <1>1, <1>2, <1>3 DEF FilesAreSound
  <2>4. ((\E p \in Live : worker[p].kind \in Rerunning) => reached >= 2)'
    BY <1>1 DEF FilesAreSound, Live
  <2> QED  BY <2>1, <2>2, <2>3, <2>4 DEF FilesAreSound
<1>6. CallsAreSound'
  <2> SUFFICES ASSUME NEW d \in Call
               PROVE  /\ call'[d].row.pid # NoPid => Ran(call'[d].row.pid)
                      /\ call'[d].op \in {"refresh", "cancel"} => call'[d].row.pid # NoPid
                      /\ Launching(d)' =>
                           /\ call'[d].row.pid # NoPid /\ row.pid # call'[d].row.pid
                           /\ \A e \in Call \ {d} : call'[e].row.pid # call'[d].row.pid
                      /\ call'[d].op = "cancel" /\ call'[d].at = "commit" => call'[d].row.pid \notin Live
                      /\ call'[d].op \in {"refresh", "cancel", "select"} /\ ~overtaken =>
                           call'[d].row.pid <= row.pid
    BY <1>1 DEF CallsAreSound, Ran, Live
  <2>1. CASE d = c
    <3>1. row.pid <= row.pid
      BY PidsAre
    <3> QED  BY <1>2, <1>3, <2>1, <3>1 DEF Launching, WorkersAreSound
  <2>2. CASE d # c
    <3>1. call'[d] = call[d] /\ Launching(d)' = Launching(d)
      BY <1>2, <2>2 DEF Launching
    <3>2. ASSUME Launching(d), NEW e \in Call \ {d} PROVE call'[e].row.pid # call[d].row.pid
      BY <1>2, <3>2 DEF CallsAreSound
    <3> QED  BY <3>1, <3>2 DEF CallsAreSound
  <2> QED  BY <2>1, <2>2
<1>7. \A d \in Call : /\ Current(d)' => d # c /\ Current(d)
                      /\ SeenDone(d)' => d # c /\ SeenDone(d)
                      /\ SeenAgain(d)' => d # c /\ SeenAgain(d)
                      /\ Polls(d)' => Polls(d) \/ call'[d].row = row
  BY <1>1, <1>2, <1>3 DEF Current, HasRead, SeenDone, SeenAgain, Polls
<1>8. PollsAreSound' /\ ShownIsReached'
  <2>1. /\ Recorded' = Recorded /\ Unbooted' = Unbooted /\ Fresh' = Fresh
        /\ Done' => Done
    BY <1>1, <1>4, <1>7 DEF Recorded, Unbooted, Fresh, Done, Live
  <2>2. PollsAreSound'
    <3> SUFFICES ASSUME Recorded, Unbooted, NEW d \in Call
                 PROVE  /\ Polls(d)' => row.stage \in {call'[d].row.stage, file.stage}
                        /\ Current(d)' => call'[d].file.stage \in {0, file.stage}
      BY <1>1, <2>1 DEF PollsAreSound
    <3>1. d # c => call'[d] = call[d]
      BY <1>2
    <3>2. Polls(d)' => row.stage \in {call'[d].row.stage, file.stage}
      <4>1. CASE d = c
        BY <1>1, <1>2, <4>1 DEF Polls
      <4>2. CASE d # c
        BY <1>1, <3>1, <4>2 DEF PollsAreSound, Polls
      <4> QED  BY <4>1, <4>2
    <3> QED  BY <1>7, <3>1, <3>2 DEF PollsAreSound
  <2>3. ShownIsReached'
    BY <1>1, <1>2, <1>7, <2>1 DEF ShownIsReached
  <2> QED  BY <2>2, <2>3
<1>9. StaysCancelled'
  BY <1>1, <1>2, <1>3 DEF StaysCancelled, Live
<1> QED  BY <1>4, <1>5, <1>6, <1>8, <1>9 DEF Sound

LEMMA AsksSoundly ==
  ASSUME IInv, TypeOK', NEW c \in Call, Asks(c)
  PROVE  Sound'
<1> USE DEF IInv
<1>1. /\ \A d \in Call \ {c} : call'[d] = call[d]
      /\ call'[c].op \in Kind /\ call'[c].at = "launch" /\ call'[c].row.pid = NoPid
      /\ stopped' = FALSE /\ UNCHANGED <<row, selected, reached, worker, overtaken>>
      /\ call'[c].op \in Rerunning => reached >= 2
      /\ \/ file' = file /\ overlapped' = overlapped
         \/ /\ \E stage \in Stage : file' = Says("null", stage, FALSE)
            /\ overlapped' = (overlapped \/ Live # {})
  BY AsksIs
<1>2. ~overlapped' => ~overlapped /\ (file' = file \/ (file' # Starting /\ Live = {}))
  <2>1. CASE file' = file /\ overlapped' = overlapped
    BY <2>1
  <2>2. CASE /\ \E stage \in Stage : file' = Says("null", stage, FALSE)
             /\ overlapped' = (overlapped \/ Live # {})
    <3>1. file' # Starting
      BY <2>2 DEF Starting, Says, Stage
    <3> QED  BY <2>2, <3>1
  <2> QED  BY <1>1, <2>1, <2>2
<1>3. FileIsSound(file)' /\ (file'.ok = "true" => file' = file)
  <2>1. CASE file' = file
    BY <2>1 DEF FilesAreSound, FileIsSound
  <2>2. CASE \E stage \in Stage : file' = Says("null", stage, FALSE)
    BY <2>2 DEF FileIsSound, Says
  <2> QED  BY <1>1, <2>1, <2>2
<1>4. WorkersAreSound' /\ LastIsRecorded' = LastIsRecorded /\ Live' = Live
  BY <1>1, <1>2 DEF WorkersAreSound, Live, IsLast, Ran, LastIsRecorded
<1>5. ~HasRead(c)' /\ call'[c].op \notin {"refresh", "cancel", "select"} /\ ~Launching(c)'
  BY <1>1 DEF HasRead, Kind, Pipeline, Launching
<1>6. FilesAreSound'
  <2>1. (file.ok = "true" => reached >= file.stage)'
    BY <1>1, <1>3 DEF FilesAreSound
  <2>2. (\A d \in Call : HasRead(d) => FileIsSound(call[d].file))'
    BY <1>1, <1>5 DEF FilesAreSound, FileIsSound, HasRead
  <2>3. ((\E d \in Call : call[d].op \in Rerunning) => reached >= 2)'
    BY <1>1 DEF FilesAreSound
  <2>4. ((\E p \in Live : worker[p].kind \in Rerunning) => reached >= 2)'
    BY <1>1 DEF FilesAreSound, Live
  <2> QED  BY <1>3, <2>1, <2>2, <2>3, <2>4 DEF FilesAreSound
<1>7. CallsAreSound'
  <2> SUFFICES ASSUME NEW d \in Call
               PROVE  /\ call'[d].row.pid # NoPid => Ran(call'[d].row.pid)
                      /\ call'[d].op \in {"refresh", "cancel"} => call'[d].row.pid # NoPid
                      /\ Launching(d)' =>
                           /\ call'[d].row.pid # NoPid /\ row.pid # call'[d].row.pid
                           /\ \A e \in Call \ {d} : call'[e].row.pid # call'[d].row.pid
                      /\ call'[d].op = "cancel" /\ call'[d].at = "commit" => call'[d].row.pid \notin Live
                      /\ call'[d].op \in {"refresh", "cancel", "select"} /\ ~overtaken =>
                           call'[d].row.pid <= row.pid
    BY <1>1 DEF CallsAreSound, Ran, Live
  <2>1. CASE d = c
    BY <1>1, <1>5, <2>1
  <2>2. CASE d # c
    <3>1. call'[d] = call[d] /\ Launching(d)' = Launching(d)
      BY <1>1, <2>2 DEF Launching
    <3>2. ASSUME Launching(d), NEW e \in Call \ {d} PROVE call'[e].row.pid # call[d].row.pid
      BY <1>1, <3>2 DEF CallsAreSound
    <3> QED  BY <3>1, <3>2 DEF CallsAreSound
  <2> QED  BY <2>1, <2>2
<1>8. \A d \in Call : /\ Current(d)' => d # c /\ Current(d)
                      /\ SeenDone(d)' => d # c /\ SeenDone(d)
                      /\ SeenAgain(d)' => d # c /\ SeenAgain(d)
                      /\ Polls(d)' => d # c /\ Polls(d)
  BY <1>1, <1>5 DEF Current, HasRead, SeenDone, SeenAgain, Polls
<1>9. PollsAreSound' /\ ShownIsReached'
  <2>1. Recorded' => Recorded /\ (Fresh' => Fresh /\ file' = file) /\ (Unbooted' => Unbooted /\ file' = file)
    BY <1>1, <1>2, <1>4 DEF Recorded, Unbooted, Fresh
  <2>2. Done' => Done
    BY <1>1, <1>8 DEF Done
  <2>3. PollsAreSound'
    BY <1>1, <1>8, <2>1 DEF PollsAreSound
  <2>4. ShownIsReached'
    BY <1>1, <1>8, <2>1, <2>2 DEF ShownIsReached
  <2> QED  BY <2>3, <2>4
<1>10. StaysCancelled'
  BY <1>1 DEF StaysCancelled
<1> QED  BY <1>4, <1>6, <1>7, <1>9, <1>10 DEF Sound

(* A launch gives the worker the next pid: nothing was launched after it,  *)
(* and neither the row nor another call names it yet.                      *)
LEMMA LaunchesSoundly ==
  ASSUME IInv, TypeOK', NEW c \in Call, Launch(c)
  PROVE  Sound'
<1> USE DEF IInv
<1>1. PICK p \in Pid :
        /\ call[c].op \in Kind /\ call[c].at = "launch"
        /\ ~Ran(p) /\ \A q \in 1..(p - 1) : Ran(q)
        /\ worker'[p].life = "alive" /\ worker'[p].kind = call[c].op
        /\ worker'[p].booted = (call[c].op \notin Pipeline)
        /\ \A q \in Pid \ {p} : worker'[q] = Reaped(worker[q])
        /\ call'[c].op = call[c].op /\ call'[c].at = "commit" /\ call'[c].row.pid = p
        /\ \A d \in Call \ {c} : call'[d] = call[d]
        /\ overlapped' = (overlapped \/ Live # {})
        /\ stopped' = FALSE
        /\ UNCHANGED <<row, file, selected, reached, overtaken>>
  BY LaunchIs
<1>2. p \in Nat /\ p > 0 /\ Pid \subseteq Nat /\ p # NoPid
  BY DatasetRunAssumption, Pids DEF Pid
<1>3. \A q \in Pid \ {p} : /\ Ran(q)' = Ran(q) /\ worker'[q].kind = worker[q].kind
                           /\ worker'[q].booted = worker[q].booted
                           /\ (q \in Live') = (q \in Live)
  BY <1>1, ReapedIs DEF Ran, Live, TypeOK
<1>4. Ran(p)' /\ p \in Live' /\ p \notin Live
  BY <1>1 DEF Ran, Live
<1>5. \A q \in Pid : Ran(q) => q < p
  <2> TAKE q \in Pid
  <2>1. ASSUME Ran(q), q > p PROVE FALSE
    BY <1>1, <2>1 DEF WorkersAreSound
  <2> QED  BY <1>1, <1>2, <2>1
<1>6. IsLast(p)'
  BY <1>2, <1>3, <1>5 DEF IsLast, Ran
<1>7. row.pid = NoPid \/ (row.pid \in Pid /\ row.pid < p /\ Ran(row.pid))
  BY <1>5, PidsAre DEF WorkersAreSound
<1>8. row.pid < p /\ row.pid # p /\ row.pid \in Nat
  BY <1>2, <1>7, PidsAre DEF NoPid
<1>9. ~LastIsRecorded'
  BY <1>1, <1>2, <1>4, <1>8 DEF LastIsRecorded, Ran
<1>10. \A d \in Call : call[d].row.pid = NoPid \/ (call[d].row.pid # p /\ call[d].row.pid \in Pid)
  BY <1>1, PidsAre DEF CallsAreSound
<1>11. WorkersAreSound'
  <2>1. (\A a, q \in Pid : a < q /\ Ran(q) => Ran(a))'
    <3> SUFFICES ASSUME NEW a \in Pid, NEW q \in Pid, a < q, Ran(q)' PROVE Ran(a)'
      BY DEF Ran
    <3>1. CASE q = p
      <4>1. a \in 1..(p - 1)
        BY <1>2, <3>1, DatasetRunAssumption DEF Pid
      <4> QED  BY <1>1, <1>2, <1>3, <4>1, <3>1
    <3>2. CASE q # p
      BY <1>3, <1>4, <3>2 DEF WorkersAreSound
    <3> QED  BY <3>1, <3>2
  <2>2. (row.pid # NoPid => Ran(row.pid))'
    BY <1>1, <1>3, <1>7, <1>8
  <2>3. (row.pid = NoPid /\ ~overtaken => row.status = "pending")'
    BY <1>1 DEF WorkersAreSound
  <2>4. (\A q \in Live : ~worker[q].booted => worker[q].kind \in Pipeline)'
    BY <1>1, <1>3 DEF WorkersAreSound, Live
  <2>5. (~overlapped => \A q \in Live : IsLast(q))'
    <3> SUFFICES ASSUME ~overlapped', NEW q \in Live' PROVE IsLast(q)'
      OBVIOUS
    <3>1. q \in Pid /\ Live = {}
      BY <1>1 DEF Live
    <3>2. q = p
      BY <1>3, <3>1
    <3> QED  BY <1>6, <3>2
  <2> QED  BY <2>1, <2>2, <2>3, <2>4, <2>5 DEF WorkersAreSound
<1>12. call[c].op \notin {"refresh", "cancel", "select", "none"}
  BY <1>1 DEF Kind, Pipeline
<1>13. FilesAreSound'
  <2>1. FileIsSound(file)' /\ (file.ok = "true" => reached >= file.stage)'
    BY <1>1 DEF FilesAreSound, FileIsSound
  <2>2. (\A d \in Call : HasRead(d) => FileIsSound(call[d].file))'
    BY <1>1, <1>12 DEF FilesAreSound, FileIsSound, HasRead
  <2>3. call[c].op \in Rerunning => reached >= 2
    BY DEF FilesAreSound
  <2>4. ((\E d \in Call : call[d].op \in Rerunning) => reached >= 2)'
    BY <1>1 DEF FilesAreSound
  <2>5. ((\E q \in Live : worker[q].kind \in Rerunning) => reached >= 2)'
    BY <1>1, <1>3, <2>3 DEF FilesAreSound, Live
  <2> QED  BY <2>1, <2>2, <2>4, <2>5 DEF FilesAreSound
<1>14. CallsAreSound'
  <2> SUFFICES ASSUME NEW d \in Call
               PROVE  /\ (call[d].row.pid # NoPid => Ran(call[d].row.pid))'
                      /\ call'[d].op \in {"refresh", "cancel"} => call'[d].row.pid # NoPid
                      /\ Launching(d)' =>
                           /\ call'[d].row.pid # NoPid /\ row.pid # call'[d].row.pid
                           /\ \A e \in Call \ {d} : call'[e].row.pid # call'[d].row.pid
                      /\ (call[d].op = "cancel" /\ call[d].at = "commit" => call[d].row.pid \notin Live)'
                      /\ call'[d].op \in {"refresh", "cancel", "select"} /\ ~overtaken =>
                           call'[d].row.pid <= row.pid
    BY <1>1 DEF CallsAreSound
  <2>1. CASE d = c
    BY <1>1, <1>2, <1>4, <1>8, <1>10, <1>12, <2>1 DEF NoPid
  <2>2. CASE d # c
    <3>1. call'[d] = call[d] /\ Launching(d)' = Launching(d)
      BY <1>1, <2>2 DEF Launching
    <3>2. ASSUME Launching(d), NEW e \in Call \ {d} PROVE call'[e].row.pid # call[d].row.pid
      <4>1. CASE e = c
        BY <1>1, <1>2, <1>10, <4>1
      <4>2. CASE e # c
        BY <1>1, <3>2, <4>2 DEF CallsAreSound
      <4> QED  BY <4>1, <4>2
    <3>3. (call[d].row.pid # NoPid => Ran(call[d].row.pid))'
      BY <1>3, <1>10, <3>1 DEF CallsAreSound, Ran
    <3>4. (call[d].op = "cancel" /\ call[d].at = "commit" => call[d].row.pid \notin Live)'
      BY <1>3, <1>10, <3>1 DEF CallsAreSound, Live
    <3> QED  BY <3>1, <3>2, <3>3, <3>4 DEF CallsAreSound
  <2> QED  BY <2>1, <2>2
<1>15. PollsAreSound' /\ ShownIsReached' /\ StaysCancelled'
  BY <1>1, <1>9 DEF Recorded, PollsAreSound, ShownIsReached, StaysCancelled
<1> QED  BY <1>11, <1>13, <1>14, <1>15 DEF Sound


(* A launch commits: no poll and no other call knows its worker yet.       *)
LEMMA LaunchedSoundly ==
  ASSUME IInv, TypeOK', NEW c \in Call, Launched(c)
  PROVE  Sound'
<1> USE DEF IInv
<1>1. /\ Launching(c) /\ call'[c] = NoCall /\ \A d \in Call \ {c} : call'[d] = call[d]
      /\ row'.status = "running" /\ row'.pid = call[c].row.pid
      /\ overtaken' = (overtaken \/ call[c].row.pid < row.pid)
      /\ UNCHANGED <<file, selected, reached, worker, overlapped, stopped>>
  BY ReturnIs DEF Launched, Launching, Overtakes
<1>2. \A d \in Call : Follows(d)
  BY <1>1 DEF Follows
<1>3. /\ row'.pid # NoPid /\ row'.pid \in Pid /\ Ran(row'.pid)
      /\ \A d \in Call \ {c} : call[d].row.pid # row'.pid
  BY <1>1, PidsAre DEF CallsAreSound
<1>4. Fewer
  BY <1>1 DEF Fewer
<1>5. /\ overtaken => overtaken'
      /\ ~overtaken' => ~overtaken /\ ~(call[c].row.pid < row.pid)
  BY <1>1
<1>6. WorkersAreSound'
  BY <1>1, <1>3, <1>4, <1>5, WorkersKept
<1>7. FilesAreSound'
  BY <1>1, <1>2, <1>4, FilesKept
<1>8. CallsAreSound'
  <2>1. ~overtaken' => ~overtaken /\ row.pid <= row'.pid
    BY <1>1, <1>5, PidsAre
  <2> QED  BY <1>1, <1>2, <1>4, <2>1, CallsKept
<1>9. \A d \in Call : ~Polls(d)' /\ ~Current(d)'
  BY <1>1, <1>3 DEF Polls, Current, HasRead, NoCall
<1>10. PollsAreSound' /\ ShownIsReached'
  BY <1>1, <1>9 DEF PollsAreSound, ShownIsReached, Done, SeenDone
<1>11. StaysCancelled'
  BY <1>1, <1>2, <1>4, StaysKept
<1> QED  BY <1>6, <1>7, <1>8, <1>10, <1>11 DEF Sound

(* A poll reads status.json: before the worker in the row has said that it *)
(* starts, what stands there is what an earlier one has finished.          *)
LEMMA ReadsSoundly ==
  ASSUME IInv, TypeOK', NEW c \in Call, RefreshReads(c)
  PROVE  Sound'
<1> USE DEF IInv
<1>1. /\ call[c].op = "refresh" /\ call[c].at = "read"
      /\ call'[c].op = "refresh" /\ call'[c].at = "pid" /\ call'[c].row = call[c].row
      /\ call'[c].file \in {file, NoFile}
      /\ \A d \in Call \ {c} : call'[d] = call[d]
      /\ UNCHANGED <<row, file, selected, reached, worker, overlapped, overtaken, stopped>>
  BY ReadsIs
<1>2. /\ \A d \in Call : call'[d].op = call[d].op /\ call'[d].row = call[d].row
      /\ \A d \in Call : call'[d].op # "refresh" => call'[d] = call[d]
  BY <1>1
<1>3. WorkersAreSound' /\ LastIsRecorded' = LastIsRecorded
  BY <1>1 DEF WorkersAreSound, Live, IsLast, Ran, LastIsRecorded
<1>4. FilesAreSound'
  <2>1. FileIsSound(file)' /\ (file.ok = "true" => reached >= file.stage)'
    BY <1>1 DEF FilesAreSound, FileIsSound
  <2>2. (\A d \in Call : HasRead(d) => FileIsSound(call[d].file))'
    BY <1>1, NoFileIs DEF FilesAreSound, FileIsSound, HasRead
  <2>3. ((\E d \in Call : call[d].op \in Rerunning) => reached >= 2)'
    BY <1>1, <1>2 DEF FilesAreSound
  <2>4. ((\E p \in Live : worker[p].kind \in Rerunning) => reached >= 2)'
    BY <1>1 DEF FilesAreSound, Live
  <2> QED  BY <2>1, <2>2, <2>3, <2>4 DEF FilesAreSound
<1>5. CallsAreSound'
  <2>1. \A d \in Call : Launching(d)' = Launching(d) /\ (Launching(d) => d # c)
    BY <1>1, <1>2 DEF Launching, Kind, Pipeline
  <2> QED  BY <1>1, <1>2, <2>1 DEF CallsAreSound, Ran, Live
<1>6. \A d \in Call \ {c} : /\ Current(d)' = Current(d) /\ SeenDone(d)' = SeenDone(d)
                            /\ SeenAgain(d)' = SeenAgain(d)
  BY <1>1 DEF Current, HasRead, SeenDone, SeenAgain
<1>7. /\ \A d \in Call : Polls(d)' = Polls(d)
      /\ Current(c)' => Polls(c)
  BY <1>1, <1>2 DEF Polls, Current
<1>8. Recorded' = Recorded /\ Unbooted' = Unbooted /\ Fresh' = Fresh
  BY <1>1, <1>3 DEF Recorded, Unbooted, Fresh, Live
<1>9. call'[c].file.stage \in {0, file.stage}
  BY <1>1, NoFileIs
<1>10. PollsAreSound'
  <2> SUFFICES ASSUME Recorded, Unbooted, NEW d \in Call
               PROVE  /\ Polls(d) => row.stage \in {call[d].row.stage, file.stage}
                      /\ Current(d)' => call'[d].file.stage \in {0, file.stage}
    BY <1>1, <1>2, <1>7, <1>8 DEF PollsAreSound
  <2>1. Polls(d) => row.stage \in {call[d].row.stage, file.stage}
    BY DEF PollsAreSound
  <2>2. d # c => call'[d] = call[d]
    BY <1>1
  <2> QED  BY <1>6, <1>9, <2>1, <2>2 DEF PollsAreSound
<1>11. ShownIsReached'
  <2> SUFFICES ASSUME Recorded, Fresh, Done'
               PROVE  /\ reached >= file.stage
                      /\ \A d \in Call : Current(d)' => reached >= call'[d].file.stage
                      /\ (row.status = "completed" \/ \E d \in Call : SeenAgain(d)') => reached >= row.stage
    BY <1>1, <1>8 DEF ShownIsReached
  <2>1. SeenDone(c)' => file.ok = "true" /\ call'[c].file = file /\ Unbooted
    <3>1. SeenDone(c)' => call'[c].file.ok = "true"
      BY DEF SeenDone
    <3>2. Starting.ok # "true"
      BY DEF Starting, Says
    <3> QED  BY <1>1, <3>1, <3>2, NoFileIs DEF Fresh
  <2>2. reached >= file.stage
    <3>1. CASE Done
      BY <3>1 DEF ShownIsReached
    <3>2. CASE ~Done
      <4>1. SeenDone(c)'
        BY <1>1, <1>6, <3>2 DEF Done
      <4> QED  BY <2>1, <4>1 DEF FilesAreSound
    <3> QED  BY <3>1, <3>2
  <2>3. reached >= 0
    BY DEF TypeOK, Rank
  <2>4. ASSUME NEW d \in Call, Current(d)' PROVE reached >= call'[d].file.stage
    <3>1. CASE d = c
      BY <1>9, <2>2, <2>3, <3>1
    <3>2. CASE d # c /\ Done
      BY <1>1, <1>6, <2>4, <3>2 DEF ShownIsReached
    <3>3. CASE d # c /\ ~Done
      <4>1. SeenDone(c)'
        BY <1>1, <1>6, <3>3 DEF Done
      <4>2. call[d].file.stage \in {0, file.stage} /\ call'[d] = call[d]
        BY <1>1, <1>6, <2>1, <2>4, <3>3, <4>1 DEF PollsAreSound
      <4> QED  BY <2>2, <2>3, <4>2
    <3> QED  BY <3>1, <3>2, <3>3
  <2>5. row.status = "completed" => reached >= row.stage
    BY DEF ShownIsReached, Done
  <2>6. ASSUME NEW d \in Call, SeenAgain(d)' PROVE reached >= row.stage
    <3>1. CASE d # c
      <4>1. SeenAgain(d) /\ Done
        BY <1>6, <2>6, <3>1 DEF SeenAgain, Done
      <4> QED  BY <4>1 DEF ShownIsReached
    <3>2. CASE d = c
      <4>1. Unbooted /\ call[c].row.stage = file.stage
        BY <1>1, <2>1, <2>6, <3>2 DEF SeenAgain
      <4>2. Polls(c)
        BY <1>7, <2>6, <3>2 DEF SeenAgain, SeenDone
      <4>3. row.stage = file.stage
        BY <4>1, <4>2 DEF PollsAreSound
      <4> QED  BY <2>2, <4>3
    <3> QED  BY <3>1, <3>2
  <2> QED  BY <2>2, <2>4, <2>5, <2>6
<1>12. StaysCancelled'
  BY <1>1, <1>2 DEF StaysCancelled, Live
<1> QED  BY <1>3, <1>4, <1>5, <1>10, <1>11, <1>12 DEF Sound

(* What a poll makes of a row, from a status.json that is sound. *)
LEMMA RefreshedIs ==
  ASSUME NEW f \in AnyFile, NEW old \in Row, NEW alive \in BOOLEAN, FileIsSound(f)
  PROVE  LET new == Refreshed(f, old, alive)
         IN  /\ new \in Row /\ new.pid = old.pid
             /\ new.stage # old.stage => new.stage = f.stage /\ f.stage # 0
             /\ new.status = "completed" =>
                  \/ f.ok = "true" /\ new.stage = f.stage
                  \/ old.status = "completed" /\ new.stage = old.stage
             /\ f.cancelled /\ f.done => new.status = "cancelled"
<1>0. Refreshed(f, old, alive) \in Row /\ Refreshed(f, old, alive).pid = old.pid
  BY AppliedIs
<1>1. CASE f = NoFile
  <2>1. Refreshed(f, old, alive) = old \/ Refreshed(f, old, alive) = [old EXCEPT !.status = "failed"]
    BY <1>1 DEF Refreshed
  <2>2. /\ [old EXCEPT !.status = "failed"].status = "failed"
        /\ [old EXCEPT !.status = "failed"].stage = old.stage
    BY DEF Row
  <2> QED  BY <1>0, <1>1, <2>1, <2>2, NoFileIs
<1>2. CASE f # NoFile
  <2>1. f \in File
    BY <1>2 DEF AnyFile
  <2>2. Refreshed(f, old, alive) = Applied(f, old, alive)
    BY <1>2 DEF Refreshed
  <2>3. /\ Applied(f, old, alive).status = AppliedStatus(f, old.status, alive)
        /\ Applied(f, old, alive).stage = IF f.stage = 0 THEN old.stage ELSE f.stage
    BY AppliedIs
  <2>9. /\ Refreshed(f, old, alive) \in Row /\ Refreshed(f, old, alive).pid = old.pid
        /\ Refreshed(f, old, alive).stage # old.stage =>
              Refreshed(f, old, alive).stage = f.stage /\ f.stage # 0
    BY <1>0, <2>2, <2>3
  <2>4. CASE f.ok = "true"
    BY <2>1, <2>9, <2>2, <2>3, <2>4 DEF FileIsSound, AppliedStatus, File, Rank
  <2>5. CASE f.ok = "false"
    <3>1. CASE f.cancelled
      <4>1. AppliedStatus(f, old.status, alive) = "cancelled"
        BY <2>5, <3>1 DEF FileIsSound, AppliedStatus, InProgress
      <4> QED  BY <2>9, <2>2, <2>3, <4>1
    <3>2. CASE ~f.cancelled
      <4>1. AppliedStatus(f, old.status, alive) = "failed"
        BY <2>5, <3>2 DEF AppliedStatus, InProgress
      <4> QED  BY <2>9, <2>2, <2>3, <3>2, <4>1
    <3> QED  BY <3>1, <3>2
  <2>6. CASE f.ok = "null"
    <3>1. f.done = FALSE /\ f.cancelled = FALSE
      BY <2>1, <2>6 DEF FileIsSound, File
    <3>2. CASE f.stage # 0
      <4>1. InProgress(f)
        BY <2>6, <3>1, <3>2 DEF InProgress
      <4>2. AppliedStatus(f, old.status, alive) = IF alive \/ old.status = "pending"
                                                  THEN "running" ELSE "failed"
        BY <2>6, <3>1, <4>1 DEF AppliedStatus
      <4> QED  BY <2>9, <2>2, <2>3, <3>1, <4>2
    <3>3. CASE f.stage = 0
      <4>1. ~InProgress(f)
        BY <3>3 DEF InProgress
      <4>2. AppliedStatus(f, old.status, alive) =
              IF alive THEN "running" ELSE IF old.status = "running" THEN "failed" ELSE old.status
        BY <2>6, <3>1, <4>1 DEF AppliedStatus
      <4> QED  BY <2>9, <2>2, <2>3, <3>1, <3>3, <4>2
    <3> QED  BY <3>2, <3>3
  <2> QED  BY <2>1, <2>4, <2>5, <2>6 DEF File
<1> QED  BY <1>1, <1>2

(* A poll commits what it makes of the row it has read.  If the row names  *)
(* a later worker by then, the call has overtaken its launch.              *)
LEMMA CommitsSoundly ==
  ASSUME IInv, TypeOK', NEW c \in Call, RefreshCommits(c)
  PROVE  Sound'
<1> USE DEF IInv
<1> DEFINE old == call[c].row
           f == call[c].file
           new == Refreshed(f, old, call[c].alive)
<1>1. /\ call[c].op = "refresh" /\ HasRead(c)
      /\ call'[c] = NoCall /\ \A d \in Call \ {c} : call'[d] = call[d]
      /\ Commit(old, new) /\ overtaken' = (overtaken \/ old.pid < row.pid)
      /\ UNCHANGED <<file, selected, reached, worker, overlapped, stopped>>
  BY ReturnIs DEF RefreshCommits, HasRead, Overtakes
<1>2. /\ old \in Row /\ f \in AnyFile /\ call[c].alive \in BOOLEAN /\ row \in Row
      /\ FileIsSound(f)
  BY <1>1, CallIs DEF FilesAreSound
<1>3. /\ new \in Row /\ new.pid = old.pid
      /\ new.stage # old.stage => new.stage = f.stage /\ f.stage # 0
      /\ new.status = "completed" =>
           \/ f.ok = "true" /\ new.stage = f.stage
           \/ old.status = "completed" /\ new.stage = old.stage
  BY <1>2, RefreshedIs
<1> HIDE DEF new
<1>4. /\ row'.pid = row.pid
      /\ row'.status = row.status \/ (row'.status = new.status /\ new.status # old.status)
      /\ (new.stage = old.stage /\ row'.stage = row.stage)
           \/ (row'.stage = new.stage /\ new.stage # old.stage)
  BY <1>1, <1>2, <1>3 DEF Commit, Column, Row
<1> HIDE DEF old, f
<1>5. \A d \in Call : Follows(d)
  BY <1>1 DEF Follows
<1>6. Fewer
  BY <1>1 DEF Fewer
<1>7. old.pid # NoPid /\ (~overtaken => old.pid <= row.pid)
  BY <1>1 DEF CallsAreSound, old
<1>8. /\ overtaken => overtaken'
      /\ ~overtaken' => ~overtaken /\ old.pid = row.pid
  <2>1. ~overtaken' => ~overtaken /\ ~(old.pid < row.pid)
    BY <1>1
  <2>2. old.pid \in Nat /\ row.pid \in Nat
    BY PidsAre DEF old
  <2> QED  BY <1>1, <1>7, <2>1, <2>2
<1>9. WorkersAreSound'
  BY <1>1, <1>4, <1>6, <1>7, <1>8, PidsAre, WorkersKept DEF WorkersAreSound
<1>10. FilesAreSound'
  BY <1>1, <1>5, <1>6, FilesKept
<1>11. CallsAreSound'
  <2>1. row.pid <= row'.pid
    BY <1>4, PidsAre
  <2> QED  BY <1>4, <1>5, <1>6, <1>8, <2>1, CallsKept
<1>12. Recorded' => Recorded /\ Current(c) /\ Polls(c) /\ row'.pid = row.pid
  <2>1. Recorded' => Recorded
    BY <1>1, <1>4, <1>6, <1>8, RecordedKept
  <2> QED  BY <1>1, <1>4, <1>8, <2>1 DEF Recorded, Current, Polls, old
<1>13. Unbooted' = Unbooted /\ Fresh' = Fresh
  BY <1>1, <1>4 DEF Unbooted, Fresh, Live
<1>14. PollsAreSound'
  <2>1. ASSUME Recorded', Unbooted PROVE row'.stage \in {row.stage, file.stage}
    <3>1. f.stage \in {0, file.stage}
      BY <1>12, <2>1 DEF PollsAreSound, f
    <3> QED  BY <1>3, <1>4, <3>1
  <2> QED  BY <1>1, <1>5, <1>12, <1>13, <2>1, PollsKept
<1>15. ShownIsReached'
  <2> SUFFICES ASSUME Recorded', Fresh', Done'
               PROVE  /\ reached >= file.stage
                      /\ \A d \in Call : Current(d)' => reached >= call'[d].file.stage
                      /\ (row'.status = "completed" \/ \E d \in Call : SeenAgain(d)') => reached >= row'.stage
    BY <1>1 DEF ShownIsReached
  <2>1. row'.status = "completed" => row.status = "completed" \/ SeenDone(c)
    BY <1>3, <1>4, <1>12 DEF SeenDone, f
  <2>2. \A d \in Call : SeenDone(d)' => SeenDone(d)
    BY <1>4, <1>5, CurrentKept
  <2>3. Done
    BY <2>1, <2>2 DEF Done
  <2>4. /\ reached >= file.stage
        /\ \A d \in Call : Current(d) => reached >= call[d].file.stage
        /\ (row.status = "completed" \/ \E d \in Call : SeenAgain(d)) => reached >= row.stage
    BY <1>12, <1>13, <2>3 DEF ShownIsReached
  <2>5. \A d \in Call : Current(d)' => reached >= call'[d].file.stage
    BY <1>4, <1>5, <2>4, CurrentKept
  <2>6. row'.stage = row.stage \/ (row'.stage = f.stage /\ reached >= row'.stage)
    BY <1>3, <1>4, <1>12, <2>4 DEF f
  <2>7. ASSUME row'.status = "completed" \/ \E d \in Call : SeenAgain(d)', row'.stage = row.stage
        PROVE  (row.status = "completed" \/ \E d \in Call : SeenAgain(d)) \/ reached >= row'.stage
    <3>1. CASE \E d \in Call : SeenAgain(d)'
      BY <1>4, <1>5, <3>1, CurrentKept
    <3>2. CASE row'.status = "completed" /\ row.status # "completed"
      <4>1. f.ok = "true" /\ new.stage = f.stage
        BY <1>3, <1>4, <3>2
      <4>2. CASE new.stage = old.stage
        BY <1>12, <4>1, <4>2 DEF SeenAgain, SeenDone, f, old
      <4>3. CASE new.stage # old.stage
        BY <1>4, <1>12, <2>4, <4>1, <4>3 DEF f
      <4> QED  BY <4>2, <4>3
    <3>3. CASE row.status = "completed"
      BY <3>3
    <3> QED  BY <2>7, <3>1, <3>2, <3>3
  <2> QED  BY <2>4, <2>5, <2>6, <2>7
<1>16. StaysCancelled'
  BY <1>1, <1>5, <1>6, StaysKept
<1> QED  BY <1>9, <1>10, <1>11, <1>14, <1>15, <1>16 DEF Sound

(* A cancellation of a run whose worker has ended takes what it said.      *)
LEMMA EndedSoundly ==
  ASSUME IInv, TypeOK', NEW c \in Call, CancelEnded(c)
  PROVE  Sound'
<1> USE DEF IInv
<1>1. /\ row.status = "running" /\ ~Owned(row.pid) /\ file.ok = "true"
      /\ row' = Applied(file, row, FALSE)
      /\ UNCHANGED <<file, selected, reached, worker, call, overlapped, overtaken, stopped>>
  BY DEF CancelEnded
<1>2. row'.pid = row.pid
  BY <1>1, AppliedIs DEF TypeOK
<1>3. Fewer /\ \A d \in Call : Follows(d)
  BY <1>1 DEF Fewer, Follows
<1>4. WorkersAreSound'
  BY <1>1, <1>2, <1>3, PidsAre, WorkersKept DEF WorkersAreSound
<1>5. FilesAreSound'
  BY <1>1, <1>3, FilesKept
<1>6. CallsAreSound'
  <2>1. row.pid <= row'.pid
    BY <1>2, PidsAre
  <2> QED  BY <1>1, <1>2, <1>3, <2>1, CallsKept
<1>7. Recorded' => ~Fresh'
  <2>1. Recorded' => ~Unbooted'
    BY <1>1, <1>2 DEF Recorded, Unbooted, Live, Owned
  <2>2. file' # Starting
    BY <1>1 DEF Starting, Says
  <2> QED  BY <2>1, <2>2 DEF Fresh
<1>8. PollsAreSound' /\ ShownIsReached'
  BY <1>7 DEF PollsAreSound, ShownIsReached, Fresh
<1>9. StaysCancelled'
  BY <1>1, <1>3, StaysKept
<1> QED  BY <1>4, <1>5, <1>6, <1>8, <1>9 DEF Sound

(* A cancellation stops its worker, and perhaps tears status.json.         *)
LEMMA KillsSoundly ==
  ASSUME IInv, TypeOK', NEW c \in Call, CancelKills(c)
  PROVE  Sound'
<1> USE DEF IInv
<1>1. call[c].row.pid \in Pid
  BY PidsAre DEF CallsAreSound, CancelKills
<1>2. /\ call[c].op = "cancel" /\ call'[c].op = "cancel" /\ call'[c].row = call[c].row
      /\ \A d \in Call \ {c} : call'[d] = call[d]
      /\ Fewer /\ call[c].row.pid \notin Live'
      /\ file' = file \/ (file' = NoFile /\ call[c].row.pid \in Live)
      /\ UNCHANGED <<row, selected, reached, overlapped, overtaken, stopped>>
  BY <1>1, KillsIs
<1>3. \A d \in Call : Follows(d)
  BY <1>2 DEF Follows
<1>4. CASE file' = file
  BY <1>2, <1>3, <1>4, RestsSoundly
<1>5. CASE file' = NoFile /\ call[c].row.pid \in Live
  <2>1. FileIsSound(file)' /\ file'.ok # "true" /\ file' # Starting
    BY <1>5, NoFileIs DEF FileIsSound, Starting, Says
  <2> QED  BY <1>2, <1>3, <1>5, <2>1, WorksSoundly
<1> QED  BY <1>2, <1>4, <1>5

(* A cancellation marks status.json and the row; the worker it has stopped *)
(* was the last one if nothing was launched since.                         *)
LEMMA CancelsSoundly ==
  ASSUME IInv, TypeOK', NEW c \in Call, CancelCommits(c)
  PROVE  Sound'
<1> USE DEF IInv
<1>1. /\ call[c].op = "cancel" /\ call[c].at = "commit"
      /\ call'[c] = NoCall /\ \A d \in Call \ {c} : call'[d] = call[d]
      /\ overtaken' = (overtaken \/ call[c].row.pid < row.pid)
      /\ stopped' = NothingSince(c)
      /\ UNCHANGED <<selected, reached, worker, overlapped>>
  BY ReturnIs DEF CancelCommits, Overtakes
<1>2. /\ file'.ok = "false" /\ file'.cancelled /\ file'.done
      /\ row'.status = "cancelled" /\ row'.pid = call[c].row.pid
  BY MarkIs
<1>3. /\ row'.pid # NoPid /\ row'.pid \in Pid /\ Ran(row'.pid) /\ row'.pid \notin Live
      /\ ~overtaken => call[c].row.pid <= row.pid
  BY <1>1, <1>2, PidsAre DEF CallsAreSound
<1>4. Fewer /\ (\A d \in Call : Follows(d)) /\ Live' = Live
  BY <1>1 DEF Fewer, Follows, Live
<1>5. WorkersAreSound'
  <2>1. overtaken => overtaken'
    BY <1>1
  <2> QED  BY <1>1, <1>3, <1>4, <2>1, WorkersKept
<1>6. FilesAreSound'
  <2>1. FileIsSound(file)' /\ (file.ok = "true" => reached >= file.stage)'
    BY <1>2 DEF FileIsSound
  <2>2. (\A d \in Call : HasRead(d) => FileIsSound(call[d].file))'
    BY <1>4, FollowsIs DEF FilesAreSound, FileIsSound
  <2>3. ((\E d \in Call : call[d].op \in Rerunning) => reached >= 2)'
    BY <1>1, <1>4, FollowsIs DEF FilesAreSound, Rerunning
  <2>4. ((\E p \in Live : worker[p].kind \in Rerunning) => reached >= 2)'
    BY <1>1, <1>4 DEF FilesAreSound
  <2> QED  BY <2>1, <2>2, <2>3, <2>4 DEF FilesAreSound
<1>7. CallsAreSound'
  <2>1. ~overtaken' => ~overtaken /\ ~(call[c].row.pid < row.pid)
    BY <1>1
  <2>2. ~overtaken' => ~overtaken /\ row.pid <= row'.pid
    BY <1>2, <2>1, PidsAre
  <2> QED  BY <1>1, <1>2, <1>4, <2>2, CallsKept
<1>8. ~Unbooted' /\ ~Fresh'
  BY <1>2, <1>3, <1>4 DEF Unbooted, Fresh, Starting, Says
<1>9. PollsAreSound' /\ ShownIsReached'
  BY <1>8 DEF PollsAreSound, ShownIsReached
<1>10. StaysCancelled'
  <2> SUFFICES ASSUME NothingSince(c), ~overlapped
               PROVE  Live = {} /\ \A d \in Call : call'[d].op \notin Kind
    BY <1>1, <1>2, <1>4 DEF StaysCancelled
  <2>1. ASSUME NEW q \in Live PROVE FALSE
    <3>1. q \in Pid /\ Ran(q) /\ IsLast(q)
      BY <2>1 DEF WorkersAreSound, Live, Ran
    <3>2. q <= row'.pid /\ row'.pid <= q
      BY <1>2, <1>3, <3>1 DEF NothingSince, IsLast, Ran
    <3>3. q \in Nat /\ row'.pid \in Nat
      BY <1>3, <3>1, Pids
    <3> QED  BY <1>3, <3>2, <3>3
  <2>2. \A d \in Call : call'[d].op \notin Kind
    BY <1>1 DEF NothingSince, NoCall, Kind, Pipeline
  <2> QED  BY <2>1, <2>2
<1> QED  BY <1>5, <1>6, <1>7, <1>9, <1>10 DEF Sound

(* A selection puts back the pid it has read, or has overtaken a launch.   *)
LEMMA SelectsSoundly ==
  ASSUME IInv, TypeOK', NEW c \in Call, SelectCommits(c)
  PROVE  Sound'
<1> USE DEF IInv
<1>1. /\ call[c].op = "select" /\ call'[c] = NoCall /\ \A d \in Call \ {c} : call'[d] = call[d]
      /\ overtaken' = (overtaken \/ call[c].row.pid < row.pid)
      /\ UNCHANGED <<file, reached, worker, overlapped, stopped>>
  BY ReturnIs DEF SelectCommits, Overtakes
<1>2. row'.pid = call[c].row.pid /\ row'.status = row.status /\ row'.stage = row.stage
  BY CallIs DEF SelectCommits, Row
<1>3. Fewer /\ \A d \in Call : Follows(d)
  BY <1>1 DEF Fewer, Follows
<1>4. /\ overtaken => overtaken'
      /\ ~overtaken' => ~overtaken /\ row'.pid = row.pid
  <2>1. ~overtaken' => ~overtaken /\ ~(call[c].row.pid < row.pid)
    BY <1>1
  <2>2. ~overtaken => call[c].row.pid <= row.pid
    BY <1>1 DEF CallsAreSound
  <2> QED  BY <1>1, <1>2, <2>1, <2>2, PidsAre
<1>5. WorkersAreSound'
  <2>1. row'.pid # NoPid => row'.pid \in Pid /\ Ran(row'.pid)
    BY <1>2, PidsAre DEF CallsAreSound
  <2>2. row'.pid = NoPid /\ ~overtaken' => row'.status = "pending"
    BY <1>2, <1>4 DEF WorkersAreSound
  <2> QED  BY <1>1, <1>3, <1>4, <2>1, <2>2, WorkersKept
<1>6. FilesAreSound'
  BY <1>1, <1>3, FilesKept
<1>7. CallsAreSound'
  <2>1. ~overtaken' => row.pid <= row'.pid
    BY <1>4, PidsAre
  <2> QED  BY <1>1, <1>2, <1>3, <1>4, <2>1, CallsKept
<1>8. Recorded' => Recorded /\ row'.pid = row.pid
  <2>1. Recorded' => row'.pid = row.pid
    BY <1>4 DEF Recorded
  <2> QED  BY <1>1, <1>3, <1>4, <2>1, RecordedKept
<1>9. Recorded' => (Unbooted' => Unbooted) /\ (Fresh' => Fresh)
  BY <1>1, <1>8 DEF Unbooted, Fresh, Live
<1>10. PollsAreSound'
  BY <1>1, <1>2, <1>3, <1>8, <1>9, PollsKept
<1>11. ShownIsReached'
  BY <1>1, <1>2, <1>3, <1>8, <1>9, ShownKept
<1>12. StaysCancelled'
  BY <1>1, <1>3, StaysKept
<1> QED  BY <1>5, <1>6, <1>7, <1>10, <1>11, <1>12 DEF Sound

-----------------------------------------------------------------------------
(* The invariant, and what follows from it. *)
LEMMA InitSound == Init => IInv
<1> SUFFICES ASSUME Init PROVE IInv
  OBVIOUS
<1>1. TypeOK
  BY InitTyped
<1>2. /\ \A p \in Pid : worker[p].life = "none"
      /\ \A c \in Call : call[c] = NoCall
      /\ row = NoRow /\ file = NoFile /\ overtaken = FALSE /\ stopped = FALSE
  BY DEF Init, NoWorker
<1>3. NoRow.pid = NoPid /\ NoRow.status = "pending" /\ NoCall.op = "none" /\ NoCall.row = NoRow
  BY DEF NoRow, NoCall
<1>4. Live = {}
  BY <1>2 DEF Live
<1>5. WorkersAreSound
  BY <1>2, <1>3, <1>4 DEF WorkersAreSound, Ran
<1>6. \A c \in Call : ~HasRead(c) /\ ~Launching(c) /\ call[c].op \notin Rerunning
  BY <1>2, <1>3 DEF HasRead, Launching, Kind, Pipeline, Rerunning
<1>7. FilesAreSound
  BY <1>2, <1>4, <1>6, NoFileIs DEF FilesAreSound, FileIsSound
<1>8. CallsAreSound
  BY <1>2, <1>3, <1>6 DEF CallsAreSound
<1>9. ~Recorded /\ ~stopped
  BY <1>2, <1>3 DEF Recorded
<1> QED  BY <1>1, <1>5, <1>7, <1>8, <1>9 DEF IInv, PollsAreSound, ShownIsReached, StaysCancelled

LEMMA NextSound == IInv /\ [Next]_vars => IInv'
<1> SUFFICES ASSUME IInv, [Next]_vars PROVE IInv'
  OBVIOUS
<1>1. TypeOK'
  BY NextTyped DEF IInv
<1>2. Sound'
  <2>1. ASSUME NEW c \in Call, Asks(c) \/ Refresh(c) \/ Cancel(c) \/ CancelEnded(c) \/ Select(c) \/ Serves(c)
        PROVE  Sound'
    <3>1. CASE RefreshAsks(c)
      <4>1. /\ call[c].op = "refresh" /\ call[c].at = "pid"
            /\ call'[c].op = "refresh" /\ call'[c].at = "commit" /\ call'[c].row = call[c].row
            /\ call'[c].file = call[c].file
            /\ \A d \in Call \ {c} : call'[d] = call[d]
            /\ UNCHANGED <<row, file, selected, reached, worker, overlapped, overtaken, stopped>>
        BY <3>1, AsksForThePidIs DEF IInv
      <4>2. Fewer /\ \A d \in Call : Follows(d)
        BY <4>1 DEF Fewer, Follows
      <4> QED  BY <1>1, <4>1, <4>2, RestsSoundly
    <3> QED  BY <1>1, <2>1, <3>1, AsksSoundly, BeginsSoundly, EndedSoundly, LaunchesSoundly,
                LaunchedSoundly, ReadsSoundly, CommitsSoundly, KillsSoundly, CancelsSoundly,
                SelectsSoundly DEF Serves
  <2>2. ASSUME NEW p \in Pid, Runs(p) \/ Break(p) \/ Die(p) PROVE Sound'
    BY <1>1, <2>2, RunsSoundly
  <2>3. CASE Reap \/ Restart
    <3>1. Fewer /\ UNCHANGED <<row, file, reached, overlapped, overtaken, stopped>>
      BY <2>3, ReapIs DEF Reap, Restart, IInv
    <3>2. \A c \in Call : Follows(c)
      BY <2>3 DEF Reap, Restart, Follows
    <3> QED  BY <1>1, <3>1, <3>2, RestsSoundly
  <2>4. CASE UNCHANGED vars
    <3>1. Fewer /\ \A c \in Call : Follows(c)
      BY <2>4 DEF vars, Fewer, Follows
    <3> QED  BY <1>1, <2>4, <3>1, RestsSoundly DEF vars
  <2> QED  BY <2>1, <2>2, <2>3, <2>4 DEF Next
<1> QED  BY <1>1, <1>2 DEF IInv, Sound

THEOREM InvariantHolds == Spec => []IInv
BY InitSound, NextSound, PTL DEF Spec

LEMMA ShownFromDisk == IInv => CompletedStageIsOnDisk
<1> SUFFICES ASSUME IInv, file # NoFile, Settled, ~overlapped, ~overtaken,
                    Applied(file, row, FALSE).status = "completed"
             PROVE  reached >= Applied(file, row, FALSE).stage
  BY DEF CompletedStageIsOnDisk
<1> USE DEF IInv
<1>1. file \in File /\ FileIsSound(file) /\ row \in Row
  BY DEF TypeOK, AnyFile, FilesAreSound
<1>2. /\ AppliedStatus(file, row.status, FALSE) = "completed"
      /\ Applied(file, row, FALSE).stage = IF file.stage = 0 THEN row.stage ELSE file.stage
  BY <1>1, AppliedIs DEF AnyFile
<1>3. CASE file.ok = "true"
  <2>1. file.stage \in Nat /\ file.stage > 0 /\ reached >= file.stage
    BY <1>1, <1>3 DEF FileIsSound, FilesAreSound, File, Rank
  <2>2. file.stage # 0
    BY <2>1
  <2>3. Applied(file, row, FALSE).stage = file.stage
    BY <1>2, <2>2, Zenon
  <2> QED  BY <2>1, <2>3
<1>4. CASE file.ok # "true"
  <2>1. file.ok = "null"
    BY <1>1, <1>2, <1>4 DEF FileIsSound, File, AppliedStatus, InProgress
  <2>2. file.done = FALSE /\ file.cancelled = FALSE
    BY <1>1, <2>1 DEF FileIsSound, File
  <2>3. file.stage = 0
    BY <1>2, <2>1, <2>2 DEF AppliedStatus, InProgress
  <2>4. row.status = "completed"
    BY <1>2, <2>1, <2>2, <2>3 DEF AppliedStatus, InProgress
  <2>5. file = Starting
    BY <1>1, <2>1, <2>2, <2>3 DEF File, Starting, Says
  <2>6. Recorded
    BY <2>4 DEF Recorded, Settled, WorkersAreSound
  <2>7. reached >= row.stage
    BY <2>4, <2>5, <2>6 DEF ShownIsReached, Fresh, Done
  <2> QED  BY <1>2, <2>3, <2>7
<1> QED  BY <1>3, <1>4

(* A run that the next poll shows as completed has the artifacts of the    *)
(* stage it is shown at, whichever calls raced: any number of polls of any *)
(* age, reruns, resumes, cancellations and selections at once.             *)
THEOREM CompletedIsOnDisk == Spec => []CompletedStageIsOnDisk
BY InvariantHolds, ShownFromDisk, PTL

(* A cancelled run stays cancelled in what polls show, however many calls  *)
(* race the cancellation, until a worker is asked for again.               *)
THEOREM CancelHolds == Spec => []CancelSticks
<1>1. IInv => CancelSticks
  <2> SUFFICES ASSUME IInv, stopped, ~overlapped, NEW alive \in BOOLEAN
               PROVE  Refreshed(file, row, alive).status = "cancelled"
    BY DEF CancelSticks
  <2>1. file \in AnyFile /\ row \in Row /\ FileIsSound(file) /\ file.cancelled /\ file.done
    BY DEF IInv, TypeOK, FilesAreSound, StaysCancelled
  <2> QED  BY <2>1, RefreshedIs
<1> QED  BY <1>1, InvariantHolds, PTL

=============================================================================
