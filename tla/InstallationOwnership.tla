------------------------ MODULE InstallationOwnership ------------------------
(***************************************************************************)
(* What the controller's ownership lock promises, with no file in sight:   *)
(* of all the controller processes started on one installation directory,  *)
(* at most one holds it, and a process that gave it up never holds it      *)
(* again.  ControllerLock is shown to implement this module.               *)
(***************************************************************************)
CONSTANT Proc          \* the controller processes ever started

VARIABLES holders,     \* the processes that hold the installation now
          gone         \* the processes that will never hold it again

vars == <<holders, gone>>

TypeOK ==
  /\ holders \in SUBSET Proc
  /\ gone \in SUBSET Proc

Init ==
  /\ holders = {}
  /\ gone = {}

(* A process takes the installation: only while nobody has it. *)
Take(p) ==
  /\ holders = {}
  /\ p \notin gone
  /\ holders' = {p}
  /\ UNCHANGED gone

(* The holder shuts down or dies. *)
GiveUp(p) ==
  /\ p \in holders
  /\ holders' = holders \ {p}
  /\ gone' = gone \cup {p}

(* A process is refused, or dies before it was granted anything. *)
Refuse(p) ==
  /\ p \notin holders
  /\ gone' = gone \cup {p}
  /\ UNCHANGED holders

Next == \E p \in Proc : Take(p) \/ GiveUp(p) \/ Refuse(p)

Spec == Init /\ [][Next]_vars

=============================================================================
