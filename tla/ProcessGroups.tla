---------------------------- MODULE ProcessGroups ----------------------------
(***************************************************************************)
(* The process groups the setup controller spawns, as the operating system *)
(* shows them to setup-controller/src/bootstrap.js.  A child is spawned    *)
(* detached, so it leads a process group of its own; it may leave other    *)
(* members behind when it exits, and once the group is empty its number    *)
(* may be reused by a stranger.  The code reads a group in two ways:       *)
(*   ownedProcessIdentity   the start identity of the process whose pid    *)
(*                          was recorded, if it leads its own group        *)
(*   process.kill(-pid, 0)  ESRCH iff nobody is in the group               *)
(***************************************************************************)
CONSTANTS Child,     \* the process groups that may exist at the same time
          Reuse      \* TRUE: a number may be reused before its record is read

VARIABLE group       \* what is left of the group of each child

(* gone: nobody is in it; led: the spawned leader runs; orphaned: only     *)
(* other members run; foreign: a stranger's group has the number now.      *)
GroupState == {"gone", "led", "orphaned", "foreign"}
GroupsOK   == group \in [Child -> GroupState]
NoGroups   == group = [c \in Child |-> "gone"]

Live(c) == group[c] \in {"led", "orphaned"}

(* matchesProcessIdentity(record, ownedProcessIdentity(pid)). *)
IdentityMatches(c) == group[c] = "led"

(* waitForProcessGroupExit sees ESRCH. *)
GroupIsGone(c) == group[c] = "gone"

Becomes(c, s) == group' = [group EXCEPT ![c] = s]

(* The leader exits, by itself or on a signal, with or without leaving     *)
(* other members of its group behind; those exit in their own time.        *)
LeaderExits(c) ==
  /\ group[c] = "led"
  /\ \E s \in {"orphaned", "gone"} : Becomes(c, s)

OrphansExit(c) == group[c] = "orphaned" /\ Becomes(c, "gone")

(* The number of an empty group is given to a stranger, who exits later. *)
PidReused(c)    == Reuse /\ group[c] = "gone" /\ Becomes(c, "foreign")
StrangerExits(c) == group[c] = "foreign" /\ Becomes(c, "gone")

=============================================================================
