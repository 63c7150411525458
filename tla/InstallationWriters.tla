------------------------- MODULE InstallationWriters -------------------------
(***************************************************************************)
(* What the setup controller promises of the processes that write to the   *)
(* managed installation: there is at most one at any time, across cancels, *)
(* retries, crashes and restarts of the controller.  A writer is admitted  *)
(* only when none is left, and leaves when its whole group is gone.        *)
(***************************************************************************)
CONSTANT Child

VARIABLE writers

Init == writers = {}

Admit == \E c \in Child : writers = {} /\ writers' = {c}

Leave == writers # {} /\ writers' = {}

Next == Admit \/ Leave

Spec == Init /\ [][Next]_writers

=============================================================================
