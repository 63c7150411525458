-------------------------- MODULE MCSetupController --------------------------
(* SetupController for TLC: which instance each configuration checks. *)
EXTENDS SetupController, TLC

(* Ids of attempts, process groups and sessions are interchangeable. *)
Symmetry == Permutations(Attempt) \cup Permutations(Child)
              \cup Permutations(Session)

=============================================================================
