---------------------------- MODULE MCProcessing ----------------------------
(* Two workers, three jobs and a project with two raw recordings. *)
EXTENDS SourceProcessing, TLC

Symmetry == Permutations(Worker) \cup Permutations(Raw)

(* Bound: a project has no raw recordings, or all of them, alike and       *)
(* prepared.                                                               *)
MCInit == /\ Init
          /\ {text, words} \subseteq {{}, Raw} /\ words = text
          /\ rec \in {{}, Raw \cup ({1} \X Raw)}

MCSpec == MCInit /\ [][Next]_vars

=============================================================================
