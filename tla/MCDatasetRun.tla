---------------------------- MODULE MCDatasetRun ----------------------------
(* One run with up to three workers and two calls at once: any call with a *)
(* poll beside it, and any two calls.                                      *)
EXTENDS DatasetRun, TLC

Symmetry == Permutations(Call)

BesideAPoll ==
  LET polls == CHOOSE c \in Call : TRUE
  IN  [c \in Call |-> IF c = polls THEN {"refresh"} ELSE Op \ {"refresh"}]

AnyAtOnce == [c \in Call |-> Op]

=============================================================================
