--------------------------- MODULE MCInstanceTasks ---------------------------
(* InstanceTasks for TLC: its tasks of one kind are interchangeable. *)
EXTENDS InstanceTasks, TLC

Symmetry ==
  Permutations(Launches) \cup Permutations(Imports)
    \cup Permutations(Identities)

=============================================================================
