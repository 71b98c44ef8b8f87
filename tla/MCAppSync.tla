------------------------------ MODULE MCAppSync ------------------------------
(* AppSync for TLC: applications, names and icons are interchangeable. *)
EXTENDS AppSync, TLC

Symmetry == Permutations(Apps) \cup Permutations(Names) \cup Permutations(Icons)

=============================================================================
