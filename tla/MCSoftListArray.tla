--------------------------- MODULE MCSoftListArray ---------------------------
(* SoftListArray for TLC: applications are interchangeable. *)
EXTENDS SoftListArray, TLC

Symmetry == Permutations(Apps)

=============================================================================
