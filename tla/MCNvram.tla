------------------------------- MODULE MCNvram -------------------------------
(* Nvram for TLC: programs, names and values are interchangeable. *)
EXTENDS Nvram, TLC

Symmetry == Permutations(Clients) \cup Permutations(Keys) \cup Permutations(Vals)

=============================================================================
