------------------------------ MODULE MCCoreApk ------------------------------
(* CoreApk for TLC: versions 1 and 2 have the same size; 2 and 12 share an  *)
(* address, so publishing 12 replaces the file of 2 by a larger one.  The   *)
(* digits of 1 and of 2, run together, read as 12, and most other pairs are *)
(* out of the range of a long.                                              *)
EXTENDS CoreApk

MCSizeOf == [v \in Versions |-> IF v = 12 THEN 20 ELSE 10]
MCUrlOf == [v \in Versions |-> IF v = 1 THEN "u1" ELSE "u2"]

=============================================================================
