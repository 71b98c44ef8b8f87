----------------------------- MODULE MCWanLink -----------------------------
(* The WAN connection, on a small instance. *)
EXTENDS WanLink

=============================================================================
