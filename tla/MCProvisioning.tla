--------------------------- MODULE MCProvisioning ---------------------------
(* Provisioning for TLC: three services, two answers. *)
EXTENDS Provisioning

MCServices == <<"s1", "s2", "s3">>
MCKeys == {"WebInit", "cmd", "s1", "s2", "s3"}
MCVals == {"A", "B", "factory", "1"}

=============================================================================
