----------------------------- MODULE MCFirmware -----------------------------
(* Contents of firmware images for TLC. *)
EXTENDS FirmwareUpdate

\* No two buffers of an image are alike.
MCDistinct == [v \in Versions |-> [j \in 1 .. Chunks |-> 10 * v + j]]

\* The third buffer repeats the second, as padding in an image does.
MCPadded == [v \in Versions |-> [j \in 1 .. Chunks |-> 10 * v + (IF j = 3 THEN 2 ELSE j)]]

=============================================================================
