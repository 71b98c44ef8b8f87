---------------------------- MODULE MCDownloader ----------------------------
(* Downloader for TLC: a file whose address names a port, and one without. *)
EXTENDS Downloader

CONSTANTS u1, u2

MCSize == [u \in Urls |-> IF u = u1 THEN 3 ELSE 1]

=============================================================================
