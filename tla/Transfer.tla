------------------------------ MODULE Transfer ------------------------------
(***************************************************************************)
(* What a caller of http_download may rely on: one transfer at a time,     *)
(* which fails, or hands over a part of what the server has, the whole of  *)
(* it, or the whole with something behind it; or the process dies.  The    *)
(* other modules choose among these outcomes wherever the code downloads.  *)
(***************************************************************************)
EXTENDS Integers, Sequences

CONSTANTS Urls, NoUrl,
          Size,    \* Size[u]: the Content-Length of u
          Nothing  \* no file has been handed over

VARIABLES busy,    \* the URL of the transfer under way, or NoUrl
          result,  \* the file that download_file is about to rename, or Nothing
          alive    \* the process runs

Junk == 0

\* d is a beginning of the body, or the body and junk behind it.
Delivery(u, d) ==
    /\ d \in Seq(Nat)
    /\ \A j \in 1 .. Len(d) : d[j] = IF j <= Size[u] THEN j ELSE Junk

TransferInit == busy = NoUrl /\ result = Nothing /\ alive = TRUE

Begin == alive /\ busy = NoUrl /\ busy' \in Urls /\ UNCHANGED <<result, alive>>

Deliver ==
    /\ alive /\ busy # NoUrl /\ result = Nothing /\ Delivery(busy, result')
    /\ UNCHANGED <<busy, alive>>

\* The caller has taken the result, or the transfer has failed.
Finish ==
    /\ alive /\ busy # NoUrl /\ busy' = NoUrl /\ result' = Nothing
    /\ UNCHANGED alive

Die == alive /\ alive' = FALSE /\ UNCHANGED <<busy, result>>

PowerLoss == busy' = NoUrl /\ result' = Nothing /\ alive' = TRUE

TransferSpec ==
    /\ TransferInit
    /\ [][Begin \/ Deliver \/ Finish \/ Die \/ PowerLoss]_<<busy, result, alive>>

=============================================================================
