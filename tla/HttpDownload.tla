---------------------------- MODULE HttpDownload ----------------------------
(***************************************************************************)
(* http_download (diyite_downloader/http_download.c) as download_file      *)
(* calls it: look the host up, empty the temporary file, connect, ask,     *)
(* then receive until the peer closes or the time for waiting is used up;  *)
(* the file is renamed or unlinked.                                        *)
(*                                                                         *)
(* The server sends a header, the body and perhaps more (the request has a *)
(* stray space behind it, which a server may answer too), in packets of    *)
(* any size.  A packet is a number of units; the header is one.            *)
(***************************************************************************)
EXTENDS Integers, Sequences

CONSTANTS Urls, NoUrl, Nothing,
          Size,       \* Size[u]: the Content-Length of u
          Port,       \* the URLs that name a port
          PackLen,    \* SP_PACKLEN
          MaxTail,    \* bound on what comes behind the body
          Budget,     \* timeout, all of select's waiting together
          Word        \* left_length is an unsigned number below this

ASSUME HttpAssumption ==
    /\ Size \in [Urls -> Nat] /\ NoUrl \notin Urls /\ Port \subseteq Urls
    /\ PackLen \in Nat \ {0, 1} /\ MaxTail \in Nat
    /\ Budget \in Nat \ {0} /\ Word \in Nat
    /\ \A u \in Urls : Size[u] + MaxTail < Word

VARIABLES hpc,      \* where the call is
          url, good,  \* its URL; the network behaves well during this call
          pos,      \* units of body and tail received
          tail,     \* units the server sends behind the body
          out,      \* the temporary file
          left,     \* left_length
          timer,    \* what is left of timeout
          errno     \* of the thread: some call has failed
httpVars == <<hpc, url, good, pos, tail, out, left, timer, errno>>

HttpInit ==
    /\ hpc = "idle" /\ url = NoUrl /\ good = FALSE /\ pos = 0 /\ tail = 0
    /\ out = << >> /\ left = 0 /\ timer = 0 /\ errno = FALSE

\* A unit of a body is its position; anything else the server sends is Junk.
Junk == 0
Body(u) == [j \in 1 .. Size[u] |-> j]

\* Body and tail of the answer, from unit m to unit n.
Units(m, n) == [j \in 1 .. n - m + 1 |-> IF m + j - 1 <= Size[url] THEN m + j - 1 ELSE Junk]

To(label) == hpc' = label

\* goto end, with ret = -1 or 0.
Fails == To("failed")
Ends == To("ended")

\* download_file(u): the program has made other calls since the last one,
\* and any that failed left its mark in errno.
Call(u, g) ==
    /\ hpc = "idle" /\ To("resolve")
    /\ url' = u /\ good' = g /\ errno' \in {errno, TRUE}
    /\ UNCHANGED <<pos, tail, out, left, timer>>

\* Mutant: errno is looked at for every address.
BadPort_Any == errno

\* str2sockaddr: "errno ||" looks at whatever call failed last; errno is
\* not cleared before strtoul.
BadPort == url \in Port /\ errno

\* str2sockaddr tries to connect to each address of the host, too.
Resolve ==
    /\ hpc = "resolve"
    /\ \/ ~ BadPort /\ To("open") /\ errno' \in {errno, TRUE}
       \/ BadPort /\ Fails /\ UNCHANGED errno
       \/ ~ good /\ Fails /\ errno' = TRUE
    /\ UNCHANGED <<url, good, pos, tail, out, left, timer>>

\* Mutant: fopen "a+".
Open_Append ==
    /\ hpc = "open"
    /\ \/ out' = out /\ To("recv") /\ UNCHANGED errno
       \/ ~ good /\ out' = out /\ Fails /\ errno' = TRUE
    /\ pos' = 0 /\ left' = 0 /\ timer' = Budget
    /\ tail' \in IF good THEN {0} ELSE 0 .. MaxTail
    /\ UNCHANGED <<url, good>>

\* fopen "w+", socket, connect, write.
Open ==
    /\ hpc = "open"
    /\ \/ out' = << >> /\ To("recv") /\ UNCHANGED errno
       \/ ~ good /\ out' \in {out, << >>} /\ Fails /\ errno' = TRUE
    /\ pos' = 0 /\ left' = 0 /\ timer' = Budget
    /\ tail' \in IF good THEN {0} ELSE 0 .. MaxTail
    /\ UNCHANGED <<url, good>>

Receiving(first) == hpc = (IF first THEN "recv" ELSE "body")

\* Mutant: the header is written with the body.
FirstPacket_Whole(n) ==
    /\ Receiving(TRUE) /\ n < PackLen /\ n <= Size[url] + tail
    /\ out' = <<Junk>> \o Units(1, n) /\ left' = (Size[url] - n) % Word
    /\ pos' = n /\ To("body")
    /\ UNCHANGED <<url, good, tail, timer, errno>>

(***************************************************************************)
(* The first packet: status, length and the end of the header are there.   *)
(* What follows is written, however long; left_length may wrap around.     *)
(***************************************************************************)
FirstPacket(n) ==
    /\ Receiving(TRUE) /\ n < PackLen /\ n <= Size[url] + tail
    /\ out' = Units(1, n) /\ left' = (Size[url] - n) % Word
    /\ pos' = n /\ To("body")
    /\ UNCHANGED <<url, good, tail, timer, errno>>

\* Not "HTTP/1.1 200 OK".
OtherStatus ==
    /\ Receiving(TRUE) /\ ~ good /\ Fails
    /\ UNCHANGED <<url, good, pos, tail, out, left, timer, errno>>

\* No Content-Length, or the packet ends inside the header: strstr returns
\* NULL, which is used.
HeaderKills ==
    /\ Receiving(TRUE) /\ ~ good /\ To("dead")
    /\ UNCHANGED <<url, good, pos, tail, out, left, timer, errno>>

\* temp_len; nothing once left_length is 0.
Taken(n) == IF n > left THEN left ELSE n

NextPacket(n) ==
    /\ Receiving(FALSE) /\ n > 0 /\ pos + n <= Size[url] + tail
    /\ out' = out \o Units(pos + 1, pos + Taken(n))
    /\ left' = (left - Taken(n)) % Word
    /\ pos' = pos + n
    /\ UNCHANGED <<hpc, url, good, tail, timer, errno>>

\* recv returns 0: success, whatever has come.
PeerCloses ==
    /\ hpc \in {"recv", "body"} /\ Ends
    /\ good => hpc = "body" /\ pos = Size[url]
    /\ UNCHANGED <<url, good, pos, tail, out, left, timer, errno>>

\* Mutant: a select that has waited in vain is repeated.
Wait_Again ==
    /\ hpc \in {"recv", "body"}
    /\ timer' = IF timer > (IF good THEN 1 ELSE 0) THEN timer - 1 ELSE Budget
    /\ UNCHANGED <<hpc, url, good, pos, tail, out, left, errno>>

\* Linux subtracts from timeout what select has waited.
Wait ==
    /\ hpc \in {"recv", "body"} /\ timer > (IF good THEN 1 ELSE 0)
    /\ timer' = timer - 1
    /\ UNCHANGED <<hpc, url, good, pos, tail, out, left, errno>>

\* select returns 0: failure, also when the file is complete.
TimeOut ==
    /\ hpc \in {"recv", "body"} /\ timer = 0 /\ Fails
    /\ UNCHANGED <<url, good, pos, tail, out, left, timer, errno>>

\* select or recv returns -1, or the socket has an error.
RecvError ==
    /\ hpc \in {"recv", "body"} /\ ~ good /\ Fails /\ errno' = TRUE
    /\ UNCHANGED <<url, good, pos, tail, out, left, timer>>

\* The end of download_file: the temporary file takes the old one's place,
\* or is removed.
Return ==
    /\ hpc \in {"ended", "failed"} /\ To("idle")
    /\ out' = << >> /\ url' = NoUrl /\ good' = FALSE
    /\ pos' = 0 /\ tail' = 0 /\ left' = 0 /\ timer' = 0
    /\ UNCHANGED errno

HttpStep ==
    \/ Resolve \/ Open \/ OtherStatus \/ HeaderKills
    \/ PeerCloses \/ Wait \/ TimeOut \/ RecvError \/ Return
    \/ \E n \in 0 .. PackLen - 1 : FirstPacket(n)
    \/ \E n \in 1 .. PackLen : NextPacket(n)

\* Power returns: the temporary file may still be there.
HttpRestart ==
    /\ hpc' = "idle" /\ url' = NoUrl /\ good' = FALSE /\ pos' = 0 /\ tail' = 0
    /\ left' = 0 /\ timer' = 0 /\ errno' = FALSE /\ UNCHANGED <<out>>

-----------------------------------------------------------------------------
\* Types of this module's variables.
HttpTypeOK ==
    /\ hpc \in {"idle", "resolve", "open", "recv", "body", "ended", "failed", "dead"}
    /\ url \in Urls \cup {NoUrl} /\ good \in BOOLEAN /\ errno \in BOOLEAN
    /\ hpc # "idle" => url \in Urls
    /\ pos \in Nat /\ tail \in 0 .. MaxTail /\ timer \in 0 .. Budget
    /\ left \in 0 .. Word - 1
    /\ out \in Seq(Nat)

\* A file that has the announced length is the body: check_apk_size, which
\* looks at nothing else, is enough to tell a short or a long transfer.
SizeTells ==
    hpc = "ended" /\ Len(out) = Size[url] => out = Body(url)

\* The receive loop implements what its callers assume of a transfer.
T == INSTANCE Transfer WITH
         busy <- url, alive <- hpc # "dead",
         result <- IF hpc = "ended" THEN out ELSE Nothing
ImplementsTransfer == T!TransferSpec

=============================================================================
