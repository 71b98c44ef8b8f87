-------------------------- MODULE DownloaderProofs --------------------------
(***************************************************************************)
(* For any files, packets, tails and losses of power, and any number of    *)
(* records: what http_download hands over is a beginning of the body, the  *)
(* body, or the body with something behind it, so that the length tells    *)
(* the whole file, although left_length wraps around; and upload_record    *)
(* loses and doubles records only in the two cases its design allows.      *)
(***************************************************************************)
EXTENDS Downloader, SequenceTheorems, TLAPS

-----------------------------------------------------------------------------
(* The receive loop. *)

\* Where the call is, and whose it is.
Calls ==
    /\ hpc \in {"idle", "resolve", "open", "recv", "body", "ended", "failed", "dead"}
    /\ url = NoUrl \/ url \in Urls
    /\ hpc = "idle" <=> url = NoUrl

\* The file holds the units of the answer from the first one on.
InOrder(u, s) ==
    /\ s \in Seq(Nat)
    /\ \A j \in 1 .. Len(s) : s[j] = IF j <= Size[u] THEN j ELSE Junk

\* Nothing beyond the body is taken, or everything is: the first packet went
\* past the body and left_length has wrapped around.
Within == /\ Len(out) <= Size[url] /\ left = Size[url] - Len(out)
          /\ left = 0 \/ pos = Len(out)
Beyond == Len(out) > Size[url] /\ left = Word + Size[url] - Len(out) /\ pos = Len(out)

Received ==
    /\ hpc = "recv" => out = << >>
    /\ hpc \in {"recv", "body"} => tail \in 0 .. MaxTail
    /\ hpc \in {"body", "ended"} => InOrder(url, out)
    /\ hpc = "body" => pos \in Nat /\ left \in Nat /\ pos <= Size[url] + tail /\ (Within \/ Beyond)

HttpInv == Calls /\ Received

HttpMove ==
    \/ UNCHANGED httpVars \/ HttpStep \/ HttpRestart
    \/ \E u \in Urls, g \in BOOLEAN : Call(u, g)

\* left_length: the remainder of a number that has not wrapped around, or
\* has once.
LEMMA Wrapped ==
  ASSUME NEW W \in Nat \ {0}, NEW x \in Int, - W < x, x < W
  PROVE  x % W = IF x >= 0 THEN x ELSE x + W
<1> DEFINE q == x \div W
           r == x % W
<1>1. q \in Int /\ r \in 0 .. W - 1 /\ x = W * q + r
  OBVIOUS
<1> HIDE DEF q, r
<1>2. q \in {-1, 0}
  <2>1. CASE q >= 1
    <3>1. W * q >= W
      BY <1>1, <2>1
    <3> QED
      BY <1>1, <3>1
  <2>2. CASE q <= -2
    <3>1. W * q <= - 2 * W
      BY <1>1, <2>2
    <3> QED
      BY <1>1, <3>1
  <2> QED
    BY <1>1, <2>1, <2>2
<1>3. r = IF x >= 0 THEN x ELSE x + W
  BY <1>1, <1>2
<1> QED
  BY <1>3 DEF r

\* A file in order stays in order when the units that come next are added.
LEMMA Appended ==
  ASSUME url \in Urls, NEW s, InOrder(url, s), NEW m \in Nat, m = Len(s), NEW t \in Nat
  PROVE  InOrder(url, s \o Units(m + 1, m + t)) /\ Len(s \o Units(m + 1, m + t)) = m + t
<1> DEFINE w == Units(m + 1, m + t)
<1>1. s \in Seq(Nat) /\ Size[url] \in Nat
  BY HttpAssumption DEF InOrder
<1>2. w = [j \in 1 .. t |-> IF m + j <= Size[url] THEN m + j ELSE Junk]
  <2>1. (m + t) - (m + 1) + 1 = t /\ \A j \in 1 .. t : (m + 1) + j - 1 = m + j
    OBVIOUS
  <2> QED
    BY <2>1 DEF Units
<1>3. w \in [1 .. t -> Nat]
  BY <1>1, <1>2 DEF Junk
<1>4. w \in Seq(Nat) /\ Len(w) = t
  BY <1>3
<1>5. \A j \in 1 .. t : w[j] = IF m + j <= Size[url] THEN m + j ELSE Junk
  BY <1>2
<1> HIDE DEF w
<1>6. s \o w \in Seq(Nat) /\ Len(s \o w) = m + t
  <2>1. s \o w \in Seq(Nat)
    BY <1>1, <1>4, ConcatProperties
  <2>2. Len(s \o w) = Len(s) + Len(w)
    BY <1>1, <1>4, ConcatProperties, Zenon
  <2> QED
    BY <1>4, <2>1, <2>2
<1>7. ASSUME NEW j \in 1 .. m + t PROVE (s \o w)[j] = IF j <= Size[url] THEN j ELSE Junk
  <2>1. CASE j <= m
    <3>1. (s \o w)[j] = s[j] /\ j \in 1 .. Len(s)
      BY <1>1, <1>4, <2>1
    <3> QED
      BY <3>1 DEF InOrder
  <2>2. CASE ~ (j <= m)
    <3>1. (s \o w)[j] = w[j - m] /\ j - m \in 1 .. t /\ m + (j - m) = j
      BY <1>1, <1>4, <2>2
    <3> QED
      BY <1>5, <3>1
  <2> QED
    BY <2>1, <2>2
<1>8. InOrder(url, s \o w)
  BY <1>6, <1>7 DEF InOrder
<1> QED
  BY <1>6, <1>8 DEF w

LEMMA EmptyInOrder == ASSUME NEW u PROVE InOrder(u, << >>)
<1>1. << >> \in Seq(Nat) /\ Len(<< >>) = 0
  OBVIOUS
<1> QED
  BY <1>1 DEF InOrder

LEMMA Sizes ==
  ASSUME NEW u \in Urls
  PROVE  /\ Size[u] \in Nat /\ MaxTail \in Nat /\ Word \in Nat \ {0}
         /\ Size[u] + MaxTail < Word /\ u # NoUrl
<1>1. /\ Size[u] \in Nat /\ MaxTail \in Nat /\ Word \in Nat /\ Size[u] + MaxTail < Word
  BY HttpAssumption
<1>2. u # NoUrl
  BY HttpAssumption
<1> QED
  BY <1>1, <1>2

-----------------------------------------------------------------------------
\* The first packet: all of it is written.
LEMMA HttpFirst ==
  ASSUME HttpInv, NEW k \in 0 .. PackLen - 1, FirstPacket(k) PROVE HttpInv'
<1>1. /\ hpc = "recv" /\ hpc' = "body" /\ url' = url /\ tail' = tail /\ pos' = k
      /\ k <= Size[url] + tail /\ out' = Units(1, k) /\ left' = (Size[url] - k) % Word
  BY DEF FirstPacket, Receiving, To
<1>2. url \in Urls /\ tail \in 0 .. MaxTail
  BY <1>1 DEF HttpInv, Calls, Received
<1>3. Calls'
  BY <1>1, <1>2 DEF HttpInv, Calls
<1>s. /\ Size[url] \in Nat /\ MaxTail \in Nat /\ Word \in Nat \ {0} /\ Size[url] + MaxTail < Word
  BY <1>2, Sizes
<1>k. k \in Nat
  BY HttpAssumption
<1>4. InOrder(url, out') /\ Len(out') = k
  <2>1. InOrder(url, << >>) /\ 0 \in Nat /\ 0 = Len(<< >>)
    BY EmptyInOrder
  <2>2. /\ InOrder(url, << >> \o Units(0 + 1, 0 + k))
        /\ Len(<< >> \o Units(0 + 1, 0 + k)) = 0 + k
    BY <1>2, <1>k, <2>1, Appended
  <2>3. Units(0 + 1, 0 + k) = Units(1, k) /\ 0 + k = k
    BY <1>k
  <2>4. Units(1, k) \in Seq(Nat)
    BY <1>s, <1>k DEF Units, Junk
  <2>5. << >> \o Units(1, k) = Units(1, k)
    BY <2>4
  <2> QED
    BY <1>1, <2>2, <2>3, <2>5
<1>5. left' = IF k <= Size[url] THEN Size[url] - k ELSE Word + Size[url] - k
  <2>1. /\ Size[url] - k \in Int /\ - Word < Size[url] - k /\ Size[url] - k < Word
    BY <1>1, <1>2, <1>s, <1>k
  <2>2. (Size[url] - k) % Word = IF Size[url] - k >= 0 THEN Size[url] - k ELSE Size[url] - k + Word
    BY <1>s, <2>1, Wrapped
  <2> QED
    BY <1>1, <1>s, <1>k, <2>2
<1>6. left' \in Nat /\ (Within' \/ Beyond')
  <2>1. CASE k <= Size[url]
    <3>1. left' = Size[url] - k
      BY <1>5, <2>1
    <3>2. left' \in Nat
      BY <1>s, <1>k, <2>1, <3>1
    <3> QED
      BY <1>1, <1>4, <2>1, <3>1, <3>2 DEF Within
  <2>2. CASE ~ (k <= Size[url])
    <3>1. left' = Word + Size[url] - k
      BY <1>5, <2>2
    <3>2. left' \in Nat
      BY <1>1, <1>2, <1>s, <1>k, <3>1
    <3>3. k > Size[url]
      BY <1>s, <1>k, <2>2
    <3> QED
      BY <1>1, <1>4, <3>1, <3>2, <3>3 DEF Beyond
  <2> QED
    BY <2>1, <2>2
<1>7. Received'
  BY <1>1, <1>2, <1>k, <1>4, <1>6 DEF Received
<1> QED
  BY <1>3, <1>7 DEF HttpInv

\* Every other packet: what left_length allows is written.
LEMMA HttpMore ==
  ASSUME HttpInv, NEW k \in 1 .. PackLen, NextPacket(k) PROVE HttpInv'
<1> DEFINE m == Len(out)
           t == Taken(k)
<1>1. /\ hpc = "body" /\ hpc' = "body" /\ url' = url /\ tail' = tail /\ pos' = pos + k
      /\ pos + k <= Size[url] + tail
      /\ out' = out \o Units(pos + 1, pos + t) /\ left' = (left - t) % Word
  BY DEF NextPacket, Receiving
<1>2. url \in Urls /\ tail \in 0 .. MaxTail
  BY <1>1 DEF HttpInv, Calls, Received
<1>3. Calls'
  BY <1>1, <1>2 DEF HttpInv, Calls
<1>s. /\ Size[url] \in Nat /\ MaxTail \in Nat /\ Word \in Nat \ {0} /\ Size[url] + MaxTail < Word
  BY <1>2, Sizes
<1>k. k \in Nat
  BY HttpAssumption
<1>4. InOrder(url, out) /\ pos \in Nat /\ left \in Nat /\ (Within \/ Beyond)
  BY <1>1 DEF HttpInv, Received
<1>5. m \in Nat
  BY <1>4 DEF InOrder
<1>6. t = IF k > left THEN left ELSE k
  BY DEF Taken
<1>7. t \in Nat /\ t <= left
  BY <1>4, <1>k, <1>6
<1>8. pos' \in Nat /\ pos' <= Size[url] + tail'
  BY <1>1, <1>4, <1>k
<1>a. pos + k <= Size[url] + MaxTail /\ pos' = pos + k
  BY <1>1, <1>2, <1>s, <1>4, <1>k
<1> HIDE DEF m, t
<1>9. ASSUME pos = m PROVE InOrder(url, out') /\ Len(out') = m + t
  BY <1>1, <1>2, <1>4, <1>5, <1>7, <1>9, Appended DEF m
<1>10. CASE Within /\ left # 0
  <2>1. pos = m /\ m <= Size[url] /\ left = Size[url] - m
    BY <1>10 DEF Within, m
  <2>2. InOrder(url, out') /\ Len(out') = m + t
    BY <1>9, <2>1
  <2>3. left' = left - t
    <3>1. left - t \in Int /\ - Word < left - t /\ left - t < Word /\ left - t >= 0
      BY <1>s, <1>4, <1>5, <1>7, <2>1
    <3> QED
      BY <1>1, <1>s, <3>1, Wrapped
  <2>4. left' \in Nat /\ m + t <= Size[url] /\ left' = Size[url] - (m + t)
    BY <1>s, <1>4, <1>5, <1>7, <2>1, <2>3
  <2>5. left' = 0 \/ pos' = m + t
    <3>1. CASE k > left
      BY <1>6, <1>4, <2>3, <3>1
    <3>2. CASE ~ (k > left)
      BY <1>1, <1>6, <2>1, <3>2
    <3> QED
      BY <3>1, <3>2
  <2>6. Within'
    BY <1>1, <2>2, <2>4, <2>5 DEF Within
  <2> QED
    BY <1>1, <1>2, <1>3, <1>8, <2>2, <2>4, <2>6 DEF HttpInv, Received
<1>11. CASE Within /\ left = 0
  <2>1. t = 0
    BY <1>7, <1>11
  <2>2. Units(pos + 1, pos + t) = << >>
    <3>1. (pos + t) - (pos + 1) + 1 = 0
      BY <1>4, <2>1
    <3>2. 1 .. 0 = {}
      OBVIOUS
    <3> QED
      BY <3>1, <3>2 DEF Units
  <2>3. out' = out
    BY <1>1, <1>4, <2>2 DEF InOrder
  <2>4. left' = 0
    <3>1. left - t = 0 /\ 0 \in Int /\ - Word < 0 /\ 0 < Word /\ 0 >= 0
      BY <1>s, <1>11, <2>1
    <3>2. 0 % Word = 0
      BY <1>s, <3>1, Wrapped
    <3> QED
      BY <1>1, <3>1, <3>2
  <2>5. Within'
    BY <1>1, <1>11, <2>3, <2>4 DEF Within
  <2>6. left' \in Nat
    BY <2>4
  <2>7. InOrder(url', out')
    BY <1>1, <1>4, <2>3, Zenon
  <2> QED
    BY <1>1, <1>2, <1>3, <1>8, <2>5, <2>6, <2>7 DEF HttpInv, Received
<1>12. CASE Beyond
  <2>1. pos = m /\ m > Size[url] /\ left = Word + Size[url] - m
    BY <1>12 DEF Beyond, m
  <2>2. InOrder(url, out') /\ Len(out') = m + t
    BY <1>9, <2>1
  <2>3. t = k
    <3>1. k <= left
      BY <1>a, <1>s, <1>5, <1>k, <2>1
    <3> QED
      BY <1>4, <1>6, <1>k, <3>1
  <2>4. left' = left - k
    <3>1. left - k \in Int /\ - Word < left - k /\ left - k < Word /\ left - k >= 0
      BY <1>a, <1>s, <1>5, <1>k, <2>1
    <3> QED
      BY <1>1, <1>s, <2>3, <3>1, Wrapped
  <2>5. left' \in Nat /\ m + t > Size[url] /\ left' = Word + Size[url] - (m + t) /\ pos' = m + t
    BY <1>a, <1>s, <1>5, <1>k, <2>1, <2>3, <2>4
  <2>6. Beyond'
    BY <1>1, <2>2, <2>5 DEF Beyond
  <2> QED
    BY <1>1, <1>2, <1>3, <1>8, <2>2, <2>5, <2>6 DEF HttpInv, Received
<1> QED
  BY <1>4, <1>10, <1>11, <1>12

LEMMA HttpInvInit == HttpInit => HttpInv
BY DEF HttpInit, HttpInv, Calls, Received

\* A step of the call that leaves what was received alone, or ends it.
LEMMA HttpNext == HttpInv /\ HttpMove => HttpInv'
<1> SUFFICES ASSUME HttpInv, HttpMove PROVE HttpInv'
  OBVIOUS
<1>t. Calls /\ Received
  BY DEF HttpInv
<1>1. CASE UNCHANGED httpVars
  <2>1. UNCHANGED <<hpc, url, pos, tail, out, left>>
    BY <1>1 DEF httpVars
  <2>2. (Within' <=> Within) /\ (Beyond' <=> Beyond)
    BY <2>1 DEF Within, Beyond
  <2> QED
    BY <1>t, <2>1, <2>2 DEF HttpInv, Calls, Received
<1>2. CASE HttpRestart
  BY <1>2 DEF HttpRestart, HttpInv, Calls, Received
<1>3. ASSUME NEW u \in Urls, NEW g, Call(u, g) PROVE HttpInv'
  BY <1>3, Sizes DEF Call, To, HttpInv, Calls, Received
<1>4. CASE Resolve
  BY <1>4, <1>t DEF Resolve, Fails, To, HttpInv, Calls, Received
<1>5. CASE Open
  <2>1. tail' \in 0 .. MaxTail
    <3>1. 0 \in 0 .. MaxTail
      BY HttpAssumption
    <3> QED
      BY <1>5, <3>1 DEF Open
  <2> QED
    BY <1>5, <1>t, <2>1 DEF Open, Fails, To, HttpInv, Calls, Received
<1>6. CASE OtherStatus \/ HeaderKills \/ TimeOut \/ RecvError
  BY <1>6, <1>t DEF OtherStatus, HeaderKills, TimeOut, RecvError, Receiving, Fails, To,
                    HttpInv, Calls, Received
<1>7. CASE PeerCloses
  <2>1. InOrder(url', out')
    BY <1>7, <1>t, EmptyInOrder DEF PeerCloses, Received
  <2> QED
    BY <1>7, <1>t, <2>1 DEF PeerCloses, Ends, To, HttpInv, Calls, Received
<1>8. CASE Wait
  <2>1. UNCHANGED <<hpc, url, pos, tail, out, left>>
    BY <1>8 DEF Wait
  <2>2. (Within' <=> Within) /\ (Beyond' <=> Beyond)
    BY <2>1 DEF Within, Beyond
  <2> QED
    BY <1>t, <2>1, <2>2 DEF HttpInv, Calls, Received
<1>9. CASE Return
  BY <1>9, <1>t DEF Return, To, HttpInv, Calls, Received
<1> QED
  BY <1>1, <1>2, <1>3, <1>4, <1>5, <1>6, <1>7, <1>8, <1>9, HttpFirst, HttpMore
     DEF HttpMove, HttpStep

-----------------------------------------------------------------------------
(* The record. *)

UploadTypes ==
    /\ written \in 0 .. MaxRec /\ log \subseteq 1 .. written /\ ann \subseteq log
    /\ upc \in {"idle", "connect", "answer", "unlink", "dead"}
    /\ stored \in BOOLEAN /\ unsure \in BOOLEAN /\ srv \in [Records -> Nat]
    /\ stored => upc \in {"answer", "unlink"}
    /\ upc = "unlink" => stored

\* What the unlink will take has been announced, or was appended since.
Announced == upc \in {"connect", "answer", "unlink"} => log \subseteq ann \cup late

\* The server has what it has stored, and of the rest of the file nothing
\* unless an upload was taken for a failure.
Held(r) == stored /\ r \in ann
Served ==
    /\ \A r \in Records : r \in log /\ Held(r) => srv[r] > 0
    /\ \A r \in Records : r > written => srv[r] = 0
    /\ ~ unsure => \A r \in Records : srv[r] <= 1 /\ (r \in log /\ ~ Held(r) => srv[r] = 0)

UploadInv == UploadTypes /\ Announced /\ Served /\ NoneLost

UploadMove ==
    \/ UNCHANGED uploadVars \/ UploadStep \/ UploadRestart \/ WriteRecord \/ ServerStores
    \/ \E c \in BOOLEAN : Examine(c)

LEMMA UploadInvInit == UploadInit => UploadInv
<1> SUFFICES ASSUME UploadInit PROVE UploadInv
  OBVIOUS
<1>m. MaxRec \in Nat
  BY RecordAssumption
<1>1. UploadTypes /\ Announced
  <2>1. 0 \in 0 .. MaxRec /\ 0 \in Nat
    BY <1>m
  <2>2. srv \in [Records -> Nat]
    BY <2>1 DEF UploadInit
  <2> QED
    BY <2>1, <2>2 DEF UploadInit, UploadTypes, Announced
<1>2. Served
  <2>1. log = {} /\ \A r \in Records : srv[r] = 0
    BY DEF UploadInit
  <2>2. \A r \in Records : srv[r] <= 1
    BY <2>1
  <2> QED
    BY <2>1, <2>2 DEF Served
<1>3. NoneLost
  <2>1. 1 .. 0 = {}
    OBVIOUS
  <2> QED
    BY <2>1 DEF UploadInit, NoneLost
<1> QED
  BY <1>1, <1>2, <1>3 DEF UploadInv

\* The web server writes a record that nobody has seen.
LEMMA UploadWrites == ASSUME UploadInv, WriteRecord PROVE UploadInv'
<1>m. MaxRec \in Nat
  BY RecordAssumption
<1>t. UploadTypes /\ Announced /\ Served /\ NoneLost
  BY DEF UploadInv
<1>1. /\ written < MaxRec /\ written' = written + 1 /\ log' = log \cup {written + 1}
      /\ late' = (IF upc = "idle" THEN late ELSE late \cup {written + 1})
      /\ UNCHANGED <<upc, ann, stored, srv, unsure>>
  BY DEF WriteRecord
<1>2. written \in 0 .. MaxRec /\ written \in Nat /\ log \subseteq 1 .. written /\ ann \subseteq log
  BY <1>m, <1>t DEF UploadTypes
<1>3. /\ written + 1 \in Records /\ written + 1 \notin log /\ written + 1 \notin ann
      /\ 1 .. written + 1 = 1 .. written \cup {written + 1} /\ written + 1 \in 0 .. MaxRec
  BY <1>1, <1>2, <1>m DEF Records
<1>4. UploadTypes'
  BY <1>1, <1>2, <1>3, <1>t DEF UploadTypes
<1>5. Announced'
  BY <1>1, <1>t DEF Announced
<1>6. srv[written + 1] = 0
  BY <1>2, <1>3, <1>t DEF Served
<1>7. Served'
  <2>1. \A r \in Records : r \in log' /\ Held(r)' => srv'[r] > 0
    BY <1>1, <1>2, <1>3, <1>t DEF Served, Held
  <2>2. \A r \in Records : r > written' => srv'[r] = 0
    BY <1>1, <1>2, <1>t DEF Served, Records
  <2>3. ASSUME ~ unsure', NEW r \in Records
        PROVE  srv'[r] <= 1 /\ (r \in log' /\ ~ Held(r)' => srv'[r] = 0)
    BY <1>1, <1>2, <1>3, <1>6, <1>t, <2>3 DEF Served, Held
  <2> QED
    BY <2>1, <2>2, <2>3 DEF Served
<1>8. NoneLost'
  BY <1>1, <1>2, <1>3, <1>t DEF NoneLost
<1> QED
  BY <1>4, <1>5, <1>7, <1>8 DEF UploadInv

\* The server stores what was announced, once.
LEMMA UploadStores == ASSUME UploadInv, ServerStores PROVE UploadInv'
<1>m. MaxRec \in Nat
  BY RecordAssumption
<1>t. UploadTypes /\ Announced /\ Served /\ NoneLost
  BY DEF UploadInv
<1>1. /\ upc = "answer" /\ ~ stored /\ stored' = TRUE
      /\ srv' = [r \in Records |-> IF r \in ann /\ srv[r] < MaxCopies THEN srv[r] + 1 ELSE srv[r]]
      /\ UNCHANGED <<log, written, upc, ann, late, unsure>>
  BY DEF ServerStores
<1>2. /\ written \in 0 .. MaxRec /\ log \subseteq 1 .. written /\ ann \subseteq log
      /\ srv \in [Records -> Nat]
  BY <1>t DEF UploadTypes
<1>3. \A r \in ann : r \in Records /\ ~ (r > written)
  BY <1>m, <1>2 DEF Records
<1>4. \A r \in Records :
         /\ srv[r] \in Nat
         /\ srv'[r] = IF r \in ann /\ srv[r] < MaxCopies THEN srv[r] + 1 ELSE srv[r]
  BY <1>1, <1>2
<1>5. UploadTypes'
  <2>1. srv' \in [Records -> Nat]
    BY <1>1, <1>2
  <2> QED
    BY <1>1, <1>t, <2>1 DEF UploadTypes
<1>6. Announced'
  BY <1>1, <1>t DEF Announced
<1>7. Served'
  <2>1. ASSUME NEW r \in Records, r \in log' /\ Held(r)' PROVE srv'[r] > 0
    BY <1>1, <1>4, <1>t, <2>1, RecordAssumption DEF Held, Served
  <2>2. ASSUME NEW r \in Records, r > written' PROVE srv'[r] = 0
    <3>1. r \notin ann
      BY <1>1, <1>3, <2>2
    <3> QED
      BY <1>1, <1>4, <1>t, <2>2, <3>1 DEF Served
  <2>3. ASSUME ~ unsure', NEW r \in Records
        PROVE  srv'[r] <= 1 /\ (r \in log' /\ ~ Held(r)' => srv'[r] = 0)
    <3>1. srv[r] <= 1 /\ (r \in log => srv[r] = 0)
      BY <1>1, <1>t, <2>3 DEF Served, Held
    <3>2. CASE r \in ann
      <4>1. srv'[r] = srv[r] + 1 /\ srv[r] = 0
        BY <1>2, <1>4, <3>1, <3>2, RecordAssumption
      <4>2. srv'[r] <= 1
        BY <4>1
      <4> QED
        BY <1>1, <3>2, <4>2 DEF Held
    <3>3. CASE r \notin ann
      BY <1>1, <1>4, <3>1, <3>3
    <3> QED
      BY <3>2, <3>3
  <2> QED
    BY <2>1, <2>2, <2>3 DEF Served
<1>8. NoneLost'
  <2>1. ASSUME NEW r \in 1 .. written PROVE r \in log \/ srv'[r] > 0 \/ r \in late
    <3>1. r \in Records
      BY <1>m, <1>2 DEF Records
    <3>2. r \in log \/ srv[r] > 0 \/ r \in late
      BY <1>t DEF NoneLost
    <3>3. srv[r] > 0 => srv'[r] > 0
      BY <1>4, <3>1
    <3> QED
      BY <3>2, <3>3
  <2> QED
    BY <1>1, <2>1 DEF NoneLost
<1> QED
  BY <1>5, <1>6, <1>7, <1>8 DEF UploadInv

\* An upload ends with the record in place: what the server has stored of it
\* may come again.
LEMMA UploadLeaves ==
  ASSUME UploadInv, upc' = "idle", ann' = {}, stored' = FALSE, unsure' = (unsure \/ stored),
         UNCHANGED <<log, written, srv, late>>
  PROVE  UploadInv'
<1>t. UploadTypes /\ Announced /\ Served /\ NoneLost
  BY DEF UploadInv
<1>1. UploadTypes' /\ Announced'
  BY <1>t DEF UploadTypes, Announced
<1>2. Served'
  BY <1>t DEF Served, Held
<1>3. NoneLost'
  BY <1>t DEF NoneLost
<1> QED
  BY <1>1, <1>2, <1>3 DEF UploadInv

\* A step of the upload that touches neither the record nor the server.
LEMMA UploadPasses ==
  ASSUME UploadInv, UNCHANGED <<log, written, ann, stored, srv, late, unsure>>,
         <<upc, upc'>> \in {<<"connect", "dead">>, <<"connect", "answer">>, <<"answer", "unlink">>}
             \/ upc' = upc,
         upc' = "unlink" => stored
  PROVE  UploadInv'
<1>t. UploadTypes /\ Announced /\ Served /\ NoneLost
  BY DEF UploadInv
<1>1. UploadTypes' /\ Announced'
  BY <1>t DEF UploadTypes, Announced
<1>2. Served'
  BY <1>t DEF Served, Held
<1>3. NoneLost'
  BY <1>t DEF NoneLost
<1> QED
  BY <1>1, <1>2, <1>3 DEF UploadInv

LEMMA UploadNext == UploadInv /\ UploadMove => UploadInv'
<1> SUFFICES ASSUME UploadInv, UploadMove PROVE UploadInv'
  OBVIOUS
<1>t. UploadTypes /\ Announced /\ Served /\ NoneLost
  BY DEF UploadInv
<1>1. CASE UNCHANGED uploadVars
  BY <1>1, <1>t, UploadPasses DEF uploadVars, UploadTypes
<1>2. ASSUME NEW c, Examine(c) PROVE UploadInv'
  <2>1. /\ upc = "idle" /\ upc' = "connect" /\ ann' = log /\ stored' = FALSE /\ ~ stored
        /\ UNCHANGED <<log, written, srv, late, unsure>>
    BY <1>2, <1>t DEF Examine, UploadTypes
  <2>2. UploadTypes' /\ Announced'
    BY <1>t, <2>1 DEF UploadTypes, Announced
  <2>3. Served'
    BY <1>t, <2>1 DEF Served, Held
  <2>4. NoneLost'
    BY <1>t, <2>1 DEF NoneLost
  <2> QED
    BY <2>2, <2>3, <2>4 DEF UploadInv
<1>3. CASE NoHost \/ Send \/ Answer200
  BY <1>3, UploadPasses DEF NoHost, Send, Answer200
<1>4. CASE ConnectFails \/ AnswerFails \/ UploadRestart
  BY <1>4, UploadLeaves DEF ConnectFails, AnswerFails, GivesUp, UploadRestart
<1>5. CASE Unlink
  <2>1. /\ upc = "unlink" /\ stored /\ upc' = "idle" /\ log' = {} /\ ann' = {} /\ stored' = FALSE
        /\ UNCHANGED <<written, srv, late, unsure>>
    BY <1>5, <1>t DEF Unlink, UploadTypes
  <2>2. UploadTypes' /\ Announced'
    BY <1>t, <2>1 DEF UploadTypes, Announced
  <2>3. Served'
    BY <1>t, <2>1 DEF Served, Held
  <2>4. NoneLost'
    <3>1. ASSUME NEW r \in 1 .. written PROVE srv[r] > 0 \/ r \in late
      <4>1. r \in Records
        BY <1>t, RecordAssumption DEF UploadTypes, Records
      <4>2. r \in log => r \in ann \/ r \in late
        BY <1>t, <2>1 DEF Announced
      <4>3. r \in log /\ r \in ann => srv[r] > 0
        BY <1>t, <2>1, <4>1 DEF Served, Held
      <4>4. r \in log \/ srv[r] > 0 \/ r \in late
        BY <1>t DEF NoneLost
      <4> QED
        BY <4>2, <4>3, <4>4
    <3> QED
      BY <2>1, <3>1 DEF NoneLost
  <2> QED
    BY <2>2, <2>3, <2>4 DEF UploadInv
<1> QED
  BY <1>1, <1>2, <1>3, <1>4, <1>5, UploadWrites, UploadStores DEF UploadMove, UploadStep

-----------------------------------------------------------------------------
(* The thread. *)

\* Every step of the program is a step, or none, of each of its two calls.
LEMMA Moves == [Next]_vars => HttpMove /\ UploadMove
<1> SUFFICES ASSUME [Next]_vars PROVE HttpMove /\ UploadMove
  OBVIOUS
<1>1. CASE UNCHANGED vars
  BY <1>1 DEF vars, HttpMove, UploadMove
<1>2. CASE Reachable \/ NothingToUpload \/ EndUpload \/ UploadDue \/ Woken
           \/ StartUpdate \/ NotNow \/ EndDownload \/ EndUpdate
  BY <1>2 DEF Reachable, NothingToUpload, EndUpload, UploadDue, Woken, StartUpdate, NotNow,
              EndDownload, EndUpdate, HttpMove, UploadMove
<1>3. ASSUME NEW b \in BOOLEAN, StartUpload(b) PROVE HttpMove /\ UploadMove
  BY <1>3 DEF StartUpload, HttpMove, UploadMove
<1>4. ASSUME NEW b \in BOOLEAN, NEW u \in Urls, Download(u, b) PROVE HttpMove /\ UploadMove
  BY <1>4 DEF Download, HttpMove, UploadMove
<1>5. CASE InDownload \/ InUpload \/ Elsewhere \/ PowerCycle
  BY <1>5 DEF InDownload, InUpload, Elsewhere, PowerCycle, HttpMove, UploadMove
<1> QED
  BY <1>1, <1>2, <1>3, <1>4, <1>5 DEF Next, Main

LEMMA AlwaysHttp == Spec => []HttpInv
<1>1. Init => HttpInv
  BY HttpInvInit DEF Init
<1>2. HttpInv /\ [Next]_vars => HttpInv'
  BY HttpNext, Moves
<1> QED
  BY <1>1, <1>2, PTL DEF Spec

LEMMA AlwaysUpload == Spec => []UploadInv
<1>1. Init => UploadInv
  BY UploadInvInit DEF Init
<1>2. UploadInv /\ [Next]_vars => UploadInv'
  BY UploadNext, Moves
<1> QED
  BY <1>1, <1>2, PTL DEF Spec

\* A file of the announced length is the body, byte for byte: nothing that
\* comes behind the body is ever taken for a part of it.
THEOREM LengthTells == Spec => []SizeTells
<1>1. HttpInv => SizeTells
  <2> SUFFICES ASSUME HttpInv, hpc = "ended", Len(out) = Size[url] PROVE out = Body(url)
    BY DEF SizeTells
  <2>1. url \in Urls /\ InOrder(url, out)
    BY DEF HttpInv, Calls, Received
  <2>2. Size[url] \in Nat
    BY <2>1, Sizes
  <2>3. out \in Seq(Nat) /\ \A j \in 1 .. Len(out) : out[j] = IF j <= Size[url] THEN j ELSE Junk
    BY <2>1 DEF InOrder
  <2>4. out = [j \in 1 .. Size[url] |-> out[j]]
    BY <2>3
  <2>5. \A j \in 1 .. Size[url] : out[j] = j
    BY <2>2, <2>3
  <2> QED
    BY <2>4, <2>5 DEF Body
<1> QED
  BY <1>1, AlwaysHttp, PTL

\* Each record that left the file has reached the server, or was appended
\* while an upload was under way.
THEOREM RecordsKept == Spec => []NoneLost
<1>1. UploadInv => NoneLost
  BY DEF UploadInv
<1> QED
  BY <1>1, AlwaysUpload, PTL

\* The server has no record twice unless an upload was stored and taken for
\* a failure.
THEOREM RecordsOnce == Spec => []NoneTwice
<1>1. UploadInv => NoneTwice
  BY DEF UploadInv, Served, NoneTwice
<1> QED
  BY <1>1, AlwaysUpload, PTL

\* The receive loop, with its packets, its wrapping counter, its time limit
\* and losses of power, does nothing to its caller that Transfer does not
\* allow.
THEOREM TransferRefined == Spec => ImplementsTransfer
<1> DEFINE Steps == T!Begin \/ T!Deliver \/ T!Finish \/ T!Die \/ T!PowerLoss
           result == IF hpc = "ended" THEN out ELSE Nothing
<1>1. Init => T!TransferInit
  BY DEF Init, HttpInit, T!TransferInit
<1>2. ASSUME HttpInv, HttpInv', HttpMove
      PROVE  [Steps]_<<url, result, hpc # "dead">>
  <2>t. Calls /\ Received
    BY <1>2 DEF HttpInv
  <2>1. CASE UNCHANGED httpVars
    BY <2>1 DEF httpVars
  <2>2. CASE HttpRestart
    BY <2>2 DEF HttpRestart, T!PowerLoss
  <2>3. ASSUME NEW u \in Urls, NEW g, Call(u, g) PROVE T!Begin
    BY <2>3, <2>t DEF Call, To, Calls, T!Begin
  <2>4. CASE Resolve \/ Open \/ OtherStatus \/ Wait \/ TimeOut \/ RecvError
    BY <2>4 DEF Resolve, Open, OtherStatus, Wait, TimeOut, RecvError, Receiving, Fails, To
  <2>5. CASE HeaderKills
    BY <2>5 DEF HeaderKills, Receiving, To, T!Die
  <2>6. CASE PeerCloses
    <3>1. /\ hpc \in {"recv", "body"} /\ hpc' = "ended" /\ url' = url /\ out' = out
      BY <2>6 DEF PeerCloses, Ends, To
    <3>2. url \in Urls /\ url # NoUrl
      BY <2>t, <3>1, Sizes DEF Calls
    <3>3. InOrder(url, out')
      BY <1>2, <3>1 DEF HttpInv, Received
    <3>4. T!Delivery(url, out')
      BY <3>3 DEF InOrder, T!Delivery, Junk, T!Junk
    <3> QED
      BY <3>1, <3>2, <3>4 DEF T!Deliver
  <2>7. CASE Return
    <3>1. url # NoUrl
      BY <2>7, <2>t DEF Return, Calls
    <3> QED
      BY <2>7, <3>1 DEF Return, To, T!Finish
  <2>8. ASSUME NEW k, FirstPacket(k) \/ NextPacket(k) PROVE UNCHANGED <<url, result, hpc # "dead">>
    BY <2>8 DEF FirstPacket, NextPacket, Receiving, To
  <2> QED
    BY <1>2, <2>1, <2>2, <2>3, <2>4, <2>5, <2>6, <2>7, <2>8 DEF HttpMove, HttpStep
<1>3. HttpInv /\ HttpInv' /\ [Next]_vars => [Steps]_<<url, result, hpc # "dead">>
  BY <1>2, Moves
<1> QED
  BY <1>1, <1>3, AlwaysHttp, PTL DEF Spec, ImplementsTransfer, T!TransferSpec

=============================================================================
