---------------------------- MODULE CoreApkProofs ----------------------------
(***************************************************************************)
(* For every set of versions, sizes and addresses, and for any number of   *)
(* failures: the installed file is complete, a line is recorded only when  *)
(* its file is in place, and (versions growing) a record that was read     *)
(* from a whole line never runs ahead of the file.                         *)
(***************************************************************************)
EXTENDS CoreApk, TLAPS

\* From the accepted download to the end of the cycle the file that will be
\* installed, or is, has the size of the line that will be recorded.
Staged ==
    /\ apk \in Versions \cup {NoFile}
    /\ pc = "rename" => tmp \in Versions /\ SizeOf[tmp] = info.size
    /\ pc \in {"truncate", "record"} => apk \in Versions /\ SizeOf[apk] = info.size

\* A loop that goes on has tries left.
TriesLeft == pc \in {"info", "compare", "get"} => retry < Retries

IndInv == CoreTypeOK /\ Staged /\ TriesLeft

-----------------------------------------------------------------------------
(* What is in the buffer is text, whatever the tries brought.               *)

LEMMA RepliesAreText == ASSUME line \in Versions PROVE Beginnings \cup {Whole} \subseteq Text
<1> USE CoreApkAssumption DEF NoSize, Odd, TooLarge
<1>1. SizeOf[line] \in Nat /\ UrlOf[line] \in Urls /\ line \in 0 .. TooLarge
  OBVIOUS
<1>2. Whole \in Text
  BY <1>1 DEF Whole, Text
<1>3. [Whole EXCEPT !.at = "url", !.url = NoUrl, !.torn = TRUE] \in Text
  BY <1>1 DEF Whole, Text
<1>4. ASSUME NEW w \in FirstDigits(line)
      PROVE [at |-> "version", version |-> w, size |-> NoSize, url |-> NoUrl, torn |-> TRUE] \in Text
  <2>1. w \in 0 .. TooLarge
    BY DEF FirstDigits
  <2> QED
    BY <2>1 DEF Text
<1>5. ASSUME NEW n \in {NoSize, Odd, SizeOf[line]}
      PROVE [at |-> "size", version |-> line, size |-> n, url |-> NoUrl, torn |-> TRUE] \in Text
  BY <1>1 DEF Text
<1> QED
  BY <1>2, <1>3, <1>4, <1>5 DEF Beginnings

LEMMA FusedIsText ==
  ASSUME NEW t \in Text, NEW r \in Text, t.at # "line" PROVE Fused(t, r) \in Text
<1> USE CoreApkAssumption DEF TooLarge
<1>1. Joined(t.version, r.version) \in 0 .. TooLarge
  BY DEF Joined
<1>2. CASE t.at = "version"
  <2>1. Fused(t, r) = [r EXCEPT !.version = Joined(t.version, r.version), !.torn = TRUE]
    BY <1>2 DEF Fused
  <2> QED
    BY <2>1, <1>1 DEF Text
<1>3. CASE t.at = "size"
  BY <1>3 DEF Fused, Text, Odd
<1>4. CASE t.at = "url"
  BY <1>4 DEF Fused, Text
<1>5. CASE t.at = "closed"
  BY <1>5 DEF Fused
<1> QED
  BY <1>2, <1>3, <1>4, <1>5 DEF Text

LEMMA AppendedIsText ==
  ASSUME NEW b \in Seq(Text), NEW r \in Text PROVE Appended(b, r) \in Seq(Text)
<1>1. CASE b = << >> \/ b[Len(b)].at = "line"
  BY <1>1 DEF Appended
<1>2. CASE ~ (b = << >> \/ b[Len(b)].at = "line")
  <2>1. b[Len(b)] \in Text
    BY <1>2
  <2> QED
    BY <1>2, <2>1, FusedIsText DEF Appended
<1> QED
  BY <1>1, <1>2

LEMMA TextsAreText == ASSUME CoreTypeOK PROVE Texts \subseteq Seq(Text)
  BY RepliesAreText, AppendedIsText DEF CoreTypeOK, Texts

-----------------------------------------------------------------------------
LEMMA InitInd == Init => IndInv
<1> SUFFICES ASSUME Init PROVE IndInv
  OBVIOUS
<1> USE CoreApkAssumption DEF Init, NoFile
<1>1. NoInfo \in Infos
  BY DEF Infos, NoInfo
<1>2. CoreTypeOK
  BY <1>1 DEF CoreTypeOK, Files, Retries
<1> QED
  BY <1>2 DEF IndInv, Staged, TriesLeft

LEMMA NextInd == IndInv /\ [Next]_vars => IndInv'
<1> SUFFICES ASSUME IndInv, [Next]_vars PROVE IndInv'
  OBVIOUS
<1> USE CoreApkAssumption DEF IndInv, NoFile, Part, Odd, Retries
<1>0. NoInfo \in Infos
  BY DEF Infos, NoInfo
<1>t. ASSUME NEW b \in Seq(Text), pc = "info", TryAgain(b)
      PROVE  /\ retry' \in 0 .. Retries /\ pc' \in {"sleep", "info"} /\ buff' \in Seq(Text)
             /\ TriesLeft'
  BY <1>t DEF TryAgain, TriesLeft, CoreTypeOK
<1>1. CASE UNCHANGED vars
  BY <1>1 DEF vars, CoreTypeOK, Staged, TriesLeft
<1>2. ASSUME NEW v \in Versions, Publish(v) PROVE IndInv'
  BY <1>2 DEF Publish, CoreTypeOK, Staged, TriesLeft, card
<1>3. CASE Crash
  BY <1>0, <1>3 DEF Crash, CoreTypeOK, Staged, TriesLeft, card, server
<1>4. CASE Wake
  <2>1. info \in Infos /\ info' = [info EXCEPT !.version = 0, !.torn = FALSE]
    BY <1>4 DEF Wake, CoreTypeOK
  <2>2. 0 \in 0 .. LongMax
    OBVIOUS
  <2>3. info' \in Infos
    BY <2>1, <2>2 DEF Infos
  <2> QED
    BY <1>4, <2>3 DEF Wake, CoreTypeOK, Staged, TriesLeft, card, server
<1>5. CASE InfoFails
  <2>1. PICK b \in {buff} \cup {Appended(buff, r) : r \in Beginnings \cup {Whole}} : TryAgain(b)
    BY <1>5 DEF InfoFails
  <2>2. b \in Seq(Text)
    BY RepliesAreText, AppendedIsText DEF CoreTypeOK
  <2>3. pc = "info" /\ UNCHANGED <<card, server, info, crashes>>
    BY <1>5 DEF InfoFails
  <2> QED
    BY <1>t, <2>1, <2>2, <2>3 DEF CoreTypeOK, Staged, card, server
<1>6. ASSUME NEW b \in Texts, NEW stale \in BOOLEAN, NEW wide \in BOOLEAN,
             FetchInfo(b, stale, wide)
      PROVE  IndInv'
  <2>1. PICK i \in DOMAIN b : ~ Refused(b, i, stale, wide) /\ info' = Parsed(b[i])
    BY <1>6 DEF FetchInfo
  <2>2. b[i] \in Text
    BY TextsAreText
  <2>3. b[i].version # TooLarge
    BY <2>1 DEF Refused, NoVersion
  <2>4. info' \in Infos
    <3> DEFINE t == b[i]
    <3>1. /\ t.version \in 0 .. TooLarge /\ t.size \in Nat \cup {NoSize}
          /\ t.url \in Urls \cup {NoUrl} /\ t.torn \in BOOLEAN
      BY <2>2 DEF Text
    <3>2. t.version \in 0 .. LongMax
      BY <2>3, <3>1 DEF TooLarge
    <3>3. info.size \in Nat /\ info.url \in Urls \cup {NoUrl}
      BY DEF CoreTypeOK, Infos
    <3>4. Parsed(t) \in Infos
      BY <3>1, <3>2, <3>3 DEF Parsed, Infos
    <3> QED
      BY <2>1, <3>4
  <2> QED
    BY <1>6, <2>4 DEF FetchInfo, CoreTypeOK, Staged, TriesLeft, card, server
<1>7. ASSUME NEW b \in Texts, NEW stale \in BOOLEAN, NEW wide \in BOOLEAN,
             ParseFails(b, stale, wide)
      PROVE  IndInv'
  <2> DEFINE closed == IF b[1].at = "line" THEN <<[b[1] EXCEPT !.at = "closed"]>> ELSE b
             kept == IF \A i \in DOMAIN b : NoVersion(b, i, stale) THEN info.size ELSE Odd
  <2>1. b \in Seq(Text) /\ b # << >>
    BY <1>7, TextsAreText DEF ParseFails
  <2>2. b[1] \in Text
    BY <2>1
  <2>3. closed \in Seq(Text)
    <3>1. [b[1] EXCEPT !.at = "closed"] \in Text
      BY <2>2 DEF Text
    <3> QED
      BY <2>1, <3>1
  <2>4. kept \in Nat
    BY DEF CoreTypeOK, Infos
  <2>5. info' = [info EXCEPT !.size = kept]
    BY <1>7 DEF ParseFails
  <2>6. pc = "info" /\ TryAgain(closed) /\ UNCHANGED <<card, server, crashes>>
    BY <1>7 DEF ParseFails
  <2> HIDE DEF closed, kept
  <2>7. info' \in Infos
    BY <2>4, <2>5 DEF Infos, CoreTypeOK
  <2> QED
    BY <1>t, <2>3, <2>6, <2>7 DEF CoreTypeOK, Staged, card, server
<1>8. CASE NullBuff
  BY <1>8 DEF NullBuff, CoreTypeOK, Staged, TriesLeft, card, server
<1>9. CASE Compare
  BY <1>9 DEF Compare, CoreTypeOK, Staged, TriesLeft, card, server
<1>10. ASSUME NEW code \in {0, 1}, NEW f \in Versions \cup {Part}, FetchApk(code, f)
       PROVE IndInv'
  <2>1. Accepted(code, f) => f \in Versions /\ SizeOf[f] = info.size
    BY DEF Accepted, FileSize, CoreTypeOK, Infos
  <2> QED
    BY <1>10, <2>1 DEF FetchApk, CoreTypeOK, Staged, TriesLeft, Files, server
<1>11. CASE NoTmp
  BY <1>11 DEF NoTmp, CoreTypeOK, Staged, TriesLeft, card, server
<1>12. CASE Rename
  BY <1>12 DEF Rename, CoreTypeOK, Staged, TriesLeft, Files, server
<1>13. CASE TruncateTxt
  BY <1>0, <1>13 DEF TruncateTxt, CoreTypeOK, Staged, TriesLeft, server
<1>14. CASE RecordTxt
  BY <1>14 DEF RecordTxt, CoreTypeOK, Staged, TriesLeft, server
<1> QED
  BY <1>1, <1>2, <1>3, <1>4, <1>5, <1>6, <1>7, <1>8, <1>9, <1>10, <1>11, <1>12,
     <1>13, <1>14 DEF Next, Thread

LEMMA Inductive == Spec => []IndInv
  BY InitInd, NextInd, PTL DEF Spec

\* The thread's variables keep their types; no loop makes a fourth try.
THEOREM CoreTypeCorrect == Spec => []CoreTypeOK
  BY Inductive, PTL DEF IndInv

\* The .apk that is installed is a complete file at every moment, whatever
\* the server sends and whenever power is lost.
THEOREM ApkStaysWhole == Spec => []InstalledWhole
<1>1. IndInv => InstalledWhole
  BY DEF IndInv, Staged, InstalledWhole
<1> QED
  BY <1>1, Inductive, PTL

\* fprintf to the .txt file comes after the rename of the file it describes.
THEOREM RecordFollowsFile == Spec => RecordAfterFile
<1>1. IndInv /\ [Next]_vars
        => [txt' # txt /\ txt' # NoInfo => FileSize(apk') = txt'.size]_vars
  <2> SUFFICES ASSUME IndInv, [Next]_vars, txt' # txt, txt' # NoInfo
               PROVE  FileSize(apk') = txt'.size
    OBVIOUS
  <2>1. RecordTxt
    BY DEF Next, Thread, vars, card, server, Publish, Crash, Wake, InfoFails, FetchInfo,
           ParseFails, NullBuff, Compare, FetchApk, NoTmp, Rename, TruncateTxt
  <2> QED
    BY <2>1 DEF RecordTxt, IndInv, Staged, FileSize
<1> QED
  BY <1>1, Inductive, PTL DEF Spec, RecordAfterFile

-----------------------------------------------------------------------------
(***************************************************************************)
(* The record and the file.  While versions grow, the address of a line,   *)
(* in the buffer or parsed, holds a file at least as new as the line was   *)
(* and as the record is, unless the one or the other was read from torn    *)
(* text; whatever is downloaded from it is too.                            *)
(***************************************************************************)
Sound(t) ==
    t.url # NoUrl => /\ ~ t.torn => t.version <= site[t.url]
                     /\ ~ txt.torn => txt.version <= site[t.url]

\* Text that ends before the address is torn.
SoundText(t) == Sound(t) /\ (t.at \in {"version", "size"} => t.torn)
SoundBuff(b) == \A i \in DOMAIN b : SoundText(b[i])

Ahead ==
    /\ site[UrlOf[line]] = line /\ \A u \in Urls : site[u] <= line
    /\ apk <= line /\ NeverAhead
    /\ Sound(info) /\ SoundBuff(buff) /\ (pc # "info" => buff = << >>)
    /\ pc = "rename" => /\ tmp <= line
                        /\ ~ info.torn => info.version <= tmp
                        /\ ~ txt.torn => txt.version <= tmp
    /\ pc \in {"truncate", "record"} /\ ~ info.torn => info.version <= apk

LEMMA NumbersAndUrls ==
  ASSUME IndInv
  PROVE  /\ line \in Versions /\ line \in Nat /\ UrlOf[line] \in Urls /\ apk \in Nat
         /\ tmp \in Int /\ txt.version \in Nat /\ info.version \in Nat
         /\ info.url \in Urls \cup {NoUrl} /\ site \in [Urls -> Nat]
         /\ txt.torn \in BOOLEAN /\ info.torn \in BOOLEAN
<1> USE CoreApkAssumption
<1>1. CoreTypeOK /\ Staged /\ Versions \cup {0} \subseteq Nat
  BY DEF IndInv
<1>2. line \in Versions /\ line \in Nat /\ UrlOf[line] \in Urls
  BY <1>1 DEF CoreTypeOK
<1>3. apk \in Nat /\ tmp \in Int
  BY <1>1 DEF CoreTypeOK, Staged, Files, NoFile, Part
<1>4. txt \in Infos /\ info \in Infos
  BY <1>1 DEF CoreTypeOK
<1>5. site \in [Urls -> Nat]
  BY <1>1 DEF CoreTypeOK, NoFile
<1> QED
  BY <1>2, <1>3, <1>4, <1>5 DEF Infos

LEMMA RepliesAreSound ==
  ASSUME IndInv, Ahead PROVE \A r \in Beginnings \cup {Whole} : SoundText(r) /\ r \in Text
<1>1. \A r \in Beginnings \cup {Whole} : r \in Text
  BY RepliesAreText DEF IndInv, CoreTypeOK
<1>2. SoundText(Whole)
  <2>1. ~ txt.torn => txt.version <= line
    BY NumbersAndUrls DEF Ahead, NeverAhead
  <2> QED
    BY <2>1, NumbersAndUrls DEF SoundText, Sound, Whole, Ahead
<1>3. \A r \in Beginnings : SoundText(r)
  <2>1. \A r \in Beginnings : r.url = NoUrl /\ r.torn = TRUE
    <3>1. ASSUME NEW w \in FirstDigits(line), NEW r,
                 r = [at |-> "version", version |-> w, size |-> NoSize, url |-> NoUrl, torn |-> TRUE]
          PROVE  r.url = NoUrl /\ r.torn = TRUE
      BY <3>1
    <3>2. ASSUME NEW n \in {NoSize, Odd, SizeOf[line]}, NEW r,
                 r = [at |-> "size", version |-> line, size |-> n, url |-> NoUrl, torn |-> TRUE]
          PROVE  r.url = NoUrl /\ r.torn = TRUE
      BY <3>2
    <3>3. ASSUME NEW r, r = [Whole EXCEPT !.at = "url", !.url = NoUrl, !.torn = TRUE]
          PROVE  r.url = NoUrl /\ r.torn = TRUE
      BY <3>3 DEF Whole
    <3> QED
      BY <3>1, <3>2, <3>3, Zenon DEF Beginnings
  <2> QED
    BY <2>1 DEF SoundText, Sound
<1> QED
  BY <1>1, <1>2, <1>3

LEMMA FusedIsSound ==
  ASSUME NEW t \in Text, NEW r \in Text, t.at # "line", SoundText(t), SoundText(r)
  PROVE  SoundText(Fused(t, r))
<1>1. CASE t.at = "version"
  <2> DEFINE f == [r EXCEPT !.version = Joined(t.version, r.version), !.torn = TRUE]
  <2>1. Fused(t, r) = f
    BY <1>1 DEF Fused
  <2>2. f.url = r.url /\ f.torn /\ f.at = r.at
    BY DEF Text
  <2> HIDE DEF f
  <2>3. SoundText(f)
    BY <2>2 DEF SoundText, Sound
  <2> QED
    BY <2>1, <2>3
<1>2. CASE t.at \in {"size", "url", "closed"}
  <2>1. /\ Fused(t, r).url = t.url /\ Fused(t, r).torn = t.torn
        /\ Fused(t, r).version = t.version
        /\ Fused(t, r).at \in {"version", "size"} => t.at = "size"
    <3>1. CASE t.at = "size"
      BY <3>1 DEF Fused, Text
    <3>2. CASE t.at = "url"
      BY <3>2 DEF Fused, Text
    <3>3. CASE t.at = "closed"
      BY <3>3 DEF Fused
    <3> QED
      BY <1>2, <3>1, <3>2, <3>3
  <2> QED
    BY <2>1 DEF SoundText, Sound
<1> QED
  BY <1>1, <1>2 DEF Text

LEMMA AppendedIsSound ==
  ASSUME NEW b \in Seq(Text), NEW r \in Text, SoundBuff(b), SoundText(r)
  PROVE  SoundBuff(Appended(b, r))
<1>1. CASE b = << >> \/ b[Len(b)].at = "line"
  <2>1. Appended(b, r) = Append(b, r)
    BY <1>1 DEF Appended
  <2>2. \A i \in DOMAIN Append(b, r) : Append(b, r)[i] = r \/ (i \in DOMAIN b /\ Append(b, r)[i] = b[i])
    OBVIOUS
  <2> QED
    BY <2>1, <2>2 DEF SoundBuff
<1>2. CASE ~ (b = << >> \/ b[Len(b)].at = "line")
  <2>1. Len(b) \in DOMAIN b /\ b[Len(b)] \in Text /\ b[Len(b)].at # "line"
    BY <1>2
  <2>2. SoundText(Fused(b[Len(b)], r))
    BY <2>1, FusedIsSound DEF SoundBuff
  <2>3. Appended(b, r) = [b EXCEPT ![Len(b)] = Fused(b[Len(b)], r)]
    BY <1>2 DEF Appended
  <2> QED
    BY <2>1, <2>2, <2>3 DEF SoundBuff
<1> QED
  BY <1>1, <1>2

LEMMA TextsAreSound ==
  ASSUME IndInv, Ahead, NEW b \in {buff} \cup {Appended(buff, r) : r \in Beginnings \cup {Whole}}
  PROVE  b \in Seq(Text) /\ SoundBuff(b)
<1>1. buff \in Seq(Text) /\ SoundBuff(buff)
  BY DEF IndInv, CoreTypeOK, Ahead
<1>2. ASSUME NEW r \in Beginnings \cup {Whole}
      PROVE  Appended(buff, r) \in Seq(Text) /\ SoundBuff(Appended(buff, r))
  BY <1>1, RepliesAreSound, AppendedIsText, AppendedIsSound
<1> QED
  BY <1>1, <1>2

LEMMA InitAhead == Init => Ahead
  BY CoreApkAssumption DEF Init, Ahead, NeverAhead, Sound, SoundBuff, NoInfo, NoFile

LEMMA NextAhead ==
  ASSUME Monotone, IndInv, Ahead, [Next]_vars PROVE Ahead'
<1> USE CoreApkAssumption, NumbersAndUrls
<1>1. CASE UNCHANGED vars
  BY <1>1 DEF vars, Ahead, NeverAhead, Sound, SoundBuff, SoundText
<1>2. ASSUME NEW v \in Versions, Publish(v) PROVE Ahead'
  <2>1. v > line /\ line' = v /\ v \in Nat /\ UrlOf[v] \in Urls
    BY <1>2 DEF Publish
  <2>2. \A u \in Urls : site'[u] = IF u = UrlOf[v] THEN v ELSE site[u]
    BY <1>2 DEF Publish
  <2>3. \A u \in Urls : site[u] <= site'[u] /\ site'[u] <= v /\ site[u] \in Nat /\ site'[u] \in Nat
    BY <2>1, <2>2 DEF Ahead
  <2>4. UNCHANGED <<apk, tmp, txt, info, buff, pc>>
    BY <1>2 DEF Publish, card
  <2>5. Sound(info)'
    BY <2>3, <2>4 DEF Ahead, Sound
  <2>6. ASSUME NEW t \in Text, SoundText(t) PROVE SoundText(t)'
    <3>1. t.url \in Urls \cup {NoUrl} /\ t.version \in Nat
      BY DEF Text, TooLarge
    <3> QED
      BY <2>3, <2>4, <2>6, <3>1 DEF SoundText, Sound
  <2>7. SoundBuff(buff)'
    <3>1. buff \in Seq(Text)
      BY DEF IndInv, CoreTypeOK
    <3>2. \A i \in DOMAIN buff : SoundText(buff[i])'
      BY <2>4, <2>6, <3>1 DEF Ahead, SoundBuff
    <3> QED
      BY <2>4, <3>2 DEF SoundBuff
  <2> QED
    BY <2>1, <2>2, <2>3, <2>4, <2>5, <2>7 DEF Ahead, NeverAhead
<1>s. ASSUME UNCHANGED <<line, site, apk, txt>>, SoundBuff(buff'), Sound(info'),
             pc' \in {"sleep", "info", "compare", "get", "dead"}, pc' # "info" => buff' = << >>
      PROVE  Ahead'
  BY <1>s DEF Ahead, NeverAhead, Sound, SoundBuff, SoundText
<1>e. SoundBuff(<< >>)
  BY DEF SoundBuff
<1>t. ASSUME NEW b, SoundBuff(b), TryAgain(b)
      PROVE  SoundBuff(buff') /\ pc' \in {"sleep", "info"} /\ (pc' # "info" => buff' = << >>)
  BY <1>e, <1>t DEF TryAgain
<1>3. CASE Crash
  <2>1. Sound(NoInfo)
    BY DEF Sound, NoInfo
  <2> QED
    BY <1>3, <1>s, <1>e, <2>1 DEF Crash, card, server
<1>4. CASE Wake
  <2>1. info'.url = info.url /\ info'.version = 0
    BY <1>4 DEF Wake, IndInv, CoreTypeOK, Infos
  <2>2. Sound(info')
    BY <2>1 DEF Sound, Ahead
  <2> QED
    BY <1>4, <1>s, <2>2 DEF Wake, Ahead, card, server
<1>5. CASE InfoFails
  <2>1. PICK b \in {buff} \cup {Appended(buff, r) : r \in Beginnings \cup {Whole}} : TryAgain(b)
    BY <1>5 DEF InfoFails
  <2>2. SoundBuff(buff') /\ pc' \in {"sleep", "info"} /\ (pc' # "info" => buff' = << >>)
    BY <1>t, <2>1, TextsAreSound
  <2> QED
    BY <1>5, <1>s, <2>2 DEF InfoFails, Ahead, card, server
<1>6. ASSUME NEW b \in Texts, NEW stale \in BOOLEAN, NEW wide \in BOOLEAN,
             FetchInfo(b, stale, wide)
      PROVE  Ahead'
  <2>1. PICK i \in DOMAIN b : info' = Parsed(b[i])
    BY <1>6 DEF FetchInfo
  <2>2. b \in {buff} \cup {Appended(buff, r) : r \in Beginnings \cup {Whole}}
    BY DEF Texts
  <2>3. SoundText(b[i])
    BY <2>2, TextsAreSound DEF SoundBuff
  <2>4. Sound(Parsed(b[i]))
    BY <2>3 DEF SoundText, Sound, Parsed, Ahead
  <2> QED
    BY <1>6, <1>s, <1>e, <2>1, <2>4 DEF FetchInfo, card, server
<1>7. ASSUME NEW b \in Texts, NEW stale \in BOOLEAN, NEW wide \in BOOLEAN,
             ParseFails(b, stale, wide)
      PROVE  Ahead'
  <2> DEFINE closed == IF b[1].at = "line" THEN <<[b[1] EXCEPT !.at = "closed"]>> ELSE b
  <2>1. b \in {buff} \cup {Appended(buff, r) : r \in Beginnings \cup {Whole}}
    BY DEF Texts
  <2>2. b \in Seq(Text) /\ SoundBuff(b) /\ b # << >>
    BY <1>7, <2>1, TextsAreSound DEF ParseFails
  <2>3. SoundBuff(closed)
    <3>1. b[1] \in Text /\ SoundText(b[1])
      BY <2>2 DEF SoundBuff
    <3>2. SoundText([b[1] EXCEPT !.at = "closed"])
      BY <3>1 DEF SoundText, Sound, Text
    <3>3. ASSUME NEW t, SoundText(t) PROVE SoundBuff(<<t>>)
      BY <3>3 DEF SoundBuff
    <3> QED
      BY <2>2, <3>2, <3>3
  <2>4. TryAgain(closed) /\ UNCHANGED <<line, site, apk, txt>>
    BY <1>7 DEF ParseFails, card, server
  <2> HIDE DEF closed
  <2>5. info'.url = info.url /\ info'.version = info.version /\ info'.torn = info.torn
    BY <1>7 DEF ParseFails, IndInv, CoreTypeOK, Infos
  <2>6. Sound(info')
    BY <2>5 DEF Sound, Ahead
  <2> QED
    BY <1>s, <1>t, <2>3, <2>4, <2>6
<1>8. CASE NullBuff
  BY <1>8, <1>s DEF NullBuff, Ahead, card, server
<1>9. CASE Compare
  BY <1>9, <1>s DEF Compare, Ahead, card, server
<1>10. ASSUME NEW code \in {0, 1}, NEW f \in Versions \cup {Part}, FetchApk(code, f)
       PROVE Ahead'
  <2>1. UNCHANGED <<line, site, apk, txt, info, buff>> /\ pc = "get"
    BY <1>10 DEF FetchApk, server
  <2>2. Accepted(code, f) => f # Part
    BY DEF Accepted, FileSize, IndInv, CoreTypeOK, Infos, Part
  <2>3. f # Part => info.url \in Urls /\ f = site[info.url]
    BY <1>10 DEF FetchApk
  <2>4. pc' \in {"rename", "sleep", "get"} /\ (pc' = "rename" => f # Part /\ tmp' = f)
    BY <1>10, <2>2 DEF FetchApk
  <2>5. CASE pc' = "rename"
    <3>1. /\ tmp' <= line /\ (~ info.torn => info.version <= tmp')
          /\ ~ txt.torn => txt.version <= tmp'
      BY <2>3, <2>4, <2>5 DEF Ahead, Sound
    <3> QED
      BY <2>1, <2>5, <3>1 DEF Ahead, NeverAhead, Sound, SoundBuff, SoundText
  <2>6. CASE pc' # "rename"
    BY <1>s, <2>1, <2>4, <2>6 DEF Ahead
  <2> QED
    BY <2>5, <2>6
<1>11. CASE NoTmp
  BY <1>11, <1>s DEF NoTmp, Ahead, card, server
<1>12. CASE Rename
  <2>1. /\ UNCHANGED <<line, site, txt, info, buff>> /\ apk' = tmp /\ pc = "rename"
        /\ pc' = "truncate"
    BY <1>12 DEF Rename, server
  <2> QED
    BY <2>1 DEF Ahead, NeverAhead, Sound, SoundBuff, SoundText
<1>13. CASE TruncateTxt
  <2>1. /\ UNCHANGED <<line, site, apk, info, buff>> /\ pc = "truncate"
        /\ pc' \in {"record", "sleep"} /\ (txt' = txt \/ txt' = NoInfo)
    BY <1>13 DEF TruncateTxt, server
  <2>2. buff = << >>
    BY <2>1 DEF Ahead
  <2>3. NeverAhead' /\ Sound(info)'
    BY <2>1 DEF Ahead, NeverAhead, Sound, NoInfo
  <2> QED
    BY <2>1, <2>2, <2>3 DEF Ahead, SoundBuff
<1>14. CASE RecordTxt
  <2>1. /\ UNCHANGED <<line, site, apk, info, buff>> /\ pc = "record"
        /\ pc' = "sleep" /\ txt' = info
    BY <1>14 DEF RecordTxt, server
  <2>2. buff = << >>
    BY <2>1 DEF Ahead
  <2>3. NeverAhead' /\ Sound(info)'
    BY <2>1 DEF Ahead, NeverAhead, Sound
  <2> QED
    BY <2>1, <2>2, <2>3 DEF Ahead, SoundBuff
<1> QED
  BY <1>1, <1>2, <1>3, <1>4, <1>5, <1>6, <1>7, <1>8, <1>9, <1>10, <1>11, <1>12,
     <1>13, <1>14 DEF Next, Thread

\* While versions only grow, a recorded version that was read from one whole
\* line never exceeds the installed file's: no failed or refused try, leftover
\* text, replaced file, failed write or loss of power makes the thread skip
\* an update.
THEOREM RecordNeverAhead ==
  ASSUME Monotone PROVE Spec => []NeverAhead
<1>1. Init => IndInv /\ Ahead
  BY InitInd, InitAhead
<1>2. (IndInv /\ Ahead) /\ [Next]_vars => (IndInv /\ Ahead)'
  BY NextInd, NextAhead
<1>3. Ahead => NeverAhead
  BY DEF Ahead
<1> QED
  BY <1>1, <1>2, <1>3, PTL DEF Spec

=============================================================================
