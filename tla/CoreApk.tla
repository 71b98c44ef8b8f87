------------------------------- MODULE CoreApk -------------------------------
(***************************************************************************)
(* The thread that keeps the assistant application current                 *)
(* (diyite_downloader/core_apk_update.c).  Every interval it fetches one   *)
(* line "version size url", compares the version with the one recorded in  *)
(* the .txt file beside the installed .apk, downloads a different one to a *)
(* .tmp file, renames that over the .apk and records the line.             *)
(*                                                                         *)
(* The server, the network and the power supply are the environment:       *)
(* versions are published at any time, transfers fail or are cut at any    *)
(* byte, and the box may lose power between any two steps.  What reaches   *)
(* the card is assumed to reach it in the order it was written.            *)
(***************************************************************************)
EXTENDS Integers, Sequences, FiniteSets

CONSTANTS Versions,    \* versions the server publishes
          Urls,        \* addresses of .apk files
          NoUrl,       \* the null pointer, or an address that is none
          SizeOf,      \* [Versions -> Nat]: size of a version's file
          UrlOf,       \* [Versions -> Urls]: where it is published
          LongMax,     \* LONG_MAX: the largest number strtol reads
          Monotone,    \* BOOLEAN: versions only grow
          Truncation,  \* BOOLEAN: a cut reply may look complete to curl
          MaxPublish, MaxCrash   \* bounds on what the environment does

ASSUME CoreApkAssumption ==
    /\ LongMax \in Nat /\ Versions \subseteq 1 .. LongMax /\ Versions # {}
    /\ NoUrl \notin Urls
    /\ SizeOf \in [Versions -> Nat \ {0}] /\ UrlOf \in [Versions -> Urls]
    /\ Monotone \in BOOLEAN /\ Truncation \in BOOLEAN
    /\ MaxPublish \in Nat /\ MaxCrash \in Nat

VARIABLES line,     \* the version the server announces
          site,     \* [Urls -> version whose file is there, or NoFile]
          apk, tmp, \* what the .apk and the .tmp file hold
          txt,      \* the line recorded in the .txt file
          info,     \* struct core_apk_info info of the thread
          buff,     \* core_apk_info_buff: the lines in it, the last perhaps begun
          retry, pc,
          published, crashes
server == <<line, site, published>>
card == <<apk, tmp, txt>>
vars == <<line, site, apk, tmp, txt, info, buff, retry, pc, published, crashes>>

NoFile == 0
Part == -1     \* a file cut short, or an error page
Odd == 0       \* a size nobody announced
NoSize == -1   \* no digit of the size has come
TooLarge == LongMax + 1
Retries == 3

\* "torn" is a ghost: the version was not read from one whole line.
NoInfo == [version |-> 0, size |-> 0, url |-> NoUrl, torn |-> FALSE]

\* stat on the .tmp file; an error page has a size of its own.
FileSize(f) == IF f \in Versions THEN SizeOf[f] ELSE Part

(***************************************************************************)
(* Text of the announced line "version size url\n" in the buffer: "at" is  *)
(* the field in which it stops.  A reply brings the whole line, or its     *)
(* beginning: some of the digits of the version, all of them and perhaps   *)
(* digits of the size, or some of the address too.                         *)
(***************************************************************************)
Whole == [at |-> "line", version |-> line, size |-> SizeOf[line],
          url |-> UrlOf[line], torn |-> FALSE]

FirstDigits(v) == {v \div (10 ^ k) : k \in 0 .. 9} \ {0}

Beginnings ==
    {[at |-> "version", version |-> w, size |-> NoSize, url |-> NoUrl, torn |-> TRUE] :
        w \in FirstDigits(line)}
    \cup {[at |-> "size", version |-> line, size |-> s, url |-> NoUrl, torn |-> TRUE] :
            s \in {NoSize, Odd, SizeOf[line]}}
    \cup {[Whole EXCEPT !.at = "url", !.url = NoUrl, !.torn = TRUE]}

\* The number read when the digits of w follow those of d.
Joined(d, w) ==
    LET n == d * (10 ^ Cardinality({k \in 0 .. 9 : 10 ^ k <= w})) + w
    IN  IF n \in 0 .. LongMax THEN n ELSE TooLarge

(***************************************************************************)
(* write_buff: the next reply's text r goes on where the text t of a       *)
(* failed try stopped.  Nothing is seen behind the '\0' that strtok_r has  *)
(* put at the end of a line it parsed in vain.                             *)
(***************************************************************************)
Fused(t, r) ==
    CASE t.at = "version" -> [r EXCEPT !.version = Joined(t.version, @), !.torn = TRUE]
      [] t.at = "size" ->
           [t EXCEPT !.size = Odd,
                     !.at = CASE r.at = "version" -> "size"
                              [] r.at = "line" -> "line"
                              [] OTHER -> "url"]
      [] t.at = "url" -> [t EXCEPT !.at = IF r.at = "line" THEN "line" ELSE "url"]
      [] t.at = "closed" -> t

Appended(b, r) ==
    IF b = << >> \/ b[Len(b)].at = "line" THEN Append(b, r)
    ELSE [b EXCEPT ![Len(b)] = Fused(@, r)]

-----------------------------------------------------------------------------
Init ==
    /\ line \in Versions
    /\ site = [u \in Urls |-> IF UrlOf[line] = u THEN line ELSE NoFile]
    /\ apk = NoFile /\ tmp = NoFile /\ txt = NoInfo
    /\ info = NoInfo /\ buff = << >> /\ retry = 0 /\ pc = "sleep"
    /\ published = 0 /\ crashes = 0

Publish(v) ==
    /\ published < MaxPublish /\ v # line /\ (Monotone => v > line)
    /\ line' = v /\ site' = [site EXCEPT ![UrlOf[v]] = v]
    /\ published' = published + 1
    /\ UNCHANGED <<card, info, buff, retry, pc, crashes>>

\* Power is lost; after the boot the thread starts with an empty info.
Crash ==
    /\ crashes < MaxCrash /\ crashes' = crashes + 1
    /\ info' = NoInfo /\ buff' = << >> /\ retry' = 0 /\ pc' = "sleep"
    /\ UNCHANGED <<card, server>>

\* core_apk_update_thread's sleep is over.  The version info holds from the
\* last cycle is overwritten before it is read, and left out.
Wake ==
    /\ pc = "sleep" /\ pc' = "info" /\ retry' = 0
    /\ info' = [info EXCEPT !.version = 0, !.torn = FALSE]
    /\ UNCHANGED <<card, server, buff, crashes>>

\* Mutant: one try too many.
TryAgain_OneMore(b) ==
    /\ retry' = retry + 1
    /\ pc' = IF retry' > Retries THEN "sleep" ELSE "info"
    /\ buff' = IF pc' = "info" THEN b ELSE << >>

\* A try for the line came to nothing; the buffer is freed after the last.
TryAgain(b) ==
    /\ retry' = retry + 1
    /\ pc' = IF retry' = Retries THEN "sleep" ELSE "info"
    /\ buff' = IF pc' = "info" THEN b ELSE << >>

(***************************************************************************)
(* One curl_easy_perform of core_apk_info_update fails, after some text    *)
(* has come or none.  The buffer is not emptied.                           *)
(***************************************************************************)
InfoFails ==
    /\ pc = "info"
    /\ \E b \in {buff} \cup {Appended(buff, r) : r \in Beginnings \cup {Whole}} : TryAgain(b)
    /\ UNCHANGED <<card, server, info, crashes>>

(***************************************************************************)
(* A try succeeds: curl brought the whole line, or (a reply without a      *)
(* length may end early and count as success) less of it.  The lines of    *)
(* the buffer are parsed in turn until one is accepted.  A line is refused *)
(* for a number out of range, and the first one also when some earlier     *)
(* call has left EINVAL or ERANGE in errno, which is then cleared.         *)
(***************************************************************************)
Texts == {Appended(buff, Whole)}
            \cup IF Truncation THEN {buff} \cup {Appended(buff, r) : r \in Beginnings} ELSE {}

NoVersion(b, i, stale) == (stale /\ i = 1) \/ b[i].version = TooLarge

Refused(b, i, stale, wide) == NoVersion(b, i, stale) \/ (wide /\ b[i].size = Odd)

\* parse_core_apk_line: a field that is not there keeps its last value.
Parsed(t) ==
    [version |-> t.version,
     size |-> IF t.size = NoSize THEN info.size ELSE t.size,
     url |-> IF t.at \in {"version", "size"} THEN info.url ELSE t.url,
     torn |-> t.torn]

FetchInfo(b, stale, wide) ==
    /\ pc = "info"
    /\ \E i \in DOMAIN b :
          /\ ~ Refused(b, i, stale, wide) /\ \A j \in 1 .. i - 1 : Refused(b, j, stale, wide)
          /\ info' = Parsed(b[i])
    /\ pc' = "compare" /\ buff' = << >> /\ retry' = 0
    /\ UNCHANGED <<card, server, crashes>>

\* Every line is refused.  The first one stays where it is, so that the
\* tries that are left read it again.  (A size may have been read; a version
\* too, which the next line that is parsed overwrites.)
ParseFails(b, stale, wide) ==
    /\ pc = "info" /\ b # << >> /\ \A i \in DOMAIN b : Refused(b, i, stale, wide)
    /\ info' = [info EXCEPT !.size = IF \A i \in DOMAIN b : NoVersion(b, i, stale) THEN @ ELSE Odd]
    /\ TryAgain(IF b[1].at = "line" THEN <<[b[1] EXCEPT !.at = "closed"]>> ELSE b)
    /\ UNCHANGED <<card, server, crashes>>

\* Success without a byte: the buffer is null, and terminating it kills the
\* process.
NullBuff ==
    /\ Truncation /\ pc = "info" /\ buff = << >> /\ pc' = "dead"
    /\ UNCHANGED <<card, server, info, buff, retry, crashes>>

\* Mutant: the sizes are compared.
Compare_Size ==
    /\ pc = "compare"
    /\ pc' = IF txt # NoInfo /\ txt.size = info.size THEN "sleep" ELSE "get"
    /\ UNCHANGED <<card, server, info, buff, retry, crashes>>

\* core_apk_update up to the label download.  A missing or empty .txt file
\* stands for no version; with a stale errno the recorded line is refused.
Compare ==
    /\ pc = "compare"
    /\ \/ txt # NoInfo /\ txt.version = info.version /\ pc' = "sleep"
       \/ pc' = "get"
    /\ UNCHANGED <<card, server, info, buff, retry, crashes>>

\* Mutant: the size on the card is not looked at.
Accepted_AnySize(code, f) == code = 0

\* Mutant: a file that is larger than announced will do.
Accepted_Larger(code, f) == code = 0 /\ FileSize(f) >= info.size

\* The test that leaves the loop of tries.
Accepted(code, f) == code = 0 /\ FileSize(f) = info.size

(***************************************************************************)
(* One try to download the .apk: the whole file, or less of it, or an      *)
(* error page (a code other than 0 says that curl noticed).  A .tmp file   *)
(* that is not accepted is never read: what it holds is left out.          *)
(***************************************************************************)
FetchApk(code, f) ==
    /\ pc = "get"
    /\ f # Part => info.url # NoUrl /\ f = site[info.url]
    /\ tmp' = IF Accepted(code, f) THEN f ELSE Part
    /\ IF Accepted(code, f)
       THEN pc' = "rename" /\ retry' = 0
       ELSE /\ retry' = retry + 1
            /\ pc' = IF retry' = Retries THEN "sleep" ELSE "get"
    /\ UNCHANGED <<server, apk, txt, info, buff, crashes>>

\* The .tmp file cannot be opened: this cycle ends.
NoTmp ==
    /\ pc = "get" /\ pc' = "sleep" /\ retry' = 0
    /\ UNCHANGED <<card, server, info, buff, crashes>>

\* Mutant: the line is recorded before the file is in place.
Rename_RecordFirst ==
    /\ pc = "rename" /\ pc' = "truncate"
    /\ txt' = info
    /\ UNCHANGED <<apk, tmp, server, info, buff, retry, crashes>>

Rename ==
    /\ pc = "rename" /\ pc' = "truncate"
    /\ apk' = tmp /\ tmp' = NoFile
    /\ UNCHANGED <<txt, server, info, buff, retry, crashes>>

\* fopen(old_info_file, "w") empties the file, or fails and leaves it.
TruncateTxt ==
    /\ pc = "truncate"
    /\ \/ txt' = NoInfo /\ pc' = "record"
       \/ txt' = txt /\ pc' = "sleep"
    /\ UNCHANGED <<apk, tmp, server, info, buff, retry, crashes>>

RecordTxt ==
    /\ pc = "record" /\ txt' = info /\ pc' = "sleep"
    /\ UNCHANGED <<apk, tmp, server, info, buff, retry, crashes>>

Thread ==
    \/ Wake \/ InfoFails \/ NullBuff \/ Compare
    \/ \E b \in Texts, stale \in BOOLEAN, wide \in BOOLEAN :
          FetchInfo(b, stale, wide) \/ ParseFails(b, stale, wide)
    \/ \E code \in {0, 1}, f \in Versions \cup {Part} : FetchApk(code, f)
    \/ NoTmp \/ Rename \/ TruncateTxt \/ RecordTxt

Next == Thread \/ Crash \/ \E v \in Versions : Publish(v)

(***************************************************************************)
(* The thread goes on; some cycle's first try for the line gets through    *)
(* and is parsed, and some try for a file that is there gets it.           *)
(***************************************************************************)
Fairness ==
    /\ WF_vars(Thread)
    /\ SF_vars(buff = << >> /\ FetchInfo(<<Whole>>, FALSE, FALSE))
    /\ SF_vars(\E v \in Versions : FetchApk(0, v) /\ pc' = "rename")

Spec == Init /\ [][Next]_vars
FairSpec == Spec /\ Fairness

-----------------------------------------------------------------------------
Files == Versions \cup {NoFile, Part}
Infos == [version : 0 .. LongMax, size : Nat, url : Urls \cup {NoUrl}, torn : BOOLEAN]
Text == [at : {"version", "size", "url", "line", "closed"}, version : 0 .. TooLarge,
         size : Nat \cup {NoSize}, url : Urls \cup {NoUrl}, torn : BOOLEAN]

CoreTypeOK ==
    /\ line \in Versions /\ site \in [Urls -> Versions \cup {NoFile}]
    /\ apk \in Files /\ tmp \in Files /\ txt \in Infos /\ info \in Infos
    /\ buff \in Seq(Text) /\ retry \in 0 .. Retries
    /\ pc \in {"sleep", "info", "compare", "get", "rename", "truncate", "record", "dead"}
    /\ published \in 0 .. MaxPublish /\ crashes \in 0 .. MaxCrash

\* Whatever was cut, lost or interrupted, the installed .apk is a complete
\* file: only a .tmp file of the announced size is renamed over it.
InstalledWhole == apk \in Versions \cup {NoFile}

\* A line is recorded only when the file it describes is in place.
RecordAfterFile == [][txt' # txt /\ txt' # NoInfo => FileSize(apk') = txt'.size]_vars

\* A recorded version that was read from one whole line never runs ahead of
\* the installed file: no failed try, file replaced at its address, failed
\* write or loss of power brings that about.  (Digits of two replies run
\* together, and cut replies, do: see FetchInfo.)
NeverAhead == txt.torn \/ txt.version <= apk

\* When the server has published its last version and power stays on, that
\* version is installed in the end, and stays, unless its number happens to
\* be recorded already from torn text, or the process has died.
BecomesCurrent ==
    <>[](apk = line \/ (txt.torn /\ txt.version = line) \/ pc = "dead")

=============================================================================
