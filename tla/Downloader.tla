----------------------------- MODULE Downloader -----------------------------
(***************************************************************************)
(* main of diyite_downloader/main.c and the network calls its thread       *)
(* makes: wait for the server, upload the record, then in a loop upload it *)
(* when that is due, update the applications (a number of downloads) when  *)
(* the hour allows, and sleep.  One thread: a call that does not return    *)
(* holds up everything else, and one that dies takes the process with it   *)
(* until the next boot.                                                    *)
(***************************************************************************)
EXTENDS HttpDownload, RecordUpload

CONSTANTS MaxFiles,    \* downloads in one update
          MaxPower     \* bound on losses of power

ASSUME DownloaderAssumption == MaxFiles \in Nat \ {0} /\ MaxPower \in Nat

VARIABLES main,       \* where main is
          must,       \* must_download
          todo,       \* downloads left in this update
          outages
vars == <<httpVars, uploadVars, main, must, todo, outages>>

Init ==
    /\ HttpInit /\ UploadInit
    /\ main = "start" /\ must = TRUE /\ todo = 0 /\ outages = 0

MainStep(from, to) == main = from /\ main' = to /\ UNCHANGED outages

\* check_server_reachable returns 0 at last; must_download is 1.
Reachable ==
    MainStep("start", "upload") /\ must' = TRUE /\ UNCHANGED <<httpVars, uploadVars, todo>>

\* upload_record, at the start and when it is due.
StartUpload(c) ==
    MainStep("upload", "uploading") /\ Examine(c) /\ UNCHANGED <<httpVars, must, todo>>
NothingToUpload ==
    MainStep("upload", "loop") /\ log = {} /\ UNCHANGED <<httpVars, uploadVars, must, todo>>

EndUpload ==
    /\ MainStep("uploading", "loop") /\ upc = "idle"
    /\ UNCHANGED <<httpVars, uploadVars, must, todo>>

\* Mutant: the record is uploaded at the start only.
UploadDue_Once ==
    MainStep("sleep", "upload") /\ must /\ UNCHANGED <<httpVars, uploadVars, must, todo>>

\* The loop: the hour decides, except that the first round always updates.
UploadDue ==
    MainStep("sleep", "upload") /\ UNCHANGED <<httpVars, uploadVars, must, todo>>
Woken ==
    MainStep("sleep", "loop") /\ UNCHANGED <<httpVars, uploadVars, must, todo>>
StartUpdate ==
    /\ MainStep("loop", "update") /\ must' = FALSE /\ todo' = MaxFiles
    /\ UNCHANGED <<httpVars, uploadVars>>
NotNow ==
    MainStep("loop", "sleep") /\ ~ must /\ UNCHANGED <<httpVars, uploadVars, must, todo>>

\* update: the list and the files, one after the other; a list that cannot
\* be fetched ends it.
Download(u, g) ==
    /\ MainStep("update", "downloading") /\ todo > 0 /\ todo' = todo - 1
    /\ Call(u, g) /\ UNCHANGED <<uploadVars, must>>
EndDownload ==
    /\ MainStep("downloading", "update") /\ hpc = "idle"
    /\ UNCHANGED <<httpVars, uploadVars, must, todo>>
EndUpdate ==
    /\ MainStep("update", "sleep") /\ todo < MaxFiles /\ todo' = 0
    /\ UNCHANGED <<httpVars, uploadVars, must>>

InDownload == main = "downloading" /\ HttpStep /\ UNCHANGED <<uploadVars, main, must, todo, outages>>
InUpload == main = "uploading" /\ UploadStep /\ UNCHANGED <<httpVars, main, must, todo, outages>>

Elsewhere ==
    (WriteRecord \/ ServerStores) /\ UNCHANGED <<httpVars, main, must, todo, outages>>

PowerCycle ==
    /\ outages < MaxPower /\ outages' = outages + 1
    /\ HttpRestart /\ UploadRestart
    /\ main' = "start" /\ must' = TRUE /\ todo' = 0

Main ==
    \/ Reachable \/ NothingToUpload \/ EndUpload \/ UploadDue \/ Woken
    \/ StartUpdate \/ NotNow \/ EndDownload \/ EndUpdate
    \/ \E b \in BOOLEAN : StartUpload(b) \/ \E u \in Urls : Download(u, b)

Next == Main \/ InDownload \/ InUpload \/ Elsewhere \/ PowerCycle

Spec == Init /\ [][Next]_vars

(***************************************************************************)
(* The thread runs.  Of the things it tries again and again some meet a    *)
(* network that behaves: the server stores an upload and answers, a file   *)
(* comes whole.  Nothing makes an unhelpful peer answer an upload.         *)
(***************************************************************************)
Fairness ==
    /\ WF_vars(Main) /\ WF_vars(InDownload)
    /\ WF_vars(InUpload /\ (calm \/ upc # "answer"))
    /\ WF_vars(ServerStores /\ calm /\ UNCHANGED <<httpVars, main, must, todo, outages>>)
    /\ SF_vars(UploadDue) /\ SF_vars(StartUpdate) /\ SF_vars(StartUpload(TRUE))
    /\ \A u \in Urls : SF_vars(Download(u, TRUE))
FairSpec == Spec /\ Fairness

-----------------------------------------------------------------------------
\* Types.
DlTypeOK ==
    /\ HttpTypeOK /\ UploadTypeOK
    /\ main \in {"start", "upload", "uploading", "loop", "update", "downloading", "sleep"}
    /\ must \in BOOLEAN /\ todo \in 0 .. MaxFiles /\ outages \in 0 .. MaxPower
    /\ hpc # "idle" => main = "downloading"
    /\ upc # "idle" => main = "uploading"

Dead == hpc = "dead" \/ upc = "dead"
Stuck == upc = "answer" /\ ~ calm

\* The thread comes back to its loop for ever, unless it has died or a peer
\* keeps it waiting for the answer to an upload: http_upload has no time
\* limit, http_download has one.
KeepsGoing == []<>(main = "sleep") \/ <>[]Dead \/ <>[]Stuck

\* Every record reaches the server in the end, but for those that an unlink
\* took along, unless the thread has died for good or waits for ever for the
\* answer of one peer.
RecordsArrive ==
    \/ \A r \in Records : r \in log ~> srv[r] > 0 \/ r \in late \ log
    \/ <>[]Dead \/ <>[]Stuck

\* A file whose address has no port comes whole again and again, whatever
\* failed before: neither an old error nor an old temporary file matters.
GetsFile ==
    \A u \in Urls \ Port :
        []<>(hpc = "ended" /\ url = u /\ out = Body(u)) \/ <>[]Dead \/ <>[]Stuck

=============================================================================
