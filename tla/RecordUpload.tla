---------------------------- MODULE RecordUpload ----------------------------
(***************************************************************************)
(* upload_record (diyite_downloader/main.c) with http_upload (http.c): the *)
(* record of what phones have fetched is sent to the server and deleted    *)
(* when the server says 200.  The program that writes the record (no       *)
(* source of the repository names the file but upload_record, so it is     *)
(* external) goes on appending to it.                                      *)
(*                                                                         *)
(* Records are numbered.  The request announces the length the file has    *)
(* when it is examined; the server takes that many bytes.                  *)
(***************************************************************************)
EXTENDS Integers, FiniteSets

CONSTANTS MaxRec,     \* bound on the records written
          MaxCopies   \* copies of one record at the server are counted up to here

ASSUME RecordAssumption == MaxRec \in Nat /\ MaxCopies \in Nat \ {0, 1}

VARIABLES log,       \* the records in LOG_DOWNLOAD_FILE
          written,   \* records written so far
          upc,       \* where upload_record is
          calm,      \* server and network behave well during this upload
          ann,       \* the records the request announces
          stored,    \* the server has stored them
          srv,       \* srv[r]: how often the server has record r
          late,      \* records appended between the examination and the end
          unsure     \* an upload that was stored was not taken for successful
uploadVars == <<log, written, upc, calm, ann, stored, srv, late, unsure>>

Records == 1 .. MaxRec

UploadInit ==
    /\ log = {} /\ written = 0 /\ upc = "idle" /\ calm = FALSE /\ ann = {}
    /\ stored = FALSE /\ srv = [r \in Records |-> 0] /\ late = {} /\ unsure = FALSE

\* The program that keeps the record appends to it.
WriteRecord ==
    /\ written < MaxRec /\ written' = written + 1
    /\ log' = log \cup {written'}
    /\ late' = IF upc = "idle" THEN late ELSE late \cup {written'}
    /\ UNCHANGED <<upc, calm, ann, stored, srv, unsure>>

\* There is a record: http_upload examines the file and announces its size.
Examine(c) ==
    /\ upc = "idle" /\ log # {}
    /\ upc' = "connect" /\ calm' = c /\ ann' = log /\ stored' = FALSE
    /\ UNCHANGED <<log, written, srv, late, unsure>>

\* gethostbyname's result is used unchecked: no name service ends the process.
NoHost ==
    /\ upc = "connect" /\ ~ calm /\ upc' = "dead"
    /\ UNCHANGED <<log, written, calm, ann, stored, srv, late, unsure>>

\* Mutant: the record is deleted whatever http_upload returns.
GivesUp_Deletes ==
    /\ upc' = "idle" /\ calm' = FALSE /\ ann' = {} /\ stored' = FALSE
    /\ unsure' = (unsure \/ stored) /\ log' = {}
    /\ UNCHANGED <<written, srv, late>>

\* The end of an upload that leaves the record in place.
GivesUp ==
    /\ upc' = "idle" /\ calm' = FALSE /\ ann' = {} /\ stored' = FALSE
    /\ unsure' = (unsure \/ stored)
    /\ UNCHANGED <<log, written, srv, late>>

ConnectFails == upc = "connect" /\ ~ calm /\ GivesUp

\* The file is sent to its end, which may lie behind the announced one.
Send ==
    /\ upc = "connect" /\ upc' = "answer"
    /\ UNCHANGED <<log, written, calm, ann, stored, srv, late, unsure>>

ServerStores ==
    /\ upc = "answer" /\ ~ stored /\ stored' = TRUE
    /\ srv' = [r \in Records |-> IF r \in ann /\ srv[r] < MaxCopies THEN srv[r] + 1 ELSE srv[r]]
    /\ UNCHANGED <<log, written, upc, calm, ann, late, unsure>>

\* Another status, or the connection ends before one has come.
AnswerFails == upc = "answer" /\ ~ calm /\ GivesUp

Answer200 ==
    /\ upc = "answer" /\ stored /\ upc' = "unlink"
    /\ UNCHANGED <<log, written, calm, ann, stored, srv, late, unsure>>

\* Mutant: the record is kept.
Unlink_Kept ==
    /\ upc = "unlink" /\ upc' = "idle"
    /\ calm' = FALSE /\ ann' = {} /\ stored' = FALSE
    /\ UNCHANGED <<log, written, srv, late, unsure>>

\* The whole file goes, with what was appended meanwhile.
Unlink ==
    /\ upc = "unlink" /\ upc' = "idle"
    /\ log' = {} /\ calm' = FALSE /\ ann' = {} /\ stored' = FALSE
    /\ UNCHANGED <<written, srv, late, unsure>>

UploadStep == NoHost \/ ConnectFails \/ Send \/ AnswerFails \/ Answer200 \/ Unlink

\* Power is lost in the middle of anything.
UploadRestart ==
    /\ upc' = "idle" /\ calm' = FALSE /\ ann' = {} /\ stored' = FALSE
    /\ unsure' = (unsure \/ stored)
    /\ UNCHANGED <<log, written, srv, late>>

-----------------------------------------------------------------------------
\* Types of this module's variables.
UploadTypeOK ==
    /\ log \subseteq Records /\ written \in 0 .. MaxRec /\ ann \subseteq log
    /\ upc \in {"idle", "connect", "answer", "unlink", "dead"}
    /\ calm \in BOOLEAN /\ stored \in BOOLEAN /\ unsure \in BOOLEAN
    /\ srv \in [Records -> 0 .. MaxCopies] /\ late \subseteq Records

\* A record that is not in the file any more has reached the server, or was
\* appended while an upload was under way and went with the unlink.
NoneLost == \A r \in 1 .. written : r \in log \/ srv[r] > 0 \/ r \in late

\* The server has no record twice, unless power or the connection was lost
\* after it had stored an upload and before the program knew.
NoneTwice == ~ unsure => \A r \in Records : srv[r] <= 1

=============================================================================
