---------------------------- MODULE Provisioning ----------------------------
(***************************************************************************)
(* How a box gets its settings.  nvram_daemon restores the factory         *)
(* settings at boot when there are none, and when the reset button is      *)
(* pressed (rt2880_app/nvram); init_config asks the server once for the    *)
(* addresses of the other services and notes in "cmd" that it has          *)
(* (init_config_from_server/main.c).  Both write through the store of      *)
(* NvramStore, one value at a time, and power may be lost at any moment.   *)
(***************************************************************************)
EXTENDS NvramStore, Sequences

CONSTANTS WebInit, cmd,     \* the names that say who has been here
          Services,         \* sequence of the names init_config sets
          Answers,          \* what the server may send
          Factory, One,     \* the value of the factory settings; "1"
          NoAnswer,
          SleepSuffices,    \* BOOLEAN: sleep(5) outlasts loadDefault at boot
          ResetApart,       \* BOOLEAN: no reset while init_config works
          MaxReset, MaxCrash

ServiceNames == {Services[j] : j \in 1 .. Len(Services)}

ASSUME ProvisioningAssumption ==
    /\ Keys = {WebInit, cmd} \cup ServiceNames /\ Vals = Answers \cup {Factory, One}
    /\ Services \in Seq(Keys) /\ WebInit # cmd /\ {WebInit, cmd} \cap ServiceNames = {}
    /\ NoVal \notin Vals /\ NoAnswer \notin Vals /\ One # Factory
    /\ "lost" \notin Vals \cup {NoVal}
    /\ SleepSuffices \in BOOLEAN /\ ResetApart \in BOOLEAN /\ MaxReset \in Nat /\ MaxCrash \in Nat

VARIABLES daemon, d,    \* where nvram_daemon is; next line of the factory file
          reboot,       \* it runs loadDefault for the reset button
          init, n,      \* where init_config is; next name it sets
          ans,          \* the answer it works with
          tmp,          \* initconfig.tmp on the SD card; NoAnswer: none, or cmd 0
          resets, crashes
store == <<mem, disk>>
vars == <<mem, disk, daemon, d, reboot, init, n, ans, tmp, resets, crashes>>

\* The factory file: WebInit comes early, cmd (empty) before the addresses.
FactoryFile ==
    <<[key |-> WebInit, val |-> One], [key |-> cmd, val |-> Factory]>>
        \o [j \in 1 .. Len(Services) |-> [key |-> Services[j], val |-> Factory]]

Init ==
    /\ StoreInit
    /\ daemon = "check" /\ d = 1 /\ reboot = FALSE /\ init = "start" /\ n = 1
    /\ ans = NoAnswer /\ tmp = NoAnswer /\ resets = 0 /\ crashes = 0

\* The programs start again on what is in flash.
Restart ==
    /\ Boot
    /\ daemon' = "check" /\ d' = 1 /\ reboot' = FALSE
    /\ init' = "start" /\ n' = 1 /\ ans' = NoAnswer

Crash ==
    /\ crashes < MaxCrash /\ crashes' = crashes + 1
    /\ Restart
    /\ UNCHANGED <<tmp, resets>>

-----------------------------------------------------------------------------
\* nvram_sem: nobody else writes while an image is being written.
Idle == daemon # "clear 2" /\ daemon # "renew 2" /\ init # "set 2"

DaemonStep(from, to) ==
    daemon = from /\ daemon' = to /\ UNCHANGED <<reboot, init, n, ans, tmp, resets, crashes>>
InitStep(from, to) ==
    init = from /\ init' = to /\ UNCHANGED <<daemon, d, reboot, resets, crashes>>

\* main of nvram_daemon.
CheckWebInit ==
    /\ DaemonStep("check", IF mem[WebInit] = One THEN "pause" ELSE "clear")
    /\ UNCHANGED <<store, d>>

\* SIGUSR2, from the reset button: loadDefault again.
Reset ==
    /\ resets < MaxReset /\ resets' = resets + 1
    /\ daemon = "pause" /\ daemon' = "clear" /\ reboot' = TRUE
    /\ ResetApart => init = "end"
    /\ UNCHANGED <<store, d, init, n, ans, tmp, crashes>>

\* loadDefault: "ralink_init clear", which saves a store without values ...
ClearAll == DaemonStep("clear", "clear 1") /\ Idle /\ Clear /\ UNCHANGED d
BeginClear == DaemonStep("clear 1", "clear 2") /\ Idle /\ BeginSave /\ UNCHANGED d
EndClear == DaemonStep("clear 2", "renew") /\ EndSave /\ UNCHANGED d

\* Mutant: every value of the file is saved by itself.
RenewOne_Saved ==
    /\ DaemonStep("renew", "renew") /\ d <= Len(FactoryFile) /\ Idle
    /\ mem' = [mem EXCEPT ![FactoryFile[d].key] = FactoryFile[d].val]
    /\ disk' = mem' /\ d' = d + 1

\* ... then "ralink_init renew", which sets the values of the file ...
RenewOne ==
    /\ DaemonStep("renew", "renew") /\ d <= Len(FactoryFile) /\ Idle
    /\ Set(FactoryFile[d].key, FactoryFile[d].val) /\ d' = d + 1

\* ... and saves them all at the end.
BeginRenew ==
    /\ DaemonStep("renew", "renew 2") /\ d > Len(FactoryFile) /\ Idle
    /\ BeginSave /\ UNCHANGED d

\* A reset ends with a reboot, at boot the daemon goes on to wait.
EndRenew ==
    /\ DaemonStep("renew 2", IF reboot THEN "reboot" ELSE "pause")
    /\ EndSave /\ d' = 1

\* The reboot that was asked for; init_config runs on until it happens.
Reboot == daemon = "reboot" /\ Restart /\ UNCHANGED <<tmp, resets, crashes>>

-----------------------------------------------------------------------------
\* main of init_config, up to the request.
CheckCmd ==
    /\ InitStep("start", IF mem[cmd] = One THEN "end" ELSE "post")
    /\ SleepSuffices => daemon = "pause"
    /\ UNCHANGED <<store, n, ans, tmp>>

(***************************************************************************)
(* The request fails, or the answer is saved and read back.  An answer     *)
(* that fills the buffer is not saved: the file of an earlier run is read, *)
(* if there is one.  An answer with cmd 0 is saved and changes nothing     *)
(* else.  An answer has all its elements: what GetMidStr returns for a     *)
(* missing one is not initialised.                                         *)
(***************************************************************************)
PostFails ==
    InitStep("post", "end") /\ UNCHANGED <<store, n, ans, tmp>>

PostZero ==
    InitStep("post", "end") /\ tmp' = NoAnswer /\ UNCHANGED <<store, n, ans>>

PostAnswered(a) ==
    /\ InitStep("post", "set") /\ tmp' = a /\ ans' = a
    /\ UNCHANGED <<store, n>>

PostTooLong ==
    /\ tmp # NoAnswer
    /\ InitStep("post", "set") /\ ans' = tmp
    /\ UNCHANGED <<store, n, tmp>>

\* Mutant: cmd is set first.
Goes_CmdFirst(j) == IF j = 1 THEN cmd ELSE Services[j - 1]

\* The order of the calls of nvram_set: the services, then cmd.
Goes(j) == IF j <= Len(Services) THEN Services[j] ELSE cmd

SetOne ==
    /\ InitStep("set", "set 1") /\ Idle
    /\ Set(Goes(n), IF Goes(n) = cmd THEN One ELSE ans)
    /\ UNCHANGED <<n, ans, tmp>>

\* The second half of nvram_set.
BeginSet == InitStep("set 1", "set 2") /\ Idle /\ BeginSave /\ UNCHANGED <<n, ans, tmp>>

EndSet ==
    /\ InitStep("set 2", IF n > Len(Services) THEN "end" ELSE "set") /\ EndSave
    /\ n' = n + 1 /\ UNCHANGED <<ans, tmp>>

Next ==
    \/ Crash \/ CheckWebInit \/ Reset \/ ClearAll \/ BeginClear \/ EndClear
    \/ RenewOne \/ BeginRenew \/ EndRenew \/ Reboot
    \/ CheckCmd \/ PostFails \/ PostZero \/ PostTooLong \/ \E a \in Answers : PostAnswered(a)
    \/ SetOne \/ BeginSet \/ EndSet

Spec == Init /\ [][Next]_vars

-----------------------------------------------------------------------------
ProvTypeOK ==
    /\ mem \in Images /\ disk \in Images \cup {Lost}
    /\ d \in 1 .. Len(FactoryFile) + 1 /\ n \in 1 .. Len(Services) + 2
    /\ ans \in Answers \cup {NoAnswer} /\ tmp \in Answers \cup {NoAnswer}

\* Every image in flash that says WebInit has all the factory settings, so
\* that a boot which skips loadDefault never runs with a setting missing.
FactoryWhole ==
    /\ disk[WebInit] = One => \A k \in Keys : disk[k] # NoVal
    /\ daemon = "pause" => \A k \in Keys : mem[k] # NoVal

\* "once init config done, set local cmd a value, 1": a box that says it is
\* configured has every address from the server, all of one answer.
ConfiguredWhole ==
    \A m \in {mem, disk} :
        m[cmd] = One => \E a \in Answers : \A k \in ServiceNames : m[k] = a

\* "init has been done. won't init again": what init_config concludes from
\* cmd when it starts is true.
DoneMeansConfigured ==
    init = "end" /\ daemon = "pause" /\ mem[cmd] = One
        => \E a \in Answers : \A k \in ServiceNames : mem[k] = a

=============================================================================
