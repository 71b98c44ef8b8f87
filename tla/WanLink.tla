------------------------------- MODULE WanLink -------------------------------
(***************************************************************************)
(* The WAN connection: ralinkWanInit (lktNetworkConfig.c) stops the        *)
(* programs of every mode, one killall after the other, and starts those   *)
(* of the configured mode; udhcpc.sh starts them too when an address is    *)
(* obtained; ppp_daemon and 3gdial keep the connection up.                 *)
(*                                                                         *)
(* What killall does not stop goes on: the tail of a script that sleeps,   *)
(* and the shell of a program started with system().                       *)
(***************************************************************************)
EXTENDS Dial3g, PppWatchdog

VARIABLES wpc,       \* ralinkWanInit: the step that comes next; "idle": not running
          udhcpc,    \* udhcpc runs
          tails,     \* what scripts and shells are still going to start
          stray      \* a tail was pending when the programs were stopped
wanVars == <<wpc, udhcpc, tails, stray>>
vars == <<pppVars, dial3gVars, mode, dogVars, wanVars, events>>

Tail3g == <<"3gdial.sh", "3G">>
Tails == {"udhcpc.sh", "ppp_daemon", "sh"} \X {"PPTP", "L2TP"} \cup {Tail3g}

Init ==
    /\ PppInit /\ Dial3gInit /\ DogInit /\ mode \in Kinds
    /\ wpc = "start" /\ udhcpc = FALSE /\ tails = {} /\ stray = FALSE

-----------------------------------------------------------------------------
(* ralinkWanInit. *)

\* The user changes the WAN settings; networkconfig runs.  udhcpc goes first.
Switch(m) ==
    /\ wpc = "idle" /\ Event
    /\ mode' = m /\ wpc' = "openl2tpd"
    /\ udhcpc' = FALSE /\ stray' = (stray \/ tails # {})
    /\ UNCHANGED <<pppVars, dial3gVars, dogVars, tails>>

KillL2tp ==
    /\ wpc = "openl2tpd" /\ wpc' = "ppp_daemon" /\ Killall("openl2tpd")
    /\ UNCHANGED <<dial3gVars, mode, dogVars, udhcpc, tails, stray>>

\* Mutant: the watchdogs are not stopped.
KillWatchdogs_Forgotten ==
    /\ wpc = "ppp_daemon" /\ wpc' = "pppd"
    /\ UNCHANGED <<pppVars, dial3gVars, mode, dogVars, udhcpc, tails, stray>>

\* A shell that was about to start the program may go on to do so.
KillWatchdogs ==
    /\ wpc = "ppp_daemon" /\ wpc' = "pppd" /\ KillDogs
    /\ \E o \in SUBSET {<<"sh", saw[d]>> : d \in {e \in Dogs : dog[e] = "start"}} :
          tails' = tails \cup o /\ stray' = (stray \/ o # {})
    /\ UNCHANGED <<pppVars, dial3gVars, mode, udhcpc>>

KillPppd ==
    /\ wpc = "pppd" /\ wpc' = "3gdial" /\ Killall("pppd")
    /\ UNCHANGED <<dial3gVars, mode, dogVars, udhcpc, tails, stray>>

Kill3gdial ==
    /\ wpc = "3gdial" /\ wpc' = "hotplugd" /\ KillDial
    /\ UNCHANGED <<pppVars, mode, dogVars, udhcpc, tails, stray>>

KillHotplugd ==
    /\ wpc = "hotplugd" /\ wpc' = "start" /\ KillHot
    /\ UNCHANGED <<pppVars, mode, dogVars, udhcpc, tails, stray>>

\* The address of a PPTP or L2TP connection may come from udhcpc.
StartVpn ==
    /\ wpc = "start" /\ mode # "3G" /\ wpc' = "dog"
    /\ udhcpc' \in BOOLEAN /\ Launch(mode)
    /\ UNCHANGED <<dial3gVars, mode, dogVars, tails, stray>>

StartDog ==
    /\ wpc = "dog" /\ wpc' = "idle" /\ NewDog
    /\ UNCHANGED <<pppVars, dial3gVars, mode, udhcpc, tails, stray>>

\* 3gdial.sh &: it starts hotplugd, and three seconds later 3gdial.
Start3g ==
    /\ wpc = "start" /\ mode = "3G" /\ wpc' = "idle"
    /\ HotStarts /\ tails' = tails \cup {Tail3g}
    /\ UNCHANGED <<pppVars, mode, dogVars, udhcpc, stray>>

WanStep ==
    \/ KillL2tp \/ KillWatchdogs \/ KillPppd \/ Kill3gdial \/ KillHotplugd
    \/ StartVpn \/ StartDog \/ Start3g

-----------------------------------------------------------------------------
(* Scripts and shells. *)

\* udhcpc.sh begins, and reads the mode.
Lease ==
    /\ udhcpc /\ Event /\ mode # "3G"
    /\ tails' = tails \cup {<<"udhcpc.sh", mode>>}
    /\ UNCHANGED <<pppVars, dial3gVars, mode, dogVars, wpc, udhcpc, stray>>

\* udhcpc.sh starts the program of the mode it has read, and the watchdog
\* after 5 s; a shell its program; 3gdial.sh 3gdial after 3 s.
TailStarts(t) ==
    /\ t \in tails
    /\ tails' = (tails \ {t}) \cup IF t[1] = "udhcpc.sh" THEN {<<"ppp_daemon", t[2]>>} ELSE {}
    /\ CASE t[1] = "ppp_daemon"         -> NewDog /\ UNCHANGED <<pppVars, dial3gVars>>
         [] t[1] \in {"udhcpc.sh", "sh"} -> Launch(t[2]) /\ UNCHANGED <<dogVars, dial3gVars>>
         [] t = Tail3g                  -> DialStarts /\ UNCHANGED <<dogVars, pppVars>>
    /\ UNCHANGED <<mode, wpc, udhcpc, stray>>

-----------------------------------------------------------------------------
(* The programs that hold the line. *)

OnlyPpp == UNCHANGED <<dial3gVars, mode, dogVars, wpc, udhcpc, tails, stray>>

Terminates(k) == k \in dying /\ Exit(k) /\ OnlyPpp /\ UNCHANGED events

\* The modem's pppd does not persist.
GivesUp == "3G" \in live /\ ~ModemAnswers /\ Exit("3G") /\ OnlyPpp /\ UNCHANGED events

Dies(k) == Event /\ k \notin dying /\ Exit(k) /\ OnlyPpp

Lost(k) == Event /\ Drops(k) /\ OnlyPpp

Links(k) ==
    Connects(k) /\ (k = "3G" => ModemAnswers) /\ OnlyPpp /\ UNCHANGED events

-----------------------------------------------------------------------------
Wan == UNCHANGED <<mode, dogVars, wanVars>>

\* A step of a program, which is not bounded.
Runs(A) == A /\ UNCHANGED events
Watch(d) == Runs(DogStep(d)) /\ UNCHANGED <<dial3gVars, wanVars>>
Modem(A) == Runs(A) /\ Wan

Next ==
    \/ \E m \in Kinds : Switch(m)
    \/ Runs(WanStep) \/ Lease \/ (\E t \in Tails : Runs(TailStarts(t)))
    \/ \E d \in Dogs : Watch(d)
    \/ \E d \in Devices : (Plug(d) \/ Unplug(d)) /\ Wan
    \/ Modem(HotStep) \/ Modem(Reload) \/ Modem(DialStep) \/ ((Disconnect \/ Connect) /\ Wan)
    \/ \E k \in Kinds : Terminates(k) \/ Dies(k) \/ Lost(k) \/ Links(k)
    \/ GivesUp

Spec == Init /\ [][Next]_vars

\* One watchdog at most.
Alone == \A d, e \in Dogs : "none" \in {dog[d], dog[e]} \/ d = e

\* Every program goes on.  A peer answers within the 20 seconds that one
\* watchdog gives pppd, if it is tried often; two watchdogs out of step may
\* kill each other's pppd for ever.
Fairness ==
    /\ WF_vars(Runs(WanStep)) /\ WF_vars(\E t \in Tails : Runs(TailStarts(t)))
    /\ \A d \in Dogs : WF_vars(Watch(d))
    /\ WF_vars(Modem(HotStep)) /\ WF_vars(Modem(Reload)) /\ WF_vars(Modem(DialStep))
    /\ \A k \in Kinds : WF_vars(Terminates(k))
    /\ WF_vars(GivesUp) /\ WF_vars(Links("3G"))
    /\ SF_vars(Alone /\ \E k \in Kinds \ {"3G"} : Links(k))

FairSpec == Spec /\ Fairness

-----------------------------------------------------------------------------
WanTypeOK ==
    /\ PppTypeOK /\ DogTypeOK /\ Dial3gTypeOK /\ tails \subseteq Tails
    /\ wpc \in {"idle", "openl2tpd", "ppp_daemon", "pppd", "3gdial", "hotplugd", "start", "dog"}

\* ralinkWanInit leaves no pppd of a PPTP connection that is not going to
\* exit behind when it starts another mode: the watchdog that restarts pppd
\* is stopped first.  Tails of scripts and shells are the exception.
PptpStopped ==
    mode # "PPTP" /\ wpc \in {"3gdial", "hotplugd", "start", "dog", "idle"} /\ ~stray
        => "PPTP" \notin live \ dying

\* 3gdial never dials a modem with the settings of another one: it forgets
\* them when the link or its tty is gone.  It may do so in two cases: the
\* last modem was pulled and 3gdial has not looked since; or it has looked
\* while /var/hotplugadd was there, so that the last modem's files stayed,
\* and the card of the new one could not be read.
OwnSettings ==
    dpc = "dial" =>
        \/ conf \in {None} \cup usb
        \/ passed = "none"
        \/ passed = "kept" /\ unread

\* ppp_daemon: whatever kills, restarts and losses came before, a PPTP or an
\* L2TP connection comes up again under one watchdog, if ralinkWanInit has
\* left no program of another mode behind.
LinkRecovers ==
    <>[](wpc = "idle" /\ mode # "3G" /\ dpc = "off" /\ live \subseteq {mode} /\ Alone)
        => []<>(up = mode)

\* The files have a card's number, while there is no link to the modem or
\* 3gdial has not got its settings: nothing makes up for it.
Forlorn == info # None /\ (link \notin usb \/ (at /\ conf \notin usb))

\* With a modem in, no other connection left over and nobody asking
\* otherwise, the modem's connection comes up again or the driver is
\* reloaded again and again: the WAN never just stays down, unless the files
\* hold the number of a card while the link or the settings are lost.
ModemRecovers ==
    <>[](/\ wpc = "idle" /\ mode = "3G" /\ usb \cap Modems # {} /\ Stick \notin usb
         /\ ~discon /\ dpc # "gone" /\ live \subseteq {"3G"})
        => []<>(up = "3G") \/ []<>(hcd = "none") \/ <>[]Forlorn

\* A disconnect request ends with no pppd, unless 3gdial waits in the
\* foreground for the very pppd it should stop.
DisconnectObeyed ==
    <>[](discon /\ dpc # "wait") => <>[]("3G" \notin live)

=============================================================================
