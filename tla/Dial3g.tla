------------------------------- MODULE Dial3g -------------------------------
(***************************************************************************)
(* The modem's side of the WAN: hotplugd (hotplug/hotplug_netlink.c,       *)
(* hotplug_3gmodem.c) recognises a USB modem and links its tty to          *)
(* /var/ttyACM0; 3gdial (3g_dial/3gdial.c) watches the link, reads the     *)
(* card once per modem, writes its number and the settings that go with it *)
(* under /var/usbmodem, takes the settings from there and starts pppd;     *)
(* rmohcimod_daemon reloads the USB driver while there is no card number   *)
(* under /var/usbmodem.  The three share files only.                       *)
(*                                                                         *)
(* The settings that go with a modem's card are the modem itself; the      *)
(* automatic dialling style is modelled.  AT commands and comgt scripts    *)
(* are left out.                                                           *)
(***************************************************************************)
EXTENDS Pppd, Sequences

CONSTANTS Modems,      \* the modems there are
          Stick,       \* any other USB device
          AtBoot,      \* the devices that are in when the router boots
          Sticky,      \* the modems for which hotplugd sets mc8780_flag
          MaxEvents    \* bound: things done by users and peers

ASSUME Dial3gAssumption ==
    /\ AtBoot \subseteq Modems \cup {Stick} /\ (\A m, n \in AtBoot \cap Modems : m = n)
    /\ Sticky \subseteq Modems /\ None \notin Modems /\ Stick \notin Modems \cup {None}
    /\ Modems \cap {"off", "wait"} = {} /\ Stick \notin {"off", "wait"}
    /\ MaxEvents \in Nat

Devices == Modems \cup {Stick}

VARIABLES usb,       \* the devices that are plugged in
          hcd,       \* the driver that serves them: "ehci", "ohci", or "none"
          uevents,   \* hotplugd's netlink socket: a device added, None: one removed
          hot,       \* hotplugd: "off", "wait", or the device InitDeviceInfo is busy with
          sticky,    \* mc8780_flag
          added,     \* /var/hotplugadd exists
          info,      \* the modem whose card /var/usbmodem describes, or None
          link,      \* the modem /var/ttyACM0 was made for, or None
          rescue,    \* rmohcimod_daemon runs
          dpc,       \* 3gdial: where it is
          at,        \* at_flag: the card has been asked for
          conf,      \* the modem whose settings dial3g_* hold, or None
          discon,    \* discon_flag; con_flag is its negation
          passed,    \* what 3gdial has dropped of a modem since it was pulled:
                     \* "none", its own copy ("kept"), also the files ("cleared")
          unread,    \* the settings were taken from the files without a card read
          events     \* how much users and peers have done
hotVars == <<usb, hcd, uevents, hot, sticky, added>>
fileVars == <<info, link>>
dialVars == <<dpc, at, conf, discon>>
passVars == <<passed, unread>>
dial3gVars == <<hotVars, fileVars, dialVars, passVars, rescue>>

\* What users and peers do is bounded.
Event == events < MaxEvents /\ events' = events + 1

Dial3gInit ==
    /\ usb = AtBoot /\ hcd = "ehci" /\ uevents = <<>> /\ hot = "off"
    /\ sticky = FALSE /\ added = FALSE /\ info = None /\ link = None /\ rescue = FALSE
    /\ dpc = "off" /\ at = FALSE /\ conf = None /\ discon = FALSE
    /\ passed = "cleared" /\ unread = FALSE /\ events = 0

-----------------------------------------------------------------------------
(* Devices, their driver, and hotplugd. *)

\* The modems that have a tty.
Present == IF hcd = "none" THEN {} ELSE usb \cap Modems

\* Uevents; nobody keeps them while hotplugd does not run.
Uevents(es) == uevents' = IF hot = "off" THEN <<>> ELSE uevents \o es

\* The orders in which the devices of a port may be found.
Orders(S) == {o \in [1..Cardinality(S) -> S] : \A d \in S : \E i \in DOMAIN o : o[i] = d}

\* The router has one port for a modem.
Plug(d) ==
    /\ Event /\ d \notin usb /\ (d \in Modems => usb \cap Modems = {})
    /\ usb' = usb \cup {d} /\ Uevents(IF hcd = "none" THEN <<>> ELSE <<d>>)
    /\ UNCHANGED <<hcd, hot, sticky, added, fileVars, dialVars, passVars, rescue, pppVars>>

Unplug(d) ==
    /\ Event /\ d \in usb
    /\ usb' = usb \ {d} /\ Uevents(IF hcd = "none" THEN <<>> ELSE <<None>>)
    /\ IF d \in Modems THEN HangsUp("3G") ELSE UNCHANGED pppVars
    /\ passed' = IF {d} \cap {info, conf} # {} THEN "none" ELSE passed
    /\ UNCHANGED <<hcd, hot, sticky, added, fileVars, dialVars, unread, rescue>>

unDeviceInfo == link' = None /\ Killall("pppd")

\* Whichever device it was; nothing once mc8780_flag is set.
HotRemove ==
    /\ hot = "wait" /\ uevents # <<>> /\ Head(uevents) = None
    /\ uevents' = Tail(uevents)
    /\ IF sticky THEN UNCHANGED <<added, link, pppVars>>
                 ELSE added' = FALSE /\ unDeviceInfo
    /\ UNCHANGED <<usb, hcd, hot, sticky, info, dialVars, passVars, rescue>>

\* A device after the first is passed over until something is removed.
HotAdd ==
    /\ hot = "wait" /\ uevents # <<>> /\ Head(uevents) # None
    /\ uevents' = Tail(uevents) /\ added' = TRUE
    /\ hot' = IF added THEN "wait" ELSE Head(uevents)
    /\ UNCHANGED <<usb, hcd, sticky, fileVars, dialVars, passVars, rescue, pppVars>>

\* Some modems need another serial driver, loaded once.
Mount_Usb_Module == sticky' = (sticky \/ hot \in Sticky)

\* InitDeviceInfo comes to an end: the tty, or that of another modem with
\* the same name, opens, and the link is made.
InitDone ==
    /\ hot \in Modems /\ Present # {}
    /\ hot' = "wait" /\ link' = hot /\ Mount_Usb_Module
    /\ UNCHANGED <<usb, hcd, uevents, added, info, dialVars, passVars, rescue, pppVars>>

\* Not a modem, or no tty opens.
InitFails ==
    /\ hot \in Devices /\ hot' = "wait" /\ Mount_Usb_Module
    /\ UNCHANGED <<usb, hcd, uevents, added, fileVars, dialVars, passVars, rescue, pppVars>>

HotStep == HotRemove \/ HotAdd \/ InitFails \/ InitDone

\* Mutant: the daemon gives up.
Unload_Never ==
    /\ rescue /\ info = None /\ FALSE
    /\ UNCHANGED <<dial3gVars, pppVars>>

\* rmohcimod_daemon: five rounds without the card's number, whether a modem
\* has been linked by then or not.  Each 3gdial.sh starts one more daemon;
\* how often they reload is left open.  The queue is bounded by the guard.
Unload ==
    /\ rescue /\ info = None /\ hcd = "ohci" /\ uevents = <<>>
    /\ hcd' = "none" /\ Uevents(<<None>>) /\ HangsUp("3G")
    /\ UNCHANGED <<usb, hot, sticky, added, fileVars, dialVars, passVars, rescue>>

\* After 3 seconds.
Load ==
    /\ hcd = "none" /\ hcd' = "ohci" /\ \E o \in Orders(usb) : Uevents(o)
    /\ UNCHANGED <<usb, hot, sticky, added, fileVars, dialVars, passVars, rescue, pppVars>>

Reload == Unload \/ Load

-----------------------------------------------------------------------------
(* 3gdial's loop. *)

\* The two requests of the user, as signals.
Disconnect ==
    /\ Event /\ dpc \notin {"off", "gone"} /\ ~discon
    /\ discon' = TRUE
    /\ UNCHANGED <<hotVars, fileVars, dpc, at, conf, passVars, rescue, pppVars>>

Connect ==
    /\ Event /\ dpc \notin {"off", "gone"} /\ discon
    /\ discon' = FALSE
    /\ UNCHANGED <<hotVars, fileVars, dpc, at, conf, passVars, rescue, pppVars>>

\* Mutant: a disconnected 3gdial leaves pppd alone.
HangUp_Not ==
    /\ dpc = "top" /\ discon
    /\ UNCHANGED <<dial3gVars, pppVars>>

HangUp ==
    /\ dpc = "top" /\ discon
    /\ Killall("pppd")
    /\ UNCHANGED dial3gVars

\* delete_modem_info, unless there is a new device.
DeleteModemInfo ==
    /\ info' = IF added THEN info ELSE None
    /\ passed' = IF added /\ passed # "cleared" THEN "kept" ELSE "cleared"

\* Mutant: the settings of the last modem stay valid.
Forget_Not == DeleteModemInfo /\ UNCHANGED <<at, conf, unread>>

\* What is known of the modem.
Forget == DeleteModemInfo /\ at' = FALSE /\ conf' = None /\ unread' = FALSE

\* access() follows the link: there is none, or its tty is gone.
NoLink ==
    /\ dpc = "top" /\ ~discon /\ (link = None \/ link \notin Present)
    /\ Forget
    /\ UNCHANGED <<hotVars, link, dpc, discon, rescue, pppVars>>

\* The tty goes just then: it is there for access() and not for fopen().
BadLink ==
    /\ dpc = "top" /\ ~discon /\ link # None /\ link \notin Present
    /\ Forget /\ link' = None
    /\ Killall("pppd")
    /\ UNCHANGED <<hotVars, dpc, discon, rescue>>

\* The tty opens; another modem's may have the same name.
Opens == link # None /\ Present # {}

\* DBgetPPPStatus.
Status ==
    /\ dpc = "top" /\ ~discon /\ Opens
    /\ dpc' = IF Running("pppd") THEN "top" ELSE "prep"
    /\ UNCHANGED <<hotVars, fileVars, at, conf, discon, passVars, rescue, pppVars>>

\* The card's number and its operator's settings are written; or at+cimi
\* fails or the operator is not known, and the files stay as they are.
\* The settings are taken from the files.
CheckModuleStatus ==
    \/ \E m \in Present : info' = m /\ conf' = m /\ unread' = FALSE
    \/ info' = info /\ conf' = info /\ unread' = TRUE

\* at_flag is set, whether the tty opens or not.
Prep ==
    /\ dpc = "prep" /\ dpc' = "dial" /\ at' = TRUE
    /\ \/ ~at /\ Opens /\ CheckModuleStatus
       \/ (at \/ ~Opens) /\ UNCHANGED <<info, conf, unread>>
    /\ UNCHANGED <<hotVars, link, discon, passed, rescue, pppVars>>

\* CheckModuleStatus < 0: the program ends.
PrepExits ==
    /\ dpc = "prep" /\ ~at /\ Opens
    /\ dpc' = "gone" /\ at' = FALSE /\ conf' = None /\ discon' = FALSE
    /\ UNCHANGED <<hotVars, fileVars, passVars, rescue, pppVars>>

\* CDMADial: pppd runs in the foreground ("wait") for some types of modem.
Dial ==
    /\ dpc = "dial"
    /\ IF discon \/ Running("pppd")
       THEN dpc' = "top" /\ UNCHANGED pppVars
       ELSE dpc' \in {"wait", "top"} /\ Launch("3G")
    /\ UNCHANGED <<hotVars, fileVars, at, conf, discon, passVars, rescue>>

DialEnds ==
    /\ dpc = "wait" /\ "3G" \notin live /\ dpc' = "top"
    /\ UNCHANGED <<hotVars, fileVars, at, conf, discon, passVars, rescue, pppVars>>

DialStep == HangUp \/ NoLink \/ BadLink \/ Status \/ Prep \/ PrepExits \/ Dial \/ DialEnds

\* The modem answers to its own settings only.
ModemAnswers == conf \in Present

-----------------------------------------------------------------------------
(* 3gdial.sh, and killall. *)

\* Its first part: the directory is made anew, 3gdial killed, hotplugd started.
HotStarts ==
    /\ info' = None /\ hot' = "wait" /\ sticky' = FALSE /\ uevents' = <<>>
    /\ dpc' = "off" /\ at' = FALSE /\ conf' = None /\ discon' = FALSE
    /\ passed' = "cleared" /\ unread' = FALSE
    /\ UNCHANGED <<usb, hcd, added, link, rescue>>

\* Its second part: 3gdial; the devices that ehci-hcd serves go and come
\* again under ohci-hcd; rmohcimod_daemon.
DialStarts ==
    /\ dpc' = "top" /\ at' = FALSE /\ conf' = None /\ discon' = FALSE /\ unread' = FALSE
    /\ passed' = IF passed = "none" THEN "kept" ELSE passed
    /\ hcd' = IF hcd = "ehci" THEN "ohci" ELSE hcd
    /\ \/ UNCHANGED uevents
       \/ hcd = "ehci" /\ \E o \in Orders(usb) : Uevents(<<None>> \o o)
    /\ rescue' = TRUE
    /\ UNCHANGED <<usb, hot, sticky, added, fileVars>>

KillDial ==
    /\ dpc' = "off" /\ at' = FALSE /\ conf' = None /\ discon' = FALSE /\ unread' = FALSE
    /\ UNCHANGED <<hotVars, fileVars, passed, rescue>>

KillHot ==
    /\ hot' = "off" /\ uevents' = <<>>
    /\ UNCHANGED <<usb, hcd, sticky, added, fileVars, dialVars, passVars, rescue>>

Dial3gTypeOK ==
    /\ usb \subseteq Devices /\ uevents \in Seq(Devices \cup {None})
    /\ hcd \in {"ehci", "ohci", "none"}
    /\ hot \in Devices \cup {"off", "wait"} /\ added \in BOOLEAN
    /\ info \in Modems \cup {None} /\ link \in Modems \cup {None}
    /\ dpc \in {"off", "top", "prep", "dial", "wait", "gone"}
    /\ at \in BOOLEAN /\ conf \in Modems \cup {None} /\ (conf # None => at)
    /\ passed \in {"none", "kept", "cleared"}
    /\ {discon, sticky, unread, rescue} \subseteq BOOLEAN

=============================================================================
