---------------------------- MODULE WanLinkProofs ----------------------------
(***************************************************************************)
(* For any number of watchdogs, modems and events: the order in which      *)
(* ralinkWanInit stops the programs leaves no pppd of PPTP behind, and     *)
(* 3gdial never dials a modem with another one's settings, each up to the  *)
(* exception that the property names.                                      *)
(***************************************************************************)
EXTENDS WanLink, TLAPS

\* From the moment ralinkWanInit stops udhcpc until it starts anything,
\* nothing is pending that could start a program.
Quiet ==
    wpc \in {"openl2tpd", "ppp_daemon", "pppd", "3gdial", "hotplugd", "start"} =>
        tails = {} /\ udhcpc = FALSE

\* Once the watchdogs are stopped none runs until the mode's own is started,
\* and those that run then act on the configured mode.
Watched ==
    /\ wpc \in {"pppd", "3gdial", "hotplugd", "start"} => \A d \in Dogs : dog[d] = "none"
    /\ wpc \in {"dog", "idle"} =>
          \A d \in Dogs : dog[d] \in {"check", "kill", "start"} => saw[d] = mode

\* No shell of a watchdog is left over, and udhcpc.sh has read the
\* configured mode.
NoShells == \A t \in tails : t[1] # "sh" /\ (t[1] = "udhcpc.sh" => t[2] = mode)

StopInv ==
    /\ dog \in [Dogs -> {"none", "look", "mode", "check", "kill", "start", "sleep"}]
    /\ saw \in [Dogs -> Kinds \cup {None}] /\ mode \in Kinds
    /\ ~stray => Quiet /\ Watched /\ NoShells /\ PptpStopped

\* A step after which a pppd of PPTP that will not exit was there before.
NoNewPptp == "PPTP" \in live' \ dying' => "PPTP" \in live \ dying

LEMMA OldPptp ==
  ASSUME NEW k, \/ UNCHANGED pppVars \/ Killall(k) \/ HangsUp(k) \/ Exit(k) \/ Connects(k)
                \/ Drops(k) \/ (Launch(k) /\ k # "PPTP")
  PROVE  NoNewPptp
BY DEF NoNewPptp, pppVars, Killall, HangsUp, Exit, Connects, Drops, Launch

\* What the programs of the line do, nothing else changing.
LEMMA StopPpp ==
  ASSUME StopInv, NoNewPptp, UNCHANGED <<mode, dogVars, wanVars>> PROVE StopInv'
<1>1. UNCHANGED <<mode, dog, saw, wpc, udhcpc, tails, stray>>
  BY DEF dogVars, wanVars
<1>2. ASSUME Quiet, Watched, NoShells, PptpStopped, ~ stray
      PROVE  Quiet' /\ Watched' /\ NoShells' /\ PptpStopped'
  BY <1>1, <1>2 DEF Quiet, Watched, NoShells, PptpStopped, NoNewPptp
<1> QED
  BY <1>1, <1>2 DEF StopInv

\* A watchdog is started, if there is a place for it.
LEMMA StopNewDog ==
  ASSUME StopInv, NewDog
  PROVE  /\ dog' \in [Dogs -> {"none", "look", "mode", "check", "kill", "start", "sleep"}]
         /\ saw' = saw
         /\ \A d \in Dogs : dog'[d] = dog[d] \/ dog'[d] = "look"
<1>1. CASE \E d \in Dogs : dog[d] = "none"
  <2> DEFINE e == CHOOSE d \in Dogs : dog[d] = "none"
  <2>1. e \in Dogs
    BY <1>1
  <2>2. dog' = [dog EXCEPT ![e] = "look"] /\ saw' = saw
    BY <1>1 DEF NewDog
  <2> HIDE DEF e
  <2> QED
    BY <2>1, <2>2 DEF StopInv
<1>2. CASE ~ \E d \in Dogs : dog[d] = "none"
  BY <1>2 DEF NewDog, dogVars, StopInv
<1> QED
  BY <1>1, <1>2

LEMMA StopInit == Init => StopInv
BY DEF Init, PppInit, DogInit, StopInv, Quiet, Watched, NoShells, PptpStopped

\* The steps of ralinkWanInit, in the order of its calls.
LEMMA StopWan == ASSUME StopInv, WanStep PROVE StopInv'
<1>t. /\ dog \in [Dogs -> {"none", "look", "mode", "check", "kill", "start", "sleep"}]
      /\ saw \in [Dogs -> Kinds \cup {None}] /\ mode \in Kinds
      /\ ~ stray => Quiet /\ Watched /\ NoShells /\ PptpStopped
  BY DEF StopInv
<1>1. CASE KillL2tp
  BY <1>1, <1>t DEF KillL2tp, dogVars, StopInv, Quiet, Watched, NoShells, PptpStopped
<1>2. CASE KillWatchdogs
  <2>1. /\ wpc = "ppp_daemon" /\ wpc' = "pppd" /\ mode' = mode /\ udhcpc' = udhcpc
        /\ dog' = [d \in Dogs |-> "none"] /\ saw' = [d \in Dogs |-> None]
        /\ ~ stray' => ~ stray /\ tails' = tails
    BY <1>2 DEF KillWatchdogs, KillDogs
  <2> QED
    BY <1>t, <2>1 DEF StopInv, Quiet, Watched, NoShells, PptpStopped
<1>3. CASE KillPppd
  <2>1. "PPTP" \notin live' \ dying'
    BY <1>3 DEF KillPppd, Killall, Named
  <2> QED
    BY <1>3, <1>t, <2>1 DEF KillPppd, dogVars, StopInv, Quiet, Watched, NoShells, PptpStopped
<1>4. CASE Kill3gdial \/ KillHotplugd
  BY <1>4, <1>t DEF Kill3gdial, KillHotplugd, dogVars, pppVars, StopInv, Quiet, Watched, NoShells,
                    PptpStopped
<1>5. CASE StartVpn
  <2>1. mode # "PPTP" => NoNewPptp
    BY <1>5, OldPptp DEF StartVpn
  <2> QED
    BY <1>5, <1>t, <2>1 DEF StartVpn, dogVars, StopInv, Quiet, Watched, NoShells, PptpStopped,
                            NoNewPptp
<1>6. CASE StartDog
  <2>1. /\ dog' \in [Dogs -> {"none", "look", "mode", "check", "kill", "start", "sleep"}]
        /\ saw' = saw
        /\ \A d \in Dogs : dog'[d] = dog[d] \/ dog'[d] = "look"
    BY <1>6, StopNewDog DEF StartDog
  <2> QED
    BY <1>6, <1>t, <2>1 DEF StartDog, pppVars, StopInv, Quiet, Watched, NoShells, PptpStopped
<1>7. CASE Start3g
  <2>1. NoShells => NoShells'
    BY <1>7 DEF Start3g, NoShells, Tail3g
  <2> QED
    BY <1>7, <1>t, <2>1 DEF Start3g, dogVars, pppVars, StopInv, Quiet, Watched, PptpStopped
<1> QED
  BY <1>1, <1>2, <1>3, <1>4, <1>5, <1>6, <1>7 DEF WanStep

\* A watchdog acts on the mode it has read, which is the configured one
\* unless ralinkWanInit has begun.
LEMMA StopDog == ASSUME StopInv, NEW d \in Dogs, Watch(d) PROVE StopInv'
<1>t. /\ dog \in [Dogs -> {"none", "look", "mode", "check", "kill", "start", "sleep"}]
      /\ saw \in [Dogs -> Kinds \cup {None}] /\ mode \in Kinds
      /\ ~ stray => Quiet /\ Watched /\ NoShells /\ PptpStopped
  BY DEF StopInv
<1>1. UNCHANGED <<wpc, udhcpc, tails, stray, mode>>
  BY DEF Watch, Runs, DogStep, wanVars
<1>2. /\ dog[d] # "none" /\ \A e \in Dogs \ {d} : dog'[e] = dog[e] /\ saw'[e] = saw[e]
      /\ dog' \in [Dogs -> {"none", "look", "mode", "check", "kill", "start", "sleep"}]
      /\ saw' \in [Dogs -> Kinds \cup {None}]
  BY <1>t DEF Watch, Runs, DogStep, Look, ReadMode, Check, Kill, Start, Sleep, Step, Done
<1>3. dog'[d] \in {"check", "kill", "start"} =>
        \/ saw'[d] = mode
        \/ dog[d] \in {"check", "kill", "start"} /\ saw'[d] = saw[d]
  BY <1>t DEF Watch, Runs, DogStep, Look, ReadMode, Check, Kill, Start, Sleep, Step, Done
<1>4. NoNewPptp \/ (dog[d] = "start" /\ saw[d] = "PPTP")
  <2>1. CASE Look(d) \/ ReadMode(d) \/ Check(d) \/ Sleep(d)
    <3>1. UNCHANGED pppVars
      BY <2>1 DEF Look, ReadMode, Check, Sleep
    <3> QED
      BY <3>1, OldPptp
  <2>2. CASE Kill(d)
    <3>1. Killall(Program(saw[d]))
      BY <2>2 DEF Kill
    <3> QED
      BY <3>1, OldPptp
  <2>3. CASE Start(d)
    <3>1. dog[d] = "start" /\ Launch(saw[d])
      BY <2>3 DEF Start, Step
    <3> QED
      BY <3>1, OldPptp
  <2> QED
    BY <2>1, <2>2, <2>3 DEF Watch, Runs, DogStep
<1>5. ASSUME ~ stray PROVE Quiet' /\ Watched' /\ NoShells' /\ PptpStopped'
  <2>1. Quiet' /\ NoShells'
    BY <1>t, <1>1, <1>5 DEF Quiet, NoShells
  <2>2. Watched'
    BY <1>t, <1>1, <1>2, <1>3, <1>5 DEF Watched
  <2>3. PptpStopped'
    BY <1>t, <1>1, <1>2, <1>4, <1>5 DEF Watched, PptpStopped, NoNewPptp
  <2> QED
    BY <2>1, <2>2, <2>3
<1> QED
  BY <1>t, <1>1, <1>2, <1>5 DEF StopInv

\* What the tail of each kind starts.
LEMMA TailKinds ==
  ASSUME NEW t \in Tails, TailStarts(t)
  PROVE  \/ t[1] = "ppp_daemon" /\ NewDog /\ UNCHANGED <<pppVars, dial3gVars>>
         \/ t[1] \in {"udhcpc.sh", "sh"} /\ Launch(t[2]) /\ UNCHANGED <<dogVars, dial3gVars>>
         \/ t[1] = "3gdial.sh" /\ DialStarts /\ UNCHANGED <<dogVars, pppVars>>
<1>1. CASE t \in {"udhcpc.sh", "ppp_daemon", "sh"} \X {"PPTP", "L2TP"}
  <2>1. t[1] = "ppp_daemon" \/ t[1] \in {"udhcpc.sh", "sh"}
    BY <1>1
  <2>2. t # Tail3g
    BY <2>1 DEF Tail3g
  <2>3. CASE t[1] = "ppp_daemon"
    BY <2>2, <2>3 DEF TailStarts
  <2>4. CASE t[1] \in {"udhcpc.sh", "sh"}
    BY <2>2, <2>4 DEF TailStarts
  <2> QED
    BY <2>1, <2>3, <2>4
<1>2. CASE t = Tail3g
  <2>1. t[1] = "3gdial.sh"
    BY <1>2 DEF Tail3g
  <2> QED
    BY <1>2, <2>1 DEF TailStarts
<1> QED
  BY <1>1, <1>2 DEF Tails

\* What is left of a script or of a shell starts something.
LEMMA StopTail == ASSUME StopInv, NEW t \in Tails, TailStarts(t) PROVE StopInv'
<1>t. /\ dog \in [Dogs -> {"none", "look", "mode", "check", "kill", "start", "sleep"}]
      /\ saw \in [Dogs -> Kinds \cup {None}] /\ mode \in Kinds
      /\ ~ stray => Quiet /\ Watched /\ NoShells /\ PptpStopped
  BY DEF StopInv
<1>1. t \in tails /\ UNCHANGED <<mode, wpc, udhcpc, stray>>
  BY DEF TailStarts
<1>3. CASE t[1] = "sh"
  <2>1. stray' /\ UNCHANGED dogVars
    BY <1>1, <1>3, <1>t, TailKinds DEF NoShells
  <2> QED
    BY <1>t, <1>1, <2>1 DEF StopInv, dogVars
<1>4. CASE t[1] = "udhcpc.sh"
  <2>1. UNCHANGED dogVars /\ Launch(t[2])
    BY <1>4, TailKinds
  <2>2. tails' = (tails \ {t}) \cup {<<"ppp_daemon", t[2]>>}
    BY <1>4 DEF TailStarts
  <2>3. ASSUME ~ stray PROVE Quiet' /\ Watched' /\ NoShells' /\ PptpStopped'
    <3>1. t[2] = mode
      BY <1>1, <1>4, <1>t, <2>3 DEF NoShells
    <3>2. mode # "PPTP" => NoNewPptp
      BY <2>1, <3>1, OldPptp
    <3>3. NoShells'
      <4>1. \A u \in tails' : u \in tails \/ u = <<"ppp_daemon", t[2]>>
        BY <2>2
      <4>2. \A u : u = <<"ppp_daemon", t[2]>> => u[1] = "ppp_daemon"
        OBVIOUS
      <4> QED
        BY <1>1, <1>t, <2>3, <4>1, <4>2 DEF NoShells
    <3>4. Quiet' /\ Watched'
      BY <1>t, <1>1, <2>1, <2>3 DEF Quiet, Watched, dogVars
    <3>5. PptpStopped'
      BY <1>t, <1>1, <2>3, <3>2 DEF PptpStopped, NoNewPptp, Quiet
    <3> QED
      BY <3>3, <3>4, <3>5
  <2> QED
    BY <1>t, <1>1, <2>1, <2>3 DEF StopInv, dogVars
<1>5. CASE t[1] \notin {"udhcpc.sh", "sh"}
  <2>1. /\ UNCHANGED pppVars
        /\ dog' \in [Dogs -> {"none", "look", "mode", "check", "kill", "start", "sleep"}]
        /\ saw' = saw
        /\ \A d \in Dogs : dog'[d] = dog[d] \/ dog'[d] = "look"
    <3>1. (NewDog /\ UNCHANGED pppVars) \/ UNCHANGED <<dogVars, pppVars>>
      BY <1>5, TailKinds
    <3> QED
      BY <1>t, <3>1, StopNewDog DEF dogVars
  <2>2. tails' = tails \ {t}
    BY <1>5 DEF TailStarts
  <2>3. ASSUME ~ stray PROVE Quiet' /\ Watched' /\ NoShells' /\ PptpStopped'
    BY <1>t, <1>1, <2>1, <2>2, <2>3 DEF Quiet, Watched, NoShells, PptpStopped, pppVars
  <2> QED
    BY <1>t, <1>1, <2>1, <2>3 DEF StopInv
<1> QED
  BY <1>3, <1>4, <1>5

LEMMA StopNext == StopInv /\ [Next]_vars => StopInv'
<1> SUFFICES ASSUME StopInv, [Next]_vars PROVE StopInv'
  OBVIOUS
<1>t. /\ dog \in [Dogs -> {"none", "look", "mode", "check", "kill", "start", "sleep"}]
      /\ saw \in [Dogs -> Kinds \cup {None}] /\ mode \in Kinds
      /\ ~ stray => Quiet /\ Watched /\ NoShells /\ PptpStopped
  BY DEF StopInv
<1>1. CASE UNCHANGED vars
  BY <1>1, StopPpp, OldPptp DEF vars
<1>2. ASSUME NEW m \in Kinds, Switch(m) PROVE StopInv'
  BY <1>2, <1>t DEF Switch, dogVars, StopInv, Quiet, Watched, NoShells, PptpStopped
<1>3. CASE Runs(WanStep)
  BY <1>3, StopWan DEF Runs
<1>4. CASE Lease
  <2>1. NoNewPptp
    BY <1>4, OldPptp DEF Lease
  <2>2. ~ stray => wpc \notin {"openl2tpd", "ppp_daemon", "pppd", "3gdial", "hotplugd", "start"}
    BY <1>4, <1>t DEF Lease, Quiet
  <2>3. NoShells => NoShells'
    BY <1>4 DEF Lease, NoShells
  <2> QED
    BY <1>4, <1>t, <2>1, <2>2, <2>3
       DEF Lease, dogVars, StopInv, Quiet, Watched, PptpStopped, NoNewPptp
<1>5. ASSUME NEW t \in Tails, Runs(TailStarts(t)) PROVE StopInv'
  BY <1>5, StopTail DEF Runs
<1>6. ASSUME NEW d \in Dogs, Watch(d) PROVE StopInv'
  BY <1>6, StopDog
<1>7. ASSUME NEW d \in Devices, (Plug(d) \/ Unplug(d)) /\ Wan PROVE StopInv'
  BY <1>7, StopPpp, OldPptp DEF Plug, Unplug, Wan
<1>8. CASE Modem(HotStep) \/ Modem(Reload)
  <2>1. NoNewPptp
    BY <1>8, OldPptp DEF Modem, Runs, HotStep, HotRemove, unDeviceInfo, HotAdd,
                         InitDone, InitFails, Reload, Unload, Load
  <2> QED
    BY <1>8, <2>1, StopPpp DEF Modem, Wan
<1>9. CASE Modem(DialStep)
  <2>1. NoNewPptp
    BY <1>9, OldPptp DEF Modem, Runs, DialStep, HangUp, NoLink, BadLink, Status, Prep, PrepExits,
                         Dial, DialEnds
  <2> QED
    BY <1>9, <2>1, StopPpp DEF Modem, Wan
<1>10. CASE (Disconnect \/ Connect) /\ Wan
  BY <1>10, StopPpp, OldPptp DEF Disconnect, Connect, Wan
<1>11. ASSUME NEW k \in Kinds, Terminates(k) \/ Dies(k) \/ Lost(k) \/ Links(k) PROVE StopInv'
  <2>1. Exit(k) \/ Drops(k) \/ Connects(k)
    BY <1>11 DEF Terminates, Dies, Lost, Links
  <2>2. NoNewPptp
    BY <2>1 DEF NoNewPptp, Exit, Drops, Connects
  <2> QED
    BY <1>11, <2>2, StopPpp DEF Terminates, Dies, Lost, Links, OnlyPpp, wanVars
<1>12. CASE GivesUp
  <2>1. NoNewPptp
    BY <1>12, OldPptp DEF GivesUp
  <2> QED
    BY <1>12, <2>1, StopPpp DEF GivesUp, OnlyPpp, wanVars
<1> QED
  BY <1>1, <1>2, <1>3, <1>4, <1>5, <1>6, <1>7, <1>8, <1>9, <1>10, <1>11, <1>12 DEF Next

\* Whatever watchdogs, leases and modems do meanwhile, ralinkWanInit leaves
\* no pppd of a PPTP connection running when it goes over to another mode.
THEOREM PptpGone == Spec => []PptpStopped
<1>1. StopInv => PptpStopped
  BY DEF StopInv, PptpStopped
<1> QED
  BY <1>1, StopInit, StopNext, PTL DEF Spec

-----------------------------------------------------------------------------
\* The settings 3gdial holds, and the files it takes them from, are those of
\* a modem that is in, from the moment it has dropped those of the last one.
OwnFiles == passed = "cleared" => info \in {None} \cup usb

OwnConf == passed # "none" => conf \in {None} \cup usb \/ (passed = "kept" /\ unread)

DialInv == OwnFiles /\ OwnConf /\ passed \in {"none", "kept", "cleared"}

LEMMA DialInit == Init => DialInv
BY DEF Init, Dial3gInit, DialInv, OwnFiles, OwnConf

\* A step that changes none of what the invariant speaks of.
LEMMA DialSame ==
  ASSUME DialInv, UNCHANGED <<usb, info, conf, passed, unread>> PROVE DialInv'
BY DEF DialInv, OwnFiles, OwnConf

\* A step after which 3gdial holds no settings.
LEMMA DialEmpty ==
  ASSUME DialInv, conf' = None, usb' = usb, passed' \in {"none", "kept", "cleared"},
         \/ info' = None
         \/ info' = info /\ (passed' = "cleared" => passed = "cleared")
  PROVE  DialInv'
BY DEF DialInv, OwnFiles, OwnConf

LEMMA DialPlug == ASSUME DialInv, NEW d, Plug(d) \/ Unplug(d) PROVE DialInv'
<1>1. CASE Plug(d)
  <2>1. usb \subseteq usb' /\ UNCHANGED <<info, conf, passed, unread>>
    BY <1>1 DEF Plug, fileVars, dialVars, passVars
  <2> QED
    BY <2>1 DEF DialInv, OwnFiles, OwnConf
<1>2. CASE Unplug(d)
  <2>1. /\ usb' = usb \ {d} /\ UNCHANGED <<info, conf, unread>>
        /\ passed' = IF {d} \cap {info, conf} # {} THEN "none" ELSE passed
    BY <1>2 DEF Unplug, fileVars, dialVars
  <2>2. CASE d \in {info, conf}
    <3>1. passed' = "none"
      BY <2>1, <2>2
    <3> QED
      BY <3>1 DEF DialInv, OwnFiles, OwnConf
  <2>3. CASE d \notin {info, conf}
    <3>1. passed' = passed
      BY <2>1, <2>3
    <3> QED
      BY <2>1, <2>3, <3>1 DEF DialInv, OwnFiles, OwnConf
  <2> QED
    BY <2>2, <2>3
<1> QED
  BY <1>1, <1>2

\* hotplugd and rmohcimod_daemon touch neither the card's files nor 3gdial.
LEMMA DialHot == ASSUME DialInv, HotStep \/ Reload PROVE DialInv'
<1>1. UNCHANGED <<usb, info, conf, passed, unread>>
  BY DEF HotStep, HotRemove, unDeviceInfo, HotAdd, InitDone, InitFails, Reload, Unload, Load,
         fileVars, dialVars, passVars
<1> QED
  BY <1>1, DialSame

LEMMA DialDial == ASSUME DialInv, DialStep PROVE DialInv'
<1>1. CASE HangUp
  BY <1>1, DialSame DEF HangUp, dial3gVars, hotVars, fileVars, dialVars, passVars
<1>2. CASE NoLink \/ BadLink
  <2>1. /\ usb' = usb /\ conf' = None /\ info' = IF added THEN info ELSE None
        /\ passed' = IF added /\ passed # "cleared" THEN "kept" ELSE "cleared"
    BY <1>2 DEF NoLink, BadLink, Forget, DeleteModemInfo, hotVars
  <2> QED
    BY <2>1, DialEmpty
<1>3. CASE Status \/ Dial \/ DialEnds
  BY <1>3, DialSame DEF Status, Dial, DialEnds, hotVars, fileVars, passVars
<1>4. CASE Prep
  <2>1. UNCHANGED <<usb, passed>>
    BY <1>4 DEF Prep, hotVars
  <2>2. CASE CheckModuleStatus
    <3>1. Present \subseteq usb
      BY DEF Present
    <3>2. \/ info' \in usb /\ conf' \in usb
          \/ info' = info /\ conf' = info /\ unread' = TRUE
      BY <2>2, <3>1 DEF CheckModuleStatus
    <3>3. OwnFiles'
      BY <2>1, <3>2 DEF DialInv, OwnFiles
    <3>4. OwnConf'
      BY <2>1, <3>2 DEF DialInv, OwnFiles, OwnConf
    <3> QED
      BY <2>1, <3>3, <3>4 DEF DialInv
  <2>3. CASE UNCHANGED <<info, conf, unread>>
    BY <2>1, <2>3, DialSame
  <2> QED
    BY <1>4, <2>2, <2>3 DEF Prep
<1>5. CASE PrepExits
  BY <1>5, DialEmpty DEF PrepExits, hotVars, fileVars, passVars, DialInv
<1> QED
  BY <1>1, <1>2, <1>3, <1>4, <1>5 DEF DialStep

LEMMA DialWan == ASSUME DialInv, WanStep PROVE DialInv'
<1>1. CASE KillL2tp \/ KillWatchdogs \/ KillPppd \/ StartVpn \/ StartDog
  <2>1. UNCHANGED dial3gVars
    BY <1>1 DEF KillL2tp, KillWatchdogs, KillPppd, StartVpn, StartDog
  <2> QED
    BY <2>1, DialSame DEF dial3gVars, hotVars, fileVars, dialVars, passVars
<1>2. CASE Kill3gdial
  BY <1>2, DialEmpty DEF Kill3gdial, KillDial, hotVars, fileVars, DialInv
<1>3. CASE KillHotplugd
  BY <1>3, DialSame DEF KillHotplugd, KillHot, fileVars, dialVars, passVars
<1>4. CASE Start3g
  BY <1>4, DialEmpty DEF Start3g, HotStarts
<1> QED
  BY <1>1, <1>2, <1>3, <1>4 DEF WanStep

LEMMA DialNext == DialInv /\ [Next]_vars => DialInv'
<1> SUFFICES ASSUME DialInv, [Next]_vars PROVE DialInv'
  OBVIOUS
<1>s. ASSUME UNCHANGED dial3gVars PROVE DialInv'
  BY <1>s, DialSame DEF dial3gVars, hotVars, fileVars, dialVars, passVars
<1>1. CASE UNCHANGED vars
  BY <1>1, <1>s DEF vars
<1>2. ASSUME NEW m \in Kinds, Switch(m) PROVE DialInv'
  BY <1>2, <1>s DEF Switch
<1>3. CASE Runs(WanStep)
  BY <1>3, DialWan DEF Runs
<1>4. CASE Lease
  BY <1>4, <1>s DEF Lease
<1>5. ASSUME NEW t \in Tails, Runs(TailStarts(t)) PROVE DialInv'
  <2>1. UNCHANGED dial3gVars \/ DialStarts
    BY <1>5, TailKinds DEF Runs
  <2>2. CASE DialStarts
    BY <2>2, DialEmpty DEF DialStarts, fileVars, DialInv
  <2> QED
    BY <1>s, <2>1, <2>2
<1>6. ASSUME NEW d \in Dogs, Watch(d) PROVE DialInv'
  BY <1>6, <1>s DEF Watch
<1>7. ASSUME NEW d \in Devices, Plug(d) \/ Unplug(d) PROVE DialInv'
  BY <1>7, DialPlug
<1>8. CASE Modem(HotStep) \/ Modem(Reload) \/ Modem(DialStep)
  BY <1>8, DialHot, DialDial DEF Modem, Runs
<1>9. CASE Disconnect \/ Connect
  BY <1>9, DialSame DEF Disconnect, Connect, hotVars, fileVars, passVars
<1>10. ASSUME NEW k \in Kinds, Terminates(k) \/ Dies(k) \/ Lost(k) \/ Links(k) PROVE DialInv'
  BY <1>10, <1>s DEF Terminates, Dies, Lost, Links, OnlyPpp
<1>11. CASE GivesUp
  BY <1>11, <1>s DEF GivesUp, OnlyPpp
<1> QED
  BY <1>1, <1>2, <1>3, <1>4, <1>5, <1>6, <1>7, <1>8, <1>9, <1>10, <1>11 DEF Next

\* Modems may be pulled and plugged at any moment, their driver reloaded,
\* their cards unreadable, and hotplugd, 3gdial and the scripts interleave
\* as they like: when 3gdial dials, the settings it has taken are those of a
\* modem that is in, unless it has not looked since the last one was pulled,
\* or the last one's files stayed and the card could not be read.
THEOREM SettingsOwn == Spec => []OwnSettings
<1>1. DialInv => OwnSettings
  BY DEF DialInv, OwnConf, OwnSettings
<1> QED
  BY <1>1, DialInit, DialNext, PTL DEF Spec

=============================================================================
