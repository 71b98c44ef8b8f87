----------------------------- MODULE PppWatchdog -----------------------------
(***************************************************************************)
(* ppp_daemon (check_ppp_ifr/ppp_daemon.c): every 20 seconds, if there is  *)
(* no ppp0, the program of the configured mode is killed when it runs and  *)
(* started when it does not.  Between looking and acting other programs    *)
(* act; and there may be several watchdogs, because udhcpc.sh starts one   *)
(* each time an address is obtained or renewed.                            *)
(***************************************************************************)
EXTENDS Pppd

CONSTANT Dogs      \* places for ppp_daemon processes

VARIABLES mode,    \* wanConnectionMode in the configuration store
          dog,     \* dog[d]: where a process is; "none": it does not run
          saw      \* saw[d]: wan_mode, as read in this round, while it is of use
dogVars == <<dog, saw>>

DogInit == dog = [d \in Dogs |-> "none"] /\ saw = [d \in Dogs |-> None]

\* The program that serves a mode.
Program(m) == IF m = "PPTP" THEN "pppd" ELSE "openl2tpd"

Step(d, from, to) == dog[d] = from /\ dog' = [dog EXCEPT ![d] = to]

\* wan_mode is read anew in the next round.
Done(d) == saw' = [saw EXCEPT ![d] = None]

\* check_dev("ppp0").
Look(d) ==
    /\ Step(d, "look", IF up = None THEN "mode" ELSE "sleep")
    /\ UNCHANGED <<saw, pppVars>>

ReadMode(d) ==
    /\ Step(d, "mode", IF mode \in {"PPTP", "L2TP"} THEN "check" ELSE "sleep")
    /\ saw' = [saw EXCEPT ![d] = IF mode \in {"PPTP", "L2TP"} THEN mode ELSE None]
    /\ UNCHANGED pppVars

\* The pid file goes, then check_ps.
Check(d) ==
    /\ Step(d, "check", IF Running(Program(saw[d])) THEN "kill" ELSE "start")
    /\ UNCHANGED <<saw, pppVars>>

\* After 100 ms.
Kill(d) ==
    Step(d, "kill", "sleep") /\ Killall(Program(saw[d])) /\ Done(d)

\* Mutant: a program that is gone stays gone.
Start_Never(d) ==
    Step(d, "start", "sleep") /\ Done(d) /\ UNCHANGED pppVars

Start(d) ==
    Step(d, "start", "sleep") /\ Launch(saw[d]) /\ Done(d)

Sleep(d) ==
    Step(d, "sleep", "look") /\ UNCHANGED <<saw, pppVars>>

DogStep(d) ==
    (Look(d) \/ ReadMode(d) \/ Check(d) \/ Kill(d) \/ Start(d) \/ Sleep(d)) /\ UNCHANGED mode

\* ppp_daemon &, if there is a place for it.
NewDog ==
    IF \E d \in Dogs : dog[d] = "none"
    THEN /\ dog' = [dog EXCEPT ![CHOOSE d \in Dogs : dog[d] = "none"] = "look"]
         /\ UNCHANGED saw
    ELSE UNCHANGED dogVars

KillDogs == dog' = [d \in Dogs |-> "none"] /\ saw' = [d \in Dogs |-> None]

DogTypeOK ==
    /\ mode \in Kinds
    /\ dog \in [Dogs -> {"none", "look", "mode", "check", "kill", "start", "sleep"}]
    /\ saw \in [Dogs -> Kinds \cup {None}]
    /\ \A d \in Dogs : dog[d] \in {"check", "kill", "start"} => saw[d] \in {"PPTP", "L2TP"}

=============================================================================
