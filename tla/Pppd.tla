-------------------------------- MODULE Pppd --------------------------------
(***************************************************************************)
(* The programs that hold the line, as the WAN programs see them: pppd for *)
(* PPTP, pppd for the modem, and openl2tpd with the pppd of its session.   *)
(* They are started by name, signalled by name (killall) and looked for by *)
(* name (ps, /proc); at most one of each kind stays, because a second one  *)
(* finds its unit, its lock or its pid file taken.  ppp0 is the interface  *)
(* of the first that has connected.                                        *)
(***************************************************************************)
EXTENDS Integers, FiniteSets

CONSTANT None

Kinds == {"PPTP", "L2TP", "3G"}

ASSUME PppdAssumption == None \notin Kinds

VARIABLES live,    \* the kinds that run
          dying,   \* those of them that have been sent SIGTERM
          up       \* the kind ppp0 belongs to, or None
pppVars == <<live, dying, up>>

PppInit == live = {} /\ dying = {} /\ up = None

\* The kinds whose program is called pppd, with and without a session.
Named(program) == IF program = "pppd" THEN {"PPTP", "3G"} ELSE {"L2TP"}

\* killall: the programs will exit; L2TP's daemon loses its session only.
Killall(program) ==
    /\ dying' = dying \cup (live \cap Named(program))
    /\ up' = IF program = "pppd" /\ up = "L2TP" THEN None ELSE up
    /\ UNCHANGED live

\* The kernel hangs up the tty of a device that goes: its pppd will exit.
HangsUp(k) == dying' = dying \cup (live \cap {k}) /\ UNCHANGED <<live, up>>

\* A second program of a kind gives up at once.
Launch(k) == live' = live \cup {k} /\ UNCHANGED <<dying, up>>

Exit(k) ==
    /\ k \in live
    /\ live' = live \ {k} /\ dying' = dying \ {k} /\ up' = IF up = k THEN None ELSE up

\* ps | grep, or a name in /proc: also a program that is about to exit.
Running(program) ==
    \/ live \cap Named(program) # {}
    \/ program = "pppd" /\ up = "L2TP"

Connects(k) == k \in live \ dying /\ up = None /\ up' = k /\ UNCHANGED <<live, dying>>

\* The peer is gone; pppd goes on to dial again (persist), or Exit follows.
Drops(k) == up = k /\ up' = None /\ UNCHANGED <<live, dying>>

PppTypeOK ==
    live \subseteq Kinds /\ dying \subseteq live /\ up \in live \cup {None}

=============================================================================
