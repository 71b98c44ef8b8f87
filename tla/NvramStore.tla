----------------------------- MODULE NvramStore -----------------------------
(***************************************************************************)
(* What the configuration store promises: named values in memory, and one  *)
(* image of them in flash that a save replaces.  While a save is under way *)
(* there is no image, and power lost then leaves the box without one.      *)
(* Nvram, the kernel driver and its library, is shown to implement this;   *)
(* Provisioning is built on it.                                            *)
(***************************************************************************)
EXTENDS Integers, FiniteSets

CONSTANTS Keys, Vals, NoVal
VARIABLES mem,    \* [Keys -> Vals or NoVal]: the values in memory
          disk    \* the image in flash, or Lost

Images == [Keys -> Vals \cup {NoVal}]
Empty == [k \in Keys |-> NoVal]
Lost == [k \in Keys |-> "lost"]

Set(k, v) == mem' = [mem EXCEPT ![k] = v] /\ UNCHANGED disk

Clear == mem' = Empty /\ UNCHANGED disk

BeginSave == disk' = Lost /\ UNCHANGED mem
EndSave == disk' = mem /\ UNCHANGED mem

Boot == mem' = (IF disk = Lost THEN Empty ELSE disk) /\ UNCHANGED disk

StoreInit == mem = Empty /\ disk = Lost

StoreNext ==
    \/ \E k \in Keys, v \in Vals : Set(k, v)
    \/ Clear \/ BeginSave \/ EndSave \/ Boot

StoreSpec == StoreInit /\ [][StoreNext]_<<mem, disk>>

=============================================================================
