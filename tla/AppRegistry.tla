----------------------------- MODULE AppRegistry -----------------------------
(***************************************************************************)
(* What the soft list promises, without its array: a map from application  *)
(* id to number and stamp.  SoftListArray is shown to implement it.        *)
(***************************************************************************)
EXTENDS SoftList

CONSTANTS Apps, SeqNos
VARIABLE reg

New(q) == [seq |-> q, stamp |-> 1]

\* A line of the list file.  The file holds every id and every number once.
Load(a, q) ==
    /\ a \notin DOMAIN reg /\ q \notin Numbers(reg)
    /\ reg' = Put(reg, a, New(q))

\* An application was updated; its number is the server's.
Record(a, q) == reg' = RecordApk(reg, a, New(q))

\* An application of the fetched list is seen.
Mark(a) == reg' = Stamp(reg, a, 1)

\* Another phase begins: every stamp is older than it.
Age == reg' = [a \in DOMAIN reg |-> [reg[a] EXCEPT !.stamp = 0]]

\* The applications that were not seen leave the list, all at once.
Forget == reg' = DropOverdue(reg, 1)

Init == reg = [a \in {} |-> 0]

Next ==
    \/ \E a \in Apps : Mark(a)
    \/ \E a \in Apps, q \in SeqNos : Load(a, q) \/ Record(a, q)
    \/ Age \/ Forget

Spec == Init /\ [][Next]_reg

=============================================================================
