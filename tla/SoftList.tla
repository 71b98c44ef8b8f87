------------------------------ MODULE SoftList ------------------------------
(***************************************************************************)
(* The downloader's soft list (struct array soft_list in                   *)
(* diyite_downloader/main.c) as a map from application id to its entry:    *)
(* find_apk_info looks an entry up by id, so an id occurs once.  The       *)
(* module holds the operations that change the list, as operators on such  *)
(* maps; SoftListArray models the C array underneath.                      *)
(***************************************************************************)
EXTENDS Integers, FiniteSets

(***************************************************************************)
(* apkcmp orders the list by seq; the box shows the applications in that   *)
(* order, so two entries should never share a number.                      *)
(***************************************************************************)
Numbers(l) == {l[a].seq : a \in DOMAIN l}

\* Mutant: a clashing entry is moved behind all the others.
FreeNumbers_Behind(l) == {Cardinality(DOMAIN l) + 1} \ Numbers(l)

\* The numbers 1..nmember that num[] does not mark as taken.
FreeNumbers(l) == 1 .. Cardinality(DOMAIN l) \ Numbers(l)

Least(S) == CHOOSE j \in S : \A k \in S : j <= k

\* The entries other than a's own that carry a's number.
Clashes(l, a) == {b \in DOMAIN l \ {a} : l[b].seq = l[a].seq}

Put(l, a, e) == [b \in DOMAIN l \cup {a} |-> IF b = a THEN e ELSE l[b]]

\* Mutant: as before the fix, duplicates stay.
Renumber_Missing(l, a) == l

\* Mutant: the entry being written gives way instead of the older one.
Renumber_Own(l, a) ==
    IF Clashes(l, a) # {} THEN [l EXCEPT ![a].seq = Least(FreeNumbers(l))] ELSE l

(***************************************************************************)
(* The tail of apk_info_copy, "fix duplicate numbers": the entry that      *)
(* already has a's number moves to the least free one.  In a list whose    *)
(* numbers were distinct before a was written there is at most one such    *)
(* entry (SoftListArray has the loop for every array).                     *)
(***************************************************************************)
Renumber(l, a) ==
    [b \in DOMAIN l |->
        IF b \in Clashes(l, a) /\ FreeNumbers(l) # {}
        THEN [l[b] EXCEPT !.seq = Least(FreeNumbers(l))]
        ELSE l[b]]

\* record_local_apk in memory: append or overwrite, then renumber.
RecordApk(l, a, e) == Renumber(Put(l, a, e), a)

\* Mutant: nothing is dropped.
DropOverdue_None(l, ts) == l

\* The loop of remove_overdue_info: drop what was last seen before ts.
DropOverdue(l, ts) == [a \in {b \in DOMAIN l : l[b].stamp >= ts} |-> l[a]]

\* mark_apk's update_apk_timestamp: an id that is not listed is left alone.
Stamp(l, a, now) ==
    [b \in DOMAIN l |-> IF b = a THEN [l[b] EXCEPT !.stamp = now] ELSE l[b]]

\* No two entries share a number.
DistinctNumbers(l) ==
    \A a, b \in DOMAIN l : l[a].seq = l[b].seq => a = b

=============================================================================
