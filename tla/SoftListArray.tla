---------------------------- MODULE SoftListArray ----------------------------
(***************************************************************************)
(* The soft list as the C program keeps it: struct array, a block of       *)
(* struct apk_info that realloc doubles, whose slots own strings on the    *)
(* heap (diyite_downloader/main.c).  A slot is filled in place, so the     *)
(* slot behind the last member must never hold pointers that are not its   *)
(* own: apk_info_copy frees what the slot holds before it fills it.        *)
(*                                                                         *)
(* The strings of an entry are one heap block.  A slot holds a block, no   *)
(* block (cleared), or whatever realloc left there (Wild).                 *)
(***************************************************************************)
EXTENDS SoftList, Sequences, Functions

CONSTANTS Apps,       \* application ids
          NoApp,      \* the id of a cleared slot
          SeqNos,     \* numbers the server and the list file use
          Capacity,   \* initial capacity (256 in the code)
          MaxMembers  \* bound on the length of the list

ASSUME ArrayAssumption ==
    /\ Capacity \in Nat \ {0, 1} /\ MaxMembers \in Nat /\ SeqNos \subseteq Nat
    /\ NoApp \notin Apps

VARIABLES base, nmember,   \* soft_list.base (its length is the capacity)
          heap,            \* blocks that strdup returned and nobody freed
          pc, i            \* where the program is; index of the drop loop
vars == <<base, nmember, heap, pc, i>>

NoBlock == 0
Cleared == [blk |-> NoBlock, id |-> NoApp, seq |-> 0, stamp |-> 0]
Wild    == [blk |-> -1, id |-> NoApp, seq |-> 0, stamp |-> 0]

\* A block that strdup may return when "used" is allocated.
NewBlock(used) == CHOOSE b \in 1 .. Cardinality(used) + 1 : b \notin used

capacity == Len(base)
Members == 1 .. nmember

\* Mutant: the list is enlarged one entry too late.
Enlarged_Late(m, n) == IF n > Len(m) THEN m \o [k \in 1 .. Len(m) |-> Wild] ELSE m

\* When n entries fill the block, realloc doubles it; the new half is not cleared.
Enlarged(m, n) == IF n = Len(m) THEN m \o [k \in 1 .. Len(m) |-> Wild] ELSE m

find_apk_info(a) == {k \in Members : base[k].id = a}

\* What qsort may make of the first n slots: apkcmp compares the numbers, and
\* entries with equal numbers come in any order.
Sorted(m, n) ==
    {[k \in DOMAIN m |-> IF k <= n THEN m[p[k]] ELSE m[k]] :
        p \in {p \in Bijection(1 .. n, 1 .. n) :
                  \A j, k \in 1 .. n : j < k => m[p[j]].seq <= m[p[k]].seq}}

-----------------------------------------------------------------------------
Init ==
    /\ base = [k \in 1 .. Capacity |-> Cleared] /\ nmember = 0
    /\ heap = {} /\ pc = "load" /\ i = 0

(***************************************************************************)
(* init_soft_list: the slot behind the last member is cleared and a line   *)
(* parsed into it; an incomplete line is left there uncounted (its strings *)
(* are lost when the slot is cleared for the next line).                   *)
(***************************************************************************)
init_soft_list(a, q, complete) ==
    LET old == base[nmember + 1].blk
        blk == NewBlock(heap \ {old})
        filled == [base EXCEPT ![nmember + 1] =
                      [blk |-> blk, id |-> a, seq |-> q, stamp |-> 1]] IN
    /\ pc = "load" /\ nmember < MaxMembers
    /\ find_apk_info(a) = {} /\ \A k \in Members : base[k].seq # q
    /\ heap' = (heap \ {old}) \cup {blk}
    /\ IF complete
       THEN /\ nmember' = nmember + 1
            /\ base' = Enlarged(filled, nmember')
       ELSE nmember' = nmember /\ base' = filled
    /\ UNCHANGED <<pc, i>>

Loaded == pc = "load" /\ pc' = "run" /\ UNCHANGED <<base, nmember, heap, i>>

\* The place of x in S, counted from the least.
Rank(S, x) == Cardinality({y \in S : y <= x})

(***************************************************************************)
(* apk_info_copy, second half: num[] marks the numbers in use.  The        *)
(* entries that share dest's number are visited in array order, and each   *)
(* takes the least j in 1..nmember that is not marked and marks it: the    *)
(* first of them gets the first free number, the second the second, and    *)
(* those for which none is left keep theirs.                               *)
(***************************************************************************)
Unshare(m, n, d) ==
    LET free   == 1 .. n \ {m[j].seq : j \in 1 .. n}
        shared == {k \in 1 .. n : m[k].seq = m[d].seq /\ m[k].id # m[d].id}
        num(k) == {f \in free : Rank(free, f) = Rank(shared, k)}
    IN  [k \in DOMAIN m |->
            IF k \in shared /\ num(k) # {}
            THEN [m[k] EXCEPT !.seq = CHOOSE f \in num(k) : TRUE] ELSE m[k]]

\* apk_info_copy(dest, src) into slot d of m, then write_local_soft_file.
CopyInto(m, n, d, a, q) ==
    LET old == m[d].blk
        left == heap \ {old}
        blk == NewBlock(left)
        put == [m EXCEPT ![d] = [blk |-> blk, id |-> a, seq |-> q, stamp |-> 1]]
    IN  /\ heap' = left \cup {blk}
        /\ base' \in Sorted(Unshare(put, n, d), n)

\* record_local_apk of an application that is listed.
Overwrite(a, q) ==
    /\ pc = "run"
    /\ \E d \in find_apk_info(a) : CopyInto(base, nmember, d, a, q)
    /\ UNCHANGED <<nmember, pc, i>>

\* The block for one more entry.
Room == Enlarged(base, nmember + 1)

(***************************************************************************)
(* record_local_apk of a new application.  apk_info_free runs on the slot  *)
(* behind the last member; in one that realloc added, the pointers may be  *)
(* null, or anything, and then freeing them ends the process.              *)
(***************************************************************************)
AppendEntry(a, q) ==
    /\ pc = "run" /\ nmember < MaxMembers /\ find_apk_info(a) = {}
    /\ nmember' = nmember + 1
    /\ CopyInto(Room, nmember', nmember', a, q)
    /\ UNCHANGED <<pc, i>>

FreeGarbage ==
    /\ pc = "run" /\ nmember < MaxMembers /\ Room[nmember + 1] = Wild
    /\ \E a \in Apps : find_apk_info(a) = {}
    /\ pc' = "exited"
    /\ UNCHANGED <<base, nmember, heap, i>>

update_apk_timestamp(a) ==
    /\ pc = "run"
    /\ \E k \in find_apk_info(a) : base' = [base EXCEPT ![k].stamp = 1]
    /\ UNCHANGED <<nmember, heap, pc, i>>

\* The next phase begins: every stamp lies before it.
NextPhase ==
    /\ pc = "run"
    /\ base' = [k \in 1 .. capacity |->
                   IF k \in Members THEN [base[k] EXCEPT !.stamp = 0] ELSE base[k]]
    /\ UNCHANGED <<nmember, heap, pc, i>>

StartDrop == pc = "run" /\ pc' = "drop" /\ i' = 1 /\ UNCHANGED <<base, nmember, heap>>

(***************************************************************************)
(* The loop of remove_overdue_info.  An overdue slot is freed, the last    *)
(* member moves into it and the slot it came from is cleared; the same     *)
(* index is looked at again.  Past the end the list is sorted and written. *)
(***************************************************************************)
KeepSlot ==
    /\ pc = "drop" /\ i <= nmember /\ base[i].stamp # 0
    /\ i' = i + 1 /\ UNCHANGED <<base, nmember, heap, pc>>

\* Mutant: the slot the last member came from keeps its pointers.
Vacated_Kept(m, k, n) == [m EXCEPT ![k] = IF k = n THEN Cleared ELSE m[n]]

Vacated(m, k, n) ==
    [m EXCEPT ![k] = IF k = n THEN Cleared ELSE m[n], ![n] = Cleared]

\* Mutant: the member that moved into the slot is passed over.
DropSlot_Advance ==
    /\ pc = "drop" /\ i <= nmember /\ base[i].stamp = 0
    /\ heap' = heap \ {base[i].blk}
    /\ base' = Vacated(base, i, nmember) /\ nmember' = nmember - 1
    /\ i' = i + 1 /\ UNCHANGED pc

DropSlot ==
    /\ pc = "drop" /\ i <= nmember /\ base[i].stamp = 0
    /\ heap' = heap \ {base[i].blk}
    /\ base' = Vacated(base, i, nmember) /\ nmember' = nmember - 1
    /\ UNCHANGED <<pc, i>>

EndDrop ==
    /\ pc = "drop" /\ i > nmember
    /\ base' \in Sorted(base, nmember) /\ pc' = "run" /\ i' = 0
    /\ UNCHANGED <<nmember, heap>>

Next ==
    \/ \E a \in Apps, q \in SeqNos :
          \/ \E c \in BOOLEAN : init_soft_list(a, q, c)
          \/ Overwrite(a, q) \/ AppendEntry(a, q)
    \/ \E a \in Apps : update_apk_timestamp(a)
    \/ Loaded \/ FreeGarbage \/ NextPhase \/ StartDrop \/ KeepSlot \/ DropSlot \/ EndDrop

Spec == Init /\ [][Next]_vars

-----------------------------------------------------------------------------
Slots == [blk : Int, id : Apps \cup {NoApp}, seq : Nat, stamp : {0, 1}]

\* Types, and the bound every write relies on: there is always a free slot
\* behind the last member.
ArrayOK ==
    /\ base \in Seq(Slots) /\ nmember \in Nat /\ nmember < capacity
    /\ heap \subseteq Nat \ {0} /\ i \in 0 .. nmember + 1
    /\ pc \in {"load", "run", "drop", "exited"}

\* Every member owns its strings and no two slots own the same ones, so that
\* freeing one entry never takes another entry's strings away.
Ownership ==
    /\ \A k \in Members : base[k].blk \in heap
    /\ \A j, k \in 1 .. capacity :
          base[j].blk \in heap /\ base[j].blk = base[k].blk => j = k

\* "Solves the problem of the update program exiting" (the comment on the
\* memset of remove_overdue_info): no call of the list functions frees what
\* was never allocated.
NeverExits == pc # "exited"

\* The array always represents a list that a history of abstract operations
\* could have produced.  The abstract list loses its overdue entries at once,
\* when the loop starts: those the loop has still to reach do not count.
Listed == {k \in Members : pc = "drop" => base[k].stamp # 0}
Map ==
    [a \in {base[k].id : k \in Listed} |->
        LET k == CHOOSE k \in Listed : base[k].id = a IN
        [seq |-> base[k].seq, stamp |-> base[k].stamp]]
Registry == INSTANCE AppRegistry WITH reg <- Map
ImplementsRegistry == Registry!Spec

=============================================================================
