------------------------- MODULE SoftListArrayProofs -------------------------
(***************************************************************************)
(* For every number of applications and every capacity: the array has room *)
(* behind its last member, every member owns its strings, and the array    *)
(* implements the abstract list.                                           *)
(***************************************************************************)
EXTENDS SoftListArray, FiniteSetTheorems, WellFoundedInduction, TLAPS

\* strdup finds a block that is not in use.
LEMMA NewBlockFresh ==
    ASSUME NEW used \in SUBSET (Nat \ {0}), IsFiniteSet(used)
    PROVE  NewBlock(used) \in Nat \ {0} /\ NewBlock(used) \notin used
<1> DEFINE n == Cardinality(used)
<1>1. n \in Nat
  BY FS_CardinalityType
<1>2. ASSUME \A b \in 1 .. n + 1 : b \in used PROVE FALSE
  <2>1. 1 .. n + 1 \subseteq used
    BY <1>2
  <2>2. Cardinality(1 .. n + 1) <= n
    BY <2>1, FS_Subset
  <2>3. Cardinality(1 .. n + 1) = n + 1
    BY <1>1, FS_Interval
  <2> QED
    BY <1>1, <2>2, <2>3
<1>3. PICK b \in 1 .. n + 1 : b \notin used
  BY <1>2
<1>4. NewBlock(used) \in 1 .. n + 1 /\ NewBlock(used) \notin used
  BY <1>3 DEF NewBlock
<1> QED
  BY <1>1, <1>4

\* realloc keeps what the block holds and adds slots without strings; there is
\* room behind n entries when they fit before.
LEMMA EnlargedSlots ==
    ASSUME NEW m \in Seq(Slots), NEW n \in Nat, n <= Len(m), Len(m) > 0
    PROVE  /\ Enlarged(m, n) \in Seq(Slots) /\ Len(Enlarged(m, n)) > n
           /\ Len(Enlarged(m, n)) >= Len(m)
           /\ \A k \in 1 .. Len(m) : Enlarged(m, n)[k] = m[k]
           /\ \A k \in 1 .. Len(Enlarged(m, n)) :
                 k > Len(m) => Enlarged(m, n)[k] = Wild
<1> DEFINE w == [k \in 1 .. Len(m) |-> Wild]
<1>1. Wild \in Slots
  BY DEF Wild, Slots
<1>2. Len(m) \in Nat
  OBVIOUS
<1>3. w \in Seq(Slots) /\ Len(w) = Len(m) /\ \A k \in 1 .. Len(m) : w[k] = Wild
  BY <1>1, <1>2
<1>4. CASE n # Len(m)
  BY <1>2, <1>4 DEF Enlarged
<1>5. CASE n = Len(m)
  <2>1. Enlarged(m, n) = m \o w
    BY <1>5 DEF Enlarged
  <2> HIDE DEF w
  <2>2. /\ m \o w \in Seq(Slots) /\ Len(m \o w) = Len(m) + Len(m)
        /\ \A k \in 1 .. Len(m) : (m \o w)[k] = m[k]
        /\ \A k \in 1 .. Len(m \o w) : k > Len(m) => (m \o w)[k] = w[k - Len(m)]
    BY <1>2, <1>3
  <2> QED
    BY <1>2, <1>3, <1>5, <2>1, <2>2
<1> QED
  BY <1>4, <1>5

\* The second half of apk_info_copy changes numbers only.
LEMMA UnshareSlots ==
    ASSUME NEW m \in Seq(Slots), NEW n \in Nat, NEW d
    PROVE  /\ Unshare(m, n, d) \in Seq(Slots) /\ Len(Unshare(m, n, d)) = Len(m)
           /\ \A k \in 1 .. Len(m) :
                 /\ Unshare(m, n, d)[k].blk = m[k].blk /\ Unshare(m, n, d)[k].id = m[k].id
                 /\ Unshare(m, n, d)[k].stamp = m[k].stamp
<1> DEFINE u == Unshare(m, n, d)
           free == 1 .. n \ {m[j].seq : j \in 1 .. n}
           shared == {k \in 1 .. n : m[k].seq = m[d].seq /\ m[k].id # m[d].id}
           num(k) == {f \in free : Rank(free, f) = Rank(shared, k)}
<1>1. DOMAIN m = 1 .. Len(m) /\ Len(m) \in Nat
  OBVIOUS
<1>2. u = [k \in 1 .. Len(m) |->
              IF k \in shared /\ num(k) # {}
              THEN [m[k] EXCEPT !.seq = CHOOSE f \in num(k) : TRUE] ELSE m[k]]
  BY <1>1, Zenon DEF Unshare
<1> HIDE DEF u
<1>3. ASSUME NEW k \in 1 .. Len(m)
      PROVE  /\ u[k] \in Slots /\ u[k].blk = m[k].blk /\ u[k].id = m[k].id
             /\ u[k].stamp = m[k].stamp
  <2>1. m[k] \in Slots
    BY <1>1
  <2>2. ASSUME num(k) # {} PROVE (CHOOSE f \in num(k) : TRUE) \in Nat
    <3>1. num(k) \subseteq Nat
      OBVIOUS
    <3> HIDE DEF num
    <3> QED
      BY <2>2, <3>1
  <2>3. ASSUME NEW j \in Nat
        PROVE  /\ [m[k] EXCEPT !.seq = j] \in Slots
               /\ [m[k] EXCEPT !.seq = j].blk = m[k].blk
               /\ [m[k] EXCEPT !.seq = j].id = m[k].id
               /\ [m[k] EXCEPT !.seq = j].stamp = m[k].stamp
    BY <2>1 DEF Slots
  <2> HIDE DEF num
  <2>4. \/ u[k] = m[k]
        \/ num(k) # {} /\ u[k] = [m[k] EXCEPT !.seq = CHOOSE f \in num(k) : TRUE]
    BY <1>2
  <2> QED
    BY <2>1, <2>2, <2>3, <2>4
<1>4. u \in Seq(Slots) /\ Len(u) = Len(m)
  <2>1. u = [k \in 1 .. Len(m) |-> u[k]]
    BY <1>2
  <2> QED
    BY <1>1, <1>3, <2>1
<1> QED
  BY <1>3, <1>4 DEF u

\* The first n slots of s are those of m in another order, the others the same.
Permuted(m, s, n) ==
    \E p \in [1 .. Len(m) -> 1 .. Len(m)] :
       /\ \A k \in 1 .. Len(m) : s[k] = m[p[k]]
       /\ \A j, k \in 1 .. Len(m) : p[j] = p[k] => j = k
       /\ \A k \in 1 .. n : p[k] \in 1 .. n
       /\ \A k \in 1 .. n : \E j \in 1 .. n : p[j] = k
       /\ \A k \in 1 .. Len(m) : k > n => p[k] = k

\* qsort permutes the first n slots and leaves the others.
LEMMA SortedSlots ==
    ASSUME NEW m \in Seq(Slots), NEW n \in Nat, n <= Len(m), NEW s \in Sorted(m, n)
    PROVE  /\ s \in Seq(Slots) /\ Len(s) = Len(m)
           /\ Permuted(m, s, n)
<1>1. DOMAIN m = 1 .. Len(m) /\ Len(m) \in Nat
  OBVIOUS
<1>2. PICK q \in Bijection(1 .. n, 1 .. n) :
         s = [k \in 1 .. Len(m) |-> IF k <= n THEN m[q[k]] ELSE m[k]]
  BY <1>1, Zenon DEF Sorted
<1>3. /\ q \in [1 .. n -> 1 .. n]
      /\ \A j, k \in 1 .. n : q[j] = q[k] => j = k
      /\ \A k \in 1 .. n : \E j \in 1 .. n : q[j] = k
  BY DEF Bijection, Injection, Surjection, IsInjective
<1> DEFINE p == [k \in 1 .. Len(m) |-> IF k <= n THEN q[k] ELSE k]
<1>4. p \in [1 .. Len(m) -> 1 .. Len(m)]
  BY <1>1, <1>3
<1>5. \A k \in 1 .. Len(m) : s[k] = m[p[k]] /\ s[k] \in Slots
  BY <1>1, <1>2, <1>3, <1>4
<1>6. s \in Seq(Slots) /\ Len(s) = Len(m)
  <2>1. s = [k \in 1 .. Len(m) |-> s[k]]
    BY <1>2
  <2> QED
    BY <1>1, <1>5, <2>1
<1>7. \A j, k \in 1 .. Len(m) : p[j] = p[k] => j = k
  <2> SUFFICES ASSUME NEW j \in 1 .. Len(m), NEW k \in 1 .. Len(m), p[j] = p[k] PROVE j = k
    OBVIOUS
  <2>1. \A x \in 1 .. Len(m) : IF x <= n THEN p[x] = q[x] /\ p[x] <= n ELSE p[x] = x
    BY <1>1, <1>3
  <2>2. CASE j <= n /\ k <= n
    <3>1. j \in 1 .. n /\ k \in 1 .. n /\ q[j] = q[k]
      BY <2>1, <2>2
    <3> QED
      BY <1>3, <3>1
  <2>3. CASE ~ (j <= n /\ k <= n)
    BY <1>1, <2>1, <2>3
  <2> QED
    BY <2>2, <2>3
<1>8. /\ \A k \in 1 .. n : p[k] \in 1 .. n
      /\ \A k \in 1 .. n : \E j \in 1 .. n : p[j] = k
      /\ \A k \in 1 .. Len(m) : k > n => p[k] = k
  BY <1>1, <1>3
<1>9. Permuted(m, s, n)
  <2> HIDE DEF p
  <2> QED
    BY <1>4, <1>5, <1>7, <1>8 DEF Permuted
<1> QED
  BY <1>6, <1>9

-----------------------------------------------------------------------------
(* Who owns which strings. *)

\* No slot, member or not, holds a pointer to strings that were freed: it
\* holds strings of its own, none, or what realloc left there.
Own(m, h) ==
    /\ \A k \in 1 .. Len(m) : m[k].blk \in h \cup {NoBlock, -1}
    /\ \A j, k \in 1 .. Len(m) : m[j].blk \in h /\ m[j].blk = m[k].blk => j = k

OwnInv ==
    /\ ArrayOK /\ IsFiniteSet(heap) /\ Own(base, heap)
    /\ \A k \in Members : base[k].blk \in heap
    /\ pc = "drop" => i > 0

\* A slot is filled with strings of its own after what it held was freed.
Refilled(m, d, put) ==
    /\ Len(put) = Len(m) /\ \A k \in 1 .. Len(m) : k # d => put[k] = m[k]
    /\ put[d].blk = NewBlock(heap \ {m[d].blk})
    /\ heap' = (heap \ {m[d].blk}) \cup {put[d].blk}

LEMMA FillOwns ==
    ASSUME heap \subseteq Nat \ {0}, IsFiniteSet(heap),
           NEW m \in Seq(Slots), Own(m, heap), NEW d \in 1 .. Len(m),
           NEW put \in Seq(Slots), Refilled(m, d, put)
    PROVE  /\ heap' \subseteq Nat \ {0} /\ IsFiniteSet(heap') /\ Own(put, heap')
           /\ \A k \in 1 .. Len(m) : k # d /\ m[k].blk \in heap => m[k].blk \in heap'
<1>0. PICK h, h2, b : h = heap /\ h2 = heap' /\ b = put[d].blk
  OBVIOUS
<1> USE <1>0 DEF Refilled
<1> DEFINE left == h \ {m[d].blk}
<1>1. IsFiniteSet(left) /\ left \in SUBSET (Nat \ {0})
  BY FS_Subset
<1>2. b \in Nat \ {0} /\ b \notin left
  BY <1>1, NewBlockFresh
<1>3. IsFiniteSet(h2) /\ h2 \subseteq Nat \ {0}
  BY <1>1, <1>2, FS_AddElement
<1>4. ASSUME NEW k \in 1 .. Len(m), k # d
      PROVE  /\ put[k].blk = m[k].blk /\ put[k].blk # b
             /\ m[k].blk \in left \cup {NoBlock, -1}
             /\ m[k].blk \in h => m[k].blk \in h2
  <2>1. m[k].blk \in h => m[k].blk # m[d].blk
    BY <1>4 DEF Own
  <2>2. m[k].blk \in left \cup {NoBlock, -1}
    BY <2>1 DEF Own
  <2>3. put[k] = m[k]
    BY <1>4
  <2> QED
    BY <1>2, <2>1, <2>2, <2>3 DEF NoBlock
<1>5. Own(put, h2)
  <2>1. \A k \in 1 .. Len(m) : put[k].blk \in h2 \cup {NoBlock, -1}
    BY <1>4
  <2>2. ASSUME NEW j \in 1 .. Len(m), NEW k \in 1 .. Len(m),
               put[j].blk \in h2, put[j].blk = put[k].blk
        PROVE  j = k
    <3>1. CASE j = d \/ k = d
      BY <1>4, <2>2, <3>1
    <3>2. CASE j # d /\ k # d
      <4>1. m[j].blk = m[k].blk /\ m[j].blk \in h
        BY <1>4, <2>2, <3>2
      <4> QED
        BY <4>1 DEF Own
    <3> QED
      BY <3>1, <3>2
  <2> QED
    BY <2>1, <2>2 DEF Own
<1> QED
  BY <1>3, <1>4, <1>5

\* Slots whose strings are those of other slots, one each, are owned as well.
LEMMA MovedOwns ==
    ASSUME NEW m \in Seq(Slots), NEW s \in Seq(Slots), NEW h, Own(m, h), Len(s) = Len(m),
           NEW p \in [1 .. Len(m) -> 1 .. Len(m)],
           \A k \in 1 .. Len(m) : s[k].blk = m[p[k]].blk,
           \A j, k \in 1 .. Len(m) : p[j] = p[k] => j = k
    PROVE  Own(s, h)
<1>1. \A k \in 1 .. Len(m) : s[k].blk \in h \cup {NoBlock, -1}
  BY DEF Own
<1>2. ASSUME NEW j \in 1 .. Len(m), NEW k \in 1 .. Len(m), s[j].blk \in h, s[j].blk = s[k].blk
      PROVE  j = k
  <2>1. p[j] \in 1 .. Len(m) /\ p[k] \in 1 .. Len(m)
    OBVIOUS
  <2>2. m[p[j]].blk \in h /\ m[p[j]].blk = m[p[k]].blk
    BY <1>2
  <2>3. p[j] = p[k]
    BY <2>1, <2>2, Zenon DEF Own
  <2> QED
    BY <2>3
<1> QED
  BY <1>1, <1>2 DEF Own

LEMMA SortedOwns ==
    ASSUME NEW m \in Seq(Slots), NEW n \in Nat, n <= Len(m), NEW s \in Sorted(m, n),
           NEW h, Own(m, h), \A k \in 1 .. n : m[k].blk \in h
    PROVE  /\ s \in Seq(Slots) /\ Len(s) = Len(m) /\ Own(s, h)
           /\ \A k \in 1 .. n : s[k].blk \in h
<1>1. s \in Seq(Slots) /\ Len(s) = Len(m) /\ Permuted(m, s, n)
  BY SortedSlots
<1>2. PICK p \in [1 .. Len(m) -> 1 .. Len(m)] :
         /\ \A k \in 1 .. Len(m) : s[k] = m[p[k]]
         /\ \A j, k \in 1 .. Len(m) : p[j] = p[k] => j = k
         /\ \A k \in 1 .. n : p[k] \in 1 .. n
  BY <1>1 DEF Permuted
<1>3. Own(s, h)
  BY <1>2, <1>1, MovedOwns
<1>4. \A k \in 1 .. n : s[k].blk \in h
  <2> SUFFICES ASSUME NEW k \in 1 .. n PROVE s[k].blk \in h
    OBVIOUS
  <2>1. k \in 1 .. Len(m) /\ p[k] \in 1 .. n /\ s[k] = m[p[k]]
    BY <1>2
  <2> QED
    BY <2>1
<1> QED
  BY <1>1, <1>3, <1>4

\* apk_info_copy and the sorting that follows it leave every member with
\* strings of its own.
LEMMA CopyOwns ==
    ASSUME NEW m \in Seq(Slots), NEW n \in Nat, n <= Len(m), NEW d \in 1 .. n,
           NEW a \in Apps, NEW q \in Nat,
           heap \subseteq Nat \ {0}, IsFiniteSet(heap), Own(m, heap),
           \A k \in 1 .. n : k # d => m[k].blk \in heap,
           CopyInto(m, n, d, a, q)
    PROVE  /\ base' \in Seq(Slots) /\ Len(base') = Len(m)
           /\ heap' \subseteq Nat \ {0} /\ IsFiniteSet(heap') /\ Own(base', heap')
           /\ \A k \in 1 .. n : base'[k].blk \in heap'
<1>1. PICK b : b = NewBlock(heap \ {m[d].blk})
  OBVIOUS
<1>2. PICK e : e = [blk |-> b, id |-> a, seq |-> q, stamp |-> 1]
  OBVIOUS
<1>3. PICK put : put = [m EXCEPT ![d] = e]
  OBVIOUS
<1> DEFINE u == Unshare(put, n, d)
<1>4. heap' = (heap \ {m[d].blk}) \cup {b} /\ base' \in Sorted(u, n)
  BY <1>1, <1>2, <1>3 DEF CopyInto
<1>5. b \in Nat \ {0} /\ d \in 1 .. Len(m)
  <2>1. heap \ {m[d].blk} \in SUBSET (Nat \ {0}) /\ IsFiniteSet(heap \ {m[d].blk})
    BY FS_Subset
  <2> QED
    BY <1>1, <2>1, NewBlockFresh
<1>6. e \in Slots /\ e.blk = b
  BY <1>2, <1>5 DEF Slots
<1>7. /\ put \in Seq(Slots) /\ Len(put) = Len(m) /\ put[d] = e
      /\ \A k \in 1 .. Len(m) : k # d => put[k] = m[k]
  BY <1>3, <1>5, <1>6
<1>8. /\ heap' \subseteq Nat \ {0} /\ IsFiniteSet(heap') /\ Own(put, heap')
      /\ \A k \in 1 .. Len(m) : k # d /\ m[k].blk \in heap => m[k].blk \in heap'
  <2>1. Refilled(m, d, put)
    BY <1>1, <1>4, <1>6, <1>7 DEF Refilled
  <2> QED
    BY <1>5, <1>7, <2>1, FillOwns
<1>9. /\ u \in Seq(Slots) /\ Len(u) = Len(put)
      /\ \A k \in 1 .. Len(put) : u[k].blk = put[k].blk
  BY <1>7, UnshareSlots
<1> HIDE DEF u
<1>10. Own(u, heap')
  BY <1>8, <1>9 DEF Own
<1>11. \A k \in 1 .. n : u[k].blk \in heap'
  <2> SUFFICES ASSUME NEW k \in 1 .. n PROVE put[k].blk \in heap'
    BY <1>7, <1>9
  <2>1. CASE k = d
    BY <1>4, <1>6, <1>7, <2>1
  <2>2. CASE k # d
    BY <1>7, <1>8, <2>2
  <2> QED
    BY <2>1, <2>2
<1>12. /\ base' \in Seq(Slots) /\ Len(base') = Len(u) /\ Own(base', heap')
       /\ \A k \in 1 .. n : base'[k].blk \in heap'
  BY <1>4, <1>7, <1>9, <1>10, <1>11, SortedOwns
<1> QED
  BY <1>7, <1>8, <1>9, <1>12

LEMMA EnlargedOwns ==
    ASSUME NEW m \in Seq(Slots), NEW n \in Nat, n <= Len(m), Len(m) > 0,
           NEW h, h \subseteq Nat \ {0}, Own(m, h)
    PROVE  Own(Enlarged(m, n), h)
<1> DEFINE w == Enlarged(m, n)
<1>1. /\ w \in Seq(Slots) /\ Len(w) >= Len(m)
      /\ \A k \in 1 .. Len(m) : w[k] = m[k]
      /\ \A k \in 1 .. Len(w) : k > Len(m) => w[k] = Wild
  BY EnlargedSlots
<1> HIDE DEF w
<1>2. ASSUME NEW k \in 1 .. Len(w)
      PROVE  \/ k \in 1 .. Len(m) /\ w[k] = m[k]
             \/ w[k].blk = -1
  BY <1>1 DEF Wild
<1>3. -1 \notin h
  OBVIOUS
<1>4. \A k \in 1 .. Len(w) : w[k].blk \in h \cup {NoBlock, -1}
  BY <1>2 DEF Own
<1>5. ASSUME NEW j \in 1 .. Len(w), NEW k \in 1 .. Len(w), w[j].blk \in h, w[j].blk = w[k].blk
      PROVE  j = k
  <2>1. j \in 1 .. Len(m) /\ w[j] = m[j] /\ k \in 1 .. Len(m) /\ w[k] = m[k]
    BY <1>2, <1>3, <1>5
  <2> QED
    BY <1>5, <2>1 DEF Own
<1> QED
  BY <1>4, <1>5 DEF Own, w

LEMMA OwnNext == OwnInv /\ [Next]_vars => OwnInv'
<1> SUFFICES ASSUME OwnInv, [Next]_vars PROVE OwnInv'
  OBVIOUS
<1>0. /\ base \in Seq(Slots) /\ nmember \in Nat /\ nmember < Len(base) /\ Len(base) \in Nat
      /\ heap \subseteq Nat \ {0} /\ IsFiniteSet(heap) /\ Own(base, heap)
      /\ i \in 0 .. nmember + 1 /\ pc \in {"load", "run", "drop", "exited"}
      /\ \A k \in 1 .. nmember : base[k].blk \in heap
      /\ pc = "drop" => i > 0
  BY DEF OwnInv, ArrayOK, capacity, Members
<1>a. ASSUME base' \in Seq(Slots), nmember' \in Nat, nmember' < Len(base'),
             heap' \subseteq Nat \ {0}, IsFiniteSet(heap'), Own(base', heap'),
             i' \in 0 .. nmember' + 1, pc' \in {"load", "run", "drop", "exited"},
             pc' = "drop" => i' > 0,
             \A k \in 1 .. nmember' : base'[k].blk \in heap'
      PROVE  OwnInv'
  BY <1>a DEF OwnInv, ArrayOK, capacity, Members
<1>b. ASSUME UNCHANGED <<heap, nmember>>, base' \in Seq(Slots), Len(base') = Len(base),
             \A k \in 1 .. Len(base) : base'[k].blk = base[k].blk,
             i' \in 0 .. nmember + 1, pc' \in {"load", "run", "drop", "exited"},
             pc' = "drop" => i' > 0
      PROVE  OwnInv'
  <2>1. Own(base', heap)
    BY <1>0, <1>b DEF Own
  <2>2. \A k \in 1 .. nmember : base'[k].blk \in heap
    <3>1. \A k \in 1 .. nmember : k \in 1 .. Len(base)
      BY <1>0
    <3> QED
      BY <1>0, <1>b, <3>1
  <2> QED
    BY <1>0, <1>a, <1>b, <2>1, <2>2
<1>1. ASSUME NEW a \in Apps, NEW q \in SeqNos, NEW c \in BOOLEAN, init_soft_list(a, q, c)
      PROVE  OwnInv'
  <2> DEFINE d == nmember + 1
  <2>1. PICK b : b = NewBlock(heap \ {base[d].blk})
    OBVIOUS
  <2>2. PICK e : e = [blk |-> b, id |-> a, seq |-> q, stamp |-> 1]
    OBVIOUS
  <2>3. PICK filled : filled = [base EXCEPT ![d] = e]
    OBVIOUS
  <2>4. /\ heap' = (heap \ {base[d].blk}) \cup {b} /\ UNCHANGED <<pc, i>>
        /\ \/ nmember' = nmember + 1 /\ base' = Enlarged(filled, nmember + 1)
           \/ nmember' = nmember /\ base' = filled
    BY <1>1, <2>1, <2>2, <2>3 DEF init_soft_list
  <2>5. b \in Nat \ {0} /\ d \in 1 .. Len(base) /\ q \in Nat
    <3>1. heap \ {base[d].blk} \in SUBSET (Nat \ {0}) /\ IsFiniteSet(heap \ {base[d].blk})
      BY <1>0, FS_Subset
    <3> QED
      BY <1>0, <2>1, <3>1, NewBlockFresh, ArrayAssumption
  <2>6. e \in Slots /\ e.blk = b
    BY <2>2, <2>5 DEF Slots
  <2>7. /\ filled \in Seq(Slots) /\ Len(filled) = Len(base) /\ filled[d] = e
        /\ \A k \in 1 .. Len(base) : k # d => filled[k] = base[k]
    BY <1>0, <2>3, <2>5, <2>6
  <2>8. Refilled(base, d, filled)
    BY <2>1, <2>4, <2>6, <2>7 DEF Refilled
  <2> HIDE DEF d
  <2>9. /\ heap' \subseteq Nat \ {0} /\ IsFiniteSet(heap') /\ Own(filled, heap')
        /\ \A k \in 1 .. Len(base) : k # d /\ base[k].blk \in heap => base[k].blk \in heap'
    BY <1>0, <2>5, <2>7, <2>8, FillOwns
  <2> USE DEF d
  <2>10. \A k \in 1 .. nmember + 1 : filled[k].blk \in heap'
    <3> SUFFICES ASSUME NEW k \in 1 .. nmember + 1 PROVE filled[k].blk \in heap'
      OBVIOUS
    <3>1. CASE k = d
      BY <2>4, <2>6, <2>7, <3>1
    <3>2. CASE k # d
      BY <1>0, <2>7, <2>9, <3>2
    <3> QED
      BY <3>1, <3>2
  <2>11. CASE nmember' = nmember /\ base' = filled
    BY <1>0, <1>a, <2>4, <2>7, <2>9, <2>10, <2>11
  <2>12. CASE nmember' = nmember + 1 /\ base' = Enlarged(filled, nmember + 1)
    <3>1. nmember + 1 \in Nat /\ nmember + 1 <= Len(filled) /\ Len(filled) > 0
      BY <1>0, <2>7
    <3>2. /\ base' \in Seq(Slots) /\ Len(base') > nmember + 1
          /\ \A k \in 1 .. Len(filled) : base'[k] = filled[k]
      BY <2>7, <2>12, <3>1, EnlargedSlots
    <3>3. Own(Enlarged(filled, nmember + 1), heap')
      <4>1. PICK h : h = heap'
        OBVIOUS
      <4> QED
        BY <2>7, <2>9, <3>1, <4>1, EnlargedOwns
    <3>4. \A k \in 1 .. nmember + 1 : base'[k].blk \in heap'
      BY <2>10, <3>1, <3>2
    <3> QED
      BY <1>0, <1>a, <2>4, <2>9, <2>12, <3>1, <3>2, <3>3, <3>4
  <2> QED
    BY <2>4, <2>11, <2>12
<1>2. ASSUME NEW a \in Apps, NEW q \in SeqNos, Overwrite(a, q)
      PROVE  OwnInv'
  <2>1. PICK d \in 1 .. nmember : CopyInto(base, nmember, d, a, q)
    BY <1>2 DEF Overwrite, find_apk_info, Members
  <2>2. q \in Nat /\ nmember <= Len(base)
    BY <1>0, ArrayAssumption
  <2>3. /\ base' \in Seq(Slots) /\ Len(base') = Len(base)
        /\ heap' \subseteq Nat \ {0} /\ IsFiniteSet(heap') /\ Own(base', heap')
        /\ \A k \in 1 .. nmember : base'[k].blk \in heap'
    BY <1>0, <2>1, <2>2, CopyOwns
  <2> QED
    BY <1>0, <1>2, <1>a, <2>3 DEF Overwrite
<1>3. ASSUME NEW a \in Apps, NEW q \in SeqNos, AppendEntry(a, q)
      PROVE  OwnInv'
  <2>1. PICK n, m : n = nmember + 1 /\ m = Room
    OBVIOUS
  <2>2. n \in Nat /\ n <= Len(base) /\ Len(base) > 0 /\ q \in Nat
    BY <1>0, <2>1, ArrayAssumption
  <2>3. m = Enlarged(base, n)
    BY <2>1 DEF Room
  <2>4. /\ m \in Seq(Slots) /\ Len(m) > n /\ \A k \in 1 .. Len(base) : m[k] = base[k]
    BY <1>0, <2>2, <2>3, EnlargedSlots
  <2>5. Own(m, heap)
    BY <1>0, <2>2, <2>3, EnlargedOwns
  <2>6. CopyInto(m, n, n, a, q) /\ nmember' = n /\ UNCHANGED <<pc, i>>
    BY <1>3, <2>1 DEF AppendEntry
  <2>7. \A k \in 1 .. n : k # n => m[k].blk \in heap
    BY <1>0, <2>1, <2>4
  <2>8. n \in 1 .. n /\ n <= Len(m)
    BY <1>0, <2>1, <2>4
  <2>9. /\ base' \in Seq(Slots) /\ Len(base') = Len(m)
        /\ heap' \subseteq Nat \ {0} /\ IsFiniteSet(heap') /\ Own(base', heap')
        /\ \A k \in 1 .. n : base'[k].blk \in heap'
    BY <1>0, <2>2, <2>4, <2>5, <2>6, <2>7, <2>8, CopyOwns
  <2> QED
    BY <1>0, <1>a, <2>1, <2>2, <2>4, <2>6, <2>9
<1>4. ASSUME NEW a \in Apps, update_apk_timestamp(a)
      PROVE  OwnInv'
  <2>1. PICK k \in 1 .. nmember : base' = [base EXCEPT ![k].stamp = 1]
    BY <1>4 DEF update_apk_timestamp, find_apk_info, Members
  <2>2. PICK e : e = [base[k] EXCEPT !.stamp = 1]
    OBVIOUS
  <2>3. k \in 1 .. Len(base) /\ base[k] \in Slots
    BY <1>0
  <2>4. e \in Slots /\ e.blk = base[k].blk
    BY <2>2, <2>3 DEF Slots
  <2>5. base' = [base EXCEPT ![k] = e]
    BY <2>1, <2>2
  <2>6. /\ base' \in Seq(Slots) /\ Len(base') = Len(base)
        /\ \A j \in 1 .. Len(base) : base'[j].blk = base[j].blk
    BY <1>0, <2>3, <2>4, <2>5
  <2> QED
    BY <1>0, <1>4, <1>b, <2>6 DEF update_apk_timestamp
<1>5. CASE NextPhase
  <2>1. base' = [k \in 1 .. Len(base) |->
                    IF k \in 1 .. nmember THEN [base[k] EXCEPT !.stamp = 0] ELSE base[k]]
    BY <1>5 DEF NextPhase, capacity, Members
  <2>2. \A k \in 1 .. Len(base) : base[k] \in Slots
    BY <1>0
  <2>3. \A k \in 1 .. Len(base) : base'[k] \in Slots /\ base'[k].blk = base[k].blk
    BY <2>1, <2>2 DEF Slots
  <2>4. base' \in Seq(Slots) /\ Len(base') = Len(base)
    <3>1. base' = [k \in 1 .. Len(base) |-> base'[k]]
      BY <2>1
    <3> QED
      BY <1>0, <2>3, <3>1
  <2> QED
    BY <1>0, <1>5, <1>b, <2>3, <2>4 DEF NextPhase
<1>6. CASE Loaded \/ FreeGarbage \/ StartDrop \/ KeepSlot \/ UNCHANGED vars
  <2>1. UNCHANGED <<base, heap, nmember>> /\ i' \in 0 .. nmember + 1
        /\ pc' \in {"load", "run", "drop", "exited"} /\ (pc' = "drop" => i' > 0)
    BY <1>0, <1>6 DEF Loaded, FreeGarbage, StartDrop, KeepSlot, vars
  <2> QED
    BY <1>0, <1>b, <2>1
<1>7. CASE DropSlot
  <2>1. PICK c : c = Cleared
    OBVIOUS
  <2>2. c \in Slots /\ c.blk = 0
    BY <2>1 DEF Cleared, Slots, NoBlock
  <2>3. /\ i \in 1 .. nmember /\ heap' = heap \ {base[i].blk} /\ nmember' = nmember - 1
        /\ base' = [base EXCEPT ![i] = IF i = nmember THEN c ELSE base[nmember],
                              ![nmember] = c]
        /\ UNCHANGED <<pc, i>>
    BY <1>0, <1>7, <2>1 DEF DropSlot, Vacated
  <2>4. /\ base' \in Seq(Slots) /\ Len(base') = Len(base) /\ base'[nmember] = c
        /\ i # nmember => base'[i] = base[nmember]
        /\ \A k \in 1 .. Len(base) : k # i /\ k # nmember => base'[k] = base[k]
    BY <1>0, <2>2, <2>3
  <2>5. ASSUME NEW k \in 1 .. Len(base), k # i, base[k].blk \in heap
        PROVE  base[k].blk \in heap'
    BY <1>0, <2>3, <2>5 DEF Own
  <2>6. \A k \in 1 .. nmember : k \in 1 .. Len(base)
    BY <1>0
  <2>7. \A k \in 1 .. nmember' : base'[k].blk \in heap'
    <3> SUFFICES ASSUME NEW k \in 1 .. nmember - 1 PROVE base'[k].blk \in heap'
      BY <2>3
    <3>1. k \in 1 .. nmember /\ k # nmember /\ nmember \in 1 .. nmember
      BY <1>0
    <3> QED
      BY <1>0, <2>4, <2>5, <2>6, <3>1
  <2>8. \A k \in 1 .. Len(base) : base'[k].blk \in heap' \cup {NoBlock, -1}
    <3> SUFFICES ASSUME NEW k \in 1 .. Len(base) PROVE base'[k].blk \in heap' \cup {NoBlock, -1}
      OBVIOUS
    <3>1. CASE k = nmember
      BY <2>2, <2>4, <3>1 DEF NoBlock
    <3>2. CASE k = i /\ k # nmember
      BY <2>3, <2>7, <3>2, <1>0
    <3>3. CASE k # i /\ k # nmember
      BY <1>0, <2>4, <2>5, <3>3 DEF Own
    <3> QED
      BY <3>1, <3>2, <3>3
  <2>9. ASSUME NEW j \in 1 .. Len(base), NEW k \in 1 .. Len(base),
               base'[j].blk \in heap', base'[j].blk = base'[k].blk
        PROVE  j = k
    <3>1. j # nmember /\ k # nmember
      BY <1>0, <2>2, <2>3, <2>4, <2>9
    <3>a. ASSUME NEW k2 \in 1 .. Len(base), k2 # nmember
          PROVE  \E x \in 1 .. Len(base) : /\ base'[k2].blk = base[x].blk
                                           /\ x = IF k2 = i THEN nmember ELSE k2
      <4>1. nmember \in 1 .. Len(base)
        BY <1>0, <2>3
      <4>2. CASE k2 = i
        BY <2>4, <3>a, <4>1, <4>2
      <4>3. CASE k2 # i
        BY <2>4, <3>a, <4>3
      <4> QED
        BY <4>2, <4>3
    <3>2. PICK x \in 1 .. Len(base) :
             base'[j].blk = base[x].blk /\ x = IF j = i THEN nmember ELSE j
      BY <3>1, <3>a
    <3>3. PICK y \in 1 .. Len(base) :
             base'[k].blk = base[y].blk /\ y = IF k = i THEN nmember ELSE k
      BY <3>1, <3>a
    <3>4. x = y
      BY <1>0, <2>3, <2>9, <3>2, <3>3 DEF Own
    <3> QED
      BY <3>1, <3>2, <3>3, <3>4
  <2>10. Own(base', heap')
    BY <2>4, <2>8, <2>9 DEF Own
  <2>11. heap' \subseteq Nat \ {0} /\ IsFiniteSet(heap')
    BY <1>0, <2>3, FS_Subset
  <2> QED
    BY <1>0, <1>a, <2>3, <2>4, <2>7, <2>10, <2>11
<1>8. CASE EndDrop
  <2>1. nmember <= Len(base) /\ base' \in Sorted(base, nmember)
    BY <1>0, <1>8 DEF EndDrop
  <2>2. /\ base' \in Seq(Slots) /\ Len(base') = Len(base) /\ Own(base', heap)
        /\ \A k \in 1 .. nmember : base'[k].blk \in heap
    BY <1>0, <2>1, SortedOwns
  <2> QED
    BY <1>0, <1>8, <1>a, <2>2 DEF EndDrop
<1> QED
  BY <1>1, <1>2, <1>3, <1>4, <1>5, <1>6, <1>7, <1>8 DEF Next

(* The list starts empty, with every slot cleared. *)
LEMMA OwnInit == Init => OwnInv
<1> SUFFICES ASSUME Init PROVE OwnInv
  OBVIOUS
<1>1. PICK c : c = Cleared
  OBVIOUS
<1>2. c \in Slots /\ c.blk = 0
  BY <1>1 DEF Cleared, Slots, NoBlock
<1>3. base = [k \in 1 .. Capacity |-> c] /\ Capacity \in Nat \ {0, 1}
  BY <1>1, ArrayAssumption DEF Init
<1>4. /\ base \in Seq(Slots) /\ Len(base) = Capacity
      /\ \A k \in 1 .. Capacity : base[k] = c
  BY <1>2, <1>3
<1>5. Own(base, heap)
  BY <1>2, <1>4 DEF Own, Init, NoBlock
<1>6. IsFiniteSet(heap)
  BY FS_EmptySet DEF Init
<1> QED
  BY <1>3, <1>4, <1>5, <1>6 DEF OwnInv, ArrayOK, Init, capacity, Members

LEMMA Owned == Spec => []OwnInv
BY OwnInit, OwnNext, PTL DEF Spec

(***************************************************************************)
(* Every write of the list functions stays inside the block: whatever the  *)
(* sequence of loads, appends, drops and reallocs, there is a free slot    *)
(* behind the last member, and the index of the drop loop stays in range.  *)
(***************************************************************************)
THEOREM ArrayStaysOK == Spec => []ArrayOK
<1>1. OwnInv => ArrayOK
  BY DEF OwnInv
<1> QED
  BY <1>1, Owned, PTL

(***************************************************************************)
(* Freeing an entry never frees the strings of another: every member owns  *)
(* live strings and no two slots of the array, those behind the last       *)
(* member included, point to the same ones.                                *)
(***************************************************************************)
THEOREM StringsOwned == Spec => []Ownership
<1>1. OwnInv => Ownership
  BY DEF OwnInv, Own, Ownership, capacity
<1> QED
  BY <1>1, Owned, PTL

-----------------------------------------------------------------------------
(* The list that an array represents. *)

Item(s) == [seq |-> s.seq, stamp |-> s.stamp]
Ids(m, S) == {m[k].id : k \in S}
Keyed(m, S) == \A j, k \in S : m[j].id = m[k].id => j = k
Numbered(m, S) == \A j, k \in S : m[j].seq = m[k].seq => j = k

\* l lists the slots S of m under their ids.
Shows(m, S, l) ==
    l = [a \in Ids(m, S) |-> l[a]] /\ \A k \in S : l[m[k].id] = Item(m[k])

ListOf(m, S) ==
    [a \in Ids(m, S) |->
        LET k == CHOOSE k \in S : m[k].id = a IN [seq |-> m[k].seq, stamp |-> m[k].stamp]]

LEMMA ListShown ==
    ASSUME NEW m, NEW S, Keyed(m, S)
    PROVE  Shows(m, S, ListOf(m, S))
<1>1. ASSUME NEW k \in S PROVE ListOf(m, S)[m[k].id] = Item(m[k])
  <2> DEFINE c == CHOOSE j \in S : m[j].id = m[k].id
  <2>1. c \in S /\ m[c].id = m[k].id
    OBVIOUS
  <2> HIDE DEF c
  <2>2. c = k
    BY <2>1 DEF Keyed
  <2>3. m[k].id \in Ids(m, S)
    BY DEF Ids
  <2>4. ListOf(m, S)[m[k].id] = [seq |-> m[c].seq, stamp |-> m[c].stamp]
    BY <2>3, Zenon DEF ListOf, c
  <2> QED
    BY <2>2, <2>4 DEF Item
<1>2. ListOf(m, S) = [a \in Ids(m, S) |-> ListOf(m, S)[a]]
  BY DEF ListOf
<1> QED
  BY <1>1, <1>2 DEF Shows

\* Only one list shows the slots.
LEMMA ShownIsList ==
    ASSUME NEW m, NEW S, Keyed(m, S), NEW l, Shows(m, S, l)
    PROVE  l = ListOf(m, S)
<1>1. PICK r : r = ListOf(m, S)
  OBVIOUS
<1>2. Shows(m, S, r)
  BY <1>1, ListShown
<1>3. ASSUME NEW a \in Ids(m, S) PROVE l[a] = r[a]
  <2>1. PICK k \in S : a = m[k].id
    BY DEF Ids
  <2> QED
    BY <1>2, <2>1 DEF Shows
<1>4. l = r
  BY <1>2, <1>3 DEF Shows
<1> QED
  BY <1>1, <1>4

\* Slots with the same entries show the same list.
Same(m, S, s, T) ==
    /\ \A k \in S : \E j \in T : s[j].id = m[k].id /\ Item(s[j]) = Item(m[k])
    /\ \A j \in T : \E k \in S : s[j].id = m[k].id /\ Item(s[j]) = Item(m[k])

LEMMA SameShown ==
    ASSUME NEW m, NEW S, NEW s, NEW T, NEW l, Shows(m, S, l), Same(m, S, s, T)
    PROVE  Shows(s, T, l)
<1>1. Ids(s, T) = Ids(m, S)
  BY DEF Same, Ids
<1>2. \A j \in T : l[s[j].id] = Item(s[j])
  BY DEF Same, Shows
<1> QED
  BY <1>1, <1>2 DEF Shows

\* Sorting changes neither the list nor that its ids and numbers are unique.
LEMMA SortedShows ==
    ASSUME NEW m \in Seq(Slots), NEW n \in Nat, n <= Len(m), NEW s \in Sorted(m, n),
           Keyed(m, 1 .. n), Numbered(m, 1 .. n)
    PROVE  /\ Same(m, 1 .. n, s, 1 .. n) /\ Keyed(s, 1 .. n) /\ Numbered(s, 1 .. n)
           /\ \A k \in 1 .. n : \E j \in 1 .. n : s[k] = m[j]
<1>0. Permuted(m, s, n)
  BY SortedSlots
<1>1. PICK p \in [1 .. Len(m) -> 1 .. Len(m)] :
         /\ \A k \in 1 .. Len(m) : s[k] = m[p[k]]
         /\ \A j, k \in 1 .. Len(m) : p[j] = p[k] => j = k
         /\ \A k \in 1 .. n : p[k] \in 1 .. n
         /\ \A k \in 1 .. n : \E j \in 1 .. n : p[j] = k
         /\ \A k \in 1 .. Len(m) : k > n => p[k] = k
  BY <1>0 DEF Permuted
<1>2. \A k \in 1 .. n : k \in 1 .. Len(m)
  OBVIOUS
<1>3. \A k \in 1 .. n : s[k] = m[p[k]] /\ p[k] \in 1 .. n
  BY <1>1, <1>2
<1>4. Same(m, 1 .. n, s, 1 .. n)
  <2>1. ASSUME NEW k \in 1 .. n
        PROVE  \E j \in 1 .. n : s[j].id = m[k].id /\ Item(s[j]) = Item(m[k])
    <3>1. PICK j \in 1 .. n : p[j] = k
      BY <1>1
    <3>2. s[j] = m[k]
      BY <1>3, <3>1
    <3> QED
      BY <3>2
  <2>2. ASSUME NEW j \in 1 .. n
        PROVE  \E k \in 1 .. n : s[j].id = m[k].id /\ Item(s[j]) = Item(m[k])
    BY <1>3, Zenon
  <2> QED
    BY <2>1, <2>2 DEF Same
<1>5. Keyed(s, 1 .. n) /\ Numbered(s, 1 .. n)
  <2> SUFFICES ASSUME NEW j \in 1 .. n, NEW k \in 1 .. n,
                      s[j].id = s[k].id \/ s[j].seq = s[k].seq
               PROVE  j = k
    BY DEF Keyed, Numbered
  <2>0. PICK x, y : x = p[j] /\ y = p[k]
    OBVIOUS
  <2>1. x \in 1 .. n /\ y \in 1 .. n /\ s[j] = m[x] /\ s[k] = m[y]
    BY <1>3, <2>0
  <2>2. x = y
    BY <2>1 DEF Keyed, Numbered
  <2> QED
    BY <1>1, <1>2, <2>0, <2>2
<1> QED
  BY <1>3, <1>4, <1>5, Zenon

-----------------------------------------------------------------------------
(* apk_info_copy and the renumbering of the abstract list. *)

\* A nonempty set of naturals has the least element Least picks.
LEMMA LeastIsLeast ==
    ASSUME NEW S \in SUBSET Nat, S # {}
    PROVE  Least(S) \in S /\ \A k \in S : Least(S) <= k
<1> DEFINE R == {ss \in Nat \X Nat : ss[1] < ss[2]}
<1>1. IsWellFoundedOn(R, Nat)
  BY NatLessThanWellFounded, Zenon DEF OpToRel
<1>2. PICK x \in S : \A y \in S : ~ (<<y, x>> \in R)
  BY <1>1, WFMin
<1>3. ASSUME NEW y \in S PROVE x <= y
  <2>1. <<y, x>> \in Nat \X Nat /\ <<y, x>>[1] = y /\ <<y, x>>[2] = x
    OBVIOUS
  <2>2. ~ (y < x)
    BY <1>2, <2>1, Zenon
  <2> QED
    BY <2>2
<1> QED
  BY <1>3 DEF Least

LEMMA RankOne ==
    ASSUME NEW F \in SUBSET Nat, NEW f \in F
    PROVE  Rank(F, f) = 1 <=> f = Least(F)
<1>0. f \in Nat /\ \A y \in F : y \in Nat
  OBVIOUS
<1>1. PICK S : S = {y \in F : y <= f}
  OBVIOUS
<1>s. /\ \A y \in S : y \in F /\ y \in Nat /\ y <= f
      /\ \A y \in F : y <= f => y \in S
  BY <1>0, <1>1
<1>2. f \in S /\ Least(F) \in F /\ \A y \in F : Least(F) <= y
  BY <1>0, <1>s, LeastIsLeast
<1>3. ASSUME f = Least(F) PROVE Cardinality(S) = 1
  <2>1. \A y \in S : y = f
    BY <1>0, <1>s, <1>2, <1>3
  <2>2. S = {f}
    BY <1>2, <2>1
  <2> QED
    BY <2>2, FS_Singleton
<1>4. ASSUME Cardinality(S) = 1 PROVE f = Least(F)
  <2>1. IsFiniteSet(S)
    <3>1. S \subseteq 0 .. f
      <4> SUFFICES ASSUME NEW y \in S PROVE y \in 0 .. f
        OBVIOUS
      <4> QED
        BY <1>0, <1>s
    <3>2. IsFiniteSet(0 .. f)
      BY <1>0, FS_Interval
    <3> QED
      BY <3>1, <3>2, FS_Subset
  <2>2. PICK x : S = {x}
    BY <1>4, <2>1, FS_Singleton
  <2>3. Least(F) \in S
    BY <1>1, <1>2
  <2> QED
    BY <1>2, <2>2, <2>3
<1> QED
  BY <1>1, <1>3, <1>4 DEF Rank

LEMMA IntervalSize ==
    ASSUME NEW n \in Nat
    PROVE  IsFiniteSet(1 .. n) /\ Cardinality(1 .. n) = n
BY FS_Interval

\* If two entries share a number, one of 1..nmember is not taken: the inner
\* loop of apk_info_copy always finds its j.
LEMMA ClashLeavesRoom ==
    ASSUME NEW m, NEW n \in Nat, NEW d \in 1 .. n, NEW c \in 1 .. n, c # d,
           m[c].seq = m[d].seq
    PROVE  \E f \in 1 .. n : \A k \in 1 .. n : m[k].seq # f
<1> DEFINE E == 1 .. n \ {c}
           T == {m[k].seq : k \in 1 .. n}
           g == [k \in E |-> m[k].seq]
<1>1. /\ IsFiniteSet(1 .. n) /\ Cardinality(1 .. n) = n
      /\ IsFiniteSet(E) /\ Cardinality(E) = n - 1
  <2>1. IsFiniteSet(1 .. n) /\ Cardinality(1 .. n) = n
    BY IntervalSize
  <2>2. c \in 1 .. n
    OBVIOUS
  <2>3. IsFiniteSet(E) /\ Cardinality(E) = Cardinality(1 .. n) - 1
    BY <2>1, <2>2, FS_RemoveElement
  <2> QED
    BY <2>1, <2>3
<1>2. g \in Surjection(E, T)
  <2>1. ASSUME NEW t \in T PROVE \E k \in E : g[k] = t
    <3>1. PICK k \in 1 .. n : t = m[k].seq
      OBVIOUS
    <3>2. CASE k = c
      <4>1. d \in E /\ g[d] = t
        BY <3>1, <3>2
      <4> QED
        BY <4>1
    <3>3. CASE k # c
      BY <3>1, <3>3
    <3> QED
      BY <3>2, <3>3
  <2>2. g \in [E -> T]
    OBVIOUS
  <2> QED
    BY <2>1, <2>2 DEF Surjection
<1> HIDE DEF g, E
<1>3. IsFiniteSet(T) /\ Cardinality(T) <= n - 1 /\ Cardinality(T) \in Nat
  BY <1>1, <1>2, FS_Surjection, FS_CardinalityType
<1>4. ASSUME 1 .. n \subseteq T PROVE FALSE
  <2>1. Cardinality(1 .. n) <= Cardinality(T)
    BY <1>3, <1>4, FS_Subset
  <2> QED
    BY <1>1, <1>3, <2>1
<1> QED
  BY <1>4

\* How many entries a list has that shows n slots.
LEMMA ShownCardinality ==
    ASSUME NEW m, NEW n \in Nat, Keyed(m, 1 .. n), NEW l, Shows(m, 1 .. n, l)
    PROVE  DOMAIN l = Ids(m, 1 .. n) /\ Cardinality(DOMAIN l) = n
<1>1. DOMAIN l = Ids(m, 1 .. n)
  BY DEF Shows
<1> DEFINE g == [k \in 1 .. n |-> m[k].id]
<1>2. g \in Bijection(1 .. n, Ids(m, 1 .. n))
  <2>1. g \in [1 .. n -> Ids(m, 1 .. n)]
    BY DEF Ids
  <2>2. \A j, k \in 1 .. n : g[j] = g[k] => j = k
    BY DEF Keyed
  <2>3. \A t \in Ids(m, 1 .. n) : \E k \in 1 .. n : g[k] = t
    BY DEF Ids
  <2> QED
    BY <2>1, <2>2, <2>3 DEF Bijection, Injection, Surjection, IsInjective
<1>3. IsFiniteSet(1 .. n) /\ Cardinality(1 .. n) = n
  BY IntervalSize
<1>4. Cardinality(Ids(m, 1 .. n)) = n
  BY <1>2, <1>3, FS_Bijection DEF ExistsBijection
<1> QED
  BY <1>1, <1>4

Free(m, n) == 1 .. n \ {m[j].seq : j \in 1 .. n}

\* No two of the first n slots but d share a number.
NumberedBut(m, n, d) ==
    \A j, k \in 1 .. n : j # d /\ k # d /\ m[j].seq = m[k].seq => j = k

\* What Unshare does where at most one other entry has dest's number: that one
\* takes the least free number.
LEMMA UnshareOne ==
    ASSUME NEW m \in Seq(Slots), NEW n \in Nat, n <= Len(m), NEW d \in 1 .. n,
           Keyed(m, 1 .. n),
           NumberedBut(m, n, d),
           NEW F, F = Free(m, n),
           NEW k \in 1 .. n
    PROVE  IF k # d /\ m[k].seq = m[d].seq
           THEN /\ F # {} /\ Least(F) \in F
                /\ Unshare(m, n, d)[k] = [m[k] EXCEPT !.seq = Least(F)]
           ELSE Unshare(m, n, d)[k] = m[k]
<1> DEFINE shared == {x \in 1 .. n : m[x].seq = m[d].seq /\ m[x].id # m[d].id}
           num(x) == {f \in F : Rank(F, f) = Rank(shared, x)}
<1>1. k \in DOMAIN m
  OBVIOUS
<1> USE DEF Free
<1>2. Unshare(m, n, d)[k] =
         IF k \in shared /\ num(k) # {}
         THEN [m[k] EXCEPT !.seq = CHOOSE f \in num(k) : TRUE] ELSE m[k]
  BY <1>1, Zenon DEF Unshare
<1>3. \A x \in 1 .. n : x \in shared <=> x # d /\ m[x].seq = m[d].seq
  BY DEF Keyed
<1> HIDE DEF shared
<1>4. CASE k \in shared
  <2>1. k # d /\ m[k].seq = m[d].seq
    BY <1>3, <1>4
  <2>2. Rank(shared, k) = 1
    <3>1. shared \subseteq 1 .. n
      BY DEF shared
    <3>2. \A x \in shared : x = k
      BY <1>3, <1>4, <3>1 DEF NumberedBut
    <3>3. {y \in shared : y <= k} = {k}
      <4>1. k \in {y \in shared : y <= k}
        BY <1>4
      <4>2. \A x \in {y \in shared : y <= k} : x = k
        BY <3>2
      <4> QED
        BY <4>1, <4>2, Zenon
    <3> QED
      BY <3>3, FS_Singleton DEF Rank
  <2>3. F \in SUBSET Nat /\ F # {}
    <3>1. PICK f \in 1 .. n : \A x \in 1 .. n : m[x].seq # f
      BY <2>1, ClashLeavesRoom
    <3>2. f \in F
      BY <3>1
    <3>3. 1 .. n \subseteq Nat
      OBVIOUS
    <3> QED
      BY <3>2, <3>3, Zenon
  <2>4. Least(F) \in F
    BY <2>3, LeastIsLeast
  <2>5. num(k) = {Least(F)}
    <3>1. \A f \in F : Rank(F, f) = 1 <=> f = Least(F)
      BY <2>3, RankOne
    <3> QED
      BY <2>2, <2>4, <3>1
  <2> HIDE DEF num
  <2>6. (CHOOSE f \in num(k) : TRUE) = Least(F) /\ num(k) # {}
    BY <2>5
  <2> QED
    BY <1>2, <1>4, <2>1, <2>3, <2>4, <2>6
<1>5. CASE k \notin shared
  BY <1>2, <1>3, <1>5
<1> QED
  BY <1>4, <1>5

LEMMA ItemFields == \A s : Item(s).seq = s.seq /\ Item(s).stamp = s.stamp
BY DEF Item

\* Slot d is where application a goes when S are the slots in use: its own, or
\* the one behind them.
Place(m, S, n, d, a) ==
    /\ S \cup {d} = 1 .. n /\ (d \in S => m[d].id = a)
    /\ \A k \in S : m[k].id = a => k = d

OnlyAt(m, put, n, d) == \A k \in 1 .. n : k # d => put[k] = m[k]

\* The array before the renumbering shows the list after Put.
LEMMA PutShows ==
    ASSUME NEW m, NEW put, NEW n \in Nat, NEW d \in 1 .. n, NEW a,
           NEW S, Place(m, S, n, d, a), Keyed(m, S), Numbered(m, S),
           OnlyAt(m, put, n, d), put[d].id = a,
           NEW l, Shows(m, S, l)
    PROVE  /\ Shows(put, 1 .. n, Put(l, a, Item(put[d]))) /\ Keyed(put, 1 .. n)
           /\ NumberedBut(put, n, d)
<1>1. \A k \in 1 .. n : k # d => k \in S /\ put[k] = m[k] /\ m[k].id # a
  BY DEF Place, OnlyAt
<1>2. Keyed(put, 1 .. n)
  BY <1>1 DEF Keyed
<1>3. NumberedBut(put, n, d)
  BY <1>1 DEF Numbered, NumberedBut
<1>4. PICK e, r : e = Item(put[d]) /\ r = Put(l, a, e)
  OBVIOUS
<1>5. DOMAIN l = Ids(m, S)
  BY DEF Shows
<1>6. Ids(put, 1 .. n) = DOMAIN l \cup {a}
  <2>1. ASSUME NEW x \in Ids(put, 1 .. n) PROVE x \in DOMAIN l \cup {a}
    <3>1. PICK k \in 1 .. n : x = put[k].id
      BY DEF Ids
    <3> QED
      BY <1>1, <1>5, <3>1 DEF Ids
  <2>2. ASSUME NEW x \in Ids(m, S) PROVE x \in Ids(put, 1 .. n)
    <3>1. PICK k \in S : x = m[k].id
      BY DEF Ids
    <3>2. k \in 1 .. n /\ x = put[k].id
      BY <1>1, <3>1 DEF Place
    <3> QED
      BY <3>2 DEF Ids
  <2>3. a \in Ids(put, 1 .. n)
    BY DEF Ids
  <2> QED
    BY <1>5, <2>1, <2>2, <2>3
<1>7. r = [b \in DOMAIN l \cup {a} |-> IF b = a THEN e ELSE l[b]]
  BY <1>4 DEF Put
<1>8. ASSUME NEW k \in 1 .. n PROVE r[put[k].id] = Item(put[k])
  <2>1. CASE k = d
    BY <1>4, <1>7, <2>1
  <2>2. CASE k # d
    <3>1. k \in S /\ put[k] = m[k] /\ m[k].id # a /\ m[k].id \in DOMAIN l
      BY <1>1, <1>5, <2>2 DEF Ids
    <3>2. r[m[k].id] = l[m[k].id]
      BY <1>7, <3>1
    <3> QED
      BY <3>1, <3>2 DEF Shows
  <2> QED
    BY <2>1, <2>2
<1>9. r = [b \in Ids(put, 1 .. n) |-> r[b]]
  BY <1>6, <1>7
<1>10. Shows(put, 1 .. n, r)
  BY <1>8, <1>9 DEF Shows
<1> QED
  BY <1>2, <1>3, <1>4, <1>10

\* The loop of apk_info_copy does to the array what Renumber does to the list,
\* and leaves no two members with one number.
LEMMA RenumberShows ==
    ASSUME NEW m \in Seq(Slots), NEW n \in Nat, n <= Len(m), NEW d \in 1 .. n,
           Keyed(m, 1 .. n),
           NumberedBut(m, n, d),
           NEW l, Shows(m, 1 .. n, l),
           NEW u, u = Unshare(m, n, d), NEW a, a = m[d].id
    PROVE  Shows(u, 1 .. n, Renumber(l, a)) /\ Keyed(u, 1 .. n) /\ Numbered(u, 1 .. n)
<1>1. DOMAIN l = Ids(m, 1 .. n) /\ Cardinality(DOMAIN l) = n
  BY ShownCardinality
<1>2. PICK F : F = Free(m, n)
  OBVIOUS
<1>3. \A k \in 1 .. n : m[k].id \in DOMAIN l /\ l[m[k].id] = Item(m[k])
  BY <1>1 DEF Shows, Ids
<1>n. \A k \in 1 .. n : l[m[k].id].seq = m[k].seq
  <2> SUFFICES ASSUME NEW k \in 1 .. n PROVE l[m[k].id].seq = m[k].seq
    OBVIOUS
  <2>1. PICK e, b : e = m[k] /\ b = m[k].id
    OBVIOUS
  <2>2. l[b] = Item(e)
    BY <1>3, <2>1
  <2>3. l[b].seq = e.seq
    BY <2>2, ItemFields, Zenon
  <2> QED
    BY <2>1, <2>3, Zenon
<1>4. Numbers(l) = {m[j].seq : j \in 1 .. n}
  <2>1. ASSUME NEW x \in DOMAIN l PROVE l[x].seq \in {m[j].seq : j \in 1 .. n}
    <3>1. PICK k \in 1 .. n : x = m[k].id
      BY <1>1 DEF Ids
    <3>2. l[x].seq = m[k].seq
      BY <1>n, <3>1
    <3> QED
      BY <3>2
  <2>2. ASSUME NEW k \in 1 .. n PROVE m[k].seq \in Numbers(l)
    <3>1. l[m[k].id].seq = m[k].seq /\ m[k].id \in DOMAIN l
      BY <1>3, <1>n
    <3> QED
      BY <3>1, Zenon DEF Numbers
  <2> QED
    BY <2>1, <2>2 DEF Numbers
<1>5. FreeNumbers(l) = F
  BY <1>1, <1>2, <1>4 DEF FreeNumbers, Free
<1>6. ASSUME NEW k \in 1 .. n
      PROVE  IF k # d /\ m[k].seq = m[d].seq
             THEN F # {} /\ Least(F) \in F /\ u[k] = [m[k] EXCEPT !.seq = Least(F)]
             ELSE u[k] = m[k]
  <2>1. IF k # d /\ m[k].seq = m[d].seq
        THEN /\ F # {} /\ Least(F) \in F
             /\ Unshare(m, n, d)[k] = [m[k] EXCEPT !.seq = Least(F)]
        ELSE Unshare(m, n, d)[k] = m[k]
    BY <1>2, UnshareOne
  <2> QED
    BY <2>1, Zenon
<1>7. \A k \in 1 .. n : m[k] \in Slots /\ k \in 1 .. Len(m)
  <2>1. \A k \in 1 .. n : k \in 1 .. Len(m)
    OBVIOUS
  <2> QED
    BY <2>1
<1>8. \A k \in 1 .. n : u[k].id = m[k].id
  BY <1>7, UnshareSlots
<1>9. Keyed(u, 1 .. n) /\ Ids(u, 1 .. n) = Ids(m, 1 .. n)
  BY <1>8 DEF Keyed, Ids
<1>10. ASSUME NEW k \in 1 .. n
       PROVE  m[k].id \in Clashes(l, a) <=> k # d /\ m[k].seq = m[d].seq
  <2>1. l[m[k].id].seq = m[k].seq /\ l[a].seq = m[d].seq /\ m[k].id \in DOMAIN l
    BY <1>3, <1>n
  <2>2. m[k].id = a <=> k = d
    BY DEF Keyed
  <2> QED
    BY <2>1, <2>2 DEF Clashes
<1>11. ASSUME NEW k \in 1 .. n PROVE Renumber(l, a)[u[k].id] = Item(u[k])
  <2>1. PICK b : b = m[k].id
    OBVIOUS
  <2>2. b \in DOMAIN l /\ l[b] = Item(m[k]) /\ u[k].id = b
    BY <1>3, <1>8, <2>1
  <2>3. Renumber(l, a)[b] =
           IF b \in Clashes(l, a) /\ F # {} THEN [l[b] EXCEPT !.seq = Least(F)] ELSE l[b]
    BY <1>5, <2>2, Zenon DEF Renumber
  <2>4. PICK f : f = Least(F)
    OBVIOUS
  <2>5. CASE k # d /\ m[k].seq = m[d].seq
    <3>1. Renumber(l, a)[b] = [Item(m[k]) EXCEPT !.seq = f]
      BY <1>6, <1>10, <2>1, <2>2, <2>3, <2>4, <2>5
    <3>2. u[k] = [m[k] EXCEPT !.seq = f]
      BY <1>6, <2>4, <2>5
    <3>3. u[k].seq = f /\ u[k].stamp = m[k].stamp
      BY <1>7, <3>2 DEF Slots
    <3> QED
      BY <2>2, <3>1, <3>3 DEF Item
  <2>6. CASE ~ (k # d /\ m[k].seq = m[d].seq)
    BY <1>6, <1>10, <2>1, <2>2, <2>3, <2>6
  <2> QED
    BY <2>5, <2>6
<1>12. Renumber(l, a) = [b \in DOMAIN l |-> Renumber(l, a)[b]]
  BY DEF Renumber
<1>13. Shows(u, 1 .. n, Renumber(l, a))
  <2>1. PICK r : r = Renumber(l, a)
    OBVIOUS
  <2>2. r = [b \in Ids(u, 1 .. n) |-> r[b]]
    BY <1>1, <1>9, <1>12, <2>1, Zenon
  <2>3. \A k \in 1 .. n : r[u[k].id] = Item(u[k])
    BY <1>11, <2>1, Zenon
  <2> QED
    BY <2>1, <2>2, <2>3, Zenon DEF Shows
<1>14. Numbered(u, 1 .. n)
  <2> SUFFICES ASSUME NEW j \in 1 .. n, NEW k \in 1 .. n, u[j].seq = u[k].seq PROVE j = k
    BY DEF Numbered
  <2>1. PICK f : f = Least(F)
    OBVIOUS
  <2>2. ASSUME NEW x \in 1 .. n
        PROVE  IF x # d /\ m[x].seq = m[d].seq
               THEN u[x].seq = f /\ \A y \in 1 .. n : m[y].seq # f
               ELSE u[x].seq = m[x].seq
    <3>1. CASE x # d /\ m[x].seq = m[d].seq
      <4>1. u[x] = [m[x] EXCEPT !.seq = f] /\ f \in F
        BY <1>6, <2>1, <3>1
      <4>2. u[x].seq = f
        BY <1>7, <4>1 DEF Slots
      <4> QED
        BY <1>2, <3>1, <4>1, <4>2 DEF Free
    <3>2. CASE ~ (x # d /\ m[x].seq = m[d].seq)
      BY <1>6, <3>2
    <3> QED
      BY <3>1, <3>2
  <2>3. \/ j # d /\ k # d /\ m[j].seq = m[k].seq
        \/ j = d /\ k = d
    BY <2>2
  <2> QED
    BY <2>3 DEF NumberedBut
<1> QED
  BY <1>9, <1>13, <1>14

\* apk_info_copy and the sorting that follows it record the application.
LEMMA CopyShows ==
    ASSUME NEW m \in Seq(Slots), NEW n \in Nat, n <= Len(m), NEW d \in 1 .. n,
           NEW a \in Apps, NEW q \in Nat, heap \subseteq Nat \ {0}, IsFiniteSet(heap),
           NEW S, Place(m, S, n, d, a), Keyed(m, S), Numbered(m, S),
           NEW l, Shows(m, S, l), CopyInto(m, n, d, a, q)
    PROVE  /\ Shows(base', 1 .. n, RecordApk(l, a, [seq |-> q, stamp |-> 1]))
           /\ Keyed(base', 1 .. n) /\ Numbered(base', 1 .. n)
<1>1. PICK b : b = NewBlock(heap \ {m[d].blk})
  OBVIOUS
<1>2. PICK e : e = [blk |-> b, id |-> a, seq |-> q, stamp |-> 1]
  OBVIOUS
<1>3. PICK put : put = [m EXCEPT ![d] = e]
  OBVIOUS
<1>4. PICK u : u = Unshare(put, n, d)
  OBVIOUS
<1>5. base' \in Sorted(u, n)
  BY <1>1, <1>2, <1>3, <1>4 DEF CopyInto
<1>6. b \in Nat \ {0} /\ d \in 1 .. Len(m)
  <2>1. heap \ {m[d].blk} \in SUBSET (Nat \ {0}) /\ IsFiniteSet(heap \ {m[d].blk})
    BY FS_Subset
  <2> QED
    BY <1>1, <2>1, NewBlockFresh
<1>7. e \in Slots /\ e.id = a /\ Item(e) = [seq |-> q, stamp |-> 1]
  BY <1>2, <1>6 DEF Slots, Item
<1>8. /\ put \in Seq(Slots) /\ Len(put) = Len(m) /\ put[d] = e
      /\ \A k \in 1 .. n : k # d => put[k] = m[k]
  BY <1>3, <1>6, <1>7
<1>9. PICK r : r = Put(l, a, Item(e))
  OBVIOUS
<1>10. Shows(put, 1 .. n, r) /\ Keyed(put, 1 .. n) /\ NumberedBut(put, n, d)
  <2>1. put[d].id = a /\ Item(put[d]) = Item(e)
    BY <1>7, <1>8
  <2>2. OnlyAt(m, put, n, d)
    BY <1>8 DEF OnlyAt
  <2> QED
    BY <1>9, <2>1, <2>2, PutShows
<1>11. /\ Shows(u, 1 .. n, Renumber(r, a)) /\ Keyed(u, 1 .. n) /\ Numbered(u, 1 .. n)
       /\ u \in Seq(Slots) /\ n <= Len(u)
  <2>1. a = put[d].id /\ n <= Len(put)
    BY <1>7, <1>8
  <2>2. Shows(u, 1 .. n, Renumber(r, a)) /\ Keyed(u, 1 .. n) /\ Numbered(u, 1 .. n)
    BY <1>4, <1>8, <1>10, <2>1, RenumberShows
  <2>3. u \in Seq(Slots) /\ Len(u) = Len(put)
    BY <1>4, <1>8, UnshareSlots
  <2> QED
    BY <2>1, <2>2, <2>3
<1>12. PICK t : t = Renumber(r, a)
  OBVIOUS
<1>13. PICK s : s = base'
  OBVIOUS
<1>14. Same(u, 1 .. n, s, 1 .. n) /\ Keyed(s, 1 .. n) /\ Numbered(s, 1 .. n)
  BY <1>5, <1>11, <1>13, SortedShows
<1>15. Shows(s, 1 .. n, t)
  BY <1>11, <1>12, <1>14, SameShown
<1>16. t = RecordApk(l, a, [seq |-> q, stamp |-> 1])
  BY <1>7, <1>9, <1>12 DEF RecordApk
<1> QED
  BY <1>13, <1>14, <1>15, <1>16

-----------------------------------------------------------------------------
(* The array implements AppRegistry. *)

\* The abstract specification has operators of the same names.
LEMMA RegistryOps ==
    /\ \A l : Registry!Numbers(l) = Numbers(l)
    /\ \A l, a, e : Registry!Put(l, a, e) = Put(l, a, e)
    /\ \A l, a, e : Registry!RecordApk(l, a, e) = RecordApk(l, a, e)
    /\ \A l, a, t : Registry!Stamp(l, a, t) = Stamp(l, a, t)
    /\ \A l, t : Registry!DropOverdue(l, t) = DropOverdue(l, t)
<1>1. \A l : Registry!Numbers(l) = Numbers(l)
  BY Zenon DEF Registry!Numbers, Numbers
<1>2. \A l, a, e : Registry!Put(l, a, e) = Put(l, a, e)
  BY Zenon DEF Registry!Put, Put
<1>3. \A l, a, e : Registry!RecordApk(l, a, e) = RecordApk(l, a, e)
  <2>1. \A S : Registry!Least(S) = Least(S)
    BY Zenon DEF Registry!Least, Least
  <2>c. \A S : Registry!Cardinality(S) = Cardinality(S)
    BY Zenon DEF Registry!Cardinality, Cardinality
  <2>2. \A l : Registry!FreeNumbers(l) = FreeNumbers(l)
    BY <1>1, <2>c, Zenon DEF Registry!FreeNumbers, FreeNumbers
  <2>3. \A l, a : Registry!Clashes(l, a) = Clashes(l, a)
    BY Zenon DEF Registry!Clashes, Clashes
  <2>4. ASSUME NEW l, NEW a PROVE Registry!Renumber(l, a) = Renumber(l, a)
    <3>1. PICK F, f, C : F = FreeNumbers(l) /\ f = Least(F) /\ C = Clashes(l, a)
      OBVIOUS
    <3>2. Renumber(l, a) =
            [b \in DOMAIN l |-> IF b \in C /\ F # {} THEN [l[b] EXCEPT !.seq = f] ELSE l[b]]
      BY <3>1, Zenon DEF Renumber
    <3>3. Registry!FreeNumbers(l) = F /\ Registry!Least(F) = f /\ Registry!Clashes(l, a) = C
      BY <2>1, <2>2, <2>3, <3>1, Zenon
    <3>4. Registry!Renumber(l, a) =
            [b \in DOMAIN l |-> IF b \in C /\ F # {} THEN [l[b] EXCEPT !.seq = f] ELSE l[b]]
      BY <3>3, Zenon DEF Registry!Renumber
    <3> QED
      BY <3>2, <3>4, Zenon
  <2> QED
    BY <1>2, <2>4, Zenon DEF Registry!RecordApk, RecordApk
<1>4. \A l, a, t : Registry!Stamp(l, a, t) = Stamp(l, a, t)
  BY Zenon DEF Registry!Stamp, Stamp
<1>5. \A l, t : Registry!DropOverdue(l, t) = DropOverdue(l, t)
  BY Zenon DEF Registry!DropOverdue, DropOverdue
<1> QED
  BY <1>1, <1>2, <1>3, <1>4, <1>5, Zenon

\* Members have ids and numbers of their own, and what the drop loop has passed
\* stays.
KeyInv ==
    /\ OwnInv /\ Keyed(base, 1 .. nmember) /\ Numbered(base, 1 .. nmember)
    /\ pc = "drop" => \A k \in 1 .. nmember : k < i => base[k].stamp # 0

\* The list the array represents, before and after a step.
LEMMA MapIsList ==
    /\ Map = ListOf(base, Listed)
    /\ Map' = ListOf(base', Listed')
BY Zenon DEF Map, ListOf, Ids

\* A list that shows the listed slots after a step is the abstract list.
LEMMA MapShown ==
    ASSUME NEW r, Keyed(base', Listed'), Shows(base', Listed', r)
    PROVE  Map' = r
<1>1. PICK m, S : m = base' /\ S = Listed'
  OBVIOUS
<1>2. Keyed(m, S) /\ Shows(m, S, r)
  BY <1>1
<1>3. r = ListOf(m, S)
  BY <1>2, ShownIsList
<1> QED
  BY <1>1, <1>3, MapIsList

\* Entries that change in place.
LEMMA ChangedShown ==
    ASSUME NEW m, NEW s, NEW S, NEW l, Shows(m, S, l), NEW r, r = [b \in DOMAIN l |-> r[b]],
           \A k \in S : s[k].id = m[k].id /\ r[m[k].id] = Item(s[k])
    PROVE  Shows(s, S, r)
<1>1. DOMAIN l = Ids(s, S)
  BY DEF Shows, Ids
<1> QED
  BY <1>1 DEF Shows

LEMMA KeyInit == Init => KeyInv /\ Registry!Init
<1> SUFFICES ASSUME Init PROVE KeyInv /\ Registry!Init
  OBVIOUS
<1>1. 1 .. nmember = {} /\ pc # "drop"
  BY DEF Init
<1>2. KeyInv
  BY <1>1, OwnInit DEF KeyInv, Keyed, Numbered
<1>3. {base[k].id : k \in Listed} = {}
  BY <1>1 DEF Listed, Members
<1>4. Map = [a \in {} |-> 0]
  BY <1>3 DEF Map
<1> QED
  BY <1>2, <1>4 DEF Registry!Init

LEMMA KeyNext ==
    KeyInv /\ [Next]_vars => KeyInv' /\ (Registry!Next \/ Map' = Map)
<1> SUFFICES ASSUME KeyInv, [Next]_vars PROVE KeyInv' /\ (Registry!Next \/ Map' = Map)
  OBVIOUS
<1>0. /\ OwnInv /\ OwnInv' /\ Keyed(base, 1 .. nmember) /\ Numbered(base, 1 .. nmember)
      /\ base \in Seq(Slots) /\ nmember \in Nat /\ nmember < Len(base) /\ Len(base) \in Nat
      /\ heap \subseteq Nat \ {0} /\ IsFiniteSet(heap)
      /\ i \in 0 .. nmember + 1 /\ pc \in {"load", "run", "drop", "exited"}
  BY OwnNext DEF KeyInv, OwnInv, ArrayOK, capacity
<1>d. pc = "drop" => i > 0 /\ \A k \in 1 .. nmember : k < i => base[k].stamp # 0
  BY DEF KeyInv, OwnInv
<1>s. \A k \in 1 .. nmember : k \in 1 .. Len(base) /\ base[k] \in Slots
  <2>1. \A k \in 1 .. nmember : k \in 1 .. Len(base)
    BY <1>0
  <2> QED
    BY <1>0, <2>1
<1>l. PICK l : l = Map
  OBVIOUS
<1>m. /\ Listed \subseteq 1 .. nmember /\ (pc # "drop" => Listed = 1 .. nmember)
      /\ Shows(base, Listed, l)
  <2>1. Listed \subseteq 1 .. nmember /\ (pc # "drop" => Listed = 1 .. nmember)
    BY DEF Listed, Members
  <2>2. Keyed(base, Listed)
    BY <1>0, <2>1 DEF Keyed
  <2> QED
    BY <1>l, <2>1, <2>2, ListShown, MapIsList
<1>r. ASSUME NEW r, pc' # "drop", Shows(base', 1 .. nmember', r),
             Keyed(base', 1 .. nmember'), Numbered(base', 1 .. nmember')
      PROVE  KeyInv' /\ Map' = r
  <2>1. Listed' = 1 .. nmember'
    BY <1>r DEF Listed, Members
  <2>2. Map' = r
    BY <1>r, <2>1, MapShown
  <2> QED
    BY <1>0, <1>r, <2>2 DEF KeyInv
<1>1. ASSUME NEW a \in Apps, NEW q \in SeqNos, NEW c \in BOOLEAN, init_soft_list(a, q, c)
      PROVE  KeyInv' /\ (Registry!Next \/ Map' = Map)
  <2>1. PICK d, b, e, filled :
           /\ d = nmember + 1 /\ b = NewBlock(heap \ {base[d].blk})
           /\ e = [blk |-> b, id |-> a, seq |-> q, stamp |-> 1]
           /\ filled = [base EXCEPT ![d] = e]
    OBVIOUS
  <2>2. /\ pc = "load" /\ UNCHANGED pc
        /\ find_apk_info(a) = {} /\ \A k \in 1 .. nmember : base[k].seq # q
        /\ \/ nmember' = nmember + 1 /\ base' = Enlarged(filled, nmember + 1)
           \/ nmember' = nmember /\ base' = filled
    BY <1>1, <2>1 DEF init_soft_list, Members
  <2>3. b \in Nat \ {0} /\ d \in 1 .. Len(base) /\ q \in Nat
    <3>1. heap \ {base[d].blk} \in SUBSET (Nat \ {0}) /\ IsFiniteSet(heap \ {base[d].blk})
      BY <1>0, FS_Subset
    <3> QED
      BY <1>0, <2>1, <3>1, NewBlockFresh, ArrayAssumption
  <2>4. e \in Slots /\ e.id = a /\ e.seq = q /\ Item(e) = [seq |-> q, stamp |-> 1]
    BY <2>1, <2>3 DEF Slots, Item
  <2>5. /\ filled \in Seq(Slots) /\ Len(filled) = Len(base) /\ filled[d] = e
        /\ \A k \in 1 .. nmember : filled[k] = base[k] /\ base[k].id # a
    <3>1. \A k \in 1 .. nmember : k \in 1 .. Len(base) /\ k # d
      BY <1>0, <2>1
    <3>2. \A k \in 1 .. nmember : base[k].id # a
      BY <2>2 DEF find_apk_info, Members
    <3>3. filled = [base EXCEPT ![d] = e]
      BY <2>1
    <3>4. /\ filled \in Seq(Slots) /\ Len(filled) = Len(base) /\ filled[d] = e
          /\ \A k \in 1 .. Len(base) : k # d => filled[k] = base[k]
      BY <1>0, <2>3, <2>4, <3>3
    <3> QED
      BY <3>1, <3>2, <3>4
  <2>6. Shows(base, 1 .. nmember, l)
    BY <1>m, <2>2
  <2>7. CASE nmember' = nmember /\ base' = filled
    <3>1. Keyed(base', 1 .. nmember') /\ Numbered(base', 1 .. nmember')
      BY <1>0, <2>5, <2>7 DEF Keyed, Numbered
    <3>2. Shows(filled, 1 .. nmember, l)
      <4>1. PICK S : S = 1 .. nmember
        OBVIOUS
      <4>2. Same(base, S, filled, S)
        BY <2>5, <4>1 DEF Same
      <4> QED
        BY <2>6, <4>1, <4>2, SameShown
    <3> QED
      BY <1>l, <1>r, <2>2, <2>7, <3>1, <3>2
  <2>8. CASE nmember' = nmember + 1 /\ base' = Enlarged(filled, nmember + 1)
    <3>1. d \in Nat /\ d <= Len(filled) /\ Len(filled) > 0 /\ d \in 1 .. d
      BY <1>0, <2>1, <2>5
    <3>2. PICK s : s = base'
      OBVIOUS
    <3>3. s[d] = e /\ \A k \in 1 .. nmember : s[k] = base[k] /\ s[k].id # a
      <4>1. \A k \in 1 .. Len(filled) : s[k] = filled[k]
        <5>1. s = Enlarged(filled, d)
          BY <2>1, <2>8, <3>2
        <5> QED
          BY <2>5, <3>1, <5>1, EnlargedSlots
      <4>2. d \in 1 .. Len(filled) /\ \A k \in 1 .. nmember : k \in 1 .. Len(filled)
        BY <1>0, <2>3, <2>5
      <4> QED
        BY <2>5, <4>1, <4>2
    <3>4. \A k \in 1 .. d : k # d => k \in 1 .. nmember
      BY <1>0, <2>1
    <3>5. OnlyAt(base, s, d, d) /\ s[d].id = a /\ Item(s[d]) = Item(e)
      BY <2>4, <3>3, <3>4 DEF OnlyAt
    <3>6. Place(base, 1 .. nmember, d, d, a)
      <4>1. (1 .. nmember) \cup {d} = 1 .. d
        BY <1>0, <2>1
      <4>2. d \notin 1 .. nmember
        BY <1>0, <2>1
      <4> QED
        BY <2>5, <4>1, <4>2 DEF Place
    <3>7. Shows(s, 1 .. d, Put(l, a, Item(e))) /\ Keyed(s, 1 .. d)
      <4>1. PICK S : S = 1 .. nmember
        OBVIOUS
      <4>2. Place(base, S, d, d, a) /\ Keyed(base, S) /\ Numbered(base, S) /\ Shows(base, S, l)
        BY <1>0, <2>6, <3>6, <4>1
      <4> QED
        BY <3>1, <3>5, <4>2, PutShows
    <3>8. Numbered(s, 1 .. d)
      <4> SUFFICES ASSUME NEW j \in 1 .. d, NEW k \in 1 .. d, s[j].seq = s[k].seq PROVE j = k
        BY DEF Numbered
      <4>1. CASE j # d /\ k # d
        BY <1>0, <3>3, <3>4, <4>1 DEF Numbered
      <4>2. CASE j = d \/ k = d
        BY <2>2, <2>4, <3>3, <3>4, <4>2
      <4> QED
        BY <4>1, <4>2
    <3>9. KeyInv' /\ Map' = Put(l, a, Item(e))
      <4>1. PICK r : r = Put(l, a, Item(e))
        OBVIOUS
      <4> QED
        BY <1>r, <2>1, <2>2, <2>8, <3>2, <3>7, <3>8, <4>1
    <3>10. a \notin DOMAIN l /\ q \notin Numbers(l)
      <4>1. DOMAIN l = Ids(base, 1 .. nmember)
        BY <2>6 DEF Shows
      <4>2. a \notin DOMAIN l
        BY <2>5, <4>1 DEF Ids
      <4>3. ASSUME NEW x \in DOMAIN l PROVE l[x].seq # q
        <5>1. PICK k \in 1 .. nmember : x = base[k].id
          BY <4>1 DEF Ids
        <5>2. PICK v : v = base[k]
          OBVIOUS
        <5>3. l[x] = Item(v) /\ v.seq # q
          BY <2>2, <2>6, <5>1, <5>2 DEF Shows
        <5>4. l[x].seq = v.seq
          BY <5>3, ItemFields, Zenon
        <5> QED
          BY <5>3, <5>4
      <4> QED
        BY <4>2, <4>3 DEF Numbers
    <3>11. Registry!Load(a, q)
      BY <1>l, <2>4, <3>9, <3>10, RegistryOps DEF Registry!Load, Registry!New
    <3> QED
      BY <3>9, <3>11 DEF Registry!Next
  <2> QED
    BY <2>2, <2>7, <2>8
<1>2. ASSUME NEW a \in Apps, NEW q \in SeqNos, Overwrite(a, q)
      PROVE  KeyInv' /\ Registry!Record(a, q)
  <2>1. PICK d \in 1 .. nmember : base[d].id = a /\ CopyInto(base, nmember, d, a, q)
    BY <1>2 DEF Overwrite, find_apk_info, Members
  <2>2. pc = "run" /\ UNCHANGED <<nmember, pc>> /\ q \in Nat /\ nmember <= Len(base)
    BY <1>0, <1>2, ArrayAssumption DEF Overwrite
  <2>3. PICK S, r : S = 1 .. nmember /\ r = RecordApk(l, a, [seq |-> q, stamp |-> 1])
    OBVIOUS
  <2>4. /\ Place(base, S, nmember, d, a) /\ Keyed(base, S) /\ Numbered(base, S)
        /\ Shows(base, S, l)
    BY <1>0, <1>m, <2>1, <2>2, <2>3 DEF Place, Keyed
  <2>5. Shows(base', 1 .. nmember, r) /\ Keyed(base', 1 .. nmember) /\ Numbered(base', 1 .. nmember)
    BY <1>0, <2>1, <2>2, <2>3, <2>4, CopyShows
  <2>6. KeyInv' /\ Map' = r
    BY <1>r, <2>2, <2>5
  <2> QED
    BY <1>l, <2>3, <2>6, RegistryOps DEF Registry!Record, Registry!New
<1>3. ASSUME NEW a \in Apps, NEW q \in SeqNos, AppendEntry(a, q)
      PROVE  KeyInv' /\ Registry!Record(a, q)
  <2>1. PICK n, m, S, r :
           /\ n = nmember + 1 /\ m = Room /\ S = 1 .. nmember
           /\ r = RecordApk(l, a, [seq |-> q, stamp |-> 1])
    OBVIOUS
  <2>2. /\ n \in Nat /\ n <= Len(base) /\ Len(base) > 0 /\ q \in Nat /\ n \in 1 .. n
        /\ S \cup {n} = 1 .. n /\ n \notin S
    BY <1>0, <2>1, ArrayAssumption
  <2>3. /\ m \in Seq(Slots) /\ Len(m) > n /\ \A k \in 1 .. Len(base) : m[k] = base[k]
    <3>1. m = Enlarged(base, n)
      BY <2>1 DEF Room
    <3> QED
      BY <1>0, <2>2, <3>1, EnlargedSlots
  <2>4. /\ CopyInto(m, n, n, a, q) /\ nmember' = n /\ pc = "run" /\ UNCHANGED pc
        /\ \A k \in S : base[k].id # a
    BY <1>3, <2>1 DEF AppendEntry, find_apk_info, Members
  <2>5. \A k \in S : m[k] = base[k]
    BY <1>s, <2>1, <2>3
  <2>6. Place(m, S, n, n, a)
    BY <2>2, <2>4, <2>5 DEF Place
  <2>7. Keyed(m, S) /\ Numbered(m, S)
    BY <1>0, <2>1, <2>5 DEF Keyed, Numbered
  <2>8. Shows(m, S, l)
    <3>1. Shows(base, S, l)
      BY <1>m, <2>1, <2>4
    <3>2. Same(base, S, m, S)
      BY <2>5 DEF Same
    <3> QED
      BY <3>1, <3>2, SameShown
  <2>9. Shows(base', 1 .. n, r) /\ Keyed(base', 1 .. n) /\ Numbered(base', 1 .. n)
    <3>1. n <= Len(m)
      BY <2>2, <2>3
    <3>2. r = RecordApk(l, a, [seq |-> q, stamp |-> 1])
      BY <2>1
    <3> QED
      BY <1>0, <2>2, <2>3, <2>4, <2>6, <2>7, <2>8, <3>1, <3>2, CopyShows
  <2>10. KeyInv' /\ Map' = r
    BY <1>r, <2>4, <2>9
  <2> QED
    BY <1>l, <2>1, <2>10, RegistryOps DEF Registry!Record, Registry!New
<1>4. ASSUME NEW a \in Apps, update_apk_timestamp(a)
      PROVE  KeyInv' /\ Registry!Mark(a)
  <2>1. PICK k \in 1 .. nmember : base[k].id = a /\ base' = [base EXCEPT ![k].stamp = 1]
    BY <1>4 DEF update_apk_timestamp, find_apk_info, Members
  <2>2. PICK e, r, S, v :
           /\ e = [base[k] EXCEPT !.stamp = 1] /\ v = base[k]
           /\ r = Stamp(l, a, 1) /\ S = 1 .. nmember
    OBVIOUS
  <2>3. v \in Slots /\ k \in 1 .. Len(base)
    BY <1>s, <2>2
  <2>4. e.id = a /\ e.seq = v.seq /\ e.stamp = 1
    BY <2>1, <2>2, <2>3 DEF Slots
  <2>5. base' = [base EXCEPT ![k] = e]
    BY <2>1, <2>2
  <2>6. \A j \in S : base'[j] = IF j = k THEN e ELSE base[j]
    BY <1>0, <1>s, <2>2, <2>5
  <2>7. pc = "run" /\ UNCHANGED <<pc, nmember>> /\ Shows(base, S, l)
    BY <1>4, <1>m, <2>2 DEF update_apk_timestamp
  <2>8. DOMAIN l = Ids(base, S) /\ \A j \in S : l[base[j].id] = Item(base[j])
    BY <2>7 DEF Shows
  <2>9. r = [b \in DOMAIN l |-> IF b = a THEN [l[b] EXCEPT !.stamp = 1] ELSE l[b]]
    BY <2>2 DEF Stamp
  <2>10. ASSUME NEW j \in S PROVE base'[j].id = base[j].id /\ r[base[j].id] = Item(base'[j])
    <3>0. base[j].id \in DOMAIN l
      BY <2>8 DEF Ids
    <3>1. CASE j = k
      <4>1. r[a] = [Item(v) EXCEPT !.stamp = 1]
        BY <2>1, <2>2, <2>8, <2>9, <3>0, <3>1
      <4>2. Item(e) = [seq |-> v.seq, stamp |-> 1]
        BY <2>4 DEF Item
      <4>3. [Item(v) EXCEPT !.stamp = 1] = [seq |-> v.seq, stamp |-> 1]
        BY DEF Item
      <4> QED
        BY <2>1, <2>4, <2>6, <3>1, <4>1, <4>2, <4>3
    <3>2. CASE j # k
      <4>1. base[j].id # a
        BY <1>0, <2>1, <2>2, <3>2 DEF Keyed
      <4> QED
        BY <2>6, <2>8, <2>9, <3>0, <3>2, <4>1
    <3> QED
      BY <3>1, <3>2
  <2>11. PICK s : s = base'
    OBVIOUS
  <2>12. r = [b \in DOMAIN l |-> r[b]]
    BY <2>9
  <2>13. Shows(s, S, r)
    BY <2>7, <2>10, <2>11, <2>12, ChangedShown
  <2>14. Keyed(s, S) /\ Numbered(s, S)
    <3>1. \A j \in S : s[j].id = base[j].id /\ s[j].seq = base[j].seq
      BY <2>1, <2>2, <2>4, <2>6, <2>11
    <3> QED
      BY <1>0, <2>2, <3>1 DEF Keyed, Numbered
  <2>15. KeyInv' /\ Map' = r
    BY <1>r, <2>2, <2>7, <2>11, <2>13, <2>14
  <2> QED
    BY <1>l, <2>2, <2>15, RegistryOps DEF Registry!Mark
<1>5. ASSUME NextPhase PROVE KeyInv' /\ Registry!Age
  <2>1. PICK r, S, s :
           r = [a \in DOMAIN l |-> [l[a] EXCEPT !.stamp = 0]] /\ S = 1 .. nmember /\ s = base'
    OBVIOUS
  <2>2. \A k \in S : s[k] = [base[k] EXCEPT !.stamp = 0]
    BY <1>5, <1>s, <2>1 DEF NextPhase, Members, capacity
  <2>3. pc = "run" /\ UNCHANGED <<pc, nmember>> /\ Shows(base, S, l)
    BY <1>5, <1>m, <2>1 DEF NextPhase
  <2>4. DOMAIN l = Ids(base, S) /\ \A j \in S : l[base[j].id] = Item(base[j])
    BY <2>3 DEF Shows
  <2>5. \A k \in S : s[k].id = base[k].id /\ s[k].seq = base[k].seq /\ s[k].stamp = 0
    BY <1>s, <2>1, <2>2 DEF Slots
  <2>6. ASSUME NEW k \in S PROVE r[base[k].id] = Item(s[k])
    <3>1. PICK v, b : v = base[k] /\ b = base[k].id
      OBVIOUS
    <3>2. b \in DOMAIN l /\ l[b] = Item(v)
      BY <2>4, <3>1 DEF Ids
    <3>3. r[b] = [Item(v) EXCEPT !.stamp = 0]
      BY <2>1, <3>2
    <3>4. [Item(v) EXCEPT !.stamp = 0] = [seq |-> v.seq, stamp |-> 0]
      BY DEF Item
    <3>5. Item(s[k]) = [seq |-> v.seq, stamp |-> 0]
      BY <2>5, <3>1 DEF Item
    <3> QED
      BY <3>1, <3>3, <3>4, <3>5
  <2>7. r = [a \in DOMAIN l |-> r[a]]
    BY <2>1
  <2>8. Shows(s, S, r)
    BY <2>3, <2>5, <2>6, <2>7, ChangedShown
  <2>9. Keyed(s, S) /\ Numbered(s, S)
    BY <1>0, <2>1, <2>5 DEF Keyed, Numbered
  <2>10. KeyInv' /\ Map' = r
    BY <1>r, <2>1, <2>3, <2>8, <2>9
  <2> QED
    BY <1>l, <2>1, <2>10 DEF Registry!Age
<1>6. ASSUME Loaded \/ FreeGarbage \/ KeepSlot \/ UNCHANGED vars
      PROVE  KeyInv' /\ Map' = Map
  <2>1. UNCHANGED <<base, nmember>> /\ (pc = "drop" <=> pc' = "drop")
    BY <1>6 DEF Loaded, FreeGarbage, KeepSlot, vars
  <2>2. Listed' = Listed
    BY <2>1 DEF Listed, Members
  <2>3. Map' = Map
    BY <2>1, <2>2 DEF Map
  <2>4. pc' = "drop" => \A k \in 1 .. nmember' : k < i' => base'[k].stamp # 0
    <3>1. CASE KeepSlot
      BY <1>0, <1>d, <2>1, <3>1 DEF KeepSlot
    <3>2. CASE UNCHANGED vars
      BY <1>d, <3>2 DEF vars
    <3>3. CASE Loaded \/ FreeGarbage
      BY <3>3 DEF Loaded, FreeGarbage
    <3> QED
      BY <1>6, <3>1, <3>2, <3>3
  <2> QED
    BY <1>0, <2>1, <2>3, <2>4 DEF KeyInv
<1>7. ASSUME StartDrop PROVE KeyInv' /\ Registry!Forget
  <2>1. PICK r, S : r = DropOverdue(l, 1) /\ S = {k \in 1 .. nmember : base[k].stamp # 0}
    OBVIOUS
  <2>2. /\ pc = "run" /\ pc' = "drop" /\ i' = 1 /\ UNCHANGED <<base, nmember>>
        /\ Shows(base, 1 .. nmember, l)
    BY <1>7, <1>m DEF StartDrop
  <2>3. Listed' = S
    BY <2>1, <2>2 DEF Listed, Members
  <2>4. DOMAIN l = Ids(base, 1 .. nmember)
    BY <2>2 DEF Shows
  <2>5. \A k \in 1 .. nmember : l[base[k].id] = Item(base[k])
    BY <2>2 DEF Shows
  <2>6. ASSUME NEW k \in 1 .. nmember PROVE l[base[k].id].stamp >= 1 <=> k \in S
    <3>1. PICK v, b : v = base[k] /\ b = base[k].id
      OBVIOUS
    <3>2. l[b] = Item(v) /\ v \in Slots
      BY <1>s, <2>5, <3>1
    <3>3. l[b].stamp = v.stamp
      BY <3>2, ItemFields, Zenon
    <3>4. v.stamp \in {0, 1}
      BY <3>2 DEF Slots
    <3>5. k \in S <=> v.stamp # 0
      BY <2>1, <3>1
    <3>6. l[base[k].id].stamp = v.stamp
      BY <3>1, <3>3, Zenon
    <3> QED
      BY <3>4, <3>5, <3>6
  <2>7. {b \in DOMAIN l : l[b].stamp >= 1} = Ids(base, S)
    <3>1. ASSUME NEW b \in DOMAIN l, l[b].stamp >= 1 PROVE b \in Ids(base, S)
      <4>1. PICK k \in 1 .. nmember : b = base[k].id
        BY <2>4 DEF Ids
      <4>2. k \in S
        BY <2>6, <3>1, <4>1
      <4> QED
        BY <4>1, <4>2 DEF Ids
    <3>2. ASSUME NEW b \in Ids(base, S) PROVE b \in DOMAIN l /\ l[b].stamp >= 1
      <4>1. PICK k \in S : b = base[k].id
        BY DEF Ids
      <4>2. k \in 1 .. nmember
        BY <2>1
      <4> QED
        BY <2>4, <2>6, <4>1, <4>2 DEF Ids
    <3> QED
      BY <3>1, <3>2
  <2>8. r = [b \in Ids(base, S) |-> l[b]]
    BY <2>1, <2>7 DEF DropOverdue
  <2>9. Shows(base, S, r)
    <3>1. r = [b \in Ids(base, S) |-> r[b]]
      BY <2>8
    <3>2. ASSUME NEW k \in S PROVE r[base[k].id] = Item(base[k])
      <4>1. k \in 1 .. nmember /\ base[k].id \in Ids(base, S)
        BY <2>1 DEF Ids
      <4> QED
        BY <2>5, <2>8, <4>1
    <3> QED
      BY <3>1, <3>2 DEF Shows
  <2>10. Keyed(base, S)
    BY <1>0, <2>1 DEF Keyed
  <2>11. Map' = r
    BY <2>2, <2>3, <2>9, <2>10, MapShown
  <2>12. KeyInv'
    BY <1>0, <2>2 DEF KeyInv
  <2> QED
    BY <1>l, <2>1, <2>11, <2>12, RegistryOps DEF Registry!Forget
<1>8. ASSUME DropSlot PROVE KeyInv' /\ Map' = Map
  <2>1. PICK c, n, s : c = Cleared /\ n = nmember /\ s = base'
    OBVIOUS
  <2>2. c \in Slots
    BY <2>1 DEF Cleared, Slots, NoBlock
  <2>3. /\ i \in 1 .. n /\ nmember' = n - 1 /\ base[i].stamp = 0 /\ pc = "drop"
        /\ s = [base EXCEPT ![i] = IF i = n THEN c ELSE base[n], ![n] = c]
        /\ UNCHANGED <<pc, i>> /\ n \in 1 .. n
    BY <1>0, <1>8, <1>d, <2>1 DEF DropSlot, Vacated
  <2>4. /\ \A k \in 1 .. n - 1 : k # i => s[k] = base[k]
        /\ i # n => s[i] = base[n]
    BY <1>0, <1>s, <2>1, <2>2, <2>3
  <2>5. \A k \in 1 .. n - 1 : k \in 1 .. n /\ k # n
    BY <1>0, <2>1
  <2>6. PICK S, T : S = Listed /\ T = Listed'
    OBVIOUS
  <2>7. /\ \A k : k \in S <=> k \in 1 .. n /\ base[k].stamp # 0
        /\ \A k : k \in T <=> k \in 1 .. n - 1 /\ s[k].stamp # 0
    BY <2>1, <2>3, <2>6 DEF Listed, Members
  <2>8. \A k \in 1 .. n : k # n => k \in 1 .. n - 1
    BY <1>0, <2>1
  <2>9. Same(base, S, s, T)
    <3>1. ASSUME NEW k \in S
          PROVE  \E j \in T : s[j].id = base[k].id /\ Item(s[j]) = Item(base[k])
      <4>1. k # i /\ k \in 1 .. n /\ base[k].stamp # 0
        BY <2>3, <2>7
      <4>2. CASE k = n
        <5>1. i \in 1 .. n - 1 /\ s[i] = base[k]
          BY <2>3, <2>4, <2>8, <4>1, <4>2
        <5>2. i \in T
          BY <2>7, <4>1, <5>1
        <5> QED
          BY <5>1, <5>2
      <4>3. CASE k # n
        <5>1. k \in T /\ s[k] = base[k]
          BY <2>4, <2>7, <2>8, <4>1, <4>3
        <5> QED
          BY <5>1
      <4> QED
        BY <4>2, <4>3
    <3>2. ASSUME NEW j \in T
          PROVE  \E k \in S : s[j].id = base[k].id /\ Item(s[j]) = Item(base[k])
      <4>1. j \in 1 .. n - 1 /\ s[j].stamp # 0
        BY <2>7
      <4>2. CASE j = i
        <5>1. s[j] = base[n] /\ n \in S
          BY <2>3, <2>4, <2>5, <2>7, <4>1, <4>2
        <5> QED
          BY <5>1
      <4>3. CASE j # i
        <5>1. s[j] = base[j] /\ j \in S
          BY <2>4, <2>5, <2>7, <4>1, <4>3
        <5> QED
          BY <5>1
      <4> QED
        BY <4>2, <4>3
    <3> QED
      BY <3>1, <3>2 DEF Same
  <2>10. Keyed(s, 1 .. n - 1) /\ Numbered(s, 1 .. n - 1)
    <3> SUFFICES ASSUME NEW j \in 1 .. n - 1, NEW k \in 1 .. n - 1,
                        s[j].id = s[k].id \/ s[j].seq = s[k].seq
                 PROVE  j = k
      BY DEF Keyed, Numbered
    <3>1. PICK x, y : x = (IF j = i THEN n ELSE j) /\ y = (IF k = i THEN n ELSE k)
      OBVIOUS
    <3>2. x \in 1 .. n /\ y \in 1 .. n /\ s[j] = base[x] /\ s[k] = base[y]
      BY <2>3, <2>4, <2>5, <3>1
    <3>3. x = y
      BY <1>0, <2>1, <3>2 DEF Keyed, Numbered
    <3> QED
      BY <2>5, <3>1, <3>3
  <2>11. Keyed(s, T)
    BY <2>7, <2>10 DEF Keyed
  <2>12. Shows(s, T, l)
    BY <1>m, <2>6, <2>9, SameShown
  <2>13. Map' = l
    BY <2>1, <2>6, <2>11, <2>12, MapShown
  <2>14. \A k \in 1 .. n - 1 : k < i => s[k].stamp # 0
    <3> SUFFICES ASSUME NEW k \in 1 .. n - 1, k < i PROVE s[k].stamp # 0
      OBVIOUS
    <3>1. k # i /\ k \in 1 .. n
      BY <1>0, <2>5
    <3> QED
      BY <1>d, <2>1, <2>3, <2>4, <3>1
  <2> QED
    BY <1>0, <1>l, <2>1, <2>3, <2>10, <2>13, <2>14 DEF KeyInv
<1>9. ASSUME EndDrop PROVE KeyInv' /\ Map' = Map
  <2>1. /\ pc = "drop" /\ pc' = "run" /\ i > nmember /\ nmember' = nmember
        /\ base' \in Sorted(base, nmember) /\ nmember <= Len(base)
    BY <1>0, <1>9 DEF EndDrop
  <2>2. \A k \in 1 .. nmember : base[k].stamp # 0
    BY <1>0, <1>d, <2>1
  <2>3. Listed = 1 .. nmember
    BY <2>2 DEF Listed, Members
  <2>4. PICK s, S : s = base' /\ S = 1 .. nmember
    OBVIOUS
  <2>5. Same(base, S, s, S) /\ Keyed(s, S) /\ Numbered(s, S)
    BY <1>0, <2>1, <2>4, SortedShows
  <2>6. Shows(s, S, l)
    BY <1>m, <2>3, <2>4, <2>5, SameShown
  <2> QED
    BY <1>l, <1>r, <2>1, <2>4, <2>5, <2>6
<1> QED
  BY <1>1, <1>2, <1>3, <1>4, <1>5, <1>6, <1>7, <1>8, <1>9 DEF Next, Registry!Next

(***************************************************************************)
(* The C array, with its doubling, its moving of the last member and its   *)
(* sorting, is the list AppRegistry specifies: a map from id to entry in   *)
(* which a recorded application takes its number from whoever had it.      *)
(***************************************************************************)
THEOREM ArrayRefines == Spec => ImplementsRegistry
<1>1. Init => KeyInv /\ Registry!Init
  BY KeyInit
<1>2. KeyInv /\ [Next]_vars => KeyInv' /\ [Registry!Next]_Map
  BY KeyNext
<1> QED
  BY <1>1, <1>2, PTL DEF Spec, ImplementsRegistry, Registry!Spec

=============================================================================
