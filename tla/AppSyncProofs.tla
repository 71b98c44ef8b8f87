---------------------------- MODULE AppSyncProofs ----------------------------
(***************************************************************************)
(* For every set of applications, every server and every loss of power:    *)
(* the downloader's variables keep their types, no two entries share a     *)
(* number, the list in memory is the one on the card, and the list file    *)
(* promises no newer version than its file holds.  As long as the clock is *)
(* not set back: a cycle without a failed line leaves the list equal to    *)
(* the fetched one, the sweeps spare what it names and remove what it does *)
(* not name, and what is listed is there.                                  *)
(***************************************************************************)
EXTENDS AppSync, FiniteSetTheorems, WellFoundedInduction, TLAPS

(* What the operators of SoftList return, for every list. *)

\* A nonempty set of naturals has the least element Least picks.
LEMMA LeastIsLeast ==
    ASSUME NEW S \in SUBSET Nat, S # {}
    PROVE  Least(S) \in S /\ \A k \in S : Least(S) <= k
<1> DEFINE R == {ss \in Nat \X Nat : ss[1] < ss[2]}
<1>1. IsWellFoundedOn(R, Nat)
  BY NatLessThanWellFounded, Zenon DEF OpToRel
<1>2. PICK x \in S : \A y \in S : ~ (<<y, x>> \in R)
  BY <1>1, WFMin
<1>3. ASSUME NEW y \in S PROVE x <= y
  <2>1. <<y, x>> \in Nat \X Nat /\ <<y, x>>[1] = y /\ <<y, x>>[2] = x
    OBVIOUS
  <2>2. ~ (y < x)
    BY <1>2, <2>1, Zenon
  <2>3. QED
    BY <2>2
<1>4. QED
  BY <1>3 DEF Least

\* If two entries share a number, one of 1..nmember is not taken: the inner
\* loop of apk_info_copy always finds its j.
LEMMA ClashLeavesRoom ==
    ASSUME NEW l, IsFiniteSet(DOMAIN l),
           NEW a \in DOMAIN l, NEW b \in DOMAIN l,
           a # b, l[a].seq = l[b].seq
    PROVE  FreeNumbers(l) # {}
<1> DEFINE D == DOMAIN l
           E == D \ {b}
           f == [x \in E |-> l[x].seq]
           n == Cardinality(D)
<1>1. n \in Nat /\ IsFiniteSet(E) /\ Cardinality(E) = n - 1
  BY FS_CardinalityType, FS_RemoveElement
<1>2. f \in Surjection(E, Numbers(l))
  <2>1. \A x \in E : f[x] \in Numbers(l)
    BY DEF Numbers
  <2>2. ASSUME NEW t \in Numbers(l) PROVE \E x \in E : f[x] = t
    <3>1. PICK x \in D : t = l[x].seq
      BY DEF Numbers
    <3>2. CASE x = b
      BY <3>1, <3>2, a \in E, f[a] = t
    <3>3. CASE x # b
      BY <3>1, <3>3
    <3>4. QED
      BY <3>2, <3>3
  <2>3. f \in [E -> Numbers(l)]
    BY <2>1
  <2>4. QED
    BY <2>2, <2>3 DEF Surjection
<1>3. IsFiniteSet(Numbers(l)) /\ Cardinality(Numbers(l)) <= n - 1
  BY <1>1, <1>2, FS_Surjection
<1>4. Cardinality(Numbers(l)) \in Nat
  BY <1>3, FS_CardinalityType
<1>5. ASSUME FreeNumbers(l) = {} PROVE FALSE
  <2>1. 1 .. n \subseteq Numbers(l)
    BY <1>5 DEF FreeNumbers
  <2>2. Cardinality(1 .. n) <= Cardinality(Numbers(l))
    BY <2>1, <1>3, FS_Subset
  <2>3. Cardinality(1 .. n) = n
    BY <1>1, FS_Interval
  <2>4. QED
    BY <2>2, <2>3, <1>1, <1>3, <1>4
<1>6. QED
  BY <1>5

\* Every free number is one of 1..nmember.
LEMMA FreeNumbersRange ==
    ASSUME NEW l, IsFiniteSet(DOMAIN l), FreeNumbers(l) # {}
    PROVE  /\ Least(FreeNumbers(l)) \in 1 .. Cardinality(DOMAIN l)
           /\ Least(FreeNumbers(l)) \notin Numbers(l)
<1>1. Cardinality(DOMAIN l) \in Nat
  BY FS_CardinalityType
<1>2. FreeNumbers(l) \in SUBSET Nat
  BY <1>1 DEF FreeNumbers
<1>3. Least(FreeNumbers(l)) \in FreeNumbers(l)
  BY <1>2, LeastIsLeast
<1>4. QED
  BY <1>3 DEF FreeNumbers

\* The entries of a list whose numbers were distinct before a was written
\* clash with a one at a time.
LEMMA OneClash ==
    ASSUME NEW l, NEW a, NEW e, DistinctNumbers(l),
           NEW b \in Clashes(Put(l, a, e), a),
           NEW c \in Clashes(Put(l, a, e), a)
    PROVE  b = c
<1> DEFINE m == Put(l, a, e)
<1>1. /\ b \in DOMAIN l /\ c \in DOMAIN l /\ m[b] = l[b] /\ m[c] = l[c]
      /\ m[b].seq = m[c].seq
  BY DEF Clashes, Put
<1>2. QED
  BY <1>1 DEF DistinctNumbers

\* What Renumber leaves in every entry: the whole entry, or the entry with
\* the least free number.
LEMMA RenumberEntry ==
    ASSUME NEW l, NEW a, NEW b \in DOMAIN l
    PROVE  \/ b \notin Clashes(l, a) /\ Renumber(l, a)[b] = l[b]
           \/ FreeNumbers(l) = {} /\ Renumber(l, a)[b] = l[b]
           \/ /\ b \in Clashes(l, a) /\ FreeNumbers(l) # {}
              /\ Renumber(l, a)[b] =
                    [l[b] EXCEPT !.seq = Least(FreeNumbers(l))]
  BY DEF Renumber

-----------------------------------------------------------------------------
(* The lists of AppSync. *)

\* A list is finite and shorter than num[].
LEMMA ListFinite ==
    ASSUME NEW l, DOMAIN l \subseteq Apps
    PROVE  /\ IsFiniteSet(DOMAIN l)
           /\ Cardinality(DOMAIN l) \in Nat /\ Cardinality(DOMAIN l) < NumSize
<1>1. /\ IsFiniteSet(DOMAIN l) /\ Cardinality(DOMAIN l) <= Cardinality(Apps)
  BY AppsAssumption, FS_Subset
<1>2. Cardinality(DOMAIN l) \in Nat /\ Cardinality(Apps) \in Nat
  BY <1>1, AppsAssumption, FS_CardinalityType
<1>3. QED
  BY <1>1, <1>2, AppsAssumption, DataAssumption

LEMMA NewNumber ==
    ASSUME NEW e \in Entry, NEW j \in 0 .. NumSize - 1
    PROVE  /\ [e EXCEPT !.seq = j] \in Entry
           /\ [e EXCEPT !.seq = j].seq = j
  BY DEF Entry

LEMMA NewStamp ==
    ASSUME NEW e \in Entry, NEW t \in Nat
    PROVE  /\ [e EXCEPT !.stamp = t] \in Entry
           /\ [e EXCEPT !.stamp = t].seq = e.seq
           /\ [e EXCEPT !.stamp = t].ver = e.ver
           /\ [e EXCEPT !.stamp = t].name = e.name
           /\ [e EXCEPT !.stamp = t].icon = e.icon
           /\ [e EXCEPT !.stamp = t].pkg = e.pkg
  BY DEF Entry

\* record_local_apk returns a list, and one whose numbers are distinct.
LEMMA RecordApkCorrect ==
    ASSUME NEW l, IsMap(l, Entry), DistinctNumbers(l),
           NEW a \in Apps, NEW e \in Entry
    PROVE  /\ IsMap(RecordApk(l, a, e), Entry)
           /\ DistinctNumbers(RecordApk(l, a, e))
<1> DEFINE m == Put(l, a, e)
           r == RecordApk(l, a, e)
<1>1. IsMap(m, Entry) /\ DOMAIN m = DOMAIN l \cup {a} /\ m[a] = e
  BY DEF IsMap, Put
<1>2. IsFiniteSet(DOMAIN m) /\ Cardinality(DOMAIN m) \in Nat /\ Cardinality(DOMAIN m) < NumSize
  BY <1>1, ListFinite DEF IsMap
<1>3. DOMAIN r = DOMAIN m
  BY DEF RecordApk, Renumber
<1>4. ASSUME NEW b \in DOMAIN m
      PROVE  \/ b \notin Clashes(m, a) /\ r[b] = m[b]
             \/ /\ b \in Clashes(m, a) /\ r[b].seq \notin Numbers(m)
                /\ r[b] \in Entry
  <2>1. CASE b \notin Clashes(m, a)
    BY <2>1, RenumberEntry DEF RecordApk
  <2>2. CASE b \in Clashes(m, a)
    <3>1. b # a /\ m[b].seq = m[a].seq
      BY <2>2 DEF Clashes
    <3>2. FreeNumbers(m) # {}
      BY <3>1, <1>1, <1>2, ClashLeavesRoom
    <3>3. /\ Least(FreeNumbers(m)) \in 0 .. NumSize - 1
          /\ Least(FreeNumbers(m)) \notin Numbers(m)
      BY <3>2, <1>2, FreeNumbersRange, DataAssumption
    <3>4. r[b] = [m[b] EXCEPT !.seq = Least(FreeNumbers(m))]
      BY <3>2, <2>2, RenumberEntry DEF RecordApk
    <3>5. m[b] \in Entry
      BY <1>1 DEF IsMap
    <3>6. QED
      BY <2>2, <3>3, <3>4, <3>5, NewNumber
  <2>3. QED
    BY <2>1, <2>2
<1>5. IsMap(r, Entry)
  <2>1. \A b \in DOMAIN m : r[b] \in Entry
    BY <1>1, <1>4 DEF IsMap
  <2>2. r = [b \in DOMAIN m |-> r[b]]
    BY DEF RecordApk, Renumber
  <2>3. QED
    BY <2>1, <2>2, <1>1, <1>3 DEF IsMap
<1>6. DistinctNumbers(r)
  <2> SUFFICES ASSUME NEW b \in DOMAIN m, NEW c \in DOMAIN m,
                      r[b].seq = r[c].seq, b # c
               PROVE  FALSE
    BY <1>3 DEF DistinctNumbers
  <2>1. CASE b \in Clashes(m, a) /\ c \in Clashes(m, a)
    BY <2>1, OneClash
  <2>2. CASE b \in Clashes(m, a) /\ c \notin Clashes(m, a)
    BY <2>2, <1>4 DEF Numbers
  <2>3. CASE b \notin Clashes(m, a) /\ c \in Clashes(m, a)
    BY <2>3, <1>4 DEF Numbers
  <2>4. CASE b \notin Clashes(m, a) /\ c \notin Clashes(m, a)
    <3>1. m[b].seq = m[c].seq
      BY <2>4, <1>4
    <3>2. b # a /\ c # a
      BY <2>4, <3>1 DEF Clashes
    <3>3. b \in DOMAIN l /\ c \in DOMAIN l /\ m[b] = l[b] /\ m[c] = l[c]
      BY <3>2, <1>1 DEF Put
    <3>4. QED
      BY <3>1, <3>3 DEF DistinctNumbers
  <2>5. QED
    BY <2>1, <2>2, <2>3, <2>4
<1>7. QED
  BY <1>5, <1>6

-----------------------------------------------------------------------------
(* The list file *)

\* A line of the list file has a version code exactly when it has a package
\* name.
Matched(s) == \A a \in DOMAIN s : s[a].pkg <=> s[a].ver # Unknown

\* write_local_soft_file keeps ids and numbers and writes matched lines.
LEMMA SavedCorrect ==
    ASSUME NEW l, IsMap(l, Entry)
    PROVE  /\ IsMap(Saved(l), SavedEntry) /\ Matched(Saved(l))
           /\ DistinctNumbers(l) => DistinctNumbers(Saved(l))
<1>1. DOMAIN Saved(l) = DOMAIN l
  BY DEF Saved
<1>2. ASSUME NEW a \in DOMAIN l
      PROVE  /\ Saved(l)[a] \in SavedEntry /\ Saved(l)[a].seq = l[a].seq
             /\ Saved(l)[a].pkg <=> Saved(l)[a].ver # Unknown
  <2>1. l[a] \in Entry
    BY DEF IsMap
  <2>2. CASE l[a].ver # Unknown /\ l[a].pkg
    <3>1. Saved(l)[a] = [seq |-> l[a].seq, ver |-> l[a].ver, name |-> l[a].name,
                         icon |-> l[a].icon, pkg |-> TRUE]
      BY <2>2 DEF Saved
    <3>2. QED
      BY <2>1, <2>2, <3>1 DEF Entry, SavedEntry
  <2>3. CASE ~ (l[a].ver # Unknown /\ l[a].pkg)
    <3>1. Saved(l)[a] = [seq |-> l[a].seq, ver |-> Unknown, name |-> l[a].name,
                         icon |-> l[a].icon, pkg |-> FALSE]
      BY <2>3, Zenon DEF Saved
    <3>2. QED
      BY <2>1, <3>1 DEF Entry, SavedEntry
  <2>4. QED
    BY <2>2, <2>3
<1>3. IsMap(Saved(l), SavedEntry)
  <2>1. Saved(l) = [a \in DOMAIN l |-> Saved(l)[a]]
    BY DEF Saved
  <2>2. QED
    BY <1>1, <1>2, <2>1 DEF IsMap
<1>4. QED
  BY <1>1, <1>2, <1>3 DEF Matched, DistinctNumbers

\* init_soft_list reads back what write_local_soft_file wrote.
LEMMA LoadedCorrect ==
    ASSUME NEW s, IsMap(s, SavedEntry), Matched(s), NEW t \in Nat
    PROVE  /\ IsMap(Loaded(s, t), Entry) /\ Saved(Loaded(s, t)) = s
           /\ DistinctNumbers(s) => DistinctNumbers(Loaded(s, t))
<1> DEFINE l == Loaded(s, t)
<1>1. DOMAIN l = DOMAIN s /\ DOMAIN Saved(l) = DOMAIN s
  BY DEF Loaded, Saved
<1>2. ASSUME NEW a \in DOMAIN s
      PROVE  l[a] \in Entry /\ l[a].seq = s[a].seq /\ Saved(l)[a] = s[a]
  <2>1. s[a] \in SavedEntry
    BY DEF IsMap
  <2>2. CASE s[a].ver # Unknown
    <3>1. l[a] = [seq |-> s[a].seq, ver |-> s[a].ver, name |-> s[a].name,
                  icon |-> s[a].icon, pkg |-> s[a].pkg, stamp |-> t]
      BY <2>2 DEF Loaded
    <3>2. s[a].pkg = TRUE
      BY <2>1, <2>2 DEF Matched, SavedEntry
    <3>3. l[a] \in Entry /\ l[a].seq = s[a].seq /\ l[a].ver # Unknown /\ l[a].pkg
      BY <2>1, <2>2, <3>1, <3>2 DEF SavedEntry, Entry
    <3>4. Saved(l)[a] = [seq |-> l[a].seq, ver |-> l[a].ver, name |-> l[a].name,
                         icon |-> l[a].icon, pkg |-> TRUE]
      BY <1>1, <3>3 DEF Saved
    <3>5. QED
      BY <2>1, <3>1, <3>2, <3>3, <3>4 DEF SavedEntry
  <2>3. CASE s[a].ver = Unknown
    <3>1. l[a] = [seq |-> s[a].seq, ver |-> 0, name |-> s[a].name,
                  icon |-> s[a].icon, pkg |-> s[a].pkg, stamp |-> t]
      BY <2>3 DEF Loaded
    <3>2. s[a].pkg = FALSE
      BY <2>1, <2>3 DEF Matched, SavedEntry
    <3>3. l[a] \in Entry /\ l[a].seq = s[a].seq /\ ~ l[a].pkg
      BY <2>1, <3>1, <3>2 DEF SavedEntry, Entry
    <3>4. Saved(l)[a] = [seq |-> l[a].seq, ver |-> Unknown, name |-> l[a].name,
                         icon |-> l[a].icon, pkg |-> FALSE]
      BY <1>1, <3>3, Zenon DEF Saved
    <3>5. QED
      BY <2>1, <2>3, <3>1, <3>2, <3>3, <3>4 DEF SavedEntry
  <2>4. QED
    BY <2>2, <2>3
<1>3. IsMap(l, Entry)
  <2>1. l = [a \in DOMAIN s |-> l[a]]
    BY DEF Loaded
  <2>2. QED
    BY <1>1, <1>2, <2>1 DEF IsMap
<1>4. Saved(l) = s
  <2>1. Saved(l) = [a \in DOMAIN s |-> Saved(l)[a]]
    BY <1>1 DEF Saved
  <2>2. s = [a \in DOMAIN s |-> s[a]]
    BY DEF IsMap
  <2>3. QED
    BY <1>2, <2>1, <2>2
<1>5. QED
  BY <1>1, <1>2, <1>3, <1>4 DEF DistinctNumbers

\* Marking changes no number and nothing the list file shows.
LEMMA StampCorrect ==
    ASSUME NEW l, IsMap(l, Entry), NEW a, NEW t \in Nat
    PROVE  /\ IsMap(Stamp(l, a, t), Entry) /\ Saved(Stamp(l, a, t)) = Saved(l)
           /\ DistinctNumbers(l) => DistinctNumbers(Stamp(l, a, t))
<1> DEFINE m == Stamp(l, a, t)
<1>1. DOMAIN m = DOMAIN l
  BY DEF Stamp
<1>2. ASSUME NEW b \in DOMAIN l
      PROVE  /\ m[b] \in Entry /\ m[b].seq = l[b].seq /\ m[b].ver = l[b].ver
             /\ m[b].name = l[b].name /\ m[b].icon = l[b].icon
             /\ m[b].pkg = l[b].pkg
  <2>1. l[b] \in Entry
    BY DEF IsMap
  <2>2. m[b] = IF b = a THEN [l[b] EXCEPT !.stamp = t] ELSE l[b]
    BY DEF Stamp
  <2>3. QED
    BY <2>1, <2>2, NewStamp
<1>3. IsMap(m, Entry)
  <2>1. m = [b \in DOMAIN l |-> m[b]]
    BY DEF Stamp
  <2>2. QED
    BY <1>1, <1>2, <2>1 DEF IsMap
<1>4. Saved(m) = Saved(l)
  BY <1>1, <1>2 DEF Saved
<1>5. QED
  BY <1>1, <1>2, <1>3, <1>4 DEF DistinctNumbers

\* remove_overdue_info keeps what it does not drop.
LEMMA DropOverdueCorrect ==
    ASSUME NEW l, IsMap(l, Entry), NEW t
    PROVE  /\ IsMap(DropOverdue(l, t), Entry)
           /\ DistinctNumbers(l) => DistinctNumbers(DropOverdue(l, t))
  BY DEF IsMap, DropOverdue, DistinctNumbers

-----------------------------------------------------------------------------
(* The inductive invariant *)

\* update_apk works on a line of the fetched list, and on an entry of the list
\* where it keeps or unlinks what the entry points to.
AtApk ==
    /\ pc \in {"keep", "unlink", "fetch", "size", "icon", "fail", "record"}
          => cur \in DOMAIN cat
    /\ pc \in {"mark", "next", "keep", "unlink", "fetch", "size", "icon", "fail",
               "record"} => todo \subseteq DOMAIN cat
    /\ pc \in {"keep", "unlink"} => cur \in DOMAIN list

IndInv == TypeOK /\ NumbersDistinct /\ ListOnCard /\ Matched(lst) /\ AtApk

\* What the server publishes has complete lines, and every number once.
LEMMA CatalogLines ==
    ASSUME NEW c \in Catalogs
    PROVE  /\ IsMap(c, Line) /\ DistinctNumbers(c)
           /\ \A a \in DOMAIN c : c[a].ver = c[a].body /\ c[a].ver \in Nat \ {0}
<1>1. /\ DOMAIN c \subseteq Apps /\ c \in [DOMAIN c -> ServerLines]
      /\ DistinctNumbers(c)
  BY DEF Catalogs
<1>2. \A l \in ServerLines : l \in Line /\ l.ver = l.body /\ l.ver \in Nat \ {0}
  BY DataAssumption DEF ServerLines, Line
<1> QED
  BY <1>1, <1>2 DEF IsMap

\* The newest version of each application is one that was published.
LEMMA RaiseType ==
    ASSUME NEW c \in Catalogs, NEW top \in [Apps -> Nat]
    PROVE  Raise(top, c) \in [Apps -> Nat]
  BY CatalogLines DEF Raise

LEMMA InitInv == Init => IndInv
<1> SUFFICES ASSUME Init PROVE IndInv
  OBVIOUS
<1> USE DEF Init
<1>1. IsMap(server, Line) /\ newest \in [Apps -> Nat]
  BY CatalogLines, RaiseType
<1>2. IsMap(Empty, Entry) /\ IsMap(Empty, SavedEntry) /\ IsMap(Empty, Line)
  BY DEF Empty, IsMap
<1>3. DistinctNumbers(Empty) /\ Matched(Empty)
  BY DEF Empty, DistinctNumbers, Matched
<1>4. TypeOK
  BY <1>1, <1>2 DEF TypeOK, NoCache, NoDir, NoFile, Content, Steps
<1>5. QED
  BY <1>3, <1>4 DEF IndInv, NumbersDistinct, ListOnCard, AtApk

\* Whatever the clock shows, a file system time is a time.
LEMMA MtimeType ==
    ASSUME NEW t \in Nat PROVE Mtime(t) \in Nat
  BY BoundAssumption DEF Mtime

\* One step of the environment or of the program keeps the invariant.
LEMMA NextInv == IndInv /\ [Next]_vars => IndInv'
<1> SUFFICES ASSUME IndInv, [Next]_vars PROVE IndInv'
  OBVIOUS
<1> USE DEF srvVars, envVars, diskVars, procVars
<1> DEFINE ListPart == /\ IsMap(list, Entry) /\ IsMap(lst, SavedEntry)
                       /\ NumbersDistinct /\ ListOnCard /\ Matched(lst)
<1>0. TypeOK /\ ListPart /\ AtApk
  BY DEF IndInv, TypeOK
<1> HIDE DEF ListPart
<1>a. ASSUME TypeOK', ListPart', AtApk' PROVE IndInv'
  BY <1>a DEF IndInv, ListPart
<1>b. ASSUME UNCHANGED <<pc, list, lst>> PROVE ListPart'
  BY <1>0, <1>b DEF ListPart, NumbersDistinct, ListOnCard, Matched, DistinctNumbers, IsMap
<1>c. ASSUME UNCHANGED <<list, lst>>, pc # "off", pc' # "off" PROVE ListPart'
  BY <1>0, <1>c DEF ListPart, NumbersDistinct, ListOnCard
<1>d. ASSUME IsMap(list', Entry), DistinctNumbers(list'), lst' = Saved(list')
      PROVE  ListPart'
  BY <1>d, SavedCorrect DEF ListPart, NumbersDistinct, ListOnCard
<1>1. ASSUME NEW c \in Catalogs, Publish(c) PROVE IndInv'
  <2>1. IsMap(c, Line) /\ newest' \in [Apps -> Nat]
    BY <1>0, <1>1, CatalogLines, RaiseType DEF TypeOK, Publish
  <2>2. TypeOK'
    BY <1>0, <1>1, <2>1 DEF TypeOK, Publish
  <2>3. ListPart' /\ AtApk'
    BY <1>0, <1>1, <1>b DEF Publish, AtApk
  <2>4. QED
    BY <2>2, <2>3, <1>a
<1>2. ASSUME Tick PROVE IndInv'
  <2>1. TypeOK'
    BY <1>0, <1>2 DEF TypeOK, Tick
  <2>2. ListPart' /\ AtApk'
    BY <1>0, <1>2, <1>b DEF Tick, AtApk
  <2>3. QED
    BY <2>1, <2>2, <1>a
<1>3. ASSUME NEW t \in 0 .. MaxClock, SetClock(t) PROVE IndInv'
  <2>1. TypeOK'
    BY <1>0, <1>3 DEF TypeOK, SetClock
  <2>2. ListPart' /\ AtApk'
    BY <1>0, <1>3, <1>b DEF SetClock, AtApk
  <2>3. QED
    BY <2>1, <2>2, <1>a
<1>4. ASSUME Crash PROVE IndInv'
  <2>1. IsMap(Empty, Entry) /\ IsMap(Empty, Line) /\ DistinctNumbers(Empty)
    BY DEF Empty, IsMap, DistinctNumbers
  <2>2. TypeOK'
    <3>1. /\ IsMap(list', Entry) /\ IsMap(cat', Line) /\ IsMap(lst', SavedEntry)
          /\ IsMap(server', Line)
      BY <1>0, <1>4, <2>1 DEF TypeOK, Crash
    <3>2. /\ published' \in Nat /\ clock' \in Nat /\ crashes' \in Nat
      BY <1>0, <1>4 DEF TypeOK, Crash
    <3>n. newest' \in [Apps -> Nat] /\ adopted' \subseteq Apps
      BY <1>0, <1>4 DEF TypeOK, Crash
    <3>3. /\ cfg' \in Nat \cup {NoCache, Torn}
          /\ status' \in {0, 1} /\ rootT' \in Nat \cup {NoDir}
      BY <1>0, <1>4 DEF TypeOK, Crash
    <3>4. stepped' \in BOOLEAN
      BY <1>4 DEF Crash
    <3>5. /\ dirT' \in [Apps -> Nat \cup {NoDir}]
          /\ files' \in [Apps -> [Names -> Content]]
          /\ icons' \in [Apps -> SUBSET Icons]
      BY <1>0, <1>4 DEF TypeOK, Crash
    <3>6. /\ pc' \in Steps /\ broken' \in BOOLEAN /\ todo' \subseteq Apps
          /\ cur' \in Apps \cup {NoApp} /\ seen' \in Nat /\ limit' \in Nat
          /\ phase' \in {1, 2} /\ victims' \subseteq Apps /\ flag' \in {0, 1}
      BY <1>4 DEF Crash, Steps
    <3>7. QED
      BY <3>1, <3>2, <3>n, <3>3, <3>4, <3>5, <3>6 DEF TypeOK
  <2>3. ListPart'
    BY <1>0, <1>4, <2>1 DEF Crash, ListPart, NumbersDistinct, ListOnCard
  <2>4. AtApk'
    BY <1>4 DEF Crash, AtApk
  <2>5. QED
    BY <2>2, <2>3, <2>4, <1>a
<1>5. ASSUME Boot PROVE IndInv'
  <2>1. clock' \in Nat
    BY <1>0, <1>5, BoundAssumption DEF Boot, TypeOK, CachedTimes, Torn, NoCache
  <2>2. /\ IsMap(list', Entry) /\ Saved(list') = lst
        /\ DistinctNumbers(lst) => DistinctNumbers(list')
    BY <1>0, <1>5, <2>1, LoadedCorrect DEF Boot, ListPart
  <2>3. lst' = lst /\ pc' = "idle"
    BY <1>5 DEF Boot
  <2>4. TypeOK'
    BY <1>0, <1>5, <2>1, <2>2 DEF TypeOK, Boot, Steps
  <2>5. ListPart'
    BY <1>0, <2>2, <2>3 DEF ListPart, NumbersDistinct, ListOnCard
  <2>6. AtApk'
    BY <2>3 DEF AtApk
  <2>7. QED
    BY <2>4, <2>5, <2>6, <1>a
<1>6. ASSUME FetchList PROVE IndInv'
  <2>1. IsMap(server, Line)
    BY <1>0 DEF TypeOK
  <2>2. IsMap(cat', Line) /\ broken' \in BOOLEAN
    <3>1. CASE cat' = server /\ broken' = FALSE
      BY <3>1, <2>1
    <3>2. CASE /\ \E D \in SUBSET DOMAIN server : cat' = Cut(server, D)
               /\ broken' \in BOOLEAN
      BY <3>2, <2>1 DEF Cut, IsMap
    <3>3. CASE /\ \E D \in SUBSET DOMAIN server, a \in DOMAIN server :
                      cat' = CutInside(server, D, a)
               /\ broken' = FALSE
      <4>1. PICK D \in SUBSET DOMAIN server, a \in DOMAIN server :
                  cat' = CutInside(server, D, a)
        BY <3>3
      <4>2. \A e \in Line : [e EXCEPT !.ver = Unknown, !.pkg = FALSE] \in Line
        BY DEF Line
      <4>3. IsMap(CutInside(server, D, a), Line)
        BY <2>1, <4>2 DEF CutInside, IsMap
      <4>4. QED
        BY <3>3, <4>1, <4>3
    <3>4. QED
      BY <1>6, <3>1, <3>2, <3>3 DEF FetchList
  <2>3. TypeOK'
    BY <1>0, <1>6, <2>2 DEF TypeOK, FetchList, Steps
  <2>4. ListPart'
    BY <1>6, <1>c DEF FetchList
  <2>5. AtApk'
    BY <1>6 DEF FetchList, AtApk
  <2>6. QED
    BY <2>3, <2>4, <2>5, <1>a
<1>7. ASSUME WriteCache PROVE IndInv'
  <2>1. TypeOK'
    BY <1>0, <1>7 DEF TypeOK, WriteCache, Steps
  <2>2. ListPart'
    BY <1>7, <1>c DEF WriteCache
  <2>3. AtApk'
    BY <1>7 DEF WriteCache, AtApk
  <2>4. QED
    BY <2>1, <2>2, <2>3, <1>a
<1>8. ASSUME StartPhase PROVE IndInv'
  <2>1. TypeOK'
    BY <1>0, <1>8 DEF TypeOK, StartPhase, Steps
  <2>2. ListPart'
    BY <1>8, <1>c DEF StartPhase
  <2>3. AtApk'
    BY <1>8 DEF StartPhase, AtApk
  <2>4. QED
    BY <2>1, <2>2, <2>3, <1>a
<1>9. ASSUME Nap PROVE IndInv'
  <2>1. TypeOK'
    BY <1>0, <1>9 DEF TypeOK, Nap, Steps, IsMap
  <2>2. ListPart'
    BY <1>9, <1>c DEF Nap
  <2>3. AtApk'
    BY <1>9 DEF Nap, AtApk
  <2>4. QED
    BY <2>1, <2>2, <2>3, <1>a
<1>10. ASSUME NEW a \in Apps, mark_apk(a) PROVE IndInv'
  <2>1. CASE dirT[a] = NoDir
    <3>1. TypeOK'
      BY <1>0, <1>10, <2>1 DEF TypeOK, mark_apk
    <3>2. ListPart' /\ AtApk'
      BY <1>0, <1>10, <2>1, <1>b DEF mark_apk, AtApk
    <3>3. QED
      BY <3>1, <3>2, <1>a
  <2>2. CASE dirT[a] # NoDir
    <3>1. /\ list' = Stamp(list, a, clock) /\ IsMap(list', Entry)
          /\ Saved(list') = Saved(list) /\ DistinctNumbers(list')
      BY <1>0, <1>10, <2>2, StampCorrect
         DEF mark_apk, TypeOK, ListPart, NumbersDistinct
    <3>2. TypeOK'
      BY <1>0, <1>10, <2>2, <3>1, MtimeType DEF TypeOK, mark_apk
    <3>3. ListPart'
      BY <1>0, <1>10, <3>1
         DEF mark_apk, ListPart, NumbersDistinct, ListOnCard
    <3>4. AtApk'
      BY <1>0, <1>10 DEF mark_apk, AtApk
    <3>5. QED
      BY <3>2, <3>3, <3>4, <1>a
  <2>3. QED
    BY <2>1, <2>2
<1>11. ASSUME NEW a \in Apps, remove_dir(a) PROVE IndInv'
  <2>1. [n \in Names |-> NoFile] \in [Names -> Content]
    BY DEF Content
  <2>2. TypeOK'
    BY <1>0, <1>11, <2>1, MtimeType DEF TypeOK, remove_dir
  <2>3. ListPart' /\ AtApk'
    BY <1>0, <1>11, <1>b DEF remove_dir, AtApk
  <2>4. QED
    BY <2>2, <2>3, <1>a
<1>12. ASSUME NEW a \in Apps, StartApk(a) PROVE IndInv'
  <2>1. TypeOK'
    BY <1>0, <1>12, MtimeType DEF TypeOK, StartApk, Steps
  <2>2. ListPart'
    BY <1>12, <1>c DEF StartApk
  <2>3. AtApk'
    BY <1>0, <1>12 DEF StartApk, AtApk
  <2>4. QED
    BY <2>1, <2>2, <2>3, <1>a
<1>13. ASSUME ParseDies PROVE IndInv'
  <2>1. TypeOK'
    BY <1>0, <1>13 DEF TypeOK, ParseDies, Steps
  <2>2. ListPart'
    BY <1>13, <1>c DEF ParseDies
  <2>3. AtApk'
    BY <1>13 DEF ParseDies, AtApk
  <2>4. QED
    BY <2>1, <2>2, <2>3, <1>a
<1>14. ASSUME StartSweep PROVE IndInv'
  <2>1. TypeOK'
    BY <1>0, <1>14 DEF TypeOK, StartSweep, Steps, Overdue
  <2>2. ListPart'
    BY <1>14, <1>c DEF StartSweep
  <2>3. AtApk'
    BY <1>14 DEF StartSweep, AtApk
  <2>4. QED
    BY <2>1, <2>2, <2>3, <1>a
<1>15. ASSUME EndUpdate PROVE IndInv'
  <2>1. TypeOK'
    BY <1>0, <1>15 DEF TypeOK, EndUpdate, Steps, Overdue
  <2>2. ListPart'
    BY <1>15, <1>c DEF EndUpdate
  <2>3. AtApk'
    BY <1>15 DEF EndUpdate, AtApk
  <2>4. QED
    BY <2>1, <2>2, <2>3, <1>a
<1>16. ASSUME remove_overdue_info PROVE IndInv'
  <2>1. /\ IsMap(list', Entry) /\ DistinctNumbers(list') /\ lst' = Saved(list')
    BY <1>0, <1>16, DropOverdueCorrect
       DEF remove_overdue_info, ListPart, NumbersDistinct
  <2>2. ListPart'
    BY <2>1, <1>d
  <2>3. IsMap(lst', SavedEntry)
    BY <2>2 DEF ListPart
  <2>4. TypeOK'
    BY <1>0, <1>16, <2>1, <2>3 DEF TypeOK, remove_overdue_info, Steps
  <2>5. AtApk'
    BY <1>16 DEF remove_overdue_info, AtApk
  <2>6. QED
    BY <2>2, <2>4, <2>5, <1>a
<1>17. ASSUME KeepApk PROVE IndInv'
  <2>1. /\ cur \in Apps /\ list[cur].name \in Names /\ list[cur].icon \in Icons
        /\ cat[cur].name \in Names /\ cat[cur].icon \in Icons
    BY <1>0, <1>17 DEF KeepApk, AtApk, TypeOK, IsMap, Entry, Line
  <2>2. files' \in [Apps -> [Names -> Content]]
    <3>1. Move(files[cur], list[cur].name, cat[cur].name) \in [Names -> Content]
      BY <1>0, <2>1 DEF TypeOK, Move, Content
    <3>2. QED
      BY <1>0, <1>17, <3>1 DEF TypeOK, KeepApk
  <2>3. icons' \in [Apps -> SUBSET Icons]
    BY <1>0, <1>17, <2>1 DEF TypeOK, KeepApk
  <2>4. TypeOK'
    <3>1. adopted' \subseteq Apps
      BY <1>0, <1>17, <2>1 DEF TypeOK, KeepApk
    <3>2. dirT' \in [Apps -> Nat \cup {NoDir}] /\ pc' \in Steps
      BY <1>0, <1>17, MtimeType DEF TypeOK, KeepApk, TouchDir, Steps
    <3> QED
      BY <1>0, <1>17, <2>2, <2>3, <3>1, <3>2 DEF TypeOK, KeepApk
  <2>5. ListPart'
    BY <1>17, <1>c DEF KeepApk
  <2>6. AtApk'
    BY <1>0, <1>17 DEF KeepApk, AtApk
  <2>7. QED
    BY <2>4, <2>5, <2>6, <1>a
<1>18. ASSUME UnlinkOld PROVE IndInv'
  <2>1. cur \in Apps
    BY <1>0, <1>18 DEF UnlinkOld, AtApk, TypeOK, IsMap
  <2>2. files' \in [Apps -> [Names -> Content]]
    BY <1>0, <1>18, <2>1 DEF TypeOK, UnlinkOld, Content
  <2>3. icons' \in [Apps -> SUBSET Icons]
    BY <1>0, <1>18, <2>1 DEF TypeOK, UnlinkOld
  <2>4. TypeOK'
    BY <1>0, <1>18, <2>2, <2>3, MtimeType DEF TypeOK, UnlinkOld, TouchDir, Steps
  <2>5. ListPart'
    BY <1>18, <1>c DEF UnlinkOld
  <2>6. AtApk'
    BY <1>0, <1>18 DEF UnlinkOld, AtApk
  <2>7. QED
    BY <2>4, <2>5, <2>6, <1>a
<1>19. ASSUME FetchApk PROVE IndInv'
  <2>1. cur \in Apps /\ cat[cur].body \in Content /\ Partial \in Content
    BY <1>0, <1>19 DEF FetchApk, AtApk, TypeOK, IsMap, Line, Content
  <2>2. files' \in [Apps -> [Names -> Content]]
    <3>1. \A c \in Content :
             [files EXCEPT ![cur][cat[cur].name] = c] \in [Apps -> [Names -> Content]]
      BY <1>0 DEF TypeOK
    <3>2. \/ \E c \in {cat[cur].body, Partial} :
                files' = [files EXCEPT ![cur][cat[cur].name] = c]
          \/ files' = files
      BY <1>19, Zenon DEF FetchApk
    <3> QED
      BY <1>0, <2>1, <3>1, <3>2 DEF TypeOK
  <2>3. TypeOK'
    <3>1. dirT' \in [Apps -> Nat \cup {NoDir}] /\ pc' \in Steps /\ adopted' \subseteq Apps
      BY <1>0, <1>19, MtimeType DEF TypeOK, FetchApk, TouchDir, Steps
    <3> QED
      BY <1>0, <1>19, <2>2, <3>1 DEF TypeOK, FetchApk
  <2>4. ListPart'
    BY <1>19, <1>c DEF FetchApk
  <2>5. AtApk'
    BY <1>0, <1>19 DEF FetchApk, AtApk
  <2>6. QED
    BY <2>3, <2>4, <2>5, <1>a
<1>20. ASSUME check_apk_size PROVE IndInv'
  <2>1. TypeOK'
    BY <1>0, <1>20 DEF TypeOK, check_apk_size, Steps
  <2>2. ListPart'
    BY <1>20, <1>c DEF check_apk_size
  <2>3. AtApk'
    BY <1>0, <1>20 DEF check_apk_size, AtApk
  <2>4. QED
    BY <2>1, <2>2, <2>3, <1>a
<1>21. ASSUME FetchIcon PROVE IndInv'
  <2>1. cur \in Apps /\ cat[cur].icon \in Icons
    BY <1>0, <1>21 DEF FetchIcon, AtApk, TypeOK, IsMap, Line
  <2>2. icons' \in [Apps -> SUBSET Icons]
    BY <1>0, <1>21, <2>1 DEF TypeOK, FetchIcon
  <2>3. TypeOK'
    BY <1>0, <1>21, <2>2, MtimeType DEF TypeOK, FetchIcon, TouchDir, Steps
  <2>4. ListPart'
    BY <1>21, <1>c DEF FetchIcon
  <2>5. AtApk'
    BY <1>0, <1>21 DEF FetchIcon, AtApk
  <2>6. QED
    BY <2>3, <2>4, <2>5, <1>a
<1>22. ASSUME FailApk PROVE IndInv'
  <2>1. files' \in [Apps -> [Names -> Content]]
    BY <1>0, <1>22 DEF TypeOK, FailApk, Content
  <2>2. icons' \in [Apps -> SUBSET Icons]
    BY <1>0, <1>22 DEF TypeOK, FailApk
  <2>3. TypeOK'
    BY <1>0, <1>22, <2>1, <2>2, MtimeType DEF TypeOK, FailApk, TouchDir, Steps
  <2>4. ListPart'
    BY <1>22, <1>c DEF FailApk
  <2>5. AtApk'
    BY <1>0, <1>22 DEF FailApk, AtApk
  <2>6. QED
    BY <2>3, <2>4, <2>5, <1>a
<1>23. ASSUME record_local_apk PROVE IndInv'
  <2>1. cur \in Apps /\ cat[cur] \in Line /\ seen \in Nat
    BY <1>0, <1>23 DEF record_local_apk, AtApk, TypeOK, IsMap
  <2>2. Info(cur) \in Entry
    BY <2>1, DataAssumption DEF Info, Line, Entry
  <2>3. /\ IsMap(list', Entry) /\ DistinctNumbers(list') /\ lst' = Saved(list')
    BY <1>0, <1>23, <2>1, <2>2, RecordApkCorrect
       DEF record_local_apk, ListPart, NumbersDistinct
  <2>4. ListPart'
    BY <2>3, <1>d
  <2>5. IsMap(lst', SavedEntry)
    BY <2>4 DEF ListPart
  <2>6. TypeOK'
    BY <1>0, <1>23, <2>3, <2>5 DEF TypeOK, record_local_apk, Steps
  <2>7. AtApk'
    BY <1>0, <1>23 DEF record_local_apk, AtApk
  <2>8. QED
    BY <2>4, <2>6, <2>7, <1>a
<1>24. ASSUME UNCHANGED vars PROVE IndInv'
  <2>1. TypeOK'
    BY <1>0, <1>24 DEF TypeOK, vars
  <2>2. ListPart' /\ AtApk'
    BY <1>0, <1>24, <1>b DEF vars, AtApk
  <2>3. QED
    BY <2>1, <2>2, <1>a
<1>25. QED
  BY <1>1, <1>2, <1>3, <1>4, <1>5, <1>6, <1>7, <1>8, <1>9, <1>10, <1>11, <1>12,
     <1>13, <1>14, <1>15, <1>16, <1>17, <1>18, <1>19, <1>20, <1>21, <1>22,
     <1>23, <1>24
     DEF Next

\* The inductive invariant holds in every reachable state.
THEOREM Invariant == Spec => []IndInv
  BY InitInv, NextInv, PTL DEF Spec

\* The variables keep their types; in particular every number of the list is
\* an index of num[] (apk_info_copy never writes outside it).
THEOREM TypeCorrect == Spec => []TypeOK
<1>1. IndInv => TypeOK
  BY DEF IndInv
<1>2. QED
  BY <1>1, Invariant, PTL

\* No two applications ever share a number, in memory or on the card.
THEOREM NumbersStayDistinct == Spec => []NumbersDistinct
<1>1. IndInv => NumbersDistinct
  BY DEF IndInv
<1>2. QED
  BY <1>1, Invariant, PTL

\* The list file always says what the list in memory says.
THEOREM ListStaysOnCard == Spec => []ListOnCard
<1>1. IndInv => ListOnCard
  BY DEF IndInv
<1>2. QED
  BY <1>1, Invariant, PTL

-----------------------------------------------------------------------------
(* What a step does to the entries of the list. *)

\* The list file has the paths of the list, and no version it does not have.
LEMMA SavedEntries ==
    ASSUME NEW l, NEW a \in DOMAIN l
    PROVE  /\ DOMAIN Saved(l) = DOMAIN l
           /\ Saved(l)[a].name = l[a].name
           /\ Saved(l)[a].ver \in {l[a].ver, Unknown}
<1>1. Saved(l)[a].ver = IF l[a].ver # Unknown /\ l[a].pkg THEN l[a].ver ELSE Unknown
  BY Zenon DEF Saved
<1>2. DOMAIN Saved(l) = DOMAIN l /\ Saved(l)[a].name = l[a].name
  BY Zenon DEF Saved
<1> QED
  BY <1>1, <1>2

LEMMA LoadedEntries ==
    ASSUME NEW s, NEW t, NEW a \in DOMAIN s
    PROVE  LET l == Loaded(s, t) IN
           /\ DOMAIN l = DOMAIN s /\ l[a].name = s[a].name /\ l[a].stamp = t
           /\ \/ l[a].ver = s[a].ver
              \/ l[a].ver = 0 /\ s[a].ver = Unknown
  BY DEF Loaded

LEMMA StampEntries ==
    ASSUME NEW l, IsMap(l, Entry), NEW a, NEW t \in Nat, NEW b \in DOMAIN l
    PROVE  LET m == Stamp(l, a, t) IN
           /\ DOMAIN m = DOMAIN l
           /\ m[b].ver = l[b].ver /\ m[b].name = l[b].name /\ m[b].icon = l[b].icon
           /\ m[b].stamp = IF b = a THEN t ELSE l[b].stamp
<1>1. l[b] \in Entry
  BY DEF IsMap
<1>2. /\ DOMAIN Stamp(l, a, t) = DOMAIN l
      /\ Stamp(l, a, t)[b] = IF b = a THEN [l[b] EXCEPT !.stamp = t] ELSE l[b]
  BY DEF Stamp
<1>3. [l[b] EXCEPT !.stamp = t].stamp = t
  BY <1>1 DEF Entry
<1> QED
  BY <1>1, <1>2, <1>3, NewStamp

-----------------------------------------------------------------------------
(* What the list file promises. *)

AtLine == pc \in {"keep", "unlink", "fetch", "size", "icon", "fail", "record"}
Updating == AtLine \/ pc = "next"

\* Phase 1 marks, phase 2 updates; the sweep's directories and the line at
\* work exist only while they are needed; after a start the last cycle counts
\* as failed.
Phases ==
    /\ pc = "mark" => phase = 1
    /\ Updating => phase = 2
    /\ pc # "sweep" => victims = {}
    /\ pc = "sweep" => todo = {}
    /\ ~AtLine => cur = NoApp
    /\ pc = "off" => flag = 1

\* The server's lines are complete and numbered apart; a line that was cut has
\* no version, and is otherwise as published.
Lines ==
    /\ \A a \in DOMAIN server : server[a].ver = server[a].body
    /\ \A a \in DOMAIN cat : cat[a].ver \in {cat[a].body, Unknown}
    /\ DistinctNumbers(server) /\ DistinctNumbers(cat)

\* The path of name n holds version v of a, or nothing, or what is left of it.
Backs(a, n, v) ==
    LET c == files[a][n] IN
    \/ c = NoFile
    \/ c = Partial /\ crashes > 0
    \/ c = Partial /\ cur = a /\ pc \in {"size", "fail"}
    \/ c # Partial /\ c >= v

\* update_apk on its way from the comparison of versions to the record.
Replacing ==
    /\ pc = "keep" => list[cur].ver >= cat[cur].ver
    /\ pc \in {"unlink", "fetch", "size", "icon", "fail"} /\ cur \in DOMAIN list =>
          list[cur].ver < cat[cur].ver
    /\ pc = "fetch" /\ cur \in DOMAIN list => files[cur][list[cur].name] = NoFile
    /\ pc \in {"size", "icon", "fail"} /\ cur \in DOMAIN list
          /\ list[cur].name # cat[cur].name => files[cur][list[cur].name] = NoFile
    /\ pc \in {"size", "icon"} => cur \notin adopted
    /\ pc = "size" => files[cur][cat[cur].name] \in {cat[cur].body, Partial}
    /\ pc = "icon" => files[cur][cat[cur].name] = cat[cur].body
    /\ pc = "record" => cur \in adopted \/ Backs(cur, cat[cur].name, cat[cur].ver)

Backed == pc # "off" =>
    \A a \in DOMAIN list \ adopted : Backs(a, list[a].name, list[a].ver)

HonestInv == Phases /\ Lines /\ Replacing /\ Backed /\ ListHonest

\* The steps of update_apk on one line.
LineStep ==
    \/ KeepApk \/ UnlinkOld \/ FetchApk \/ check_apk_size \/ FetchIcon
    \/ FailApk \/ record_local_apk

\* The steps that change neither a file nor the list.
QuietStep ==
    \/ \E c \in Catalogs : Publish(c)
    \/ Tick \/ (\E t \in 0 .. MaxClock : SetClock(t))
    \/ FetchList \/ WriteCache \/ StartPhase \/ Nap
    \/ ParseDies \/ StartSweep \/ EndUpdate \/ UNCHANGED vars

\* Every step is one of these.
LEMMA StepKinds ==
    ASSUME [Next]_vars
    PROVE  \/ QuietStep \/ LineStep \/ Crash \/ Boot \/ remove_overdue_info
           \/ \E a \in Apps : mark_apk(a) \/ remove_dir(a) \/ StartApk(a)
  BY Zenon DEF Next, QuietStep, LineStep

LEMMA PhasesNext == ASSUME IndInv, Phases, [Next]_vars PROVE Phases'
<1> USE DEF srvVars, envVars, diskVars, procVars, Phases, Updating, AtLine
<1>1. CASE QuietStep
  <2>1. ASSUME NEW c \in Catalogs, Publish(c) PROVE Phases'
    BY <2>1 DEF Publish
  <2>2. CASE Tick \/ UNCHANGED vars
    BY <2>2 DEF Tick, vars
  <2>3. ASSUME NEW t \in 0 .. MaxClock, SetClock(t) PROVE Phases'
    BY <2>3 DEF SetClock
  <2>4. CASE FetchList
    BY <2>4 DEF FetchList
  <2>5. CASE WriteCache
    BY <2>5 DEF WriteCache
  <2>6. CASE StartPhase
    BY <2>6 DEF StartPhase
  <2>7. CASE Nap
    BY <2>7 DEF Nap, IndInv, TypeOK
  <2>8. CASE ParseDies
    BY <2>8 DEF ParseDies
  <2>9. CASE StartSweep
    BY <2>9 DEF StartSweep
  <2>10. CASE EndUpdate
    BY <2>10 DEF EndUpdate
  <2> QED
    BY <1>1, <2>1, <2>2, <2>3, <2>4, <2>5, <2>6, <2>7, <2>8, <2>9, <2>10 DEF QuietStep
<1>2. CASE LineStep
  BY <1>2 DEF LineStep, KeepApk, UnlinkOld, FetchApk, check_apk_size, FetchIcon,
              FailApk, record_local_apk
<1>3. CASE Crash
  BY <1>3 DEF Crash
<1>4. CASE Boot
  BY <1>4 DEF Boot
<1>5. CASE remove_overdue_info
  BY <1>5 DEF remove_overdue_info
<1>6. ASSUME NEW a \in Apps, mark_apk(a) \/ remove_dir(a) \/ StartApk(a) PROVE Phases'
  BY <1>6 DEF mark_apk, remove_dir, StartApk
<1> QED
  BY <1>1, <1>2, <1>3, <1>4, <1>5, <1>6, StepKinds

LEMMA LinesNext == ASSUME IndInv, Lines, [Next]_vars PROVE Lines'
<1> USE DEF srvVars, envVars, diskVars, procVars
<1>1. CASE UNCHANGED <<server, cat>>
  BY <1>1 DEF Lines, DistinctNumbers
<1>2. ASSUME NEW c \in Catalogs, Publish(c) PROVE Lines'
  BY <1>2, CatalogLines DEF Publish, Lines, DistinctNumbers
<1>3. CASE FetchList
  <2>1. server' = server
    BY <1>3 DEF FetchList
  <2>2. \A e \in Line : LET x == [e EXCEPT !.ver = Unknown, !.pkg = FALSE] IN
                        x.ver = Unknown /\ x.seq = e.seq
    BY DEF Line
  <2>3. \A a \in DOMAIN server : server[a] \in Line
    BY DEF IndInv, TypeOK, IsMap
  <2>4. \/ cat' = server
        \/ \E D \in SUBSET DOMAIN server : cat' = Cut(server, D)
        \/ \E D \in SUBSET DOMAIN server, a \in DOMAIN server :
               cat' = CutInside(server, D, a)
    BY <1>3, Zenon DEF FetchList
  <2>5. ASSUME NEW D \in SUBSET DOMAIN server, cat' = Cut(server, D) PROVE Lines'
    BY <2>1, <2>5 DEF Cut, Lines, DistinctNumbers
  <2>6. ASSUME NEW D \in SUBSET DOMAIN server, NEW a \in DOMAIN server,
               cat' = CutInside(server, D, a)
        PROVE  Lines'
    <3>1. DOMAIN cat' = D
      BY <2>6 DEF CutInside
    <3>2. ASSUME NEW b \in D
          PROVE  cat'[b].seq = server[b].seq /\ cat'[b].ver \in {cat'[b].body, Unknown}
      <4>1. cat'[b] = IF b = a THEN [server[b] EXCEPT !.ver = Unknown, !.pkg = FALSE]
                      ELSE server[b]
        BY <2>6 DEF CutInside
      <4> QED
        BY <4>1, <2>2, <2>3 DEF Lines
    <3> QED
      BY <2>1, <3>1, <3>2 DEF Lines, DistinctNumbers
  <2> QED
    BY <2>1, <2>4, <2>5, <2>6 DEF Lines, DistinctNumbers
<1>4. CASE Crash
  BY <1>4 DEF Crash, Lines, Empty, DistinctNumbers
<1>5. CASE QuietStep
  <2>1. \/ \E c \in Catalogs : Publish(c)
        \/ FetchList
        \/ UNCHANGED <<server, cat>>
    BY <1>5 DEF QuietStep, Tick, SetClock, WriteCache, StartPhase, Nap, ParseDies,
                StartSweep, EndUpdate, vars
  <2> QED
    BY <2>1, <1>1, <1>2, <1>3
<1>6. CASE LineStep
  BY <1>6, <1>1 DEF LineStep, KeepApk, UnlinkOld, FetchApk, check_apk_size, FetchIcon,
                    FailApk, record_local_apk
<1>7. CASE Boot \/ remove_overdue_info
  BY <1>7, <1>1 DEF Boot, remove_overdue_info
<1>8. ASSUME NEW a \in Apps, mark_apk(a) \/ remove_dir(a) \/ StartApk(a) PROVE Lines'
  BY <1>8, <1>1 DEF mark_apk, remove_dir, StartApk
<1> QED
  BY <1>4, <1>5, <1>6, <1>7, <1>8, StepKinds

\* Entries and files are as typed.
LEMMA Typed ==
    ASSUME IndInv
    PROVE  /\ \A a \in DOMAIN list : /\ a \in Apps /\ list[a].name \in Names
                                     /\ list[a].icon \in Icons
                                     /\ list[a].ver \in Nat \cup {Unknown}
                                     /\ list[a].stamp \in Nat
           /\ \A a \in DOMAIN lst : /\ a \in Apps /\ lst[a].name \in Names
                                    /\ lst[a].ver \in Nat \cup {Unknown}
           /\ \A a \in DOMAIN cat : /\ a \in Apps /\ cat[a].name \in Names
                                    /\ cat[a].icon \in Icons
                                    /\ cat[a].ver \in Nat \cup {Unknown}
                                    /\ cat[a].body \in Nat \ {0} /\ cat[a].body \in Vers
           /\ \A a \in Apps, n \in Names : files[a][n] \in Nat \cup {Partial}
           /\ crashes \in Nat
<1>1. /\ \A e \in Entry : /\ e.name \in Names /\ e.icon \in Icons /\ e.stamp \in Nat
                          /\ e.ver \in Nat \cup {Unknown}
      /\ \A e \in SavedEntry : e.name \in Names /\ e.ver \in Nat \cup {Unknown}
      /\ \A e \in Line : /\ e.name \in Names /\ e.icon \in Icons
                         /\ e.ver \in Nat \cup {Unknown}
                         /\ e.body \in Nat \ {0} /\ e.body \in Vers
  <2>0. Vers \cup {Unknown, 0} \subseteq Nat \cup {Unknown}
    <3>1. \A v \in Vers : v \in Nat
      BY DataAssumption
    <3> QED
      BY <3>1
  <2>1. \A e \in Entry : /\ e.name \in Names /\ e.icon \in Icons /\ e.stamp \in Nat
                          /\ e.ver \in Nat \cup {Unknown}
    BY <2>0 DEF Entry
  <2>2. \A e \in SavedEntry : e.name \in Names /\ e.ver \in Nat \cup {Unknown}
    BY <2>0 DEF SavedEntry
  <2>3. \A e \in Line : /\ e.name \in Names /\ e.icon \in Icons
                         /\ e.ver \in Nat \cup {Unknown}
                         /\ e.body \in Nat \ {0} /\ e.body \in Vers
    BY DataAssumption DEF Line
  <2> QED
    BY <2>1, <2>2, <2>3
<1>2. \A c \in Content : c \in Nat \cup {Partial}
  BY DataAssumption DEF Content, NoFile
<1>3. /\ \A a \in DOMAIN list : a \in Apps /\ list[a] \in Entry
      /\ \A a \in DOMAIN lst : a \in Apps /\ lst[a] \in SavedEntry
      /\ \A a \in DOMAIN cat : a \in Apps /\ cat[a] \in Line
      /\ \A a \in Apps, n \in Names : files[a][n] \in Content
      /\ crashes \in Nat
  BY DEF IndInv, TypeOK, IsMap
<1> HIDE DEF Content, Entry, SavedEntry, Line
<1>4. \A a \in Apps, n \in Names : files[a][n] \in Nat \cup {Partial}
  BY <1>2, <1>3
<1> QED
  BY <1>1, <1>3, <1>4

\* A list in memory that promises too little leaves a list file that does.
LEMMA SavedHonest == IndInv /\ Backed => pc = "off" \/ ListHonest
<1> SUFFICES ASSUME IndInv, Backed, pc # "off" PROVE ListHonest
  OBVIOUS
<1> SUFFICES ASSUME NEW a \in DOMAIN lst \ adopted PROVE Backs(a, lst[a].name, lst[a].ver)
  BY DEF ListHonest, Backs
<1>1. lst = Saved(list)
  BY DEF IndInv, ListOnCard
<1>2. DOMAIN Saved(list) = DOMAIN list
  BY DEF Saved
<1>3. a \in DOMAIN list /\ lst[a].name = list[a].name /\ lst[a].ver \in {list[a].ver, Unknown}
  BY <1>1, <1>2, SavedEntries
<1>4. Backs(a, list[a].name, list[a].ver)
  BY <1>3 DEF Backed
<1>5. files[a][list[a].name] \in Nat \cup {Partial} /\ list[a].ver \in Nat \cup {Unknown}
  BY <1>3, Typed
<1> QED
  BY <1>3, <1>4, <1>5 DEF Backs, Unknown, Partial, NoFile

\* record_local_apk writes the entry of cur; of the others it changes at most
\* the number, and that only where it is the number of cur.
LEMMA RecordStep ==
    ASSUME IndInv, record_local_apk
    PROVE  /\ DOMAIN list' = DOMAIN list \cup {cur}
           /\ list'[cur].seq = cat[cur].seq /\ list'[cur].ver = cat[cur].ver
           /\ list'[cur].name = cat[cur].name /\ list'[cur].icon = cat[cur].icon
           /\ list'[cur].stamp = seen
           /\ \A b \in DOMAIN list \ {cur} :
                 /\ list'[b].ver = list[b].ver /\ list'[b].name = list[b].name
                 /\ list'[b].icon = list[b].icon /\ list'[b].stamp = list[b].stamp
                 /\ list[b].seq # cat[cur].seq => list'[b].seq = list[b].seq
<1>1. pc = "record" /\ list' = RecordApk(list, cur, Info(cur))
  BY DEF record_local_apk
<1>2. cur \in Apps /\ cat[cur] \in Line /\ seen \in Nat /\ IsMap(list, Entry)
  BY <1>1 DEF IndInv, AtApk, TypeOK, IsMap
<1>3. PICK e : e = Info(cur)
  OBVIOUS
<1>4. /\ e.seq = cat[cur].seq /\ e.ver = cat[cur].ver /\ e.name = cat[cur].name
      /\ e.icon = cat[cur].icon /\ e.stamp = seen
  BY <1>3 DEF Info
<1>5. e \in Entry
  BY <1>2, <1>3, DataAssumption DEF Info, Line, Entry
<1> DEFINE m == Put(list, cur, e)
<1>6. /\ DOMAIN m = DOMAIN list \cup {cur} /\ m[cur] = e
      /\ \A b \in DOMAIN list \ {cur} : m[b] = list[b] /\ list[b] \in Entry
  BY <1>2 DEF IsMap, Put
<1>7. list' = Renumber(m, cur) /\ DOMAIN list' = DOMAIN m
  BY <1>1, <1>3 DEF RecordApk, Renumber
<1> HIDE DEF m
<1>8. list'[cur] = e
  <2>1. cur \notin Clashes(m, cur) /\ cur \in DOMAIN m
    BY <1>6 DEF Clashes
  <2>2. Renumber(m, cur)[cur] = m[cur]
    BY <2>1, RenumberEntry
  <2> QED
    BY <1>6, <1>7, <2>2
<1>9. ASSUME NEW b \in DOMAIN list \ {cur}
      PROVE  /\ list'[b].ver = list[b].ver /\ list'[b].name = list[b].name
             /\ list'[b].icon = list[b].icon /\ list'[b].stamp = list[b].stamp
             /\ list[b].seq # cat[cur].seq => list'[b].seq = list[b].seq
  <2>1. list[b] \in Entry /\ m[b] = list[b] /\ b \in DOMAIN m
    BY <1>6
  <2>2. CASE list'[b] = list[b]
    BY <2>2
  <2>3. CASE /\ b \in Clashes(m, cur)
             /\ list'[b] = [list[b] EXCEPT !.seq = Least(FreeNumbers(m))]
    <3>1. list[b].seq = cat[cur].seq
      BY <1>4, <1>6, <2>1, <2>3 DEF Clashes
    <3> QED
      BY <2>1, <2>3, <3>1 DEF Entry
  <2>4. \/ Renumber(m, cur)[b] = m[b]
        \/ /\ b \in Clashes(m, cur)
           /\ Renumber(m, cur)[b] = [m[b] EXCEPT !.seq = Least(FreeNumbers(m))]
    BY <2>1, RenumberEntry
  <2> QED
    BY <1>7, <2>1, <2>2, <2>3, <2>4
<1> QED
  BY <1>4, <1>6, <1>7, <1>8, <1>9

LEMMA HonestNext ==
    ASSUME IndInv, IndInv', HonestInv, [Next]_vars PROVE HonestInv'
<1> USE DEF srvVars, envVars, diskVars, procVars
<1>t. Phases /\ Lines /\ Replacing /\ Backed /\ ListHonest /\ Phases' /\ Lines'
  BY PhasesNext, LinesNext DEF HonestInv
<1>a. ASSUME Replacing', Backed', pc' # "off" PROVE HonestInv'
  <2>1. IndInv' /\ Backed' => (pc = "off" \/ ListHonest)'
    BY SavedHonest, PTL
  <2> QED
    BY <1>a, <1>t, <2>1 DEF HonestInv
<1>b. ASSUME ~AtLine' PROVE Replacing'
  BY <1>b DEF Replacing, AtLine
<1>c. ASSUME pc # "off", adopted \subseteq adopted', crashes' = crashes,
             ~ (pc \in {"size", "fail"}),
             \A a \in DOMAIN list' :
                /\ a \in DOMAIN list
                /\ list'[a].name = list[a].name /\ list'[a].ver = list[a].ver,
             \A a \in DOMAIN list : files'[a][list[a].name] \in {files[a][list[a].name], NoFile}
      PROVE  Backed'
  <2> SUFFICES ASSUME NEW a \in DOMAIN list' \ adopted'
               PROVE  Backs(a, list[a].name, list[a].ver)'
    BY <1>c DEF Backed
  <2>1. Backs(a, list[a].name, list[a].ver)
    BY <1>c, <1>t DEF Backed
  <2>2. list[a].ver \in Nat \cup {Unknown} /\ files[a][list[a].name] \in Nat \cup {Partial}
    BY <1>c, Typed
  <2> QED
    BY <1>c, <2>1, <2>2 DEF Backs
<1>1. CASE QuietStep
  <2>1. CASE UNCHANGED <<list, lst, files, adopted, crashes, pc, cur, cat>>
    <3>1. Replacing' /\ Backed' /\ ListHonest'
      BY <2>1, <1>t DEF Replacing, Backed, ListHonest, Backs
    <3> QED
      BY <3>1, <1>t DEF HonestInv
  <2>2. CASE /\ UNCHANGED <<list, files, adopted, crashes>>
             /\ pc \notin {"off", "size", "fail"} /\ ~AtLine' /\ pc' # "off"
    BY <2>2, <1>a, <1>b, <1>c
  <2>3. CASE FetchList \/ WriteCache \/ StartPhase
    BY <2>2, <2>3 DEF FetchList, WriteCache, StartPhase, AtLine
  <2>4. CASE Nap \/ ParseDies \/ StartSweep \/ EndUpdate
    BY <2>2, <2>4 DEF Nap, ParseDies, StartSweep, EndUpdate, AtLine
  <2>5. CASE (\E c \in Catalogs : Publish(c)) \/ Tick \/ UNCHANGED vars
             \/ \E t \in 0 .. MaxClock : SetClock(t)
    BY <2>1, <2>5 DEF Publish, Tick, vars, SetClock
  <2> QED
    BY <1>1, <2>3, <2>4, <2>5 DEF QuietStep
<1>2. CASE Crash
  <2>1. Replacing' /\ Backed'
    BY <1>2, <1>b DEF Crash, AtLine, Backed
  <2>2. UNCHANGED <<lst, files, adopted>> /\ crashes' > 0
    BY <1>2, Typed DEF Crash
  <2>3. ListHonest'
    BY <1>t, <2>2 DEF ListHonest
  <2> QED
    BY <2>1, <2>3, <1>t DEF HonestInv
<1>3. CASE Boot
  <2>1. /\ pc = "off" /\ pc' = "idle" /\ UNCHANGED <<lst, files, adopted, crashes>>
        /\ list' = Loaded(lst, clock') /\ DOMAIN list' = DOMAIN lst
    BY <1>3 DEF Boot, Loaded
  <2>2. Backed'
    <3> SUFFICES ASSUME NEW a \in DOMAIN list' \ adopted'
                 PROVE  Backs(a, list[a].name, list[a].ver)'
      BY DEF Backed
    <3>1. /\ list'[a].name = lst[a].name
          /\ list'[a].ver = lst[a].ver \/ (list'[a].ver = 0 /\ lst[a].ver = Unknown)
      BY <2>1, LoadedEntries
    <3>2. files[a][lst[a].name] \in Nat \cup {Partial} /\ a \in DOMAIN lst \ adopted
      BY <2>1, Typed
    <3>3. LET c == files[a][lst[a].name] IN
          c = NoFile \/ (c = Partial /\ crashes > 0) \/ (c # Partial /\ c >= lst[a].ver)
      BY <2>1, <3>2, <1>t DEF ListHonest
    <3> QED
      BY <2>1, <3>1, <3>2, <3>3 DEF Backs
  <2> QED
    BY <2>1, <2>2, <1>a, <1>b DEF AtLine
<1>4. CASE remove_overdue_info
  <2>1. /\ pc = "sweep" /\ pc' \in {"stamp", "cache"}
        /\ UNCHANGED <<files, adopted, crashes>>
        /\ list' = DropOverdue(list, limit)
    BY <1>4 DEF remove_overdue_info
  <2>2. \A a \in DOMAIN list' : a \in DOMAIN list /\ list'[a] = list[a]
    BY <2>1 DEF DropOverdue
  <2> QED
    BY <2>1, <2>2, <1>a, <1>b, <1>c DEF AtLine
<1>5. ASSUME NEW a \in Apps, mark_apk(a) PROVE HonestInv'
  <2>1. pc = "mark" /\ pc' = "mark" /\ UNCHANGED <<files, adopted, crashes>>
    BY <1>5 DEF mark_apk
  <2>2. list' = list \/ list' = Stamp(list, a, clock)
    BY <1>5, Zenon DEF mark_apk
  <2>3. IsMap(list, Entry) /\ clock \in Nat
    BY DEF IndInv, TypeOK
  <2>4. DOMAIN list' = DOMAIN list
    BY <2>2 DEF Stamp
  <2>5. \A b \in DOMAIN list : list'[b].name = list[b].name /\ list'[b].ver = list[b].ver
    BY <2>2, <2>3, StampEntries
  <2> QED
    BY <2>1, <2>4, <2>5, <1>a, <1>b, <1>c DEF AtLine
<1>6. ASSUME NEW a \in Apps, remove_dir(a) PROVE HonestInv'
  <2>1. pc = "sweep" /\ pc' = "sweep" /\ UNCHANGED <<list, adopted, crashes>>
    BY <1>6 DEF remove_dir
  <2>2. \A b \in Apps, n \in Names : files'[b][n] \in {files[b][n], NoFile}
    BY <1>6 DEF remove_dir, IndInv, TypeOK
  <2>3. \A b \in DOMAIN list : b \in Apps /\ list[b].name \in Names
    BY Typed
  <2> QED
    BY <2>1, <2>2, <2>3, <1>a, <1>b, <1>c DEF AtLine
<1>7. ASSUME NEW a \in Apps, StartApk(a) PROVE HonestInv'
  <2>1. /\ pc = "next" /\ UNCHANGED <<list, files, adopted, crashes, cat>> /\ cur' = a
        /\ pc' = IF a \notin DOMAIN list THEN "fetch"
                 ELSE IF list[a].ver >= cat[a].ver THEN "keep" ELSE "unlink"
    BY <1>7 DEF StartApk
  <2>2. a \in DOMAIN cat
    BY <1>7 DEF StartApk, IndInv, AtApk
  <2>3. cat[a].ver \in Int /\ (a \in DOMAIN list => list[a].ver \in Int)
    BY <2>2, Typed DEF Unknown
  <2>4. Replacing'
    BY <2>1, <2>3 DEF Replacing
  <2> QED
    BY <2>1, <2>4, <1>a, <1>c
<1>c2. ASSUME LineStep
       PROVE  /\ cur \in DOMAIN cat /\ cur \in Apps /\ cat[cur].name \in Names
              /\ cat[cur].ver \in Nat \cup {Unknown} /\ cat[cur].body \in Nat \ {0}
              /\ cat[cur].ver \in {cat[cur].body, Unknown}
              /\ \A n \in Names : files[cur][n] \in Nat \cup {Partial}
  <2>1. cur \in DOMAIN cat
    BY <1>c2 DEF LineStep, KeepApk, UnlinkOld, FetchApk, check_apk_size, FetchIcon,
                 FailApk, record_local_apk, IndInv, AtApk
  <2> QED
    BY <2>1, <1>t, Typed DEF Lines
<1>8. CASE KeepApk
  <2> DEFINE o == list[cur].name
             n == cat[cur].name
  <2>1. /\ pc = "keep" /\ pc' = "record" /\ UNCHANGED <<list, cat, cur, crashes>>
        /\ files' = [files EXCEPT ![cur] = Move(files[cur], o, n)]
        /\ adopted' = IF files[cur][o] = NoFile /\ files[cur][n] # NoFile
                      THEN adopted \cup {cur} ELSE adopted
    BY <1>8 DEF KeepApk
  <2>2. /\ cur \in DOMAIN cat /\ cur \in Apps /\ n \in Names
        /\ cat[cur].ver \in Nat \cup {Unknown}
    BY <1>8, <1>c2 DEF LineStep
  <2>3. /\ cur \in DOMAIN list /\ o \in Names /\ list[cur].ver \in Nat \cup {Unknown}
        /\ list[cur].ver >= cat[cur].ver /\ files[cur][o] \in Nat \cup {Partial}
    BY <1>t, <2>1, <2>2, Typed DEF IndInv, AtApk, Replacing
  <2>4. /\ files[cur] \in [Names -> Content] /\ files \in [Apps -> [Names -> Content]]
    BY <2>2 DEF IndInv, TypeOK
  <2>5. files'[cur] = Move(files[cur], o, n)
    BY <2>1, <2>2, <2>4
  <2>6. files'[cur][o] \in {files[cur][o], NoFile}
    BY <2>2, <2>3, <2>4, <2>5 DEF Move
  <2>7. cur \in adopted' \/ files'[cur][n] = NoFile
        \/ (cur \notin adopted /\ files'[cur][n] = files[cur][o])
    BY <2>1, <2>2, <2>3, <2>4, <2>5 DEF Move
  <2>8. Replacing'
    <3>1. cur \notin adopted => Backs(cur, o, list[cur].ver)
      BY <1>t, <2>1, <2>3 DEF Backed
    <3>2. cur \in adopted' \/ Backs(cur, n, cat[cur].ver)'
      BY <2>1, <2>2, <2>3, <2>7, <3>1 DEF Backs, Unknown, Partial
    <3> QED
      BY <2>1, <3>2 DEF Replacing
  <2>9. Backed'
    <3>1. \A a \in DOMAIN list : files'[a][list[a].name] \in {files[a][list[a].name], NoFile}
      BY <2>1, <2>4, <2>6, Typed
    <3> QED
      BY <2>1, <3>1, <1>c
  <2> QED
    BY <2>1, <2>8, <2>9, <1>a
<1>9. CASE UnlinkOld
  <2>1. /\ pc = "unlink" /\ pc' = "fetch" /\ UNCHANGED <<list, cat, cur, crashes, adopted>>
        /\ files' = [files EXCEPT ![cur][list[cur].name] = NoFile]
    BY <1>9 DEF UnlinkOld
  <2>2. cur \in DOMAIN list /\ cur \in Apps /\ list[cur].name \in Names
    BY <2>1, Typed DEF IndInv, AtApk
  <2>3. /\ files'[cur][list[cur].name] = NoFile
        /\ \A a \in DOMAIN list : files'[a][list[a].name] \in {files[a][list[a].name], NoFile}
    BY <2>1, <2>2, Typed DEF IndInv, TypeOK
  <2>4. Replacing'
    BY <2>1, <2>2, <2>3, <1>t DEF Replacing
  <2> QED
    BY <2>1, <2>3, <2>4, <1>a, <1>c
<1>10. CASE FetchApk
  <2> DEFINE n == cat[cur].name
  <2>1. pc = "fetch" /\ UNCHANGED <<list, cat, cur, crashes>>
    BY <1>10 DEF FetchApk
  <2>2. /\ cur \in Apps /\ n \in Names /\ cat[cur].ver \in Nat \cup {Unknown}
        /\ cat[cur].body \in Nat \ {0} /\ cat[cur].ver \in {cat[cur].body, Unknown}
    BY <1>10, <1>c2 DEF LineStep
  <2>3. CASE files' = files /\ adopted' = adopted /\ pc' = "fail"
    <3>1. Replacing'
      BY <2>1, <2>3, <1>t DEF Replacing
    <3> QED
      BY <2>1, <2>3, <3>1, <1>a, <1>c
  <2>4. ASSUME NEW c \in {cat[cur].body, Partial},
               files' = [files EXCEPT ![cur][n] = c],
               adopted' = adopted \ {cur}, pc' = "size"
        PROVE  HonestInv'
    <3>1. /\ files'[cur][n] = c
          /\ \A a \in Apps, m \in Names : a # cur \/ m # n => files'[a][m] = files[a][m]
      BY <2>2, <2>4 DEF IndInv, TypeOK
    <3>2. ASSUME cur \in DOMAIN list
          PROVE  /\ list[cur].name \in Names /\ files[cur][list[cur].name] = NoFile
                 /\ list[cur].ver < cat[cur].ver /\ list[cur].ver \in Nat \cup {Unknown}
      BY <3>2, <2>1, <1>t, Typed DEF Replacing
    <3>3. Replacing'
      <4>1. cur \in DOMAIN list /\ list[cur].name # n => files'[cur][list[cur].name] = NoFile
        BY <2>2, <3>1, <3>2
      <4> QED
        BY <2>1, <2>4, <3>1, <3>2, <4>1 DEF Replacing
    <3>4. Backed'
      <4> SUFFICES ASSUME NEW a \in DOMAIN list, a \notin adopted'
                   PROVE  Backs(a, list[a].name, list[a].ver)'
        BY <2>1 DEF Backed
      <4>1. CASE a = cur
        <5>1. files'[cur][list[cur].name] = NoFile \/ files'[cur][list[cur].name] = c
          BY <4>1, <3>1, <3>2, <2>2
        <5>2. c = Partial \/ (c \in Nat /\ c # Partial /\ c >= list[cur].ver)
          BY <4>1, <3>2, <2>2 DEF Unknown, Partial
        <5> QED
          BY <4>1, <5>1, <5>2, <2>1, <2>4 DEF Backs
      <4>2. CASE a # cur
        <5>1. Backs(a, list[a].name, list[a].ver)
          BY <4>2, <2>1, <2>4, <1>t DEF Backed
        <5>2. files'[a][list[a].name] = files[a][list[a].name]
          BY <4>2, <3>1, Typed
        <5> QED
          BY <4>2, <5>1, <5>2, <2>1 DEF Backs
      <4> QED
        BY <4>1, <4>2
    <3> QED
      BY <2>4, <3>3, <3>4, <1>a
  <2> QED
    BY <1>10, <2>3, <2>4, Zenon DEF FetchApk
<1>11. CASE check_apk_size
  <2>1. /\ pc = "size" /\ UNCHANGED <<list, files, adopted, cat, cur, crashes>>
        /\ pc' = IF files[cur][cat[cur].name] = Partial THEN "fail" ELSE "icon"
    BY <1>11 DEF check_apk_size
  <2>2. Replacing'
    BY <2>1, <1>t DEF Replacing
  <2>3. Backed'
    <3> SUFFICES ASSUME NEW a \in DOMAIN list, a \notin adopted
                 PROVE  Backs(a, list[a].name, list[a].ver)'
      BY <2>1 DEF Backed
    <3>1. Backs(a, list[a].name, list[a].ver)
      BY <2>1, <1>t DEF Backed
    <3>2. CASE files[a][list[a].name] = Partial /\ cur = a /\ crashes = 0
      <4>1. list[a].name = cat[cur].name
        BY <3>2, <2>1, <1>t DEF Replacing, Partial, NoFile
      <4> QED
        BY <3>2, <4>1, <2>1 DEF Backs
    <3>3. CASE ~ (files[a][list[a].name] = Partial /\ cur = a /\ crashes = 0)
      BY <3>1, <3>3, <2>1, Typed DEF Backs
    <3> QED
      BY <3>2, <3>3
  <2> QED
    BY <2>1, <2>2, <2>3, <1>a
<1>12. CASE FetchIcon
  <2>1. /\ pc = "icon" /\ UNCHANGED <<list, files, adopted, cat, cur, crashes>>
        /\ pc' \in {"record", "fail"}
    BY <1>12 DEF FetchIcon
  <2>2. /\ cat[cur].ver \in {cat[cur].body, Unknown} /\ cat[cur].body \in Nat \ {0}
    BY <1>12, <1>c2 DEF LineStep
  <2>3. files[cur][cat[cur].name] = cat[cur].body
    BY <2>1, <1>t DEF Replacing
  <2>4. Backs(cur, cat[cur].name, cat[cur].ver)'
    BY <2>1, <2>2, <2>3 DEF Backs, Unknown, Partial
  <2>5. Replacing'
    BY <2>1, <2>4, <1>t DEF Replacing
  <2> QED
    BY <2>1, <2>5, <1>a, <1>c
<1>13. CASE FailApk
  <2>1. /\ pc = "fail" /\ pc' = "next" /\ UNCHANGED <<list, adopted, cat, crashes>>
        /\ files' = [files EXCEPT ![cur][cat[cur].name] = NoFile]
    BY <1>13 DEF FailApk
  <2>2. cur \in Apps /\ cat[cur].name \in Names
    BY <1>13, <1>c2 DEF LineStep
  <2>3. /\ files'[cur][cat[cur].name] = NoFile
        /\ \A a \in Apps, m \in Names :
              a # cur \/ m # cat[cur].name => files'[a][m] = files[a][m]
    BY <2>1, <2>2 DEF IndInv, TypeOK
  <2>4. Backed'
    <3> SUFFICES ASSUME NEW a \in DOMAIN list, a \notin adopted
                 PROVE  Backs(a, list[a].name, list[a].ver)'
      BY <2>1 DEF Backed
    <3>1. a \in Apps /\ list[a].name \in Names
      BY Typed
    <3>2. CASE a = cur
      <4>1. files'[a][list[a].name] = NoFile
        <5>1. list[a].name # cat[cur].name => files[a][list[a].name] = NoFile
          BY <3>2, <2>1, <1>t DEF Replacing
        <5> QED
          BY <3>1, <3>2, <5>1, <2>2, <2>3
      <4> QED
        BY <4>1, <2>1 DEF Backs
    <3>3. CASE a # cur
      <4>1. Backs(a, list[a].name, list[a].ver)
        BY <2>1, <1>t DEF Backed
      <4> QED
        BY <3>1, <3>3, <4>1, <2>1, <2>3 DEF Backs
    <3> QED
      BY <3>2, <3>3
  <2> QED
    BY <2>1, <2>4, <1>a, <1>b DEF AtLine
<1>14. CASE record_local_apk
  <2>1. /\ pc = "record" /\ pc' = "next" /\ UNCHANGED <<files, adopted, crashes>>
        /\ list' = RecordApk(list, cur, Info(cur))
    BY <1>14 DEF record_local_apk
  <2>4. /\ DOMAIN list' = DOMAIN list \cup {cur}
        /\ list'[cur].name = cat[cur].name /\ list'[cur].ver = cat[cur].ver
        /\ \A b \in DOMAIN list \ {cur} :
              list'[b].ver = list[b].ver /\ list'[b].name = list[b].name
    BY <1>14, RecordStep
  <2>5. Backed'
    <3> SUFFICES ASSUME NEW a \in DOMAIN list', a \notin adopted
                 PROVE  Backs(a, list[a].name, list[a].ver)'
      BY <2>1 DEF Backed
    <3>1. CASE a = cur
      <4>1. Backs(cur, cat[cur].name, cat[cur].ver)
        BY <3>1, <2>1, <1>t DEF Replacing
      <4> QED
        BY <3>1, <4>1, <2>1, <2>4 DEF Backs
    <3>2. CASE a # cur
      <4>1. Backs(a, list[a].name, list[a].ver)
        BY <3>2, <2>1, <2>4, <1>t DEF Backed
      <4> QED
        BY <3>2, <4>1, <2>1, <2>4 DEF Backs
    <3> QED
      BY <3>1, <3>2
  <2> QED
    BY <2>1, <2>5, <1>a, <1>b DEF AtLine
<1>15. LineStep => HonestInv'
  BY <1>8, <1>9, <1>10, <1>11, <1>12, <1>13, <1>14 DEF LineStep
<1> QED
  BY <1>1, <1>2, <1>3, <1>4, <1>5, <1>6, <1>7, <1>15, StepKinds

LEMMA HonestInit == Init => HonestInv
<1> SUFFICES ASSUME Init PROVE HonestInv
  OBVIOUS
<1>1. Lines
  BY CatalogLines DEF Init, Lines, Empty, DistinctNumbers
<1> QED
  BY <1>1 DEF Init, HonestInv, Phases, Updating, AtLine, Replacing, Backed, ListHonest, Empty

\* The invariants of the list, its file and the phases hold throughout.
LEMMA AlwaysHonest == Spec => [](IndInv /\ HonestInv)
<1>1. (IndInv /\ HonestInv) /\ [Next]_vars => (IndInv /\ HonestInv)'
  BY NextInv, HonestNext
<1> QED
  BY <1>1, InitInv, HonestInit, PTL DEF Spec

\* The list file never promises a newer version than its file holds: not after
\* a failed or short download, not after a crash between unlink, download and
\* record, not for lists cut short; only an entry that was renamed while its
\* file was gone can end up with another file than its version says.
THEOREM ListStaysHonest == Spec => []ListHonest
<1>1. HonestInv => ListHonest
  BY DEF HonestInv
<1> QED
  BY <1>1, AlwaysHonest, PTL

-----------------------------------------------------------------------------
(* Times, as long as the clock is not set back. *)

\* Phase 1 from the time it begins, phase 2 likewise; the part of phase 2 that
\* looks at lines and what follows it; the end of the cycle.
Phase1 == (pc \in {"nap", "sweep"} /\ phase = 1) \/ pc = "mark"
Phase2 == (pc \in {"nap", "sweep"} /\ phase = 2) \/ Updating
Updated == (pc = "sweep" /\ phase = 2) \/ Updating
Ended == (pc = "cache" /\ phase = 2) \/ pc = "idle"

\* No time lies in the future, and what a phase stamps is later than its
\* beginning.
Times ==
    /\ \A a \in DOMAIN list : list[a].stamp <= clock
    /\ limit <= clock
    /\ pc \in {"mark", "sweep"} \/ Updating => limit < clock
    /\ AtLine => limit < seen /\ seen <= clock

\* What the fetched list does not name is older than phase 2.
OldEntries ==
    \A a \in DOMAIN list \ DOMAIN cat :
        /\ Phase1 => list[a].stamp <= limit
        /\ pc = "stamp" /\ phase = 2 => list[a].stamp < clock
        /\ Phase2 => list[a].stamp < limit

Same(a) == /\ list[a].seq = cat[a].seq /\ list[a].ver = cat[a].ver
           /\ list[a].name = cat[a].name /\ list[a].icon = cat[a].icon

\* Lines that are done are recorded as fetched and newer than phase 2: later
\* lines push none of them aside, since the fetched numbers are distinct.
Recorded ==
    /\ Updated => \A a \in DOMAIN cat \ (todo \cup {cur}) :
                     a \in DOMAIN list /\ Same(a) /\ list[a].stamp > limit
    /\ Ended => DOMAIN list = DOMAIN cat /\ \A a \in DOMAIN list : Same(a)

CycleInv == ~stepped => Times /\ OldEntries /\ (flag = 0 => Recorded)

LEMMA CycleNext ==
    ASSUME IndInv, IndInv', HonestInv, CycleInv, [Next]_vars PROVE CycleInv'
<1> USE DEF srvVars, envVars, diskVars, procVars
<1> SUFFICES ASSUME ~stepped' PROVE Times' /\ OldEntries' /\ (flag = 0 => Recorded)'
  BY DEF CycleInv
<1>p. Phases /\ Lines
  BY DEF HonestInv
<1>n. /\ clock \in Nat /\ clock' \in Nat /\ limit \in Nat /\ seen \in Nat
      /\ DOMAIN cat \subseteq Apps /\ NoApp \notin Apps /\ phase \in {1, 2}
      /\ \A a \in DOMAIN list : list[a].stamp \in Nat
      /\ \A a \in DOMAIN list : a \in Apps
      /\ IsMap(list, Entry)
  BY Typed, AppsAssumption DEF IndInv, TypeOK, IsMap
<1> USE DEF AtLine, Updating, Phase1, Phase2, Updated, Ended
<1>1. CASE Crash
  BY <1>1 DEF Crash, Times, OldEntries, Recorded, Empty
<1>2. ASSUME NEW t \in 0 .. MaxClock, SetClock(t) PROVE FALSE
  BY <1>2 DEF SetClock
<1>3. CASE Boot
  <2>1. /\ pc = "off" /\ pc' = "idle" /\ flag' = 1 /\ limit' = limit /\ stepped' = stepped
        /\ list' = Loaded(lst, clock')
    BY <1>3, <1>p DEF Boot, Phases
  <2>2. clock' >= clock
    BY <1>3, <1>n DEF Boot, IndInv, TypeOK, CachedTimes
  <2>3. limit <= clock
    BY <2>1 DEF CycleInv, Times
  <2>4. \A a \in DOMAIN list' : list'[a].stamp = clock'
    BY <2>1 DEF Loaded
  <2> QED
    BY <1>n, <2>1, <2>2, <2>3, <2>4 DEF Times, OldEntries
<1>4. ASSUME stepped' = stepped PROVE Times /\ OldEntries /\ (flag = 0 => Recorded)
  BY <1>4 DEF CycleInv
<1>5. CASE QuietStep
  <2>1. Times /\ OldEntries /\ (flag = 0 => Recorded)
    BY <1>2, <1>4, <1>5 DEF QuietStep, Publish, Tick, FetchList, WriteCache, StartPhase,
                            Nap, ParseDies, StartSweep, EndUpdate, vars
  <2>2. CASE (\E c \in Catalogs : Publish(c)) \/ UNCHANGED vars
    BY <2>1, <2>2 DEF Publish, vars, Times, OldEntries, Recorded, Same
  <2>3. CASE Tick
    BY <1>n, <2>1, <2>3 DEF Tick, Times, OldEntries, Recorded, Same
  <2>4. CASE FetchList
    BY <1>n, <2>1, <2>4 DEF FetchList, Times, OldEntries, Recorded
  <2>5. CASE WriteCache
    BY <1>n, <2>1, <2>5 DEF WriteCache, Times, OldEntries, Recorded, Same
  <2>6. CASE StartPhase
    BY <1>n, <2>1, <2>6 DEF StartPhase, Times, OldEntries, Recorded
  <2>7. CASE Nap
    BY <1>n, <2>1, <2>7 DEF Nap, Times, OldEntries, Recorded
  <2>8. CASE ParseDies
    BY <2>1, <2>8 DEF ParseDies, Times, OldEntries, Recorded
  <2>9. CASE StartSweep
    BY <1>p, <2>1, <2>9 DEF StartSweep, Phases, Times, OldEntries, Recorded
  <2>10. CASE EndUpdate
    BY <1>p, <2>1, <2>10 DEF EndUpdate, Phases, Times, OldEntries, Recorded, Same
  <2> QED
    BY <1>2, <1>5, <2>2, <2>3, <2>4, <2>5, <2>6, <2>7, <2>8, <2>9, <2>10 DEF QuietStep
<1>6. ASSUME NEW a \in Apps, mark_apk(a) PROVE Times' /\ OldEntries' /\ (flag = 0 => Recorded)'
  <2>1. Times /\ OldEntries /\ pc = "mark" /\ UNCHANGED <<pc, phase, limit, clock, cat, flag>>
    BY <1>4, <1>6 DEF mark_apk
  <2>2. list' = list \/ list' = Stamp(list, a, clock)
    BY <1>6, Zenon DEF mark_apk
  <2>3. DOMAIN list' = DOMAIN list
    BY <2>2 DEF Stamp
  <2>4. \A b \in DOMAIN list : list'[b].stamp = list[b].stamp \/ (b = a /\ list'[b].stamp = clock)
    BY <1>n, <2>2, StampEntries
  <2>5. a \in DOMAIN cat
    BY <1>6 DEF mark_apk, IndInv, AtApk
  <2> QED
    BY <1>n, <2>1, <2>3, <2>4, <2>5 DEF Times, OldEntries, Recorded
<1>7. ASSUME NEW a \in Apps, remove_dir(a) PROVE Times' /\ OldEntries' /\ (flag = 0 => Recorded)'
  BY <1>4, <1>7 DEF remove_dir, Times, OldEntries, Recorded, Same
<1>8. ASSUME NEW a \in Apps, StartApk(a) PROVE Times' /\ OldEntries' /\ (flag = 0 => Recorded)'
  <2>1. /\ Times /\ OldEntries /\ (flag = 0 => Recorded)
        /\ pc = "next" /\ pc' \in {"fetch", "keep", "unlink"} /\ cur' = a /\ seen' = clock
        /\ todo' = todo \ {a} /\ UNCHANGED <<list, cat, phase, limit, clock, flag>>
    BY <1>4, <1>8 DEF StartApk
  <2>2. cur = NoApp
    BY <1>p, <2>1 DEF Phases
  <2>3. DOMAIN cat \ (todo' \cup {cur'}) \subseteq DOMAIN cat \ (todo \cup {cur})
    BY <1>n, <2>1, <2>2
  <2>4. Times' /\ OldEntries'
    BY <1>n, <2>1 DEF Times, OldEntries
  <2>5. (flag = 0 => Recorded)'
    BY <2>1, <2>3 DEF Recorded, Same
  <2> QED
    BY <2>4, <2>5
<1>9. CASE remove_overdue_info
  <2>1. /\ Times /\ OldEntries /\ (flag = 0 => Recorded) /\ pc = "sweep"
        /\ list' = DropOverdue(list, limit) /\ UNCHANGED <<cat, clock, flag, todo, cur>>
        /\ \/ phase = 1 /\ phase' = 2 /\ pc' = "stamp" /\ limit' = limit
           \/ phase = 2 /\ phase' = 2 /\ pc' = "cache" /\ limit' = clock
    BY <1>4, <1>9 DEF remove_overdue_info
  <2>2. /\ DOMAIN list' = {b \in DOMAIN list : list[b].stamp >= limit}
        /\ \A b \in DOMAIN list' : list'[b] = list[b]
    BY <2>1 DEF DropOverdue
  <2>3. Times' /\ OldEntries'
    BY <1>n, <2>1, <2>2 DEF Times, OldEntries
  <2>4. ASSUME flag = 0, phase = 2 PROVE DOMAIN list' = DOMAIN cat /\ \A a \in DOMAIN cat : Same(a)
    <3>1. DOMAIN cat \ (todo \cup {cur}) = DOMAIN cat
      BY <1>n, <1>p, <2>1 DEF Phases
    <3>2. \A a \in DOMAIN cat : a \in DOMAIN list /\ Same(a) /\ list[a].stamp > limit
      BY <2>1, <2>4, <3>1 DEF Recorded
    <3>3. \A a \in DOMAIN list \ DOMAIN cat : list[a].stamp < limit
      BY <2>1, <2>4 DEF OldEntries
    <3>4. \A a \in DOMAIN list : list[a].stamp >= limit <=> a \in DOMAIN cat
      BY <1>n, <3>2, <3>3
    <3> QED
      BY <2>2, <3>2, <3>4
  <2>5. (flag = 0 => Recorded)'
    BY <2>1, <2>2, <2>4 DEF Recorded, Same
  <2> QED
    BY <2>3, <2>5
<1>10. CASE KeepApk \/ UnlinkOld \/ FetchApk \/ check_apk_size \/ FetchIcon
  <2>1. /\ stepped' = stepped /\ AtLine /\ AtLine'
        /\ UNCHANGED <<list, cat, phase, limit, clock, flag, todo, cur, seen>>
    BY <1>10 DEF KeepApk, UnlinkOld, FetchApk, check_apk_size, FetchIcon
  <2> QED
    BY <1>4, <2>1 DEF Times, OldEntries, Recorded, Same
<1>11. CASE FailApk
  BY <1>4, <1>11 DEF FailApk, Times, OldEntries
<1>12. CASE record_local_apk
  <2>1. /\ Times /\ OldEntries /\ (flag = 0 => Recorded) /\ pc = "record" /\ pc' = "next"
        /\ cur' = NoApp /\ UNCHANGED <<cat, phase, limit, clock, flag, todo>>
    BY <1>4, <1>12 DEF record_local_apk
  <2>2. cur \in DOMAIN cat
    BY <2>1 DEF IndInv, AtApk
  <2>3. /\ DOMAIN list' = DOMAIN list \cup {cur}
        /\ list'[cur].seq = cat[cur].seq /\ list'[cur].ver = cat[cur].ver
        /\ list'[cur].name = cat[cur].name /\ list'[cur].icon = cat[cur].icon
        /\ list'[cur].stamp = seen
        /\ \A b \in DOMAIN list \ {cur} :
              /\ list'[b].ver = list[b].ver /\ list'[b].name = list[b].name
              /\ list'[b].icon = list[b].icon /\ list'[b].stamp = list[b].stamp
              /\ list[b].seq # cat[cur].seq => list'[b].seq = list[b].seq
    BY <1>12, RecordStep
  <2>4. Times' /\ OldEntries'
    BY <1>n, <2>1, <2>2, <2>3 DEF Times, OldEntries
  <2>5. ASSUME flag = 0, NEW a \in DOMAIN cat, a \notin todo
        PROVE  a \in DOMAIN list' /\ Same(a)' /\ list'[a].stamp > limit
    <3>1. CASE a = cur
      BY <3>1, <2>1, <2>3 DEF Same, Times
    <3>2. CASE a # cur
      <4>1. a \in DOMAIN list /\ Same(a) /\ list[a].stamp > limit
        BY <3>2, <2>1, <2>5 DEF Recorded
      <4>2. cat[a].seq # cat[cur].seq
        BY <3>2, <2>2, <1>p DEF Lines, DistinctNumbers
      <4> QED
        BY <3>2, <4>1, <4>2, <2>1, <2>3 DEF Same
    <3> QED
      BY <3>1, <3>2
  <2>6. (flag = 0 => Recorded)'
    BY <2>1, <2>5 DEF Recorded
  <2> QED
    BY <2>4, <2>6
<1>13. LineStep => Times' /\ OldEntries' /\ (flag = 0 => Recorded)'
  BY <1>10, <1>11, <1>12 DEF LineStep
<1> QED
  BY <1>1, <1>3, <1>5, <1>6, <1>7, <1>8, <1>9, <1>13, StepKinds

\* The invariants of times and records hold throughout.
LEMMA AlwaysCycle == Spec => []CycleInv
<1>1. Init => CycleInv
  BY DEF Init, CycleInv, Times, OldEntries, Recorded, Empty, Updating, AtLine
<1>2. (IndInv /\ HonestInv) /\ (IndInv /\ HonestInv)' /\ CycleInv /\ [Next]_vars => CycleInv'
  BY CycleNext
<1> QED
  BY <1>1, <1>2, AlwaysHonest, PTL DEF Spec

\* However lines were renumbered and whatever was swept, a cycle without a
\* failed line leaves the list equal to the fetched one.
THEOREM CyclesConverge == Spec => []CycleConverges
<1>1. CycleInv => CycleConverges
  BY DEF CycleInv, Recorded, Same, Ended, CycleConverges
<1> QED
  BY <1>1, AlwaysCycle, PTL

-----------------------------------------------------------------------------
(* The sweeps. *)

\* The file system stores times to the second, or to two seconds as FAT does:
\* what is stamped after the sleep(1) of a phase never looks older than the
\* beginning of the phase.
FatTimes == MtimeGrain \in {1, 2}

LEMMA MtimeBounds ==
    ASSUME NEW t \in Nat
    PROVE  /\ Mtime(t) \in Nat /\ Mtime(t) <= t
           /\ FatTimes => \A l \in Nat : l < t => l <= Mtime(t)
<1>1. t % MtimeGrain \in Nat /\ t % MtimeGrain <= t
  BY BoundAssumption
<1>2. CASE MtimeGrain = 1
  <2>1. t % 1 = 0
    OBVIOUS
  <2> QED
    BY <1>1, <1>2, <2>1 DEF Mtime
<1>3. CASE MtimeGrain = 2
  <2>1. t % 2 \in {0, 1}
    OBVIOUS
  <2> QED
    BY <1>1, <1>3, <2>1 DEF Mtime
<1>4. Mtime(t) \in Nat /\ Mtime(t) <= t
  BY <1>1 DEF Mtime
<1> QED
  BY <1>2, <1>3, <1>4 DEF FatTimes

\* The directories of the fetched list are stamped before each sweep looks at
\* them, and none is among its victims.
Spared ==
    /\ pc = "mark" => \A a \in DOMAIN cat \ todo :
                         dirT[a] # NoDir => dirT[a] >= limit /\ rootT >= limit
    /\ pc = "sweep" => victims \cap DOMAIN cat = {}
    /\ Updating => \A a \in DOMAIN cat \ todo : dirT[a] >= limit /\ rootT >= limit
    /\ (pc = "sweep" /\ phase = 2) \/ (Ended /\ flag = 0) =>
          \A a \in DOMAIN cat : dirT[a] # NoDir

SparedInv == ~stepped => Spared

LEMMA SparedNext ==
    ASSUME FatTimes, IndInv, IndInv', HonestInv, CycleInv, SparedInv, [Next]_vars
    PROVE  SparedInv'
<1> USE DEF srvVars, envVars, diskVars, procVars
<1> SUFFICES ASSUME ~stepped' PROVE Spared'
  BY DEF SparedInv
<1>p. Phases
  BY DEF HonestInv
<1>n. /\ clock \in Nat /\ limit \in Nat /\ DOMAIN cat \subseteq Apps /\ phase \in {1, 2}
      /\ dirT \in [Apps -> Nat \cup {NoDir}] /\ rootT \in Nat \cup {NoDir}
  BY DEF IndInv, TypeOK, IsMap
<1>m. ASSUME stepped' = stepped, pc = "mark" \/ Updating
      PROVE  Mtime(clock) \in Nat /\ Mtime(clock) >= limit
  <2>1. limit < clock
    BY <1>m DEF CycleInv, Times
  <2> QED
    BY <1>n, <2>1, MtimeBounds
<1>s. ASSUME stepped' = stepped PROVE Spared
  BY <1>s DEF SparedInv
<1> USE DEF AtLine, Updating, Ended
<1>1. CASE Crash
  BY <1>1 DEF Crash, Spared
<1>2. ASSUME NEW t \in 0 .. MaxClock, SetClock(t) PROVE FALSE
  BY <1>2 DEF SetClock
<1>3. CASE Boot
  BY <1>3, <1>p DEF Boot, Phases, Spared
<1>4. CASE QuietStep
  <2>1. Spared
    BY <1>2, <1>4, <1>s DEF QuietStep, Publish, Tick, FetchList, WriteCache, StartPhase,
                            Nap, ParseDies, StartSweep, EndUpdate, vars
  <2>2. CASE (\E c \in Catalogs : Publish(c)) \/ Tick \/ UNCHANGED vars
    BY <2>1, <2>2 DEF Publish, Tick, vars, Spared
  <2>3. CASE FetchList \/ StartPhase \/ Nap \/ ParseDies
    BY <2>3 DEF FetchList, StartPhase, Nap, ParseDies, Spared
  <2>4. CASE WriteCache
    BY <1>n, <2>1, <2>4 DEF WriteCache, Spared
  <2>5. CASE StartSweep
    BY <1>n, <1>p, <2>1, <2>5 DEF StartSweep, Phases, Spared, Overdue
  <2>6. CASE EndUpdate
    BY <1>n, <1>p, <2>1, <2>6 DEF EndUpdate, Phases, Spared, Overdue, NoDir
  <2> QED
    BY <1>2, <1>4, <2>2, <2>3, <2>4, <2>5, <2>6 DEF QuietStep
<1>5. ASSUME NEW a \in Apps, mark_apk(a) PROVE Spared'
  <2>1. /\ Spared /\ Mtime(clock) >= limit /\ Mtime(clock) \in Nat
        /\ pc = "mark" /\ pc' = "mark" /\ todo' = todo \ {a}
        /\ UNCHANGED <<cat, limit, phase>>
    BY <1>5, <1>m, <1>s DEF mark_apk
  <2>2. \/ dirT[a] = NoDir /\ UNCHANGED <<dirT, rootT>>
        \/ dirT' = [dirT EXCEPT ![a] = Mtime(clock)] /\ rootT' = Mtime(clock)
    BY <1>5, Zenon DEF mark_apk
  <2> QED
    BY <1>n, <2>1, <2>2 DEF Spared
<1>6. ASSUME NEW a \in Apps, remove_dir(a) PROVE Spared'
  <2>1. /\ Spared /\ pc = "sweep" /\ pc' = "sweep" /\ a \in victims
        /\ victims' = victims \ {a} /\ dirT' = [dirT EXCEPT ![a] = NoDir]
        /\ UNCHANGED <<cat, phase>>
    BY <1>6, <1>s DEF remove_dir
  <2>2. a \notin DOMAIN cat /\ \A b \in DOMAIN cat : dirT'[b] = dirT[b]
    BY <1>n, <2>1 DEF Spared
  <2> QED
    BY <2>1, <2>2 DEF Spared
<1>7. ASSUME NEW a \in Apps, StartApk(a) PROVE Spared'
  <2>1. /\ Spared /\ Mtime(clock) >= limit
        /\ pc = "next" /\ pc' \in {"fetch", "keep", "unlink"} /\ todo' = todo \ {a}
        /\ dirT' = [dirT EXCEPT ![a] = Mtime(clock)] /\ rootT' = Mtime(clock)
        /\ UNCHANGED <<cat, limit, phase>>
    BY <1>7, <1>m, <1>s DEF StartApk
  <2> QED
    BY <1>n, <2>1 DEF Spared
<1>8. CASE remove_overdue_info
  BY <1>8, <1>s DEF remove_overdue_info, Spared
<1>9. CASE LineStep
  <2>1. /\ stepped' = stepped /\ Updating /\ Updating' /\ UNCHANGED <<cat, limit, rootT, todo>>
        /\ dirT' = dirT \/ dirT' = [dirT EXCEPT ![cur] = Mtime(clock)]
    BY <1>9 DEF LineStep, KeepApk, UnlinkOld, FetchApk, check_apk_size, FetchIcon,
                FailApk, record_local_apk, TouchDir
  <2>2. Mtime(clock) >= limit /\ Spared
    BY <2>1, <1>m, <1>s
  <2>3. \A b \in DOMAIN cat \ todo : dirT'[b] >= limit /\ rootT' >= limit
    BY <1>n, <2>1, <2>2 DEF Spared
  <2> QED
    BY <2>1, <2>3 DEF Spared
<1> QED
  BY <1>1, <1>3, <1>4, <1>5, <1>6, <1>7, <1>8, <1>9, StepKinds

LEMMA AlwaysSpared == ASSUME FatTimes PROVE Spec => []SparedInv
<1>1. Init => SparedInv
  BY DEF Init, SparedInv, Spared, Ended, Updating, AtLine
<1>2. /\ (IndInv /\ HonestInv) /\ (IndInv /\ HonestInv)' /\ CycleInv /\ SparedInv
      /\ [Next]_vars
      => SparedInv'
  BY SparedNext
<1> QED
  BY <1>1, <1>2, AlwaysHonest, AlwaysCycle, PTL DEF Spec

\* With directory times of one or two seconds, a sweep removes the directory
\* of an application that the fetched list names only if the clock was set
\* back.
THEOREM ListedSpared == ASSUME FatTimes PROVE Spec => SweepSparesListed
<1>1. ASSUME IndInv, SparedInv, [Next]_vars
      PROVE  [\A a \in DOMAIN cat : dirT[a] # NoDir /\ dirT'[a] = NoDir => stepped]_vars
  <2> USE DEF srvVars, envVars, diskVars, procVars
  <2> SUFFICES ASSUME NEW a \in DOMAIN cat, dirT[a] # NoDir, dirT'[a] = NoDir, ~stepped
               PROVE  FALSE
    OBVIOUS
  <2>n. /\ dirT \in [Apps -> Nat \cup {NoDir}] /\ a \in Apps
        /\ Mtime(clock) \in Nat /\ Mtime(clock) # NoDir
    BY <1>1, MtimeType DEF IndInv, TypeOK, IsMap, NoDir
  <2>1. ASSUME NEW b \in Apps, remove_dir(b) PROVE FALSE
    BY <1>1, <2>1, <2>n DEF remove_dir, SparedInv, Spared
  <2>2. ASSUME NEW b \in Apps, mark_apk(b) \/ StartApk(b) PROVE FALSE
    <3>1. dirT' = dirT \/ dirT' = [dirT EXCEPT ![b] = Mtime(clock)]
      BY <2>2, Zenon DEF mark_apk, StartApk
    <3> QED
      BY <2>n, <3>1
  <2>3. CASE LineStep
    <3>1. dirT' = dirT \/ dirT' = [dirT EXCEPT ![cur] = Mtime(clock)]
      BY <2>3 DEF LineStep, KeepApk, UnlinkOld, FetchApk, check_apk_size, FetchIcon,
                  FailApk, record_local_apk, TouchDir
    <3> QED
      BY <2>n, <3>1
  <2>4. CASE QuietStep \/ Crash \/ Boot \/ remove_overdue_info
    BY <2>4 DEF QuietStep, Publish, Tick, SetClock, FetchList, WriteCache, StartPhase, Nap,
                ParseDies, StartSweep, EndUpdate, vars, Crash, Boot, remove_overdue_info
  <2> QED
    BY <1>1, <2>1, <2>2, <2>3, <2>4, StepKinds
<1> QED
  BY <1>1, AlwaysHonest, AlwaysSpared, PTL DEF Spec, SweepSparesListed

\* Until power is lost, directories are no newer than the clock, and those the
\* fetched list does not name are older than phase 2 and go in its sweep.
OldDirs ==
    /\ \A a \in Apps : dirT[a] <= clock
    /\ \A a \in Apps \ DOMAIN cat :
          /\ Phase1 => dirT[a] <= limit
          /\ pc = "stamp" /\ phase = 2 => dirT[a] < clock
          /\ Phase2 => dirT[a] < limit
          /\ pc = "sweep" /\ phase = 2 => dirT[a] = NoDir \/ a \in victims
          /\ Ended /\ flag = 0 => dirT[a] = NoDir

DirsInv == ~stepped /\ crashes = 0 => OldDirs

LEMMA DirsNext ==
    ASSUME IndInv, IndInv', HonestInv, CycleInv, DirsInv, [Next]_vars
    PROVE  DirsInv'
<1> USE DEF srvVars, envVars, diskVars, procVars
<1> SUFFICES ASSUME ~stepped', crashes' = 0 PROVE OldDirs'
  BY DEF DirsInv
<1>p. Phases
  BY DEF HonestInv
<1>n. /\ clock \in Nat /\ clock' \in Nat /\ limit \in Nat /\ phase \in {1, 2}
      /\ dirT \in [Apps -> Nat \cup {NoDir}] /\ crashes \in Nat
      /\ \A a \in Apps : dirT[a] \in Int
      /\ Mtime(clock) \in Nat /\ Mtime(clock) <= clock
  BY MtimeBounds DEF IndInv, TypeOK, NoDir
<1>s. ASSUME stepped' = stepped, crashes' = crashes PROVE OldDirs /\ Times
  BY <1>s DEF DirsInv, CycleInv
<1> USE DEF AtLine, Updating, Phase1, Phase2, Ended
<1>1. ASSUME Crash PROVE FALSE
  BY <1>1, <1>n DEF Crash
<1>2. ASSUME NEW t \in 0 .. MaxClock, SetClock(t) PROVE FALSE
  BY <1>2 DEF SetClock
<1>3. CASE Boot
  <2>1. /\ OldDirs /\ pc' = "idle" /\ flag' = 1 /\ dirT' = dirT
    BY <1>3, <1>p, <1>s DEF Boot, Phases
  <2>2. clock' >= clock
    BY <1>3, <1>n DEF Boot, IndInv, TypeOK, CachedTimes
  <2> QED
    BY <1>n, <2>1, <2>2 DEF OldDirs
<1>4. CASE QuietStep
  <2>1. OldDirs /\ Times
    BY <1>2, <1>4, <1>s DEF QuietStep, Publish, Tick, FetchList, WriteCache, StartPhase,
                            Nap, ParseDies, StartSweep, EndUpdate, vars
  <2>2. CASE (\E c \in Catalogs : Publish(c)) \/ UNCHANGED vars
    BY <2>1, <2>2 DEF Publish, vars, OldDirs
  <2>3. CASE Tick
    BY <1>n, <2>1, <2>3 DEF Tick, OldDirs
  <2>4. CASE FetchList \/ ParseDies
    BY <2>1, <2>4 DEF FetchList, ParseDies, OldDirs
  <2>5. CASE WriteCache
    BY <1>n, <2>1, <2>5 DEF WriteCache, OldDirs
  <2>6. CASE StartPhase
    BY <1>n, <2>1, <2>6 DEF StartPhase, OldDirs
  <2>7. CASE Nap
    BY <1>n, <2>1, <2>7 DEF Nap, OldDirs
  <2>8. CASE StartSweep
    BY <1>p, <2>1, <2>8 DEF StartSweep, Phases, OldDirs
  <2>9. CASE EndUpdate
    <3>1. /\ pc = "next" /\ pc' = "sweep" /\ victims' = Overdue /\ phase = 2
          /\ UNCHANGED <<clock, limit, phase, dirT, cat>>
      BY <1>p, <2>9 DEF EndUpdate, Phases
    <3>2. \A a \in Apps \ DOMAIN cat : dirT[a] < limit
      BY <2>1, <3>1 DEF OldDirs
    <3>3. \A a \in Apps \ DOMAIN cat : dirT[a] = NoDir \/ a \in Overdue
      BY <3>2 DEF Overdue
    <3> QED
      BY <2>1, <3>1, <3>2, <3>3 DEF OldDirs
  <2> QED
    BY <1>2, <1>4, <2>2, <2>3, <2>4, <2>5, <2>6, <2>7, <2>8, <2>9 DEF QuietStep
<1>5. ASSUME NEW a \in Apps, remove_dir(a) PROVE OldDirs'
  <2>1. /\ OldDirs /\ victims' = victims \ {a} /\ dirT' = [dirT EXCEPT ![a] = NoDir]
        /\ UNCHANGED <<pc, clock, limit, phase, cat, flag>> /\ pc = "sweep"
    BY <1>5, <1>s DEF remove_dir
  <2>2. /\ dirT'[a] = NoDir /\ NoDir < clock /\ NoDir < limit
        /\ \A b \in Apps \ {a} : dirT'[b] = dirT[b]
    BY <1>n, <2>1 DEF NoDir
  <2> QED
    BY <1>n, <2>1, <2>2 DEF OldDirs, NoDir
<1>6. ASSUME NEW a \in DOMAIN cat, stepped' = stepped, crashes' = crashes,
             dirT' = dirT \/ dirT' = [dirT EXCEPT ![a] = Mtime(clock)],
             UNCHANGED <<clock, limit, phase, cat>>,
             \/ pc = "mark" /\ pc' = "mark"
             \/ Updating /\ Updating'
      PROVE  OldDirs'
  <2>1. OldDirs /\ \A b \in Apps \ {a} : dirT'[b] = dirT[b]
    BY <1>6, <1>n, <1>s
  <2>2. a \in Apps => dirT'[a] <= clock
    BY <1>6, <1>n, <2>1 DEF OldDirs
  <2> QED
    BY <1>6, <2>1, <2>2 DEF OldDirs
<1>7. ASSUME NEW a \in Apps, mark_apk(a) \/ StartApk(a) PROVE OldDirs'
  <2>1. dirT' = dirT \/ dirT' = [dirT EXCEPT ![a] = Mtime(clock)]
    BY <1>7, Zenon DEF mark_apk, StartApk
  <2>2. /\ stepped' = stepped /\ crashes' = crashes /\ UNCHANGED <<clock, limit, phase, cat>>
        /\ \/ pc = "mark" /\ pc' = "mark"
           \/ pc = "next" /\ pc' \in {"fetch", "keep", "unlink"}
        /\ a \in todo
    BY <1>7 DEF mark_apk, StartApk
  <2>3. a \in DOMAIN cat
    BY <2>2 DEF IndInv, AtApk
  <2> QED
    BY <2>1, <2>2, <2>3, <1>6
<1>8. CASE remove_overdue_info
  <2>1. /\ OldDirs /\ Times /\ pc = "sweep" /\ victims = {} /\ UNCHANGED <<clock, dirT, cat>>
        /\ \/ phase = 1 /\ phase' = 2 /\ pc' = "stamp"
           \/ phase = 2 /\ phase' = 2 /\ pc' = "cache"
    BY <1>8, <1>s DEF remove_overdue_info
  <2> QED
    BY <1>n, <2>1 DEF OldDirs, Times
<1>9. CASE LineStep
  <2>1. /\ stepped' = stepped /\ crashes' = crashes /\ AtLine /\ Updating'
        /\ UNCHANGED <<clock, limit, phase, cat>>
        /\ dirT' = dirT \/ dirT' = [dirT EXCEPT ![cur] = Mtime(clock)]
    BY <1>9 DEF LineStep, KeepApk, UnlinkOld, FetchApk, check_apk_size, FetchIcon,
                FailApk, record_local_apk, TouchDir
  <2>2. cur \in DOMAIN cat
    BY <2>1 DEF IndInv, AtApk
  <2> QED
    BY <2>1, <2>2, <1>6
<1> QED
  BY <1>1, <1>3, <1>4, <1>5, <1>7, <1>8, <1>9, StepKinds

LEMMA AlwaysDirs == Spec => []DirsInv
<1>1. Init => DirsInv
  BY DEF Init, DirsInv, OldDirs, Phase1, Phase2, Updating, AtLine, Ended, NoDir
<1>2. /\ (IndInv /\ HonestInv) /\ (IndInv /\ HonestInv)' /\ CycleInv /\ DirsInv
      /\ [Next]_vars
      => DirsInv'
  BY DirsNext
<1> QED
  BY <1>1, <1>2, AlwaysHonest, AlwaysCycle, PTL DEF Spec

\* With directory times of one or two seconds, a cycle without a failed line
\* leaves exactly the directories of the fetched list, as long as the clock
\* was not set back and power stayed on.
THEOREM SpaceStaysReclaimed == ASSUME FatTimes PROVE Spec => []SpaceReclaimed
<1>1. IndInv /\ SparedInv /\ DirsInv => SpaceReclaimed
  BY DEF SparedInv, Spared, DirsInv, OldDirs, Ended, SpaceReclaimed
<1> QED
  BY <1>1, AlwaysHonest, AlwaysSpared, AlwaysDirs, PTL

-----------------------------------------------------------------------------
(* What is listed is there. *)

\* As long as the server never goes back and lists arrive whole, what is
\* published is the newest there is, and what is fetched no newer.
Growing ==
    /\ \A a \in DOMAIN server : server[a].ver = newest[a]
    /\ \A a \in DOMAIN cat : cat[a].ver = cat[a].body /\ cat[a].ver <= newest[a]

GrowingInv == ~Rollback /\ ~Truncation => Growing

\* No version is taken back.
LEMMA NewestGrows ==
    ASSUME IndInv, NEW c \in Catalogs, Publish(c), ~Rollback
    PROVE  /\ \A a \in Apps : newest'[a] \in Nat /\ newest'[a] >= newest[a]
           /\ \A a \in DOMAIN c : c[a].ver = newest'[a]
<1>1. newest \in [Apps -> Nat] /\ newest' = Raise(newest, c)
  BY DEF IndInv, TypeOK, Publish
<1>2. /\ DOMAIN c \subseteq Apps
      /\ \A a \in DOMAIN c : c[a].ver \in Nat /\ c[a].ver >= newest[a]
  BY CatalogLines DEF IsMap, Publish
<1>3. \A a \in Apps :
         newest'[a] = IF a \in DOMAIN c /\ c[a].ver > newest[a] THEN c[a].ver ELSE newest[a]
  BY <1>1 DEF Raise
<1> QED
  BY <1>1, <1>2, <1>3

LEMMA GrowingNext ==
    ASSUME IndInv, HonestInv, GrowingInv, [Next]_vars PROVE GrowingInv'
<1> USE DEF srvVars, envVars, diskVars, procVars
<1> SUFFICES ASSUME ~Rollback, ~Truncation PROVE Growing'
  BY DEF GrowingInv
<1>g. Growing /\ Lines /\ newest \in [Apps -> Nat] /\ DOMAIN cat \subseteq Apps
  BY DEF GrowingInv, HonestInv, IndInv, TypeOK, IsMap
<1>v. \A a \in DOMAIN cat : cat[a].ver \in Nat /\ newest[a] \in Nat
  BY <1>g, Typed DEF Growing
<1>1. CASE UNCHANGED <<server, cat, newest>>
  BY <1>1, <1>g DEF Growing
<1>2. ASSUME NEW c \in Catalogs, Publish(c) PROVE Growing'
  <2>1. server' = c /\ cat' = cat
    BY <1>2 DEF Publish
  <2>2. /\ \A a \in Apps : newest'[a] \in Nat /\ newest'[a] >= newest[a]
        /\ \A a \in DOMAIN c : c[a].ver = newest'[a]
    BY <1>2, NewestGrows
  <2> QED
    BY <1>g, <1>v, <2>1, <2>2 DEF Growing
<1>3. CASE FetchList
  <2>1. cat' = server /\ UNCHANGED <<server, newest>>
    BY <1>3 DEF FetchList
  <2>2. DOMAIN server \subseteq Apps
    BY DEF IndInv, TypeOK, IsMap
  <2> QED
    BY <1>g, <2>1, <2>2 DEF Growing, Lines
<1>4. CASE Crash
  BY <1>4, <1>g DEF Crash, Growing, Empty
<1>5. CASE QuietStep
  BY <1>1, <1>2, <1>3, <1>5 DEF QuietStep, Tick, SetClock, WriteCache, StartPhase, Nap,
                                ParseDies, StartSweep, EndUpdate, vars
<1>6. CASE LineStep \/ Boot \/ remove_overdue_info
  BY <1>1, <1>6 DEF LineStep, KeepApk, UnlinkOld, FetchApk, check_apk_size, FetchIcon,
                    FailApk, record_local_apk, Boot, remove_overdue_info
<1>7. ASSUME NEW a \in Apps, mark_apk(a) \/ remove_dir(a) \/ StartApk(a) PROVE Growing'
  BY <1>1, <1>7 DEF mark_apk, remove_dir, StartApk
<1> QED
  BY <1>4, <1>5, <1>6, <1>7, StepKinds

LEMMA AlwaysGrowing == Spec => []GrowingInv
<1>1. Init => GrowingInv
  <2> SUFFICES ASSUME Init PROVE Growing
    BY DEF GrowingInv
  <2>1. /\ DOMAIN server \subseteq Apps
        /\ \A a \in DOMAIN server : server[a].ver \in Nat \ {0}
    BY CatalogLines DEF Init, IsMap
  <2>2. \A a \in Apps :
           newest[a] = IF a \in DOMAIN server /\ server[a].ver > 0 THEN server[a].ver ELSE 0
    BY DEF Init, Raise
  <2> QED
    BY <2>1, <2>2 DEF Init, Growing, Empty
<1>2. (IndInv /\ HonestInv) /\ GrowingInv /\ [Next]_vars => GrowingInv'
  BY GrowingNext
<1> QED
  BY <1>1, <1>2, AlwaysHonest, PTL DEF Spec

\* The file and the icon of an entry are on the card.
Here(a) == files[a][list[a].name] \in Vers /\ list[a].icon \in icons[a]

\* From the fetch of the list to the first line of update_apk.
Pending == (pc \in {"cache", "sweep"} /\ phase = 1) \/ pc \in {"stamp", "nap", "mark"}

\* What is listed is there, or else its version is older than the server's, so
\* that the next cycle replaces it; a line that succeeds puts its files there.
Complete ==
    /\ Ended => \A a \in DOMAIN list : Here(a) \/ list[a].ver < newest[a]
    /\ Pending => \A a \in DOMAIN cat \cap DOMAIN list : Here(a) \/ list[a].ver < cat[a].ver
    /\ Updating => \A a \in todo \cap DOMAIN list : Here(a) \/ list[a].ver < cat[a].ver
    /\ Updated => \A a \in (DOMAIN cat \cap DOMAIN list) \ {cur} :
                     Here(a) \/ list[a].ver < newest[a]
    /\ Updated /\ flag = 0 => \A a \in DOMAIN cat \ (todo \cup {cur}) :
                                 a \in DOMAIN list /\ Here(a)
    /\ Ended /\ flag = 0 => \A a \in DOMAIN list : Here(a)

\* The line at work.
LineHere ==
    /\ AtLine => cur \notin todo
    /\ pc = "keep" => Here(cur)
    /\ pc = "icon" => files[cur][cat[cur].name] \in Vers
    /\ pc = "record" => files[cur][cat[cur].name] \in Vers /\ cat[cur].icon \in icons[cur]

\* Before the first start the card is empty.
Fresh == pc = "off" => lst = Empty

PresentInv ==
    ~stepped /\ crashes = 0 /\ ~Rollback /\ ~Truncation => Complete /\ LineHere /\ Fresh

LEMMA PresentNext ==
    ASSUME FatTimes, IndInv, IndInv', HonestInv, CycleInv, SparedInv, GrowingInv,
           PresentInv, [Next]_vars
    PROVE  PresentInv'
<1> USE DEF srvVars, envVars, diskVars, procVars
<1> SUFFICES ASSUME ~stepped', crashes' = 0, ~Rollback, ~Truncation
             PROVE  Complete' /\ LineHere' /\ Fresh'
  BY DEF PresentInv
<1>p. Phases /\ Replacing /\ Growing
  BY DEF HonestInv, GrowingInv
<1>n. /\ DOMAIN cat \subseteq Apps /\ DOMAIN list \subseteq Apps /\ NoApp \notin Apps
      /\ phase \in {1, 2} /\ clock \in Nat /\ IsMap(list, Entry)
      /\ files \in [Apps -> [Names -> Content]] /\ icons \in [Apps -> SUBSET Icons]
      /\ newest \in [Apps -> Nat]
      /\ \A a \in DOMAIN cat : cat[a].ver \in Nat /\ cat[a].name \in Names
      /\ \A a \in DOMAIN list : list[a].ver \in Int /\ list[a].name \in Names
  <2>1. /\ DOMAIN cat \subseteq Apps /\ DOMAIN list \subseteq Apps /\ NoApp \notin Apps
        /\ phase \in {1, 2} /\ clock \in Nat /\ IsMap(list, Entry)
        /\ files \in [Apps -> [Names -> Content]] /\ icons \in [Apps -> SUBSET Icons]
        /\ newest \in [Apps -> Nat]
    BY AppsAssumption DEF IndInv, TypeOK, IsMap
  <2>2. \A a \in DOMAIN cat : cat[a].ver \in Nat /\ cat[a].name \in Names
    BY <1>p, Typed DEF Growing
  <2>3. \A a \in DOMAIN list : list[a].ver \in Int /\ list[a].name \in Names
    BY Typed DEF Unknown
  <2> QED
    BY <2>1, <2>2, <2>3
<1>s. ASSUME stepped' = stepped, crashes' = crashes
      PROVE  Complete /\ LineHere /\ Fresh /\ OldEntries /\ Spared
  BY <1>s DEF PresentInv, CycleInv, SparedInv
<1> USE DEF AtLine, Updating, Updated, Ended, Pending
<1>1. ASSUME Crash PROVE FALSE
  BY <1>1 DEF Crash, IndInv, TypeOK
<1>2. ASSUME NEW t \in 0 .. MaxClock, SetClock(t) PROVE FALSE
  BY <1>2 DEF SetClock
<1>3. CASE Boot
  <2>1. list' = Loaded(Empty, clock') /\ pc' = "idle"
    BY <1>3, <1>s DEF Boot, Fresh
  <2>2. DOMAIN list' = {}
    BY <2>1 DEF Loaded, Empty
  <2> QED
    BY <2>1, <2>2 DEF Complete, LineHere, Fresh
<1>4. CASE QuietStep
  <2>1. Complete /\ LineHere /\ Fresh
    BY <1>2, <1>4, <1>s DEF QuietStep, Publish, Tick, FetchList, WriteCache, StartPhase,
                            Nap, ParseDies, StartSweep, EndUpdate, vars
  <2>2. ASSUME NEW c \in Catalogs, Publish(c) PROVE Complete' /\ LineHere' /\ Fresh'
    <3>1. \A a \in Apps : newest'[a] \in Nat /\ newest'[a] >= newest[a]
      BY <2>2, NewestGrows
    <3>2. UNCHANGED <<diskVars, procVars>>
      BY <2>2 DEF Publish
    <3>3. \A a \in DOMAIN list : list[a].ver < newest[a] => list[a].ver < newest'[a]
      BY <1>n, <3>1
    <3> QED
      BY <2>1, <3>2, <3>3 DEF Complete, LineHere, Fresh, Here
  <2>3. CASE Tick \/ UNCHANGED vars
    BY <2>1, <2>3 DEF Tick, vars, Complete, LineHere, Fresh, Here
  <2>4. CASE FetchList
    <3>1. /\ pc = "idle" /\ pc' = "cache" /\ phase' = 1 /\ cat' = server
          /\ UNCHANGED <<list, files, icons, newest>>
      BY <2>4 DEF FetchList
    <3>2. \A a \in DOMAIN server : server[a].ver = newest[a]
      BY <1>p DEF Growing
    <3> QED
      BY <2>1, <3>1, <3>2 DEF Complete, LineHere, Fresh, Here
  <2>5. CASE WriteCache
    BY <1>n, <2>1, <2>5 DEF WriteCache, Complete, LineHere, Fresh, Here
  <2>6. CASE StartPhase \/ ParseDies
    BY <2>1, <2>6 DEF StartPhase, ParseDies, Complete, LineHere, Fresh, Here
  <2>7. CASE Nap
    <3>1. /\ pc = "nap" /\ pc' \in {"mark", "next"} /\ todo' = DOMAIN cat
          /\ UNCHANGED <<list, files, icons, newest, cat>>
      BY <2>7 DEF Nap
    <3>2. \A a \in DOMAIN cat \cap DOMAIN list : Here(a) \/ list[a].ver < cat[a].ver
      BY <2>1, <3>1 DEF Complete
    <3>3. \A a \in DOMAIN cat \cap DOMAIN list : list[a].ver < cat[a].ver => list[a].ver < newest[a]
      BY <1>n, <1>p DEF Growing
    <3> QED
      BY <3>1, <3>2, <3>3 DEF Complete, LineHere, Fresh, Here
  <2>8. CASE StartSweep
    BY <1>p, <2>1, <2>8 DEF StartSweep, Phases, Complete, LineHere, Fresh, Here
  <2>9. CASE EndUpdate
    BY <1>p, <2>1, <2>9 DEF EndUpdate, Phases, Complete, LineHere, Fresh, Here
  <2> QED
    BY <1>2, <1>4, <2>2, <2>3, <2>4, <2>5, <2>6, <2>7, <2>8, <2>9 DEF QuietStep
<1>5. ASSUME NEW a \in Apps, mark_apk(a) PROVE Complete' /\ LineHere' /\ Fresh'
  <2>1. /\ Complete /\ pc = "mark" /\ pc' = "mark"
        /\ UNCHANGED <<files, icons, newest, cat, phase>>
    BY <1>5, <1>s DEF mark_apk
  <2>2. list' = list \/ list' = Stamp(list, a, clock)
    BY <1>5, Zenon DEF mark_apk
  <2>3. DOMAIN list' = DOMAIN list
    BY <2>2 DEF Stamp
  <2>4. \A b \in DOMAIN list : /\ list'[b].name = list[b].name /\ list'[b].ver = list[b].ver
                               /\ list'[b].icon = list[b].icon
    BY <1>n, <2>2, StampEntries
  <2> QED
    BY <2>1, <2>3, <2>4 DEF Complete, LineHere, Fresh, Here
<1>6. ASSUME NEW a \in Apps, remove_dir(a) PROVE Complete' /\ LineHere' /\ Fresh'
  <2>1. /\ Complete /\ Spared /\ pc = "sweep" /\ pc' = "sweep" /\ a \in victims
        /\ files' = [files EXCEPT ![a] = [n \in Names |-> NoFile]]
        /\ icons' = [icons EXCEPT ![a] = {}]
        /\ UNCHANGED <<list, newest, cat, phase, flag, todo, cur>>
    BY <1>6, <1>s DEF remove_dir
  <2>2. a \notin DOMAIN cat
    BY <2>1 DEF Spared
  <2>3. \A b \in DOMAIN cat : files'[b] = files[b] /\ icons'[b] = icons[b]
    BY <1>n, <2>1, <2>2
  <2> QED
    BY <2>1, <2>3 DEF Complete, LineHere, Fresh, Here
<1>7. ASSUME NEW a \in Apps, StartApk(a) PROVE Complete' /\ LineHere' /\ Fresh'
  <2>1. /\ Complete /\ pc = "next" /\ a \in todo /\ todo' = todo \ {a} /\ cur' = a
        /\ pc' = IF a \notin DOMAIN list THEN "fetch"
                 ELSE IF list[a].ver >= cat[a].ver THEN "keep" ELSE "unlink"
        /\ UNCHANGED <<list, files, icons, newest, cat, phase, flag>>
    BY <1>7, <1>s DEF StartApk
  <2>2. cur = NoApp /\ a \in DOMAIN cat
    BY <1>p, <2>1 DEF Phases, IndInv, AtApk
  <2>3. pc' = "keep" => Here(a)
    <3>1. SUFFICES ASSUME pc' = "keep" PROVE Here(a)
      OBVIOUS
    <3>2. a \in DOMAIN list /\ list[a].ver >= cat[a].ver
      BY <2>1, <3>1
    <3> QED
      BY <1>n, <2>1, <2>2, <3>2 DEF Complete
  <2>4. pc' \in {"fetch", "keep", "unlink"}
    BY <2>1
  <2>5. LineHere' /\ Fresh'
    BY <2>1, <2>3, <2>4 DEF LineHere, Fresh, Here
  <2>6. /\ DOMAIN cat \ (todo' \cup {cur'}) \subseteq DOMAIN cat \ (todo \cup {cur})
        /\ (DOMAIN cat \cap DOMAIN list) \ {cur'} \subseteq (DOMAIN cat \cap DOMAIN list) \ {cur}
    BY <1>n, <2>1, <2>2
  <2>7. Complete'
    BY <2>1, <2>4, <2>6 DEF Complete, Here
  <2> QED
    BY <2>5, <2>7
<1>8. CASE remove_overdue_info
  <2>1. /\ Complete /\ OldEntries /\ pc = "sweep"
        /\ list' = DropOverdue(list, limit)
        /\ UNCHANGED <<files, icons, newest, cat, flag, todo, cur>>
        /\ \/ phase = 1 /\ phase' = 2 /\ pc' = "stamp"
           \/ phase = 2 /\ phase' = 2 /\ pc' = "cache"
    BY <1>8, <1>s DEF remove_overdue_info
  <2>2. /\ DOMAIN list' = {b \in DOMAIN list : list[b].stamp >= limit}
        /\ \A b \in DOMAIN list' : list'[b] = list[b]
    BY <2>1 DEF DropOverdue
  <2>3. phase = 2 => DOMAIN list' \subseteq (DOMAIN cat \cap DOMAIN list) \ {cur}
    <3>1. SUFFICES ASSUME phase = 2, NEW a \in DOMAIN list' PROVE a \in DOMAIN cat /\ a # cur
      BY <2>2
    <3>2. a \notin DOMAIN cat => list[a].stamp < limit
      BY <3>1, <2>1, <2>2 DEF OldEntries, Phase2
    <3>3. list[a].stamp \in Nat /\ limit \in Nat /\ a \in Apps /\ list[a].stamp >= limit
      BY <2>2, Typed DEF IndInv, TypeOK
    <3> QED
      BY <1>n, <1>p, <2>1, <3>2, <3>3 DEF Phases
  <2>4. phase = 2 => DOMAIN cat \ (todo \cup {cur}) = DOMAIN cat
    BY <1>n, <1>p, <2>1 DEF Phases
  <2> QED
    BY <2>1, <2>2, <2>3, <2>4 DEF Complete, LineHere, Fresh, Here
<1>l. ASSUME LineStep
      PROVE  /\ Complete /\ LineHere /\ AtLine /\ cur \notin todo
             /\ cur \in DOMAIN cat /\ cur \in Apps /\ cur # NoApp
             /\ UNCHANGED <<newest, cat, phase, todo>>
             /\ \A b \in Apps \ {cur} : files'[b] = files[b] /\ icons'[b] = icons[b]
  <2>1. /\ stepped' = stepped /\ crashes' = crashes /\ AtLine
        /\ UNCHANGED <<newest, cat, phase, todo>>
    BY <1>l DEF LineStep, KeepApk, UnlinkOld, FetchApk, check_apk_size, FetchIcon,
                FailApk, record_local_apk
  <2>2. cur \in DOMAIN cat
    BY <2>1 DEF IndInv, AtApk
  <2>3. \A b \in Apps \ {cur} : files'[b] = files[b]
    BY <1>l, <1>n DEF LineStep, KeepApk, UnlinkOld, FetchApk, check_apk_size, FetchIcon,
                      FailApk, record_local_apk
  <2>4. \A b \in Apps \ {cur} : icons'[b] = icons[b]
    BY <1>l, <1>n DEF LineStep, KeepApk, UnlinkOld, FetchApk, check_apk_size, FetchIcon,
                      FailApk, record_local_apk
  <2> QED
    BY <1>n, <1>s, <2>1, <2>2, <2>3, <2>4 DEF LineHere
<1>w. ASSUME LineStep, AtLine', UNCHANGED <<list, cur, flag>> PROVE Complete'
  <2>1. \A b \in Apps \ {cur} : Here(b)' <=> Here(b)
    BY <1>l, <1>w DEF Here
  <2>2. /\ \A a \in todo \cap DOMAIN list : Here(a)' \/ list[a].ver < cat[a].ver
        /\ \A a \in (DOMAIN cat \cap DOMAIN list) \ {cur} : Here(a)' \/ list[a].ver < newest[a]
        /\ flag = 0 => \A a \in DOMAIN cat \ (todo \cup {cur}) : a \in DOMAIN list /\ Here(a)'
    BY <1>l, <1>n, <1>w, <2>1 DEF Complete
  <2> QED
    BY <1>l, <1>w, <2>2 DEF Complete
<1>9. CASE KeepApk
  <2> DEFINE o == list[cur].name
             n == cat[cur].name
  <2>1. /\ pc = "keep" /\ pc' = "record" /\ UNCHANGED <<list, cur, flag>>
        /\ files' = [files EXCEPT ![cur] = Move(files[cur], o, n)]
    BY <1>9 DEF KeepApk
  <2>2. LineStep /\ cur \in DOMAIN list /\ o \in Names /\ n \in Names /\ cur \in Apps
    BY <1>9, <1>l, <1>n, <2>1 DEF LineStep, IndInv, AtApk
  <2>3. Here(cur)
    BY <2>1, <2>2, <1>l DEF LineHere
  <2>4. files[cur][o] \in Vers /\ files[cur][o] # NoFile /\ files[cur] \in [Names -> Content]
    BY <1>n, <2>2, <2>3, DataAssumption DEF Here, NoFile
  <2>5. files'[cur][n] \in Vers
    BY <1>n, <2>1, <2>2, <2>4 DEF Move
  <2>6. list[cur].icon \in icons[cur]
    BY <2>3 DEF Here
  <2>7. cat[cur].icon \in icons'[cur]
    BY <1>9, <1>n, <2>2, <2>6 DEF KeepApk
  <2>8. LineHere' /\ Fresh'
    BY <1>l, <2>1, <2>2, <2>5, <2>7 DEF LineHere, Fresh
  <2> QED
    BY <2>1, <2>2, <2>8, <1>w
<1>10. CASE UnlinkOld \/ FetchApk
  <2>1. /\ LineStep /\ pc' \in {"fetch", "size", "fail"} /\ UNCHANGED <<list, cur, flag>>
    BY <1>10 DEF LineStep, UnlinkOld, FetchApk
  <2>2. LineHere' /\ Fresh'
    BY <1>l, <2>1 DEF LineHere, Fresh
  <2> QED
    BY <2>1, <2>2, <1>w
<1>11. CASE check_apk_size
  <2>1. /\ LineStep /\ pc = "size" /\ UNCHANGED <<list, cur, flag, files>>
        /\ pc' = IF files[cur][cat[cur].name] = Partial THEN "fail" ELSE "icon"
    BY <1>11 DEF LineStep, check_apk_size
  <2>2. files[cur][cat[cur].name] \in {cat[cur].body, Partial} /\ cat[cur].body \in Vers
    BY <1>l, <1>p, <2>1, Typed DEF Replacing
  <2>3. LineHere' /\ Fresh'
    BY <1>l, <2>1, <2>2 DEF LineHere, Fresh
  <2> QED
    BY <2>1, <2>3, <1>w
<1>12. CASE FetchIcon
  <2>1. /\ LineStep /\ pc = "icon" /\ pc' \in {"record", "fail"}
        /\ UNCHANGED <<list, cur, flag, files>>
        /\ pc' = "record" => icons' = [icons EXCEPT ![cur] = @ \cup {cat[cur].icon}]
    BY <1>12 DEF LineStep, FetchIcon
  <2>2. files[cur][cat[cur].name] \in Vers
    BY <1>l, <2>1 DEF LineHere
  <2>3. pc' = "record" => cat[cur].icon \in icons'[cur]
    BY <1>l, <1>n, <2>1
  <2>4. LineHere' /\ Fresh'
    BY <1>l, <2>1, <2>2, <2>3 DEF LineHere, Fresh
  <2> QED
    BY <2>1, <2>4, <1>w
<1>13. CASE FailApk
  <2>1. /\ LineStep /\ pc = "fail" /\ pc' = "next" /\ list' = list /\ flag' = 1
        /\ cur' = NoApp
    BY <1>13 DEF LineStep, FailApk
  <2>2. \A b \in Apps \ {cur} : Here(b)' <=> Here(b)
    BY <1>l, <2>1 DEF Here
  <2>3. cur \in DOMAIN list => list[cur].ver < newest[cur]
    <3>1. SUFFICES ASSUME cur \in DOMAIN list PROVE list[cur].ver < newest[cur]
      OBVIOUS
    <3>2. list[cur].ver < cat[cur].ver /\ cat[cur].ver <= newest[cur]
      BY <1>l, <1>p, <2>1, <3>1 DEF Replacing, Growing
    <3> QED
      BY <1>l, <1>n, <2>1, <3>1, <3>2
  <2>4. /\ \A a \in todo \cap DOMAIN list : Here(a)' \/ list[a].ver < cat[a].ver
        /\ \A a \in DOMAIN cat \cap DOMAIN list : Here(a)' \/ list[a].ver < newest[a]
    BY <1>l, <1>n, <2>1, <2>2, <2>3 DEF Complete
  <2>5. Complete'
    BY <1>l, <2>1, <2>4 DEF Complete
  <2> QED
    BY <2>1, <2>5 DEF LineHere, Fresh
<1>14. CASE record_local_apk
  <2>1. /\ LineStep /\ pc = "record" /\ pc' = "next" /\ cur' = NoApp
        /\ UNCHANGED <<files, icons, flag>>
    BY <1>14 DEF LineStep, record_local_apk
  <2>2. /\ DOMAIN list' = DOMAIN list \cup {cur}
        /\ list'[cur].name = cat[cur].name /\ list'[cur].icon = cat[cur].icon
        /\ \A b \in DOMAIN list \ {cur} :
              /\ list'[b].ver = list[b].ver /\ list'[b].name = list[b].name
              /\ list'[b].icon = list[b].icon
    BY <1>14, RecordStep
  <2>3. ASSUME NEW a \in Apps, a = cur PROVE Here(a)'
    BY <1>l, <2>1, <2>2, <2>3 DEF LineHere, Here
  <2>4. \A b \in DOMAIN list \ {cur} : Here(b)' <=> Here(b)
    BY <2>1, <2>2 DEF Here
  <2>5. /\ \A a \in todo \cap DOMAIN list' : Here(a)' \/ list'[a].ver < cat[a].ver
        /\ \A a \in DOMAIN cat \cap DOMAIN list' : Here(a)' \/ list'[a].ver < newest[a]
        /\ flag = 0 => \A a \in DOMAIN cat \ todo : a \in DOMAIN list' /\ Here(a)'
    BY <1>l, <1>n, <2>1, <2>2, <2>3, <2>4 DEF Complete
  <2>6. Complete'
    BY <1>l, <2>1, <2>5 DEF Complete
  <2> QED
    BY <2>1, <2>6 DEF LineHere, Fresh
<1>15. LineStep => Complete' /\ LineHere' /\ Fresh'
  BY <1>9, <1>10, <1>11, <1>12, <1>13, <1>14 DEF LineStep
<1> QED
  BY <1>1, <1>3, <1>4, <1>5, <1>6, <1>7, <1>8, <1>15, StepKinds

LEMMA AlwaysPresent == ASSUME FatTimes PROVE Spec => []PresentInv
<1>1. Init => PresentInv
  BY DEF Init, PresentInv, Complete, LineHere, Fresh, Ended, Pending, Updated, Updating, AtLine
<1>2. /\ (IndInv /\ HonestInv) /\ (IndInv /\ HonestInv)' /\ CycleInv /\ SparedInv
      /\ GrowingInv /\ PresentInv /\ [Next]_vars
      => PresentInv'
  BY PresentNext
<1> QED
  BY <1>1, <1>2, AlwaysHonest, AlwaysCycle, AlwaysSpared, AlwaysGrowing, PTL DEF Spec

\* With directory times of one or two seconds, and as long as versions only
\* grow, lists arrive whole, power stays on and the clock is not set back, a
\* cycle without a failed line leaves every listed application with its file
\* and its icon, whatever failed in earlier cycles.
THEOREM ListedStaysPresent == ASSUME FatTimes PROVE Spec => []ListedPresent
<1>1. PresentInv => ListedPresent
  BY DEF PresentInv, Complete, Ended, Here, ListedPresent
<1> QED
  BY <1>1, AlwaysPresent, PTL

=============================================================================
