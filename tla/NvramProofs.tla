----------------------------- MODULE NvramProofs -----------------------------
(***************************************************************************)
(* For any number of programs, names and values, and however often power   *)
(* is lost: a clean block is a saved one, a save costs the other blocks of *)
(* the sector nothing, and the driver implements NvramStore.               *)
(***************************************************************************)
EXTENDS Nvram, FiniteSetTheorems, TLAPS

\* An image that the cache can hold.
Fits(m) == IsFiniteSet(Entries(m)) /\ Cardinality(Entries(m)) <= MaxEntry

\* Every image that may come back from flash fits into the cache.
Bounded == Fits(cache) /\ Fits(Load(flash))

\* While an image is being written nobody changes the cache; the copy of the
\* sector has the new checksum first, and then the new data as well.
Writing ==
    /\ stage # "none" => env = cache /\ bak.crc = env
    /\ stage \in {"erase data", "write data"} => bak.data = env
    /\ stage \in {"write crc", "write data"} => flash = Erased

\* The other blocks are in flash, or in the copy while flash is erased.
RestSafe ==
    /\ stage \in {"none", "erase crc", "erase data"} => (flash.rest = "lost" => cut)
    /\ stage # "none" => (bak.rest = "lost" => cut)

IndInv == NvTypeOK /\ Bounded /\ Writing /\ SavedCovers /\ RestSafe

-----------------------------------------------------------------------------
(* Images and what a boot reads. *)

\* What an erased sector reads is not an image, and its checksum is wrong.
LEMMA LoadErased == ASSUME NEW f, f.crc = NoSum, f.data = Ones PROVE Load(f) = Empty
<1>1. CASE Keys = {}
  BY <1>1 DEF Load, NoSum, Ones, Empty
<1>2. CASE Keys # {}
  <2>1. PICK k \in Keys : TRUE
    BY <1>2
  <2>2. NoSum[k] # Ones[k]
    BY DEF NoSum, Ones
  <2> QED
    BY <2>2 DEF Load
<1> QED
  BY <1>1, <1>2

LEMMA LoadType == ASSUME NEW f PROVE Load(f) \in Images
BY DEF Load, Empty, Images

LEMMA EmptyFits == Fits(Empty)
<1>1. Entries(Empty) = {}
  BY DEF Entries, Empty
<1>2. IsFiniteSet({}) /\ Cardinality({}) = 0
  BY FS_EmptySet
<1>3. MaxEntry \in Nat
  BY NvramAssumption
<1>4. IsFiniteSet(Entries(Empty)) /\ Cardinality(Entries(Empty)) <= MaxEntry
  BY <1>1, <1>2, <1>3
<1> QED
  BY <1>4 DEF Fits

\* nvram_set adds an entry only where one is free.
LEMMA SetFits ==
  ASSUME NEW m \in Images, NEW k \in Keys, NEW v \in Vals, Fits(m),
         m[k] # NoVal \/ Cardinality(Entries(m)) < MaxEntry
  PROVE  Fits([m EXCEPT ![k] = v])
<1> DEFINE w == [m EXCEPT ![k] = v]
<1>1. Entries(w) = Entries(m) \cup {k}
  BY NvramAssumption DEF Entries, Images
<1>2. IsFiniteSet(Entries(m)) /\ Cardinality(Entries(m)) <= MaxEntry
  BY DEF Fits
<1>3. Cardinality(Entries(m)) \in Nat
  BY <1>2, FS_CardinalityType
<1>4. IsFiniteSet(Entries(w))
  BY <1>1, <1>2, FS_AddElement
<1>5. Cardinality(Entries(w)) = IF k \in Entries(m) THEN Cardinality(Entries(m))
                                ELSE Cardinality(Entries(m)) + 1
  BY <1>1, <1>2, FS_AddElement
<1>6. m[k] # NoVal => k \in Entries(m)
  BY DEF Entries
<1>7. MaxEntry \in Nat
  BY NvramAssumption
<1>8. Cardinality(Entries(w)) <= MaxEntry
  BY <1>2, <1>3, <1>5, <1>6, <1>7
<1> QED
  BY <1>4, <1>8 DEF Fits

-----------------------------------------------------------------------------
(* The inductive invariant. *)

LEMMA InitInd == Init => IndInv
<1> SUFFICES ASSUME Init PROVE IndInv
  OBVIOUS
<1> USE DEF Init
<1>1. Load(flash) = Empty
  BY LoadErased DEF Erased
<1>2. Bounded /\ SavedCovers
  BY <1>1, EmptyFits DEF Bounded, SavedCovers
<1>3. cache \in Images /\ env \in Images /\ flash \in Sectors /\ bak \in Sectors
  BY DEF Images, Empty, Sectors, Erased
<1>4. NvTypeOK
  BY <1>2, <1>3 DEF NvTypeOK, Bounded, Fits
<1>5. Writing /\ RestSafe
  BY DEF Writing, RestSafe, Erased
<1> QED
  BY <1>2, <1>4, <1>5 DEF IndInv

\* Steps that leave the store and its flash alone.
LEMMA LibraryStep ==
  ASSUME IndInv, UNCHANGED <<cache, dirty, flash, bak, stage, sem, cut>>,
         env' \in {env, cache}, stage # "none" => env' = env,
         names' \in [Clients -> (SUBSET Keys) \cup {Invalid}],
         unsaved' \in [Clients -> BOOLEAN],
         pc' \in [Clients -> {"idle", "commit", "close"}]
  PROVE  IndInv'
<1>1. NvTypeOK'
  BY DEF IndInv, NvTypeOK
<1>2. Bounded' /\ SavedCovers' /\ RestSafe'
  BY DEF IndInv, Bounded, SavedCovers, RestSafe, Fits, Load
<1>3. Writing'
  BY DEF IndInv, Writing
<1> QED
  BY <1>1, <1>2, <1>3 DEF IndInv

\* The step that begins to write image m, which is the cache from then on.
LEMMA WriteStarts ==
  ASSUME IndInv, NEW c \in Clients, sem = None, NEW m \in Images, Fits(m),
         StartWrite(c, m), cache' = m,
         UNCHANGED <<dirty, flash, names, unsaved, pc, cut>>
  PROVE  IndInv'
<1>1. stage = "none" /\ flash \in Sectors
  BY DEF IndInv, NvTypeOK
<1>2. bak' \in Sectors /\ bak'.crc = m /\ bak'.rest = flash.rest
  BY <1>1 DEF StartWrite, Sectors
<1>3. Bounded'
  BY DEF IndInv, Bounded, Fits, Load
<1>4. NvTypeOK'
  BY <1>2, <1>3, NvramAssumption DEF IndInv, NvTypeOK, StartWrite, Bounded, Fits
<1>5. Writing' /\ SavedCovers' /\ RestSafe'
  BY <1>1, <1>2, NvramAssumption DEF IndInv, Writing, SavedCovers, RestSafe, StartWrite
<1> QED
  BY <1>3, <1>4, <1>5 DEF IndInv

LEMMA NextInd == IndInv /\ [Next]_vars => IndInv'
<1> SUFFICES ASSUME IndInv, [Next]_vars PROVE IndInv'
  OBVIOUS
<1>t. NvTypeOK /\ Bounded /\ Writing /\ SavedCovers /\ RestSafe
  BY DEF IndInv
<1>1. CASE UNCHANGED vars
  BY <1>1, <1>t, LibraryStep DEF vars, NvTypeOK
<1>2. CASE Crash
  <2>1. cache' \in Images /\ env' \in Images /\ Load(flash') = cache'
    BY <1>2, LoadType DEF Crash
  <2>2. Bounded' /\ SavedCovers'
    BY <1>2, <1>t, <2>1 DEF Crash, Bounded, SavedCovers, Fits, Load
  <2>3. Writing'
    BY <1>2 DEF Crash, Writing
  <2>4. RestSafe'
    BY <1>2, <1>t DEF Crash, RestSafe, NvTypeOK
  <2>5. bak' \in Sectors
    BY <1>2 DEF Crash, Sectors, Erased
  <2>6. cut' \in BOOLEAN
    BY <1>2, Zenon DEF Crash
  <2>7. NvTypeOK'
    BY <1>2, <1>t, <2>1, <2>2, <2>5, <2>6 DEF Crash, NvTypeOK, Bounded, Fits
  <2> QED
    BY <2>2, <2>3, <2>4, <2>7 DEF IndInv
<1>3. CASE EraseSector
  <2>1. flash' \in Sectors
    BY <1>3 DEF EraseSector, Sectors, Erased
  <2>2. Load(flash') = Empty
    BY <1>3, LoadErased DEF EraseSector, Erased
  <2>3. Bounded'
    BY <1>3, <1>t, <2>2, EmptyFits DEF EraseSector, Bounded, Fits, Load
  <2>4. Writing' /\ RestSafe'
    BY <1>3, <1>t DEF EraseSector, Writing, RestSafe
  <2>5. sem # None
    BY <1>3, <1>t DEF EraseSector, NvTypeOK
  <2>6. NvTypeOK' /\ SavedCovers'
    BY <1>3, <1>t, <2>1, <2>5 DEF EraseSector, NvTypeOK, SavedCovers
  <2> QED
    BY <2>3, <2>4, <2>6 DEF IndInv
<1>4. CASE WriteCrc
  <2>1. /\ bak.crc = env /\ env = cache /\ sem # None
        /\ bak' \in Sectors /\ bak'.crc = bak.crc /\ bak'.rest = bak.rest /\ bak'.data = env
    BY <1>4, <1>t DEF WriteCrc, Writing, NvTypeOK, Sectors
  <2>2. Load(flash') \in {cache, Empty}
    BY <1>4, <2>1 DEF WriteCrc, Load
  <2>3. Bounded'
    BY <1>4, <1>t, <2>2, EmptyFits DEF WriteCrc, Bounded, Fits, Load
  <2>4. Writing' /\ RestSafe'
    BY <1>4, <1>t, <2>1 DEF WriteCrc, Writing, RestSafe
  <2>5. NvTypeOK' /\ SavedCovers'
    BY <1>4, <1>t, <2>1 DEF WriteCrc, NvTypeOK, SavedCovers
  <2> QED
    BY <2>3, <2>4, <2>5 DEF IndInv
<1>5. CASE WriteData
  <2>1. bak.crc = cache /\ bak.data = cache /\ sem \in Clients /\ cache \in Images
    BY <1>5, <1>t DEF WriteData, Writing, NvTypeOK
  <2>2. Load(flash') = cache'
    BY <1>5, <2>1 DEF WriteData, Load
  <2>3. Bounded' /\ SavedCovers'
    BY <1>5, <1>t, <2>2 DEF WriteData, Bounded, SavedCovers, Fits, Load
  <2>4. bak' \in Sectors
    BY <1>5 DEF WriteData, Sectors, Erased
  <2>5. NvTypeOK'
    BY <1>5, <1>t, <2>1, <2>4 DEF WriteData, NvTypeOK
  <2>6. Writing' /\ RestSafe'
    BY <1>5, <1>t DEF WriteData, Writing, RestSafe
  <2> QED
    BY <2>3, <2>5, <2>6 DEF IndInv
<1>6. ASSUME NEW c \in Clients, nvram_init(c) PROVE IndInv'
  <2>1. Entries(cache) \subseteq Keys
    BY DEF Entries
  <2> QED
    BY <1>6, <1>t, <2>1, LibraryStep DEF nvram_init, NvTypeOK
<1>7. ASSUME NEW c \in Clients, nvram_commit(c) PROVE IndInv'
  <2>1. CASE dirty
    BY <1>7, <1>t, <2>1, WriteStarts DEF nvram_commit, NvTypeOK, Bounded
  <2>2. CASE ~ dirty
    BY <1>7, <1>t, <2>2, LibraryStep DEF nvram_commit, NvTypeOK, kernel
  <2> QED
    BY <2>1, <2>2
<1>8. ASSUME NEW c \in Clients, nvram_close(c) PROVE IndInv'
  BY <1>8, <1>t, LibraryStep DEF nvram_close, NvTypeOK, kernel
<1>9. ASSUME NEW c \in Clients, nvram_clear(c) PROVE IndInv'
  <2>1. Empty \in Images
    BY DEF Empty, Images
  <2> QED
    BY <1>9, <1>t, <2>1, EmptyFits, WriteStarts DEF nvram_clear
<1>10. ASSUME NEW c \in Clients, NEW k \in Keys, NEW v \in Vals, NEW b \in BOOLEAN,
              nvram_bufset(c, k, v, b)
       PROVE  IndInv'
  <2>1. /\ names' \in [Clients -> (SUBSET Keys) \cup {Invalid}]
        /\ unsaved' \in [Clients -> BOOLEAN]
        /\ pc' \in [Clients -> {"idle", "commit", "close"}]
    <3>1. /\ names \in [Clients -> (SUBSET Keys) \cup {Invalid}] /\ names[c] # Invalid
          /\ unsaved \in [Clients -> BOOLEAN]
          /\ pc \in [Clients -> {"idle", "commit", "close"}]
      BY <1>10, <1>t DEF nvram_bufset, NvTypeOK, Attached
    <3>2. /\ \/ UNCHANGED <<names, unsaved>>
             \/ /\ names' = [names EXCEPT ![c] = names[c] \cup {k}]
                /\ unsaved' = [unsaved EXCEPT ![c] = TRUE]
          /\ pc' = [pc EXCEPT ![c] = "commit"] \/ pc' = [pc EXCEPT ![c] = "idle"]
      BY <1>10 DEF nvram_bufset
    <3>3. names[c] \cup {k} \in SUBSET Keys
      BY <3>1
    <3>4. names' \in [Clients -> (SUBSET Keys) \cup {Invalid}]
      BY <3>1, <3>2, <3>3
    <3> QED
      BY <3>1, <3>2, <3>4
  <2>2. sem = None /\ stage = "none"
    BY <1>10, <1>t DEF nvram_bufset, nvram_set, NvTypeOK
  <2>3. CASE UNCHANGED <<cache, dirty>>
    BY <1>10, <2>1, <2>3, LibraryStep DEF nvram_bufset
  <2>4. CASE cache' = [cache EXCEPT ![k] = v] /\ dirty' = TRUE
             /\ (cache[k] # NoVal \/ Cardinality(Entries(cache)) < MaxEntry)
    <3>1. cache' \in Images /\ Fits(cache')
      BY <1>t, <2>4, SetFits DEF NvTypeOK, Images, Bounded
    <3>2. Bounded'
      BY <1>10, <1>t, <3>1 DEF nvram_bufset, Bounded, Fits, Load
    <3>3. NvTypeOK'
      BY <1>10, <1>t, <2>1, <2>4, <3>1, <3>2 DEF nvram_bufset, NvTypeOK, Bounded, Fits
    <3>4. Writing' /\ SavedCovers' /\ RestSafe'
      BY <1>10, <1>t, <2>2, <2>4 DEF nvram_bufset, Writing, SavedCovers, RestSafe
    <3> QED
      BY <3>2, <3>3, <3>4 DEF IndInv
  <2> QED
    BY <1>10, <2>3, <2>4 DEF nvram_bufset, nvram_set
<1> QED
  BY <1>1, <1>2, <1>3, <1>4, <1>5, <1>6, <1>7, <1>8, <1>9, <1>10 DEF Next

\* The inductive invariant holds throughout.
LEMMA AlwaysInd == Spec => []IndInv
BY InitInd, NextInd, PTL DEF Spec

\* The store's variables keep their types, and the cache never has more
\* entries than MAX_CACHE_ENTRY, also after a boot that reads it from flash.
THEOREM NvTypeCorrect == Spec => []NvTypeOK
<1>1. IndInv => NvTypeOK
  BY DEF IndInv
<1> QED
  BY <1>1, AlwaysInd, PTL

\* dirty = 0 is only ever said of a cache that a boot would read back: a
\* commit that finds nothing to do loses no program's value.
THEOREM CleanMeansSaved == Spec => []SavedCovers
<1>1. IndInv => SavedCovers
  BY DEF IndInv
<1> QED
  BY <1>1, AlwaysInd, PTL

\* The other blocks of the sector survive every sequence of saves; only power
\* lost between an erasure and the write that follows loses them.
THEOREM NeighboursKept == Spec => []RestKept
<1>1. IndInv => RestKept
  BY DEF IndInv, RestKept, RestSafe, NvTypeOK
<1> QED
  BY <1>1, AlwaysInd, PTL

-----------------------------------------------------------------------------
(* The refinement of NvramStore. *)

\* The image in flash, as NvramStore's variable disk.
DiskOf(f) == IF f.data \in Images /\ f.crc = f.data THEN f.data ELSE [k \in Keys |-> "lost"]

\* NvramStore's boot reads what Load does.
LEMMA LoadIsBoot ==
  ASSUME NEW f
  PROVE  Load(f) = IF DiskOf(f) = Store!Lost THEN Store!Empty ELSE DiskOf(f)
<1>1. CASE f.data \in Images /\ f.crc = f.data
  <2>1. CASE Keys = {}
    BY <1>1, <2>1 DEF Load, DiskOf, Store!Lost, Store!Empty, Images
  <2>2. CASE Keys # {}
    <3>1. PICK k \in Keys : TRUE
      BY <2>2
    <3>2. f.data[k] # "lost"
      BY <1>1, <3>1, NvramAssumption DEF Images
    <3> QED
      BY <1>1, <3>1, <3>2 DEF Load, DiskOf, Store!Lost
  <2> QED
    BY <2>1, <2>2
<1>2. CASE ~ (f.data \in Images /\ f.crc = f.data)
  BY <1>2 DEF Load, DiskOf, Store!Lost, Store!Empty, Empty
<1> QED
  BY <1>1, <1>2

\* An erased sector is a lost image.
LEMMA ErasedIsLost ==
  ASSUME NEW f, f.crc = NoSum, f.data = Ones PROVE DiskOf(f) = Store!Lost
<1>1. CASE Keys = {}
  BY <1>1 DEF DiskOf, Store!Lost, Ones
<1>2. CASE Keys # {}
  <2>1. PICK k \in Keys : TRUE
    BY <1>2
  <2>2. NoSum[k] # Ones[k]
    BY <2>1 DEF NoSum, Ones
  <2> QED
    BY <2>2 DEF DiskOf, Store!Lost
<1> QED
  BY <1>1, <1>2

\* Every step of the driver and the library is a step of the store, or
\* changes neither what programs see nor what a boot would find.
LEMMA StepRefines ==
  IndInv /\ [Next]_vars => [Store!StoreNext]_<<cache, DiskOf(flash)>>
<1> SUFFICES ASSUME IndInv, [Next]_vars
             PROVE  Store!StoreNext \/ UNCHANGED <<cache, flash>>
  BY DEF DiskOf
<1>t. NvTypeOK /\ Writing
  BY DEF IndInv
<1> USE DEF Store!StoreNext
<1>1. CASE UNCHANGED vars
  BY <1>1 DEF vars
<1>2. CASE Crash
  BY <1>2, LoadIsBoot DEF Crash, Store!Boot, DiskOf
<1>3. CASE EraseSector
  <2>1. DiskOf(flash') = Store!Lost
    BY <1>3, ErasedIsLost DEF EraseSector, Erased
  <2> QED
    BY <1>3, <2>1 DEF EraseSector, Store!BeginSave, DiskOf
<1>4. CASE WriteCrc
  <2>1. bak.crc = cache
    BY <1>4, <1>t DEF WriteCrc, Writing
  <2>2. CASE bak.data \in Images /\ bak.crc = bak.data
    BY <1>4, <2>1, <2>2 DEF WriteCrc, Store!EndSave, DiskOf
  <2>3. CASE ~ (bak.data \in Images /\ bak.crc = bak.data)
    BY <1>4, <2>3 DEF WriteCrc, Store!BeginSave, Store!Lost, DiskOf
  <2> QED
    BY <2>2, <2>3
<1>5. CASE WriteData
  BY <1>5, <1>t DEF WriteData, Writing, NvTypeOK, Store!EndSave, DiskOf
<1>6. ASSUME NEW c \in Clients, nvram_init(c) \/ nvram_commit(c) \/ nvram_close(c)
      PROVE  UNCHANGED <<cache, flash>>
  BY <1>6 DEF nvram_init, nvram_commit, nvram_close, kernel
<1>7. ASSUME NEW c \in Clients, nvram_clear(c) PROVE Store!Clear
  BY <1>7 DEF nvram_clear, Store!Clear, Store!Empty, Empty, DiskOf
<1>8. ASSUME NEW c \in Clients, NEW k \in Keys, NEW v \in Vals, NEW b \in BOOLEAN,
             nvram_bufset(c, k, v, b)
      PROVE  Store!Set(k, v) \/ UNCHANGED <<cache, flash>>
  BY <1>8 DEF nvram_bufset, nvram_set, Store!Set, DiskOf
<1> QED
  BY <1>1, <1>2, <1>3, <1>4, <1>5, <1>6, <1>7, <1>8 DEF Next

\* The driver with its library implements NvramStore: named values in memory
\* and one image in flash, which a save replaces whole or loses.
THEOREM StoreRefined == Spec => ImplementsStore
<1>1. Init => Store!StoreInit
  BY ErasedIsLost DEF Init, Erased, Store!StoreInit, Store!Empty, Empty, DiskOf
<1>2. IndInv /\ [Next]_vars => [Store!StoreNext]_<<cache, DiskOf(flash)>>
  BY StepRefines
<1> QED
  BY <1>1, <1>2, AlwaysInd, PTL DEF Spec, ImplementsStore, Store!StoreSpec, DiskOf

=============================================================================
