-------------------------------- MODULE Nvram --------------------------------
(***************************************************************************)
(* The configuration store: the kernel's cache of named values with its    *)
(* image in flash (arch/mips/rt2880/nvram.c, written sector by sector by   *)
(* ra_mtd_write_nm) and the library every program links                    *)
(* (lib/libnvram/nvram_env.c, built with CONFIG_KERNEL_NVRAM).             *)
(*                                                                         *)
(* Programs run concurrently.  Between two system calls any other may act; *)
(* within one, others act only while it sleeps, which it does in the flash *)
(* driver, holding nvram_sem.  Power may be lost at any moment.            *)
(***************************************************************************)
EXTENDS Integers, FiniteSets

CONSTANTS Clients,   \* programs that use the library
          Keys, Vals, NoVal,
          None,      \* nvram_sem is free
          MaxEntry,  \* MAX_CACHE_ENTRY
          MaxCrash   \* bound on losses of power

ASSUME NvramAssumption ==
    /\ MaxEntry \in Nat \ {0} /\ MaxCrash \in Nat
    /\ NoVal \notin Vals /\ None \notin Clients
    /\ {"no sum", "ones", "lost"} \cap (Vals \cup {NoVal}) = {}

VARIABLES cache, dirty,   \* fb[index].cache (NoVal: no such entry), .dirty
          env,            \* fb[index].env, the image being written
          flash,          \* [crc, data]: the image each was computed from;
                          \* rest: "whole" or "lost", the sector's other blocks
          bak, stage,     \* ra_mtd_write_nm: the sector's copy; what is next
          sem,            \* the program holding nvram_sem
          names,          \* per program: entries of the library's cache
          unsaved,        \* per program: the library's dirty flag
          pc,             \* per program: the call it is about to make
          cut,            \* power was lost while the sector was erased
          crashes
kernel == <<cache, dirty, env, flash, bak, stage, sem>>
vars == <<cache, dirty, env, flash, bak, stage, sem, names, unsaved, pc, cut, crashes>>

Images == [Keys -> Vals \cup {NoVal}]
Empty == [k \in Keys |-> NoVal]

\* An erased sector holds ones, which are not the checksum of ones.
NoSum == [k \in Keys |-> "no sum"]
Ones == [k \in Keys |-> "ones"]
Erased == [crc |-> NoSum, data |-> Ones, rest |-> "lost"]

Sectors ==
    [crc : Images \cup {NoSum}, data : Images \cup {Ones}, rest : {"whole", "lost"}]

Entries(m) == {k \in Keys : m[k] # NoVal}
Invalid == {None}     \* fb[index].valid = 0: nothing was read yet

\* Mutant: the checksum is not compared.
Load_NoCheck(f) == IF f.data \in Images THEN f.data ELSE Empty

\* init_nvram_block: values whose checksum is wrong are ignored.
Load(f) == IF f.data \in Images /\ f.crc = f.data THEN f.data ELSE Empty

Init ==
    /\ cache = Empty /\ dirty = FALSE /\ env = Empty /\ flash = [Erased EXCEPT !.rest = "whole"]
    /\ bak = Erased /\ stage = "none" /\ sem = None
    /\ names = [c \in Clients |-> Invalid] /\ unsaved = [c \in Clients |-> FALSE]
    /\ pc = [c \in Clients |-> "idle"]
    /\ cut = FALSE /\ crashes = 0

\* Power is lost and the box boots: all programs start again.
Crash ==
    /\ crashes < MaxCrash /\ crashes' = crashes + 1
    /\ cut' = (cut \/ stage \in {"write crc", "write data"})
    /\ cache' = Load(flash) /\ dirty' = FALSE /\ env' = Load(flash)
    /\ bak' = Erased /\ stage' = "none" /\ sem' = None
    /\ names' = [c \in Clients |-> Invalid] /\ unsaved' = [c \in Clients |-> FALSE]
    /\ pc' = [c \in Clients |-> "idle"]
    /\ UNCHANGED flash

-----------------------------------------------------------------------------
(***************************************************************************)
(* The kernel.                                                             *)
(***************************************************************************)

\* Mutant: a set does not wait for a commit to end.
nvram_set_Unlocked(k, v) ==
    IF cache[k] # NoVal \/ Cardinality(Entries(cache)) < MaxEntry
    THEN cache' = [cache EXCEPT ![k] = v] /\ dirty' = TRUE
    ELSE UNCHANGED <<cache, dirty>>

\* Mutant: the cache has no end.
nvram_set_Unbounded(k, v) ==
    sem = None /\ cache' = [cache EXCEPT ![k] = v] /\ dirty' = TRUE

\* A new name needs an empty entry.  The ioctl does not report that there
\* is none.
nvram_set(k, v) ==
    /\ sem = None
    /\ IF cache[k] # NoVal \/ Cardinality(Entries(cache)) < MaxEntry
       THEN cache' = [cache EXCEPT ![k] = v] /\ dirty' = TRUE
       ELSE UNCHANGED <<cache, dirty>>

\* Mutant: only this block is read before the sector is erased.
StartWrite_Alone(c, m) ==
    /\ env' = m /\ sem' = c /\ stage' = "erase crc"
    /\ bak' = [Erased EXCEPT !.crc = m, !.data = flash.data]

\* A program starts to write image m: the checksum comes first.
StartWrite(c, m) ==
    /\ env' = m /\ sem' = c /\ stage' = "erase crc"
    /\ bak' = [flash EXCEPT !.crc = m]

(***************************************************************************)
(* ra_mtd_write_nm reads the sector, erases it and writes it back with the *)
(* new part in place: twice, for the checksum and for the data.            *)
(***************************************************************************)
EraseSector ==
    /\ stage \in {"erase crc", "erase data"}
    /\ flash' = Erased
    /\ stage' = IF stage = "erase crc" THEN "write crc" ELSE "write data"
    /\ UNCHANGED <<cache, dirty, env, bak, sem, names, unsaved, pc, cut, crashes>>

WriteCrc ==
    /\ stage = "write crc"
    /\ flash' = bak /\ bak' = [bak EXCEPT !.data = env] /\ stage' = "erase data"
    /\ UNCHANGED <<cache, dirty, env, sem, names, unsaved, pc, cut, crashes>>

\* The data are written; the block is clean and the system call returns.
\* The library's own flag is cleared, and nvram_close forgets its cache.
WriteData ==
    /\ stage = "write data"
    /\ flash' = bak /\ bak' = Erased /\ stage' = "none" /\ sem' = None
    /\ dirty' = FALSE
    /\ unsaved' = [unsaved EXCEPT ![sem] = FALSE]
    /\ names' = IF pc[sem] = "close" THEN [names EXCEPT ![sem] = Invalid] ELSE names
    /\ pc' = [pc EXCEPT ![sem] = "idle"]
    /\ UNCHANGED <<cache, env, cut, crashes>>

-----------------------------------------------------------------------------
(***************************************************************************)
(* The library, in program c.                                              *)
(***************************************************************************)

\* nvram_init: the names the kernel has now are all this program will know.
nvram_init(c) ==
    /\ pc[c] = "idle" /\ names[c] = Invalid /\ sem = None
    /\ names' = [names EXCEPT ![c] = Entries(cache)]
    /\ env' = cache     \* nvram_getall uses the same buffer
    /\ UNCHANGED <<cache, dirty, flash, bak, stage, sem, unsaved, pc, cut, crashes>>

\* The library is initialised and the program is not in a call.
Attached(c) == pc[c] = "idle" /\ names[c] # Invalid /\ sem # c

\* nvram_bufset, alone or as the first half of nvram_set, which goes on to
\* commit unless the program's own cache was full.
nvram_bufset(c, k, v, commit) ==
    LET full == k \notin names[c] /\ Cardinality(names[c]) = MaxEntry IN
    /\ Attached(c)
    /\ nvram_set(k, v)
    /\ IF full THEN UNCHANGED <<names, unsaved>>
       ELSE /\ names' = [names EXCEPT ![c] = @ \cup {k}]
            /\ unsaved' = [unsaved EXCEPT ![c] = TRUE]
    /\ pc' = [pc EXCEPT ![c] = IF commit /\ ~ full THEN "commit" ELSE "idle"]
    /\ UNCHANGED <<env, flash, bak, stage, sem, cut, crashes>>

\* A commit that somebody else's commit made unnecessary returns at once.
nvram_commit(c) ==
    /\ sem = None
    /\ pc[c] = "idle" => names[c] # Invalid
    /\ IF dirty
       THEN /\ StartWrite(c, cache)
            /\ UNCHANGED <<cache, dirty, flash, names, unsaved, pc>>
       ELSE /\ unsaved' = [unsaved EXCEPT ![c] = FALSE]
            /\ names' = IF pc[c] = "close" THEN [names EXCEPT ![c] = Invalid] ELSE names
            /\ pc' = [pc EXCEPT ![c] = "idle"]
            /\ UNCHANGED kernel
    /\ UNCHANGED <<cut, crashes>>

nvram_close(c) ==
    /\ Attached(c)
    /\ IF unsaved[c] THEN pc' = [pc EXCEPT ![c] = "close"] /\ UNCHANGED names
       ELSE names' = [names EXCEPT ![c] = Invalid] /\ UNCHANGED pc
    /\ UNCHANGED <<kernel, unsaved, cut, crashes>>

\* nvram_clear closes first; the kernel then drops its cache and writes an
\* image without entries.
nvram_clear(c) ==
    /\ pc[c] = "idle" /\ names[c] = Invalid /\ sem = None
    /\ cache' = Empty
    /\ StartWrite(c, Empty)
    /\ UNCHANGED <<dirty, flash, names, unsaved, pc, cut, crashes>>

Next ==
    \/ Crash \/ EraseSector \/ WriteCrc \/ WriteData
    \/ \E c \in Clients :
          \/ nvram_init(c) \/ nvram_commit(c) \/ nvram_close(c) \/ nvram_clear(c)
          \/ \E k \in Keys, v \in Vals, b \in BOOLEAN : nvram_bufset(c, k, v, b)

Spec == Init /\ [][Next]_vars

-----------------------------------------------------------------------------
\* Types; the cache never has more entries than MAX_CACHE_ENTRY.
NvTypeOK ==
    /\ cache \in Images /\ Cardinality(Entries(cache)) <= MaxEntry
    /\ dirty \in BOOLEAN /\ env \in Images /\ cut \in BOOLEAN
    /\ flash \in Sectors /\ bak \in Sectors
    /\ stage \in {"none", "erase crc", "write crc", "erase data", "write data"}
    /\ sem \in Clients \cup {None} /\ (sem = None <=> stage = "none")
    /\ names \in [Clients -> (SUBSET Keys) \cup {Invalid}]
    /\ unsaved \in [Clients -> BOOLEAN] /\ pc \in [Clients -> {"idle", "commit", "close"}]

\* A clean block is a saved one: when nobody is writing and dirty is false,
\* a boot would find exactly what programs see now.  "Nothing to be
\* committed" is then true, and no program's value can be lost by it.
SavedCovers == sem = None /\ ~ dirty => Load(flash) = cache

\* A save rewrites the whole sector, so the other blocks in it (rtdev, cert,
\* wapi) come back from the copy that was read before the erasure: no
\* sequence of saves loses them, only power lost while the sector is erased.
RestKept == sem = None /\ flash.rest = "lost" => cut

\* The driver and the library implement the abstract store: what a boot
\* finds is the last image that was written whole, or nothing.
Store ==
    INSTANCE NvramStore WITH
        mem <- cache,
        disk <- IF flash.data \in Images /\ flash.crc = flash.data
                THEN flash.data ELSE [k \in Keys |-> "lost"]
ImplementsStore == Store!StoreSpec

=============================================================================
