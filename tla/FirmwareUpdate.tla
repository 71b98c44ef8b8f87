--------------------------- MODULE FirmwareUpdate ---------------------------
(***************************************************************************)
(* The firmware updater (diyite_updater/main.c, upload.h) and the program  *)
(* it starts to write the flash (mtd_write/mtd.c).  Every half hour it     *)
(* asks the server for a version and an address; a newer image is          *)
(* downloaded to the card, checked and written over the only copy of the   *)
(* firmware, and the box reboots.  The box runs from memory meanwhile, and *)
(* power may be lost at any time.                                          *)
(*                                                                         *)
(* An image is Chunks buffers of mtd_write long; the flash is erased in    *)
(* blocks of Block buffers.                                                *)
(***************************************************************************)
EXTENDS Integers, FiniteSets

CONSTANTS Versions,      \* firmware versions; the smallest runs at first
          Chunks, Block,
          Data,          \* Data[v][j]: what buffer j of version v contains
          MaxErrors,     \* bound on the errors of flash and card
          MaxCrash       \* bound on the losses of power

ASSUME FirmwareAssumption ==
    /\ Versions \subseteq Nat \ {0} /\ Versions # {} /\ IsFiniteSet(Versions)
    /\ Chunks \in Nat \ {0} /\ Block \in Nat \ {0} /\ Chunks % Block = 0
    /\ Data \in [Versions -> [1 .. Chunks -> Nat \ {0}]]
    /\ \A u, v \in Versions : Data[u] = Data[v] => u = v
    /\ MaxErrors \in Nat /\ MaxCrash \in Nat

VARIABLES server,     \* the version the server announces
          running,    \* SYSTEM_FIIRMWARE_VERSION of the running program
          want,       \* serverVersion, the answer of the last request
          file,       \* update.img: a version's image, Bad, or NoFile
          flash,      \* the Kernel partition, buffer by buffer
          read, erased,   \* mtd_write: buffers read (w) and erased (e)
          pos,            \* file position of the partition's device
          pc, errors, crashes
env == <<errors, crashes>>
vars == <<server, running, want, file, flash, read, erased, pos, pc, errors, crashes>>
mtd == <<flash, read, erased, pos>>

NoFile == 0
Bad == -1       \* update.img cut short, or not an image

Oldest == CHOOSE v \in Versions : \A u \in Versions : v <= u

\* What the flash holds where no image is.
Ones  == 0      \* erased
Mixed == -1     \* written over something else, or partly written
Junk  == -2     \* written from a bad file

Buffer(f, j) == IF f = Bad THEN Junk ELSE Data[f][j]

Init ==
    /\ server = Oldest /\ running = Oldest /\ want = 0 /\ file = NoFile
    /\ flash = Data[Oldest] /\ read = 0 /\ erased = 0 /\ pos = 0
    /\ pc = "sleep" /\ errors = 0 /\ crashes = 0

Publish(v) ==
    /\ v > server /\ server' = v
    /\ UNCHANGED <<running, want, file, mtd, pc, env>>

\* The boot loader starts what is in flash, if it is an image.
Boot ==
    /\ \/ \E v \in Versions : flash = Data[v] /\ running' = v /\ pc' = "sleep"
       \/ /\ \A v \in Versions : flash # Data[v]
          /\ running' = running /\ pc' = "bricked"
    /\ want' = 0 /\ read' = 0 /\ erased' = 0 /\ pos' = 0
    /\ UNCHANGED <<server, flash>>

Crash ==
    /\ crashes < MaxCrash /\ pc # "bricked" /\ crashes' = crashes + 1
    /\ file' = IF file = NoFile THEN NoFile ELSE Bad
    /\ Boot /\ UNCHANGED errors

\* Mutant: off by one.
Newer_ByTwo(n) == n > running + 1

Newer(n) == n > running

\* getUpgradeVersion returns 0 when the request fails, and an older version
\* when the answer comes from a server that lags behind.
getUpgradeVersion(n) ==
    /\ pc = "sleep" /\ n <= server
    /\ want' = n
    /\ pc' = IF Newer(n) THEN "download" ELSE "sleep"
    /\ UNCHANGED <<server, running, file, mtd, env>>

\* http_download leaves the whole image, or a part of it while it returns
\* success; after an error update.img is removed.
Download(f) ==
    /\ pc = "download" /\ f \in {want, Bad, NoFile}
    /\ file' = f
    /\ pc' = IF f = NoFile THEN "sleep" ELSE "check"
    /\ UNCHANGED <<server, running, want, mtd, env>>

\* Mutant: only the header is checked.
Valid_HeaderOnly(f) == f # NoFile

\* check(): magic number, header and data checksums, size of the partition.
Valid(f) == f \in Versions

\* Mutant: the first block is erased before the image is checked.
update_firmware_EraseFirst ==
    /\ pc = "check"
    /\ flash' = [j \in 1 .. Chunks |-> IF j <= Block THEN Ones ELSE flash[j]]
    /\ IF Valid(file) THEN pc' = "write" /\ UNCHANGED file
       ELSE pc' = "sleep" /\ file' = NoFile
    /\ read' = 0 /\ erased' = 0 /\ pos' = 0
    /\ UNCHANGED <<server, running, want, env>>

update_firmware ==
    /\ pc = "check"
    /\ IF Valid(file) THEN pc' = "write" /\ UNCHANGED file
       ELSE pc' = "sleep" /\ file' = NoFile
    /\ read' = 0 /\ erased' = 0 /\ pos' = 0
    /\ UNCHANGED <<server, running, want, flash, env>>

-----------------------------------------------------------------------------
(***************************************************************************)
(* The loop of mtd_write: the next buffer is read, blocks are erased until *)
(* they reach past it, it is written, and read back and compared.          *)
(***************************************************************************)

\* Mutant: the block a buffer begins is not erased before it.
MustErase_Late == read > erased

MustErase == read + 1 > erased

EraseBlock ==
    /\ pc = "write" /\ read < Chunks /\ MustErase
    /\ flash' = [j \in 1 .. Chunks |->
                    IF j \in erased + 1 .. erased + Block THEN Ones ELSE flash[j]]
    /\ erased' = erased + Block
    /\ UNCHANGED <<server, running, want, file, read, pos, pc, env>>

\* What writing p over a buffer leaves there: flash only turns ones to zeros.
Over(old, p) == IF old \in {Ones, p} THEN p ELSE Mixed

WriteChunk ==
    /\ pc = "write" /\ read < Chunks /\ ~ MustErase
    /\ flash' = [flash EXCEPT ![pos + 1] = Over(@, Buffer(file, read + 1))]
    /\ read' = read + 1 /\ pos' = pos + 1 /\ pc' = "verify"
    /\ UNCHANGED <<server, running, want, file, erased, env>>

Error == errors < MaxErrors /\ errors' = errors + 1

\* write() returns -1 with nothing or a part of the buffer written.  In
\* "result < r" the -1 is converted to the size_t of r and is not less, so
\* that the loop goes on as after a success, at the same position.
WriteFails ==
    /\ pc = "write" /\ read < Chunks /\ ~ MustErase /\ Error
    /\ flash' \in {flash, [flash EXCEPT ![pos + 1] = Mixed]}
    /\ read' = read + 1 /\ pc' = "verify"
    /\ UNCHANGED <<server, running, want, file, erased, pos, crashes>>

\* exit(1): update.img is removed and the updater waits for its next round.
\* The flash stays as it is.
Quit == pc' = "sleep" /\ file' = NoFile

\* Mutant: the buffer read back is not compared.
Matches_NotCompared == pos > 0

\* One buffer back from the position, and what is there is what was read.
Matches == pos > 0 /\ flash[pos] = Buffer(file, read)

Verify ==
    /\ pc = "verify"
    /\ IF Matches THEN pc' = "write" /\ UNCHANGED file ELSE Quit
    /\ UNCHANGED <<server, running, want, mtd, env>>

\* The file cannot be read, a block cannot be erased, or write() stores less
\* than a buffer: mtd_write exits.
GivesUp ==
    /\ pc = "write" /\ read < Chunks /\ Error
    /\ flash' \in {flash} \cup
          (IF MustErase THEN {} ELSE {[flash EXCEPT ![pos + 1] = Mixed]})
    /\ Quit
    /\ UNCHANGED <<server, running, want, read, erased, pos, crashes>>

\* mtd_write returns 0: update.img is removed and the box reboots.
Done ==
    /\ pc = "write" /\ read = Chunks /\ pc' = "reboot" /\ file' = NoFile
    /\ UNCHANGED <<server, running, want, mtd, env>>

Reboot == pc = "reboot" /\ Boot /\ UNCHANGED <<file, env>>

mtd_write == EraseBlock \/ WriteChunk \/ WriteFails \/ Verify \/ GivesUp \/ Done

Next ==
    \/ \E n \in Versions \cup {0} : getUpgradeVersion(n)
    \/ \E f \in Versions \cup {Bad, NoFile} : Download(f)
    \/ update_firmware \/ mtd_write \/ Reboot
    \/ Crash \/ \E v \in Versions : Publish(v)

Spec == Init /\ [][Next]_vars

\* The updater keeps running; of the requests and downloads that it tries
\* again and again, some succeed.
FairSpec ==
    /\ Spec
    /\ WF_vars(update_firmware \/ mtd_write \/ Reboot)
    /\ SF_vars(getUpgradeVersion(server))
    /\ WF_vars(\E f \in {want, Bad, NoFile} : Download(f))
    /\ SF_vars(Download(want))

-----------------------------------------------------------------------------
Contents == {Buffer(v, j) : v \in Versions \cup {Bad}, j \in 1 .. Chunks} \cup {Ones, Mixed}

\* mtd_write stays inside the blocks it has erased and inside the partition:
\* the position on the device never passes what was read, nor that what was
\* erased.
FwTypeOK ==
    /\ server \in Versions /\ running \in Versions /\ want \in Versions \cup {0}
    /\ file \in Versions \cup {NoFile, Bad} /\ flash \in [1 .. Chunks -> Contents]
    /\ 0 <= pos /\ pos <= read /\ read <= erased /\ erased <= Chunks
    /\ pc \in {"sleep", "download", "check", "write", "verify", "reboot", "bricked"}

\* Nothing reaches the flash that check() has not found whole, although
\* http_download reports success for a file that was cut short.
OnlyChecked == \A j \in 1 .. Chunks : flash[j] # Junk

\* The updater logs "update firmware success" and reboots only when the
\* flash holds one whole image.
SuccessMeansWhole == pc = "reboot" => \E v \in Versions : flash = Data[v]

\* A box is lost only when power fails while mtd_write is at work, or after
\* an error made it give up; never by the updater's own reboot.
LostOnlyWhileWriting ==
    [][pc' = "bricked" =>
          \/ pc \in {"write", "verify", "bricked"}
          \/ errors > 0 /\ pc # "reboot"]_vars

\* The newest firmware runs in the end, also after mtd_write has given up,
\* unless power was lost at the wrong moment.
GetsUpdated == <>[](running = server \/ pc = "bricked")

=============================================================================
