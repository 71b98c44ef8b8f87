--------------------------- MODULE FirmwareProofs ---------------------------
(***************************************************************************)
(* For any versions, any size of image and block, and any number of errors *)
(* and losses of power: mtd_write stays inside what it has erased, only    *)
(* checked images reach the flash, and, for images in which no buffer      *)
(* repeats the one before it, a reported success is one and only a loss of *)
(* power or an earlier error can cost the box its firmware.                *)
(***************************************************************************)
EXTENDS FirmwareUpdate, WellFoundedInduction, NaturalsInduction, TLAPS

\* The comparison of mtd_write tells each buffer from the one before it.
Distinct == \A v \in Versions : \A j \in 1 .. Chunks - 1 : Data[v][j] # Data[v][j + 1]

Types ==
    /\ server \in Versions /\ running \in Versions /\ want \in Versions \cup {0}
    /\ file \in Versions \cup {NoFile, Bad}
    /\ pc \in {"sleep", "download", "check", "write", "verify", "reboot", "bricked"}

\* The blocks that are erased are whole blocks.
Counters ==
    /\ pos \in Nat /\ read \in Nat /\ erased \in Nat /\ errors \in Nat
    /\ pos <= read /\ read <= erased /\ erased <= Chunks
    /\ \E k \in Nat : erased = k * Block

Flash == flash \in [1 .. Chunks -> Contents] /\ OnlyChecked

\* mtd_write works on an image that check() has found whole.
Checked ==
    /\ pc \in {"write", "verify"} => file \in Versions
    /\ pc = "verify" => read # 0

SafeInv == Types /\ Counters /\ Flash /\ Checked

\* What has been read back and compared is in flash where it belongs.
Compared ==
    /\ pc = "write" => pos = read /\ \A j \in 1 .. read : flash[j] = Data[file][j]
    /\ pc = "verify" => pos \in {read - 1, read} /\ \A j \in 1 .. read - 1 : flash[j] = Data[file][j]
    /\ SuccessMeansWhole

\* Without an error the flash is whole except while mtd_write works, and
\* then the rest of what it has erased is still empty.
Unharmed ==
    errors = 0 =>
        /\ pc \in {"sleep", "download", "check"} => \E v \in Versions : flash = Data[v]
        /\ pc \in {"write", "verify"} => pos = read /\ \A j \in read + 1 .. erased : flash[j] = Ones
        /\ pc = "verify" => flash[read] = Data[file][read]

WholeInv == SafeInv /\ Compared /\ Unharmed
-----------------------------------------------------------------------------
(* The constants. *)

LEMMA Sizes ==
  /\ Versions \subseteq Nat \ {0} /\ Chunks \in Nat \ {0} /\ Block \in Nat \ {0}
  /\ Data \in [Versions -> [1 .. Chunks -> Nat \ {0}]] /\ MaxErrors \in Nat
BY FirmwareAssumption

LEMMA OldestIsOne == Oldest \in Versions
<1>1. Versions \subseteq Nat /\ Versions # {}
  BY FirmwareAssumption
<1>2. PICK v \in Versions : \A u \in Versions : ~ (<<u, v>> \in OpToRel(<, Nat))
  BY <1>1, NatLessThanWellFounded, WFMin
<1>3. ASSUME NEW u \in Versions PROVE v <= u
  <2>1. ~ (u < v)
    BY <1>1, <1>2 DEF OpToRel
  <2>2. u \in Nat /\ v \in Nat
    BY <1>1
  <2> QED
    BY <2>1, <2>2
<1> QED
  BY <1>3 DEF Oldest

\* The partition is a number of blocks.
LEMMA WholeBlocks == \E k \in Nat : Chunks = k * Block
<1>1. Chunks \in Nat /\ Block \in Nat \ {0}
  BY Sizes
<1>2. Chunks % Block = 0
  BY FirmwareAssumption
<1> DEFINE q == Chunks \div Block
<1>3. Chunks = Block * q + (Chunks % Block) /\ q \in Nat
  BY <1>1
<1> HIDE DEF q
<1>4. Chunks = q * Block
  BY <1>1, <1>2, <1>3
<1> QED
  BY <1>3, <1>4

\* One multiple of B is below another: there is room for B between them.
LEMMA NextMultiple ==
  ASSUME NEW k \in Nat, NEW c \in Nat, NEW B \in Nat \ {0}, k * B < c * B
  PROVE  k * B + B <= c * B /\ k * B + B = (k + 1) * B
<1>1. k < c
  <2> SUFFICES ASSUME ~ (k < c) PROVE FALSE
    OBVIOUS
  <2>1. k - c \in Nat /\ (k - c) * B \in Nat /\ k * B = (k - c) * B + c * B
    OBVIOUS
  <2> QED
    BY <2>1
<1>2. c - k - 1 \in Nat /\ (c - k - 1) * B \in Nat /\ c * B = k * B + B + (c - k - 1) * B
  BY <1>1
<1>3. c * B \in Nat /\ k * B \in Nat
  OBVIOUS
<1>4. k * B + B = (k + 1) * B
  OBVIOUS
<1> QED
  BY <1>2, <1>3, <1>4

LEMMA ChunkData ==
  ASSUME NEW v \in Versions, NEW j \in 1 .. Chunks
  PROVE  /\ Data[v][j] \in Nat \ {0} /\ Buffer(v, j) = Data[v][j]
         /\ Data[v][j] \in Contents /\ Data[v][j] # Junk
<1>1. Data[v][j] \in Nat \ {0}
  BY Sizes
<1>2. v # Bad
  BY Sizes DEF Bad
<1>3. Buffer(v, j) = Data[v][j]
  BY <1>2 DEF Buffer
<1>4. Data[v][j] \in Contents
  BY <1>3 DEF Contents
<1>5. Data[v][j] # Junk
  BY <1>1 DEF Junk
<1> QED
  BY <1>1, <1>3, <1>4, <1>5

LEMMA OtherContents == {Ones, Mixed} \subseteq Contents /\ Ones # Junk /\ Mixed # Junk
<1>1. {Ones, Mixed} \subseteq Contents
  BY DEF Contents
<1> QED
  BY <1>1 DEF Ones, Mixed, Junk

LEMMA ImageFlash == ASSUME NEW v \in Versions PROVE
  Data[v] \in [1 .. Chunks -> Contents] /\ \A j \in 1 .. Chunks : Data[v][j] # Junk
<1>1. Data[v] \in [1 .. Chunks -> Nat \ {0}]
  BY Sizes
<1>2. \A j \in 1 .. Chunks : Data[v][j] \in Contents /\ Data[v][j] # Junk
  BY ChunkData
<1> QED
  BY <1>1, <1>2

LEMMA SameFunction ==
  ASSUME NEW S, NEW R, NEW f \in [S -> R], NEW g \in [S -> R], \A x \in S : f[x] = g[x]
  PROVE  f = g
OBVIOUS

\* Writing an image's buffer never leaves Junk.
LEMMA OverClean ==
  ASSUME NEW old, NEW v \in Versions, NEW j \in 1 .. Chunks
  PROVE  Over(old, Buffer(v, j)) \in Contents /\ Over(old, Buffer(v, j)) # Junk
BY ChunkData, OtherContents DEF Over

-----------------------------------------------------------------------------
(* What holds whatever the images contain. *)

\* A step that leaves the flash and mtd_write's counters alone.
LEMMA Kept ==
  ASSUME Counters, Flash, UNCHANGED <<mtd, errors>> PROVE Counters' /\ Flash'
<1>1. UNCHANGED <<flash, read, erased, pos, errors>>
  BY DEF mtd
<1>2. Counters'
  BY <1>1 DEF Counters
<1>3. Flash'
  BY <1>1 DEF Flash, OnlyChecked
<1> QED
  BY <1>2, <1>3

\* mtd_write has not begun.
LEMMA Begun == 0 \in Nat /\ 0 <= 0 /\ 0 <= Chunks /\ \E k \in Nat : 0 = k * Block
<1>1. 0 \in Nat /\ 0 = 0 * Block /\ 0 <= Chunks
  BY Sizes
<1> QED
  BY <1>1

LEMMA SafeInit == Init => SafeInv
<1> SUFFICES ASSUME Init PROVE SafeInv
  OBVIOUS
<1>1. Types /\ Checked
  BY OldestIsOne DEF Init, Types, Checked, NoFile
<1>2. Counters
  BY Begun DEF Init, Counters
<1>3. Flash
  BY OldestIsOne, ImageFlash DEF Init, Flash, OnlyChecked
<1> QED
  BY <1>1, <1>2, <1>3 DEF SafeInv

LEMMA SafeBoot ==
  ASSUME SafeInv, Boot, errors' = errors, file' \in Versions \cup {NoFile, Bad} PROVE SafeInv'
<1>1. Types' /\ Checked'
  BY DEF SafeInv, Types, Boot, Checked
<1>2. Counters'
  <2>1. read' = 0 /\ erased' = 0 /\ pos' = 0 /\ errors' \in Nat
    BY DEF SafeInv, Counters, Boot
  <2> QED
    BY <2>1, Begun DEF Counters
<1>3. Flash'
  BY DEF SafeInv, Flash, OnlyChecked, Boot
<1> QED
  BY <1>1, <1>2, <1>3 DEF SafeInv

\* What a step of mtd_write finds when it is about to write.
LEMMA Writable ==
  ASSUME SafeInv, pc = "write", read < Chunks, ~ MustErase
  PROVE  /\ read \in Nat /\ pos \in Nat /\ read + 1 \in 1 .. Chunks /\ pos + 1 \in 1 .. Chunks
         /\ pos <= read /\ read + 1 <= erased /\ erased <= Chunks /\ file \in Versions
<1>1. Chunks \in Nat
  BY Sizes
<1>2. /\ pos \in Nat /\ read \in Nat /\ erased \in Nat /\ pos <= read /\ erased <= Chunks
      /\ read < Chunks /\ ~ (read + 1 > erased)
  BY DEF SafeInv, Counters, MustErase
<1>3. /\ read + 1 \in 1 .. Chunks /\ pos + 1 \in 1 .. Chunks /\ read + 1 <= erased
  BY <1>1, <1>2
<1>4. file \in Versions
  BY DEF SafeInv, Checked
<1> QED
  BY <1>2, <1>3, <1>4

\* A block is erased when all that was erased has been written.
LEMMA Erasing ==
  ASSUME SafeInv, read < Chunks, MustErase
  PROVE  /\ read \in Nat /\ erased = read /\ erased + Block \in Nat /\ erased + Block <= Chunks
         /\ read <= erased + Block
         /\ \E k \in Nat : erased + Block = k * Block
<1>1. Chunks \in Nat /\ Block \in Nat \ {0}
  BY Sizes
<1>2. read \in Nat /\ erased \in Nat /\ read <= erased /\ read < Chunks /\ read + 1 > erased
  BY DEF SafeInv, Counters, MustErase
<1>3. erased = read /\ erased < Chunks
  BY <1>1, <1>2
<1>4. PICK k \in Nat : erased = k * Block
  BY DEF SafeInv, Counters
<1>5. PICK c \in Nat : Chunks = c * Block
  BY WholeBlocks
<1>6. k * Block + Block <= c * Block /\ k * Block + Block = (k + 1) * Block
  BY <1>1, <1>3, <1>4, <1>5, NextMultiple
<1>7. erased + Block <= Chunks
  BY <1>4, <1>5, <1>6
<1>8. erased + Block = (k + 1) * Block /\ k + 1 \in Nat
  BY <1>4, <1>6
<1>9. erased + Block \in Nat /\ read <= erased + Block
  BY <1>1, <1>2
<1> QED
  BY <1>2, <1>3, <1>7, <1>8, <1>9

LEMMA SafeErase == ASSUME SafeInv, EraseBlock PROVE SafeInv'
<1>1. /\ read < Chunks /\ MustErase /\ erased' = erased + Block
      /\ UNCHANGED <<read, pos, errors>>
  BY DEF EraseBlock, env
<1>2. Types' /\ Checked'
  BY DEF SafeInv, EraseBlock, Types, Checked
<1>3. Counters'
  <2>1. /\ erased' \in Nat /\ erased' <= Chunks /\ read' <= erased'
        /\ \E k \in Nat : erased' = k * Block
    BY <1>1, Erasing
  <2>2. pos' \in Nat /\ read' \in Nat /\ errors' \in Nat /\ pos' <= read'
    BY <1>1 DEF SafeInv, Counters
  <2> QED
    BY <2>1, <2>2 DEF Counters
<1>4. Flash'
  BY OtherContents DEF SafeInv, EraseBlock, Flash, OnlyChecked
<1> QED
  BY <1>2, <1>3, <1>4 DEF SafeInv

\* WriteChunk and WriteFails: a buffer further in the file, and perhaps in
\* the flash.
LEMMA SafeWrite == ASSUME SafeInv, WriteChunk \/ WriteFails PROVE SafeInv'
<1>1. /\ pc = "write" /\ read < Chunks /\ ~ MustErase /\ pc' = "verify"
      /\ read' = read + 1 /\ pos' \in {pos, pos + 1}
      /\ UNCHANGED <<server, running, want, file, erased>>
  BY DEF WriteChunk, WriteFails
<1>2. /\ read \in Nat /\ pos \in Nat /\ read + 1 \in 1 .. Chunks /\ pos + 1 \in 1 .. Chunks
      /\ pos <= read /\ read + 1 <= erased /\ erased <= Chunks /\ file \in Versions
  BY <1>1, Writable
<1>3. Types'
  BY <1>1 DEF SafeInv, Types
<1>4. Checked'
  <2>1. read' # 0
    BY <1>1, <1>2
  <2> QED
    BY <1>1, <1>2, <2>1 DEF Checked
<1>5. Counters'
  <2>1. errors' \in Nat
    BY DEF WriteChunk, WriteFails, Error, env, SafeInv, Counters
  <2>2. erased' \in Nat /\ erased' <= Chunks /\ \E k \in Nat : erased' = k * Block
    BY <1>1 DEF SafeInv, Counters
  <2>3. pos' \in Nat /\ read' \in Nat /\ pos' <= read'
    BY <1>1, <1>2
  <2>4. read' <= erased'
    BY <1>1, <1>2
  <2> QED
    BY <2>1, <2>2, <2>3, <2>4 DEF Counters
<1>6. Flash'
  <2>1. CASE WriteChunk
    BY <1>2, <2>1, OverClean DEF WriteChunk, SafeInv, Flash, OnlyChecked
  <2>2. CASE WriteFails
    BY <2>2, OtherContents DEF WriteFails, SafeInv, Flash, OnlyChecked
  <2> QED
    BY <2>1, <2>2
<1> QED
  BY <1>3, <1>4, <1>5, <1>6 DEF SafeInv

LEMMA SafeGivesUp == ASSUME SafeInv, GivesUp PROVE SafeInv'
<1>1. Types' /\ Checked'
  BY DEF SafeInv, GivesUp, Quit, Types, Checked
<1>2. Counters'
  <2>1. UNCHANGED <<read, erased, pos>>
    BY DEF GivesUp
  <2>2. errors' \in Nat
    BY DEF SafeInv, Counters, GivesUp, Error
  <2> QED
    BY <2>1, <2>2 DEF SafeInv, Counters
<1>3. Flash'
  BY OtherContents DEF SafeInv, GivesUp, Flash, OnlyChecked
<1> QED
  BY <1>1, <1>2, <1>3 DEF SafeInv

LEMMA SafeNext == SafeInv /\ [Next]_vars => SafeInv'
<1> SUFFICES ASSUME SafeInv, [Next]_vars PROVE SafeInv'
  OBVIOUS
<1>t. Types /\ Counters /\ Flash /\ Checked
  BY DEF SafeInv
<1>1. CASE UNCHANGED vars
  <2>1. Counters' /\ Flash'
    BY <1>1, <1>t, Kept DEF vars, mtd
  <2>2. Types' /\ Checked'
    BY <1>1, <1>t DEF vars, Types, Checked
  <2> QED
    BY <2>1, <2>2 DEF SafeInv
<1>2. ASSUME NEW n \in Versions \cup {0}, getUpgradeVersion(n) PROVE SafeInv'
  <2>1. Counters' /\ Flash'
    BY <1>2, <1>t, Kept DEF getUpgradeVersion, env
  <2>2. Types' /\ Checked'
    BY <1>2, <1>t DEF getUpgradeVersion, Types, Checked
  <2> QED
    BY <2>1, <2>2 DEF SafeInv
<1>3. ASSUME NEW f \in Versions \cup {Bad, NoFile}, Download(f) PROVE SafeInv'
  <2>1. Counters' /\ Flash'
    BY <1>3, <1>t, Kept DEF Download, env
  <2>2. Types' /\ Checked'
    BY <1>3, <1>t DEF Download, Types, Checked
  <2> QED
    BY <2>1, <2>2 DEF SafeInv
<1>4. CASE update_firmware
  <2>1. Types' /\ Checked'
    BY <1>4, <1>t DEF update_firmware, Valid, Types, Checked
  <2>2. Counters'
    <3>1. read' = 0 /\ erased' = 0 /\ pos' = 0 /\ errors' \in Nat
      BY <1>4, <1>t DEF update_firmware, env, Counters
    <3> QED
      BY <3>1, Begun DEF Counters
  <2>3. Flash'
    BY <1>4, <1>t DEF update_firmware, Flash, OnlyChecked
  <2> QED
    BY <2>1, <2>2, <2>3 DEF SafeInv
<1>5. CASE EraseBlock
  BY <1>5, SafeErase
<1>6. CASE WriteChunk \/ WriteFails
  BY <1>6, SafeWrite
<1>7. CASE Verify \/ Done
  <2>1. Counters' /\ Flash'
    BY <1>7, <1>t, Kept DEF Verify, Done, env
  <2>2. Types' /\ Checked'
    BY <1>7, <1>t DEF Verify, Quit, Done, Types, Checked
  <2> QED
    BY <2>1, <2>2 DEF SafeInv
<1>8. CASE GivesUp
  BY <1>8, SafeGivesUp
<1>9. CASE Reboot
  <2>1. Boot /\ errors' = errors /\ file' \in Versions \cup {NoFile, Bad}
    BY <1>9, <1>t DEF Reboot, env, Types
  <2> QED
    BY <2>1, SafeBoot
<1>10. CASE Crash
  <2>1. Boot /\ errors' = errors /\ file' \in Versions \cup {NoFile, Bad}
    BY <1>10, <1>t DEF Crash, Types
  <2> QED
    BY <2>1, SafeBoot
<1>11. ASSUME NEW v \in Versions, Publish(v) PROVE SafeInv'
  <2>1. Counters' /\ Flash'
    BY <1>11, <1>t, Kept DEF Publish, env
  <2>2. Types' /\ Checked'
    BY <1>11, <1>t DEF Publish, mtd, Types, Checked
  <2> QED
    BY <2>1, <2>2 DEF SafeInv
<1> QED
  BY <1>1, <1>2, <1>3, <1>4, <1>5, <1>6, <1>7, <1>8, <1>9, <1>10, <1>11 DEF Next, mtd_write

LEMMA AlwaysSafe == Spec => []SafeInv
BY SafeInit, SafeNext, PTL DEF Spec

\* mtd_write never writes outside the blocks it has erased, nor outside the
\* partition, whatever fails: pos <= read <= erased <= the partition.
THEOREM WritesInside == Spec => []FwTypeOK
<1>1. SafeInv => FwTypeOK
  <2> SUFFICES ASSUME SafeInv PROVE FwTypeOK
    OBVIOUS
  <2>1. 0 <= pos /\ pos <= read /\ read <= erased /\ erased <= Chunks
    BY DEF SafeInv, Counters
  <2> QED
    BY <2>1 DEF SafeInv, Types, Flash, FwTypeOK
<1> QED
  BY <1>1, AlwaysSafe, PTL

\* Nothing reaches the flash but images that check() has found whole, and
\* what a failed write leaves of them.
THEOREM CheckedOnly == Spec => []OnlyChecked
<1>1. SafeInv => OnlyChecked
  BY DEF SafeInv, Flash
<1> QED
  BY <1>1, AlwaysSafe, PTL

-----------------------------------------------------------------------------
(* What holds when no buffer of an image repeats the one before it. *)

LEMMA WholeInit == Init => Compared /\ Unharmed
BY OldestIsOne DEF Init, Compared, Unharmed, SuccessMeansWhole

\* Outside mtd_write, with the flash as it was.
LEMMA Aside ==
  ASSUME Compared, Unharmed, UNCHANGED <<flash, errors>>,
         pc \notin {"write", "verify"}, pc # "reboot",
         pc' \in {"sleep", "download", "check", "bricked"},
         pc' = "bricked" => pc = "bricked",
         pc = "bricked" => pc' = "bricked",
         pc \in {"sleep", "download", "check", "bricked"}
  PROVE  Compared' /\ Unharmed'
BY DEF Compared, Unharmed, SuccessMeansWhole

LEMMA WholeBoot == ASSUME Boot PROVE Compared' /\ Unharmed'
BY DEF Boot, Compared, Unharmed, SuccessMeansWhole

LEMMA WholeErase == ASSUME WholeInv, EraseBlock PROVE Compared' /\ Unharmed'
<1>1. /\ pc = "write" /\ pc' = "write" /\ read < Chunks /\ MustErase /\ erased' = erased + Block
      /\ UNCHANGED <<read, pos, file, errors>>
  BY DEF EraseBlock, env
<1>2. read \in Nat /\ erased = read /\ erased + Block \in Nat /\ erased + Block <= Chunks
  BY <1>1, Erasing DEF WholeInv
<1>c. Chunks \in Nat /\ Block \in Nat
  BY Sizes
<1>3. ASSUME NEW j \in 1 .. read PROVE flash'[j] = flash[j]
  <2>1. j \in 1 .. Chunks /\ j \notin erased + 1 .. erased + Block
    BY <1>1, <1>2, <1>c
  <2> QED
    BY <2>1 DEF EraseBlock
<1>4. ASSUME NEW j \in read' + 1 .. erased' PROVE flash'[j] = Ones
  <2>1. j \in 1 .. Chunks /\ j \in erased + 1 .. erased + Block
    BY <1>1, <1>2, <1>c
  <2> QED
    BY <2>1 DEF EraseBlock
<1>5. Compared'
  BY <1>1, <1>3 DEF WholeInv, Compared, SuccessMeansWhole
<1>6. Unharmed'
  <2>1. pos' = read'
    BY <1>1 DEF WholeInv, Compared
  <2> QED
    BY <1>1, <1>4, <2>1 DEF Unharmed
<1> QED
  BY <1>5, <1>6

\* The buffer is written where it belongs.
LEMMA WholeWrite == ASSUME WholeInv, WriteChunk PROVE Compared' /\ Unharmed'
<1>1. /\ pc = "write" /\ pc' = "verify" /\ read < Chunks /\ ~ MustErase
      /\ read' = read + 1 /\ pos' = pos + 1 /\ UNCHANGED <<file, erased, errors>>
      /\ flash' = [flash EXCEPT ![pos + 1] = Over(@, Buffer(file, read + 1))]
  BY DEF WriteChunk, env
<1>2. /\ read \in Nat /\ read + 1 \in 1 .. Chunks /\ read + 1 <= erased /\ erased <= Chunks
      /\ file \in Versions
  BY <1>1, Writable DEF WholeInv
<1>3. pos = read /\ \A j \in 1 .. read : flash[j] = Data[file][j]
  BY <1>1 DEF WholeInv, Compared
<1>c. Chunks \in Nat /\ erased \in Nat
  BY Sizes DEF WholeInv, SafeInv, Counters
<1>4. flash \in [1 .. Chunks -> Contents]
  BY DEF WholeInv, SafeInv, Flash
<1>5. ASSUME NEW j \in 1 .. Chunks, j # read + 1 PROVE flash'[j] = flash[j]
  BY <1>1, <1>3, <1>4, <1>5
<1>6. ASSUME NEW j \in 1 .. read PROVE flash'[j] = Data[file'][j]
  <2>1. j \in 1 .. Chunks /\ j # read + 1
    BY <1>2, <1>c
  <2> QED
    BY <1>1, <1>3, <1>5, <2>1
<1>7. read' - 1 = read /\ pos' = read'
  BY <1>1, <1>2, <1>3
<1>8. Compared'
  BY <1>1, <1>6, <1>7 DEF Compared, SuccessMeansWhole
<1>9. Unharmed'
  <2>1. SUFFICES ASSUME errors = 0
        PROVE  /\ \A j \in read' + 1 .. erased' : flash'[j] = Ones
               /\ flash'[read'] = Data[file'][read']
    BY <1>1, <1>7 DEF Unharmed
  <2>2. \A j \in read + 1 .. erased : flash[j] = Ones
    BY <1>1, <2>1 DEF WholeInv, Unharmed
  <2>3. ASSUME NEW j \in read' + 1 .. erased' PROVE flash'[j] = Ones
    <3>1. j \in 1 .. Chunks /\ j # read + 1 /\ j \in read + 1 .. erased
      BY <1>1, <1>2, <1>c
    <3> QED
      BY <1>5, <2>2, <3>1
  <2>4. flash[read + 1] = Ones
    <3>1. read + 1 \in read + 1 .. erased
      BY <1>2, <1>c
    <3> QED
      BY <2>2, <3>1
  <2>5. flash'[read + 1] = Data[file][read + 1]
    BY <1>1, <1>2, <1>3, <1>4, <2>4, ChunkData DEF Over
  <2> QED
    BY <1>1, <2>3, <2>5
<1> QED
  BY <1>8, <1>9

\* The position stays behind; nothing that was compared is touched.
LEMMA WholeWriteFails == ASSUME WholeInv, WriteFails PROVE Compared' /\ Unharmed'
<1>1. /\ pc = "write" /\ pc' = "verify" /\ read < Chunks /\ ~ MustErase
      /\ read' = read + 1 /\ pos' = pos /\ UNCHANGED <<file, erased>>
      /\ flash' \in {flash, [flash EXCEPT ![pos + 1] = Mixed]} /\ errors' = errors + 1
  BY DEF WriteFails, Error
<1>2. /\ read \in Nat /\ read + 1 \in 1 .. Chunks /\ read + 1 <= erased /\ erased <= Chunks
  BY <1>1, Writable DEF WholeInv
<1>3. pos = read /\ \A j \in 1 .. read : flash[j] = Data[file][j]
  BY <1>1 DEF WholeInv, Compared
<1>c. Chunks \in Nat /\ errors \in Nat
  BY Sizes DEF WholeInv, SafeInv, Counters
<1>4. flash \in [1 .. Chunks -> Contents]
  BY DEF WholeInv, SafeInv, Flash
<1>6. ASSUME NEW j \in 1 .. read PROVE flash'[j] = Data[file'][j]
  <2>1. j \in 1 .. Chunks /\ j # read + 1
    BY <1>2, <1>c
  <2>2. flash'[j] = flash[j]
    BY <1>1, <1>3, <1>4, <2>1
  <2> QED
    BY <1>1, <1>3, <2>2
<1>7. read' - 1 = read /\ pos' = read' - 1
  BY <1>1, <1>2, <1>3
<1>8. Compared'
  BY <1>1, <1>6, <1>7 DEF Compared, SuccessMeansWhole
<1>9. errors' # 0
  BY <1>1, <1>c
<1> QED
  BY <1>8, <1>9 DEF Unharmed

\* The buffer read back is the one before when the position stayed behind,
\* and then it is another one.
LEMMA WholeVerify == ASSUME Distinct, WholeInv, Verify PROVE Compared' /\ Unharmed'
<1>1. pc = "verify" /\ UNCHANGED <<flash, read, erased, pos, errors>>
  BY DEF Verify, mtd, env
<1>2. /\ read \in Nat /\ read # 0 /\ pos \in Nat /\ erased \in Nat /\ read <= erased /\ erased <= Chunks
      /\ file \in Versions
  BY <1>1 DEF WholeInv, SafeInv, Counters, Checked
<1>c. Chunks \in Nat
  BY Sizes
<1>3. pos \in {read - 1, read} /\ \A j \in 1 .. read - 1 : flash[j] = Data[file][j]
  BY <1>1 DEF WholeInv, Compared
<1>r. read \in 1 .. Chunks /\ read - 1 \in Nat
  BY <1>2, <1>c
<1>b. Buffer(file, read) = Data[file][read]
  BY <1>2, <1>r, ChunkData
<1>4. CASE Matches
  <2>1. pc' = "write" /\ file' = file
    BY <1>4 DEF Verify
  <2>2. pos > 0 /\ flash[pos] = Data[file][read]
    BY <1>4, <1>b DEF Matches
  <2>3. pos = read
    <3> SUFFICES ASSUME pos = read - 1 PROVE FALSE
      BY <1>3
    <3>1. pos \in 1 .. read - 1 /\ pos \in 1 .. Chunks - 1 /\ pos + 1 = read
      BY <1>2, <1>c, <2>2
    <3>2. flash[pos] = Data[file][pos]
      BY <1>3, <3>1
    <3>3. Data[file][pos] # Data[file][pos + 1]
      BY <1>2, <3>1 DEF Distinct
    <3> QED
      BY <2>2, <3>1, <3>2, <3>3
  <2>4. ASSUME NEW j \in 1 .. read PROVE flash[j] = Data[file][j]
    <3>1. j = read \/ j \in 1 .. read - 1
      BY <1>2
    <3> QED
      BY <1>3, <2>2, <2>3, <3>1
  <2>5. Compared'
    BY <1>1, <2>1, <2>3, <2>4 DEF Compared, SuccessMeansWhole
  <2>6. Unharmed'
    BY <1>1, <2>1 DEF WholeInv, Unharmed
  <2> QED
    BY <2>5, <2>6
<1>5. CASE ~ Matches
  <2>1. pc' = "sleep"
    BY <1>5 DEF Verify, Quit
  <2>2. errors # 0
    <3> SUFFICES ASSUME errors = 0 PROVE FALSE
      OBVIOUS
    <3>1. pos = read /\ flash[read] = Data[file][read]
      BY <1>1 DEF WholeInv, Unharmed
    <3>2. pos > 0
      BY <1>2, <3>1
    <3> QED
      BY <1>5, <1>b, <3>1, <3>2 DEF Matches
  <2> QED
    BY <1>1, <2>1, <2>2 DEF Compared, Unharmed, SuccessMeansWhole
<1> QED
  BY <1>4, <1>5

LEMMA WholeNext == Distinct /\ WholeInv /\ [Next]_vars => WholeInv'
<1> SUFFICES ASSUME Distinct, WholeInv, [Next]_vars PROVE Compared' /\ Unharmed'
  BY SafeNext DEF WholeInv
<1>t. SafeInv /\ Compared /\ Unharmed /\ Types
  BY DEF WholeInv, SafeInv
<1>1. CASE UNCHANGED vars
  BY <1>1, <1>t DEF vars, Compared, Unharmed, SuccessMeansWhole
<1>2. ASSUME NEW n \in Versions \cup {0}, getUpgradeVersion(n) PROVE Compared' /\ Unharmed'
  BY <1>2, <1>t, Aside DEF getUpgradeVersion, mtd, env
<1>3. ASSUME NEW f \in Versions \cup {Bad, NoFile}, Download(f) PROVE Compared' /\ Unharmed'
  BY <1>3, <1>t, Aside DEF Download, mtd, env
<1>4. CASE update_firmware
  <2>1. CASE Valid(file)
    <3>1. /\ pc' = "write" /\ read' = 0 /\ erased' = 0 /\ pos' = 0
      BY <1>4, <2>1 DEF update_firmware
    <3>2. (\A j \in 1 .. 0 : FALSE) /\ (\A j \in 0 + 1 .. 0 : FALSE)
      OBVIOUS
    <3>3. Compared'
      BY <3>1, <3>2 DEF Compared, SuccessMeansWhole
    <3>4. Unharmed'
      BY <3>1, <3>2 DEF Unharmed
    <3> QED
      BY <3>3, <3>4
  <2>2. CASE ~ Valid(file)
    BY <1>4, <1>t, <2>2, Aside DEF update_firmware, env
  <2> QED
    BY <2>1, <2>2
<1>5. CASE EraseBlock
  BY <1>5, WholeErase
<1>6. CASE WriteChunk
  BY <1>6, WholeWrite
<1>7. CASE WriteFails
  BY <1>7, WholeWriteFails
<1>8. CASE Verify
  BY <1>8, WholeVerify
<1>9. CASE GivesUp
  <2>1. pc' = "sleep" /\ errors' = errors + 1 /\ errors \in Nat
    BY <1>9, <1>t DEF GivesUp, Quit, Error, SafeInv, Counters
  <2>2. errors' # 0
    BY <2>1
  <2> QED
    BY <2>1, <2>2 DEF Compared, Unharmed, SuccessMeansWhole
<1>10. CASE Done
  <2>1. /\ pc = "write" /\ read = Chunks /\ pc' = "reboot" /\ flash' = flash
    BY <1>10 DEF Done, mtd
  <2>2. flash \in [1 .. Chunks -> Contents] /\ file \in Versions
    BY <1>t, <2>1 DEF SafeInv, Flash, Checked
  <2>3. \A j \in 1 .. Chunks : flash[j] = Data[file][j]
    BY <1>t, <2>1 DEF Compared
  <2>4. Data[file] \in [1 .. Chunks -> Contents]
    BY <2>2, ImageFlash
  <2>5. flash = Data[file]
    <3>1. \A g \in [1 .. Chunks -> Contents] : (\A j \in 1 .. Chunks : flash[j] = g[j]) => flash = g
      BY <2>2, SameFunction, Zenon
    <3> QED
      BY <2>3, <2>4, <3>1, Zenon
  <2> QED
    BY <2>1, <2>2, <2>5 DEF Compared, Unharmed, SuccessMeansWhole
<1>11. CASE Reboot \/ Crash
  BY <1>11, WholeBoot DEF Reboot, Crash
<1>12. ASSUME NEW v \in Versions, Publish(v) PROVE Compared' /\ Unharmed'
  BY <1>12, <1>t DEF Publish, mtd, env, Compared, Unharmed, SuccessMeansWhole
<1> QED
  BY <1>1, <1>2, <1>3, <1>4, <1>5, <1>6, <1>7, <1>8, <1>9, <1>10, <1>11, <1>12
     DEF Next, mtd_write

LEMMA AlwaysWhole == ASSUME Distinct PROVE Spec => []WholeInv
<1>1. Init => WholeInv
  BY SafeInit, WholeInit DEF WholeInv
<1>2. WholeInv /\ [Next]_vars => WholeInv'
  BY WholeNext
<1> QED
  BY <1>1, <1>2, PTL DEF Spec

\* "update firmware success" is only ever reported, and the box rebooted,
\* with one whole image in flash, although mtd_write takes a failed write()
\* for a success.
THEOREM SuccessIsWhole == ASSUME Distinct PROVE Spec => []SuccessMeansWhole
<1>1. WholeInv => SuccessMeansWhole
  BY DEF WholeInv, Compared
<1> QED
  BY <1>1, AlwaysWhole, PTL

\* A box is lost only to a loss of power while mtd_write works or after an
\* error made it give up, never to the updater's own reboot.
THEOREM LostByPowerOnly == ASSUME Distinct PROVE Spec => LostOnlyWhileWriting
<1>1. ASSUME WholeInv, [Next]_vars
      PROVE  [pc' = "bricked" => \/ pc \in {"write", "verify", "bricked"}
                                 \/ errors > 0 /\ pc # "reboot"]_vars
  <2> SUFFICES ASSUME Next, pc' = "bricked", pc \notin {"write", "verify", "bricked"}
               PROVE  errors > 0 /\ pc # "reboot"
    BY <1>1
  <2>1. \A v \in Versions : flash # Data[v]
    <3>1. Reboot \/ Crash
      <4>1. ASSUME NEW n, getUpgradeVersion(n) PROVE FALSE
        BY <4>1 DEF getUpgradeVersion
      <4>2. ASSUME NEW f, Download(f) PROVE FALSE
        BY <4>2 DEF Download
      <4>3. ASSUME NEW v, Publish(v) PROVE FALSE
        BY <4>3 DEF Publish
      <4>4. CASE update_firmware
        BY <4>4 DEF update_firmware
      <4>5. CASE mtd_write
        BY <4>5 DEF mtd_write, EraseBlock, WriteChunk, WriteFails, Verify, GivesUp, Quit, Done
      <4> QED
        BY <4>1, <4>2, <4>3, <4>4, <4>5 DEF Next
    <3> QED
      BY <3>1 DEF Reboot, Crash, Boot
  <2>2. pc \in {"sleep", "download", "check", "reboot"}
    BY <1>1 DEF WholeInv, SafeInv, Types
  <2>3. pc # "reboot"
    BY <1>1, <2>1 DEF WholeInv, Compared, SuccessMeansWhole
  <2>4. errors # 0 /\ errors \in Nat
    BY <1>1, <2>1, <2>2, <2>3 DEF WholeInv, Unharmed, SafeInv, Counters
  <2>5. errors > 0
    BY <2>4
  <2> QED
    BY <2>3, <2>5
<1> QED
  BY <1>1, AlwaysWhole, PTL DEF Spec, LostOnlyWhileWriting

=============================================================================
