------------------------- MODULE ProvisioningProofs -------------------------
(***************************************************************************)
(* For any number of services, answers, resets and losses of power: what   *)
(* flash says about itself is true, provided that the five seconds of      *)
(* init_config suffice and that nobody presses reset while it works.       *)
(***************************************************************************)
EXTENDS Provisioning, SequenceTheorems, TLAPS

Whole(m) == \A k \in Keys : m[k] # NoVal

Configured(m) == m[cmd] = One => \E a \in Answers : \A k \in ServiceNames : m[k] = a

\* Types, and where the two programs can be.
Types ==
    /\ mem \in Images /\ disk \in Images \cup {Lost}
    /\ ans \in Answers \cup {NoAnswer} /\ tmp \in Answers \cup {NoAnswer}
    /\ daemon \in {"check", "clear", "clear 1", "clear 2", "renew", "renew 2", "pause", "reboot"}
    /\ init \in {"start", "post", "set", "set 1", "set 2", "end"}

\* The line of the factory file and the name that come next.
Counters ==
    /\ d \in 1 .. Len(Services) + 3 /\ n \in 1 .. Len(Services) + 2
    /\ daemon \notin {"renew", "renew 2"} => d = 1
    /\ init \in {"start", "post"} => n = 1

\* init_config works only while nvram_daemon waits.
Apart == init \in {"post", "set", "set 1", "set 2"} => daemon = "pause"

\* How far loadDefault has come.
Restored ==
    /\ disk[WebInit] = One => Whole(disk)
    /\ daemon = "check" => (mem[WebInit] = One => Whole(mem))
    /\ daemon \in {"clear 1", "clear 2"} => mem = Empty
    /\ daemon = "renew" => \A j \in 1 .. d - 1 : mem[FactoryFile[j].key] # NoVal
    /\ daemon \in {"renew 2", "pause", "reboot"} => Whole(mem)

\* How far init_config has come: names before n have the answer, and cmd is
\* not yet 1 before its turn.
Entered ==
    /\ Configured(mem) /\ Configured(disk)
    /\ daemon \in {"clear 1", "clear 2", "renew", "renew 2"} => mem[cmd] # One
    /\ init \in {"set", "set 1", "set 2"} =>
          /\ ans \in Answers /\ n \in 1 .. Len(Services) + 1
          /\ \A j \in 1 .. n - 1 : mem[Services[j]] = ans
    /\ init = "post" => mem[cmd] # One
    /\ init = "set" => mem[cmd] # One
    /\ init \in {"set 1", "set 2"} /\ n <= Len(Services) =>
          mem[cmd] # One /\ mem[Services[n]] = ans

IndInv == Types /\ Counters /\ Apart /\ Restored /\ Entered
-----------------------------------------------------------------------------
(* The factory file. *)

LEMMA FileLines ==
  /\ Len(Services) \in Nat /\ Len(FactoryFile) = Len(Services) + 2
  /\ FactoryFile[1] = [key |-> WebInit, val |-> One]
  /\ FactoryFile[2] = [key |-> cmd, val |-> Factory]
  /\ \A j \in 3 .. Len(Services) + 2 :
        FactoryFile[j] = [key |-> Services[j - 2], val |-> Factory]
<1> DEFINE Lines == [key : Keys, val : Vals]
           s == <<[key |-> WebInit, val |-> One], [key |-> cmd, val |-> Factory]>>
           t == [j \in 1 .. Len(Services) |-> [key |-> Services[j], val |-> Factory]]
<1>1. Services \in Seq(Keys) /\ Len(Services) \in Nat /\ DOMAIN Services = 1 .. Len(Services)
  BY ProvisioningAssumption
<1>2. \A j \in 1 .. Len(Services) : Services[j] \in Keys
  BY <1>1
<1>3. WebInit \in Keys /\ cmd \in Keys /\ One \in Vals /\ Factory \in Vals
  BY ProvisioningAssumption
<1>4. s \in Seq(Lines) /\ Len(s) = 2
  BY <1>3
<1>5. t \in Seq(Lines) /\ Len(t) = Len(Services)
  <2>1. t \in [1 .. Len(Services) -> Lines]
    BY <1>2, <1>3
  <2> QED
    BY <1>1, <2>1
<1>6. Len(s \o t) = Len(s) + Len(t)
  BY <1>4, <1>5
<1>7. \A j \in 1 .. Len(s) + Len(t) : (s \o t)[j] = IF j <= Len(s) THEN s[j] ELSE t[j - Len(s)]
  BY <1>4, <1>5
<1>8. FactoryFile = s \o t
  BY DEF FactoryFile
<1>9. s[1] = [key |-> WebInit, val |-> One] /\ s[2] = [key |-> cmd, val |-> Factory]
  OBVIOUS
<1> HIDE DEF s
<1>10. \A j \in 3 .. Len(Services) + 2 :
          FactoryFile[j] = [key |-> Services[j - 2], val |-> Factory]
  <2>1. ASSUME NEW j \in 3 .. Len(Services) + 2
        PROVE  FactoryFile[j] = [key |-> Services[j - 2], val |-> Factory]
    <3>1. j \in 1 .. 2 + Len(Services) /\ ~ (j <= 2) /\ j - 2 \in 1 .. Len(Services)
      BY <1>1
    <3>2. (s \o t)[j] = t[j - 2]
      BY <1>4, <1>5, <1>7, <3>1
    <3> QED
      BY <1>8, <3>1, <3>2
  <2> QED
    BY <2>1
<1> HIDE DEF t
<1> QED
  BY <1>1, <1>4, <1>5, <1>6, <1>7, <1>8, <1>9, <1>10

\* Each line has a name and a value of the store, and none makes cmd 1.
LEMMA FileLine ==
  ASSUME NEW j \in 1 .. Len(FactoryFile)
  PROVE  /\ FactoryFile[j].key \in Keys /\ FactoryFile[j].val \in Vals
         /\ FactoryFile[j].key = cmd => FactoryFile[j].val # One
<1>1. Len(Services) \in Nat /\ j \in {1, 2} \cup 3 .. Len(Services) + 2
  BY FileLines
<1>2. \A i \in 1 .. Len(Services) : Services[i] \in ServiceNames
  BY DEF ServiceNames
<1>3. /\ {WebInit, cmd} \subseteq Keys /\ ServiceNames \subseteq Keys /\ WebInit # cmd
      /\ One \in Vals /\ Factory \in Vals /\ One # Factory
  BY ProvisioningAssumption
<1>4. CASE j = 1
  BY <1>3, <1>4, FileLines
<1>5. CASE j = 2
  BY <1>3, <1>5, FileLines
<1>6. CASE j \in 3 .. Len(Services) + 2
  <2>1. FactoryFile[j] = [key |-> Services[j - 2], val |-> Factory]
    BY <1>6, FileLines
  <2>2. j - 2 \in 1 .. Len(Services)
    BY <1>1, <1>6
  <2> QED
    BY <1>2, <1>3, <2>1, <2>2
<1> QED
  BY <1>1, <1>4, <1>5, <1>6

\* Every name of the store has a line.
LEMMA FileCovers ==
  ASSUME NEW k \in Keys PROVE \E j \in 1 .. Len(FactoryFile) : FactoryFile[j].key = k
<1>1. CASE k = WebInit
  BY <1>1, FileLines
<1>2. CASE k = cmd
  BY <1>2, FileLines
<1>3. CASE k \in ServiceNames
  <2>1. PICK i \in 1 .. Len(Services) : k = Services[i]
    BY <1>3 DEF ServiceNames
  <2>2. Len(Services) \in Nat /\ Len(FactoryFile) = Len(Services) + 2
    BY FileLines
  <2>3. i + 2 \in 3 .. Len(Services) + 2 /\ (i + 2) - 2 = i /\ i + 2 \in 1 .. Len(FactoryFile)
    BY <2>2
  <2>4. FactoryFile[i + 2] = [key |-> Services[(i + 2) - 2], val |-> Factory]
    BY <2>3, FileLines
  <2>5. FactoryFile[i + 2].key = k
    BY <2>1, <2>3, <2>4
  <2> QED
    BY <2>3, <2>5
<1> QED
  BY <1>1, <1>2, <1>3, ProvisioningAssumption

-----------------------------------------------------------------------------
(* Images. *)

LEMMA EmptyImage ==
  Empty \in Images /\ Empty[WebInit] # One /\ Empty[cmd] # One
<1>1. WebInit \in Keys /\ cmd \in Keys /\ One \in Vals /\ NoVal \notin Vals
  BY ProvisioningAssumption
<1> QED
  BY <1>1 DEF Empty, Images

LEMMA LostImage == Lost[WebInit] # One /\ Lost[cmd] # One
<1>1. WebInit \in Keys /\ cmd \in Keys /\ One \in Vals /\ "lost" \notin Vals
  BY ProvisioningAssumption
<1> QED
  BY <1>1 DEF Lost

\* What a boot finds is what flash says it is.
LEMMA BootReads ==
  ASSUME Boot, disk \in Images \cup {Lost}, disk[WebInit] = One => Whole(disk), Configured(disk)
  PROVE  /\ mem' \in Images /\ disk' = disk
         /\ mem'[WebInit] = One => Whole(mem') /\ Configured(mem')
         /\ Configured(mem')
BY EmptyImage DEF Boot, Whole, Configured

-----------------------------------------------------------------------------
(* The inductive invariant. *)

LEMMA InitInd == Init => IndInv
<1> SUFFICES ASSUME Init PROVE IndInv
  OBVIOUS
<1>1. mem = Empty /\ disk = Lost
  BY DEF Init, StoreInit
<1>2. Types
  BY <1>1, EmptyImage DEF Init, Types
<1>5. Counters
  <2>1. Len(Services) \in Nat
    BY FileLines
  <2> QED
    BY <2>1 DEF Init, Counters
<1>3. Apart /\ Restored
  BY <1>1, EmptyImage, LostImage DEF Init, Apart, Restored
<1>4. Entered
  BY <1>1, EmptyImage, LostImage DEF Init, Entered, Configured
<1> QED
  BY <1>2, <1>3, <1>4, <1>5 DEF IndInv

\* Both programs start again.
LEMMA RestartInd == ASSUME IndInv, Restart, UNCHANGED tmp PROVE IndInv'
<1>1. /\ mem' \in Images /\ disk' = disk /\ Configured(mem')
      /\ mem'[WebInit] = One => Whole(mem')
  BY BootReads DEF IndInv, Restart, Types, Restored, Entered
<1>2. Types'
  BY <1>1 DEF IndInv, Types, Restart
<1>4. Counters'
  <2>1. Len(Services) \in Nat
    BY FileLines
  <2> QED
    BY <2>1 DEF Counters, Restart
<1>3. Apart' /\ Restored' /\ Entered'
  BY <1>1 DEF IndInv, Apart, Restored, Entered, Restart, Whole, Configured
<1> QED
  BY <1>2, <1>3, <1>4 DEF IndInv

LEMMA NextInd == SleepSuffices /\ ResetApart /\ IndInv /\ [Next]_vars => IndInv'
<1> SUFFICES ASSUME SleepSuffices, ResetApart, IndInv, [Next]_vars PROVE IndInv'
  OBVIOUS
<1>t. Types /\ Counters /\ Apart /\ Restored /\ Entered
  BY DEF IndInv
<1>f. Len(Services) \in Nat /\ Len(FactoryFile) = Len(Services) + 2
  BY FileLines
<1>1. CASE UNCHANGED vars
  <2>1. UNCHANGED <<mem, disk, daemon, d, init, n, ans, tmp>>
    BY <1>1 DEF vars
  <2>2. Types' /\ Apart'
    BY <1>t, <2>1 DEF Types, Apart
  <2>3. Counters'
    BY <1>t, <2>1 DEF Counters
  <2>4. Restored'
    BY <1>t, <2>1 DEF Restored, Whole
  <2>5. Entered'
    BY <1>t, <2>1 DEF Entered, Configured
  <2> QED
    BY <2>2, <2>3, <2>4, <2>5 DEF IndInv
<1>2. CASE Crash
  BY <1>2, RestartInd DEF Crash
<1>3. CASE CheckWebInit
  <2>1. Types' /\ Counters' /\ Apart'
    <3>1. Types' /\ Apart'
      BY <1>3, <1>t DEF CheckWebInit, DaemonStep, store, Types, Apart
    <3>2. Counters'
      BY <1>3, <1>t, <1>f DEF CheckWebInit, DaemonStep, store, Counters
    <3> QED
      BY <3>1, <3>2
  <2>2. Restored' /\ Entered'
    BY <1>3, <1>t DEF CheckWebInit, DaemonStep, store, Restored, Entered, Whole, Configured
  <2> QED
    BY <2>1, <2>2 DEF IndInv
<1>4. CASE Reset
  <2>1. Types' /\ Counters' /\ Apart'
    <3>1. Types' /\ Apart'
      BY <1>4, <1>t DEF Reset, store, Types, Apart
    <3>2. Counters'
      BY <1>4, <1>t, <1>f DEF Reset, store, Counters
    <3> QED
      BY <3>1, <3>2
  <2>2. Restored' /\ Entered'
    BY <1>4, <1>t DEF Reset, store, Restored, Entered, Whole, Configured
  <2> QED
    BY <2>1, <2>2 DEF IndInv
<1>5. CASE ClearAll
  <2>1. init \in {"start", "end"} /\ mem' = Empty /\ disk' = disk
    BY <1>5, <1>t DEF ClearAll, DaemonStep, Clear, Types, Apart
  <2>2. Types' /\ Counters' /\ Apart'
    <3>1. Types' /\ Apart'
      BY <1>5, <1>t, <2>1, EmptyImage DEF ClearAll, DaemonStep, Types, Apart
    <3>2. Counters'
      BY <1>5, <1>t, <1>f, <2>1, EmptyImage DEF ClearAll, DaemonStep, Counters
    <3> QED
      BY <3>1, <3>2
  <2>3. Restored' /\ Entered'
    BY <1>5, <1>t, <2>1, EmptyImage DEF ClearAll, DaemonStep, Restored, Entered, Whole, Configured
  <2> QED
    BY <2>2, <2>3 DEF IndInv
<1>6. CASE BeginClear
  <2>1. init \in {"start", "end"} /\ mem' = mem /\ disk' = Lost
    BY <1>6, <1>t DEF BeginClear, DaemonStep, BeginSave, Types, Apart
  <2>2. Types' /\ Counters' /\ Apart'
    <3>1. Types' /\ Apart'
      BY <1>6, <1>t, <2>1 DEF BeginClear, DaemonStep, Types, Apart
    <3>2. Counters'
      BY <1>6, <1>t, <1>f, <2>1 DEF BeginClear, DaemonStep, Counters
    <3> QED
      BY <3>1, <3>2
  <2>3. Restored' /\ Entered'
    BY <1>6, <1>t, <2>1, LostImage DEF BeginClear, DaemonStep, Restored, Entered, Whole, Configured
  <2> QED
    BY <2>2, <2>3 DEF IndInv
<1>7. CASE EndClear
  <2>1. init \in {"start", "end"} /\ mem' = Empty /\ disk' = Empty /\ d = 1
    BY <1>7, <1>t DEF EndClear, DaemonStep, EndSave, Types, Counters, Apart, Restored
  <2>2. Types' /\ Counters' /\ Apart'
    <3>1. Types' /\ Apart'
      BY <1>7, <1>t, <2>1, EmptyImage DEF EndClear, DaemonStep, Types, Apart
    <3>2. Counters'
      BY <1>7, <1>t, <1>f, <2>1, EmptyImage DEF EndClear, DaemonStep, Counters
    <3> QED
      BY <3>1, <3>2
  <2>3. Restored' /\ Entered'
    <3>1. \A j \in 1 .. d' - 1 : FALSE
      <4>1. d' = 1
        BY <1>7, <2>1 DEF EndClear
      <4> QED
        BY <4>1
    <3>2. Restored'
      BY <1>7, <1>t, <2>1, <3>1, EmptyImage DEF EndClear, DaemonStep, Restored, Whole
    <3>3. Entered'
      BY <1>7, <1>t, <2>1, EmptyImage DEF EndClear, DaemonStep, Entered, Configured
    <3> QED
      BY <3>2, <3>3
  <2> QED
    BY <2>2, <2>3 DEF IndInv
<1>8. CASE RenewOne
  <2> DEFINE k == FactoryFile[d].key
             v == FactoryFile[d].val
  <2>1. /\ init \in {"start", "end"} /\ disk' = disk /\ daemon = "renew" /\ daemon' = "renew"
        /\ d \in 1 .. Len(FactoryFile) /\ d' = d + 1
        /\ mem \in Images /\ mem' = [mem EXCEPT ![k] = v]
    <3>1. d \in 1 .. Len(Services) + 3 /\ d <= Len(FactoryFile) /\ d' = d + 1
      BY <1>8, <1>t DEF RenewOne, Counters
    <3>2. d \in 1 .. Len(FactoryFile)
      BY <1>f, <3>1
    <3>3. /\ init \in {"start", "end"} /\ disk' = disk /\ daemon = "renew" /\ daemon' = "renew"
          /\ mem \in Images /\ mem' = [mem EXCEPT ![k] = v]
      BY <1>8, <1>t DEF RenewOne, DaemonStep, Set, Types, Apart
    <3> QED
      BY <3>1, <3>2, <3>3
  <2>2. k \in Keys /\ v \in Vals /\ (k = cmd => v # One)
    BY <2>1, FileLine
  <2>3. cmd \in Keys /\ NoVal \notin Vals
    BY ProvisioningAssumption
  <2>4. Types' /\ Counters' /\ Apart'
    <3>1. Types' /\ Apart'
      BY <1>8, <1>t, <2>1, <2>2 DEF RenewOne, DaemonStep, Types, Apart, Images
    <3>2. Counters'
      BY <1>8, <1>t, <1>f, <2>1, <2>2 DEF RenewOne, DaemonStep, Counters
    <3> QED
      BY <3>1, <3>2
  <2>5. Restored'
    <3>1. ASSUME NEW j \in 1 .. d' - 1 PROVE mem'[FactoryFile[j].key] # NoVal
      <4>1. FactoryFile[j].key \in Keys
        BY <1>f, <2>1, FileLine
      <4>2. CASE j = d
        BY <2>1, <2>2, <2>3, <4>2 DEF Images
      <4>3. CASE j # d
        <5>1. j \in 1 .. d - 1
          BY <2>1, <4>3, <1>f
        <5>2. mem[FactoryFile[j].key] # NoVal
          BY <1>t, <2>1, <5>1 DEF Restored
        <5> QED
          BY <2>1, <2>2, <2>3, <4>1, <5>2 DEF Images
      <4> QED
        BY <4>2, <4>3
    <3> QED
      BY <1>t, <2>1, <3>1 DEF Restored, Whole
  <2>6. mem'[cmd] # One
    BY <1>t, <2>1, <2>2, <2>3 DEF Entered, Images
  <2>7. Entered'
    BY <1>8, <1>t, <2>1, <2>6 DEF RenewOne, DaemonStep, Entered, Configured
  <2> QED
    BY <2>4, <2>5, <2>7 DEF IndInv
<1>9. CASE BeginRenew
  <2>1. init \in {"start", "end"} /\ mem' = mem /\ disk' = Lost /\ d = Len(FactoryFile) + 1
    <3>1. d \in 1 .. Len(Services) + 3 /\ d > Len(FactoryFile)
      BY <1>9, <1>t DEF BeginRenew, Counters
    <3>2. d = Len(FactoryFile) + 1
      BY <1>f, <3>1
    <3>3. init \in {"start", "end"} /\ mem' = mem /\ disk' = Lost
      BY <1>9, <1>t DEF BeginRenew, DaemonStep, BeginSave, Types, Apart
    <3> QED
      BY <3>2, <3>3
  <2>2. Whole(mem)
    <3>1. ASSUME NEW k \in Keys PROVE mem[k] # NoVal
      <4>1. PICK j \in 1 .. Len(FactoryFile) : FactoryFile[j].key = k
        BY FileCovers
      <4>2. j \in 1 .. d - 1
        BY <1>f, <2>1
      <4>3. \A i \in 1 .. d - 1 : mem[FactoryFile[i].key] # NoVal
        BY <1>9, <1>t DEF BeginRenew, DaemonStep, Restored
      <4> QED
        BY <4>1, <4>2, <4>3
    <3> QED
      BY <3>1 DEF Whole
  <2>3. Types' /\ Counters' /\ Apart'
    <3>1. Types' /\ Apart'
      BY <1>9, <1>t, <2>1 DEF BeginRenew, DaemonStep, Types, Apart
    <3>2. Counters'
      BY <1>9, <1>t, <1>f, <2>1 DEF BeginRenew, DaemonStep, Counters
    <3> QED
      BY <3>1, <3>2
  <2>4. Restored' /\ Entered'
    BY <1>9, <1>t, <2>1, <2>2, LostImage
       DEF BeginRenew, DaemonStep, Restored, Entered, Whole, Configured
  <2> QED
    BY <2>3, <2>4 DEF IndInv
<1>10. CASE EndRenew
  <2>1. init \in {"start", "end"} /\ mem' = mem /\ disk' = mem
    BY <1>10, <1>t DEF EndRenew, DaemonStep, EndSave, Types, Apart
  <2>2. Types' /\ Counters' /\ Apart'
    <3>1. Types' /\ Apart'
      BY <1>10, <1>t, <2>1 DEF EndRenew, DaemonStep, Types, Apart
    <3>2. Counters'
      <4>1. d' = 1
        BY <1>10 DEF EndRenew
      <4>2. d' \in 1 .. Len(Services) + 3
        BY <1>f, <4>1
      <4> QED
        BY <1>10, <1>t, <4>1, <4>2 DEF EndRenew, DaemonStep, Counters
    <3> QED
      BY <3>1, <3>2
  <2>3. Restored' /\ Entered'
    BY <1>10, <1>t, <2>1 DEF EndRenew, DaemonStep, Restored, Entered, Whole, Configured
  <2> QED
    BY <2>2, <2>3 DEF IndInv
<1>11. CASE Reboot
  BY <1>11, RestartInd DEF Reboot
<1>12. CASE CheckCmd
  <2>1. Types' /\ Counters' /\ Apart'
    <3>1. Types' /\ Apart'
      BY <1>12, <1>t DEF CheckCmd, InitStep, store, Types, Apart
    <3>2. Counters'
      BY <1>12, <1>t, <1>f DEF CheckCmd, InitStep, store, Counters
    <3> QED
      BY <3>1, <3>2
  <2>2. Restored' /\ Entered'
    BY <1>12, <1>t DEF CheckCmd, InitStep, store, Restored, Entered, Whole, Configured
  <2> QED
    BY <2>1, <2>2 DEF IndInv
<1>13. CASE PostFails \/ PostZero
  <2>1. Types' /\ Counters' /\ Apart'
    <3>1. Types' /\ Apart'
      BY <1>13, <1>t DEF PostFails, PostZero, InitStep, store, Types, Apart
    <3>2. Counters'
      BY <1>13, <1>t, <1>f DEF PostFails, PostZero, InitStep, store, Counters
    <3> QED
      BY <3>1, <3>2
  <2>2. Restored' /\ Entered'
    BY <1>13, <1>t DEF PostFails, PostZero, InitStep, store, Restored, Entered, Whole, Configured
  <2> QED
    BY <2>1, <2>2 DEF IndInv
<1>14. ASSUME PostTooLong \/ \E a \in Answers : PostAnswered(a) PROVE IndInv'
  <2>1. /\ UNCHANGED <<mem, disk, daemon, d, n>> /\ init = "post" /\ init' = "set"
        /\ n = 1 /\ ans' \in Answers /\ tmp' \in Answers
    BY <1>14, <1>t DEF PostTooLong, PostAnswered, InitStep, store, Types, Counters
  <2>2. Types' /\ Counters' /\ Apart'
    <3>1. Types' /\ Apart'
      BY <1>t, <2>1 DEF Types, Apart
    <3>2. Counters'
      BY <1>t, <1>f, <2>1 DEF Counters
    <3> QED
      BY <3>1, <3>2
  <2>3. Restored' /\ Entered'
    <3>1. n' \in 1 .. Len(Services) + 1 /\ \A j \in 1 .. n' - 1 : FALSE
      BY <1>f, <2>1
    <3>2. Restored'
      BY <1>t, <2>1 DEF Restored, Whole
    <3>3. Entered'
      BY <1>t, <2>1, <3>1 DEF Entered, Configured
    <3> QED
      BY <3>2, <3>3
  <2> QED
    BY <2>2, <2>3 DEF IndInv
<1>15. CASE SetOne
  <2> DEFINE k == Goes(n)
             v == IF k = cmd THEN One ELSE ans
  <2>1. /\ init = "set" /\ init' = "set 1" /\ daemon = "pause" /\ disk' = disk
        /\ n \in 1 .. Len(Services) + 1 /\ ans \in Answers /\ mem \in Images
        /\ mem' = [mem EXCEPT ![k] = v]
        /\ UNCHANGED <<daemon, d, n, ans, tmp>>
    BY <1>15, <1>t DEF SetOne, InitStep, Set, Types, Apart, Entered
  <2>2. \A j \in 1 .. Len(Services) : Services[j] \in ServiceNames
    BY DEF ServiceNames
  <2>3. /\ Keys = {WebInit, cmd} \cup ServiceNames /\ cmd \notin ServiceNames
        /\ One \in Vals /\ NoVal \notin Vals /\ Answers \subseteq Vals
    BY ProvisioningAssumption
  <2>4. k \in Keys /\ v \in Vals
    <3>1. n \in 1 .. Len(Services) + 1
      BY <2>1
    <3>3. n <= Len(Services) => n \in 1 .. Len(Services)
      BY <1>f, <3>1
    <3>2. k \in Keys
      BY <2>2, <2>3, <3>3 DEF Goes
    <3> QED
      BY <2>1, <2>3, <3>2
  <2>5. Types' /\ Counters' /\ Apart'
    <3>1. Types' /\ Apart'
      BY <1>t, <2>1, <2>4 DEF Types, Apart, Images
    <3>2. Counters'
      BY <1>t, <1>f, <2>1, <2>4 DEF Counters
    <3> QED
      BY <3>1, <3>2
  <2>6. Restored'
    BY <1>t, <2>1, <2>3, <2>4 DEF Restored, Whole, Images
  <2>7. \A j \in 1 .. n - 1 : mem'[Services[j]] = ans
    <3>1. ASSUME NEW j \in 1 .. n - 1 PROVE mem'[Services[j]] = ans
      <4>1. j \in 1 .. Len(Services) /\ Services[j] \in Keys /\ Services[j] # cmd
        <5>1. n \in 1 .. Len(Services) + 1
          BY <2>1
        <5>2. j \in 1 .. Len(Services)
          BY <1>f, <5>1
        <5> QED
          BY <2>2, <2>3, <5>2
      <4>2. mem[Services[j]] = ans
        BY <1>t, <2>1 DEF Entered
      <4> QED
        BY <2>1, <2>4, <4>1, <4>2 DEF Images
    <3> QED
      BY <3>1
  <2>8. CASE n <= Len(Services)
    <3>1. k = Services[n] /\ k # cmd
      <4>1. n \in 1 .. Len(Services) + 1
        BY <2>1
      <4>2. n \in 1 .. Len(Services)
        BY <1>f, <2>8, <4>1
      <4> QED
        BY <2>2, <2>3, <2>8, <4>2 DEF Goes
    <3>2. mem'[k] = ans /\ mem'[cmd] # One
      BY <1>t, <2>1, <2>3, <2>4, <3>1 DEF Entered, Images
    <3>3. Entered'
      BY <1>t, <2>1, <2>7, <3>1, <3>2 DEF Entered, Configured
    <3> QED
      BY <2>5, <2>6, <3>3 DEF IndInv
  <2>9. CASE ~ (n <= Len(Services))
    <3>1. k = cmd /\ n - 1 = Len(Services)
      <4>1. n \in 1 .. Len(Services) + 1
        BY <2>1
      <4>2. n - 1 = Len(Services)
        BY <1>f, <2>9, <4>1
      <4> QED
        BY <2>9, <4>2 DEF Goes
    <3>2. \A s \in ServiceNames : mem'[s] = ans
      BY <1>f, <2>7, <3>1 DEF ServiceNames
    <3>3. Configured(mem')
      BY <2>1, <3>2 DEF Configured
    <3>4. Entered'
      BY <1>t, <2>1, <2>7, <2>9, <3>3 DEF Entered, Configured
    <3> QED
      BY <2>5, <2>6, <3>4 DEF IndInv
  <2> QED
    BY <2>8, <2>9
<1>16. CASE BeginSet
  <2>1. /\ init = "set 1" /\ init' = "set 2" /\ mem' = mem /\ disk' = Lost
        /\ UNCHANGED <<daemon, d, n, ans, tmp>>
    BY <1>16 DEF BeginSet, InitStep, BeginSave
  <2>2. Types' /\ Counters' /\ Apart'
    <3>1. Types' /\ Apart'
      BY <1>t, <2>1 DEF Types, Apart
    <3>2. Counters'
      BY <1>t, <1>f, <2>1 DEF Counters
    <3> QED
      BY <3>1, <3>2
  <2>3. Restored' /\ Entered'
    BY <1>t, <2>1, LostImage DEF Restored, Entered, Whole, Configured
  <2> QED
    BY <2>2, <2>3 DEF IndInv
<1>17. CASE EndSet
  <2>1. /\ init = "set 2" /\ init' = (IF n > Len(Services) THEN "end" ELSE "set")
        /\ daemon = "pause" /\ n \in 1 .. Len(Services) + 1 /\ n' = n + 1
        /\ mem' = mem /\ disk' = mem
        /\ UNCHANGED <<daemon, d, ans, tmp>>
    BY <1>17, <1>t DEF EndSet, InitStep, EndSave, Apart, Entered
  <2>2. Types' /\ Counters' /\ Apart'
    <3>1. Types' /\ Apart'
      BY <1>t, <2>1 DEF Types, Apart
    <3>2. Counters'
      <4>1. n \in 1 .. Len(Services) + 1 /\ n' = n + 1
        BY <2>1
      <4>2. n' \in 1 .. Len(Services) + 2
        BY <1>f, <4>1
      <4> QED
        BY <1>t, <2>1, <4>2 DEF Counters
    <3> QED
      BY <3>1, <3>2
  <2>3. Restored'
    BY <1>t, <2>1 DEF Restored, Whole
  <2>4. CASE n > Len(Services)
    BY <1>t, <2>1, <2>2, <2>3, <2>4 DEF IndInv, Entered, Configured
  <2>5. CASE n <= Len(Services)
    <3>1. n \in 1 .. Len(Services) + 1 /\ n' = n + 1
      BY <2>1
    <3>2. n' \in 1 .. Len(Services) + 1 /\ \A j \in 1 .. n' - 1 : j = n \/ j \in 1 .. n - 1
      BY <1>f, <2>5, <3>1
    <3>3. (\A j \in 1 .. n - 1 : mem[Services[j]] = ans) /\ mem[Services[n]] = ans /\ mem[cmd] # One
      BY <1>t, <2>1, <2>5 DEF Entered
    <3>4. \A j \in 1 .. n' - 1 : mem'[Services[j]] = ans'
      BY <2>1, <3>2, <3>3
    <3>5. ~ (n > Len(Services))
      BY <1>f, <2>5, <3>1
    <3>6. Entered'
      BY <1>t, <2>1, <3>2, <3>3, <3>4, <3>5 DEF Entered, Configured
    <3> QED
      BY <2>2, <2>3, <3>6 DEF IndInv
  <2>6. n > Len(Services) \/ n <= Len(Services)
    <3>1. n \in 1 .. Len(Services) + 1
      BY <2>1
    <3> QED
      BY <1>f, <3>1
  <2> QED
    BY <2>4, <2>5, <2>6
<1> QED
  BY <1>1, <1>2, <1>3, <1>4, <1>5, <1>6, <1>7, <1>8, <1>9, <1>10, <1>11, <1>12, <1>13,
     <1>14, <1>15, <1>16, <1>17 DEF Next

LEMMA AlwaysInd == ASSUME SleepSuffices, ResetApart PROVE Spec => []IndInv
<1>1. IndInv /\ [Next]_vars => IndInv'
  BY NextInd
<1> QED
  BY <1>1, InitInd, PTL DEF Spec

\* An image in flash that has WebInit has every factory setting, and so has
\* the memory of a box whose daemon waits: the commit of loadDefault comes
\* after its last value, and init_config saves nothing before.
THEOREM FactorySettingsWhole ==
  ASSUME SleepSuffices, ResetApart PROVE Spec => []FactoryWhole
<1>1. IndInv => FactoryWhole
  BY DEF IndInv, Restored, FactoryWhole, Whole
<1> QED
  BY <1>1, AlwaysInd, PTL

\* cmd = 1, in memory or in flash, means that all services come from one
\* answer of the server, however often init_config was interrupted.
THEOREM ConfigurationWhole ==
  ASSUME SleepSuffices, ResetApart PROVE Spec => []ConfiguredWhole
<1>1. IndInv => ConfiguredWhole
  BY DEF IndInv, Entered, ConfiguredWhole, Configured
<1> QED
  BY <1>1, AlwaysInd, PTL

=============================================================================
