# TLA+ models of the dytpro box

The repository is the Ralink RT5350 SDK with the programs that turn a router
into a "box" that offers applications to phones: it keeps a set of Android
packages on an SD card in step with a server, keeps one assistant application
current, updates its own firmware, and is configured by a server the first time
it goes online. Almost all of the 31 000 files are vendored (kernel, C library,
busybox, samba, pppd ...). These modules are about the part that is the
product's own, and about the vendor code its correctness rests on: the
configuration store, the flash writer and the programs that keep the WAN
connection up. Paths below are relative to
`src/ra5350/lktos_sdk/source/`.

## 1. Inventory

| Component | Source | State | Operations | Modules |
|---|---|---|---|---|
| Application downloader | `user/diyite_downloader/main.c` | list in memory (`soft_list`), list file, CONFIG_CACHE, directories and files on the card, their times | fetch list, parse, mark, sweep, update one application, record, drop | AppSync, SoftList |
| its list as an array | same file, `struct array`, `apk_info_copy`, `remove_overdue_info` | a block of entries that own heap strings | load, append, overwrite, stamp, drop | SoftListArray, AppRegistry |
| Assistant thread | `user/diyite_downloader/core_apk_update.c` | `.apk`, `.tmp`, `.txt` on the card; `info` | request with retries, compare, download, rename, record | CoreApk |
| Configuration store | `linux-2.6.21.x/arch/mips/rt2880/nvram.c`, `lib/libnvram/nvram_env.c`, `drivers/mtd/maps/ralink-flash.c` | cache, dirty flag, flash image with checksum; a copy of the names per program | init, set, commit, close, clear, boot | Nvram, NvramStore |
| Factory settings, first configuration | `user/rt2880_app/nvram/nvram_daemon.c`, `ralink_init.c`, `user/init_config_from_server/main.c` | names in the store, `initconfig.tmp` | loadDefault, reset button, request, set one by one | Provisioning |
| Firmware updater | `user/diyite_updater/main.c`, `upload.h`, `user/mtd_write/mtd.c` | `update.img`, the Kernel partition | ask, download, check, erase, write, verify, reboot | FirmwareUpdate |
| HTTP client, record upload | `user/diyite_downloader/http_download.c`, `http.c`, `main.c` (`main`, `upload_record`) | the transfer under way, the temporary file, the record of what phones fetched | resolve, connect, receive, time out, rename; examine, send, wait, unlink | HttpDownload, Transfer, RecordUpload, Downloader |
| PPP watchdog | `user/check_ppp_ifr/ppp_daemon.c` | processes, `ppp0`, the mode read in this round | look, kill, start, sleep | PppWatchdog, Pppd |
| 3G dialler, hotplug | `user/3g_dial/3gdial.c`, `user/hotplug/*.c`, `user/lktos_app/initconfig/rmohcimod_daemon.c`, `user/rt2880_app/scripts/3gdial.sh` | `/var/usbmodem`, `/var/ttyACM0`, `/var/hotplugadd`, `at_flag`, the settings read, the two flags of the user's requests | recognise a modem, read its card, forget it, dial, hang up, reload the driver | Dial3g, Pppd |
| WAN configuration | `lktNetworkConfig.c` (`ralinkWanInit`), `udhcpc.sh` | the mode, which programs run, what sleeping scripts will still start | stop everything, start the mode's programs, renew an address | WanLink |
| Modem tools | `user/3g_dial/checkat.c`, `check_usb.c`, `netwan.c`, `netcmd.c`, `wanflow.c`, `uas.c` | | report signal and traffic | not modelled |
| Web server, 802.1x, kernel, ... | `user/goahead`, `user/802.1x`, ... | | | not modelled |

How they interact. `vendors/Ralink/RT5350/rcS` starts `nvram_daemon`,
`goahead`, `init_config`, `diyite_downloader` and `diyite_updater` in the
background; nothing but sleeps orders them. They share the configuration store:
`init_config` writes the addresses that the downloader and the updater read.
The assistant thread runs inside the downloader, on other files. All of them
share the power switch: there is no shutdown, and everything must survive losing
power between any two writes. The box has no battery clock; `ntpclient` and the
web page set it while programs run. The WAN programs know of each other by name
only: `networkconfig` and the watchdog start and stop them with `killall` and
look for them with `ps`, and 3gdial, hotplugd and rmohcimod_daemon tell each
other about the modem through files under `/var`.

What is hard here: losing power between two writes to the card or to flash;
transfers that end early and are reported as success (`http_download` returns 0
when the connection closes); decisions made by comparing times while the clock
may jump; two programs writing one setting; one copy of the firmware, rewritten
in place; arrays of structures that own strings, moved and enlarged by hand; one
thread that does everything and may wait for a peer without limit; several
watchdogs, scripts that sleep and then start what has been stopped meanwhile, and
modems that are swapped while nobody looks.
`PROJECT.json` lists each hazard at its line with the properties aimed at it.

## 2. Modules and their correspondence to the code

**SoftList** - the operators on the list as a map from application to entry:
`RecordApk` (`record_local_apk` with `apk_info_copy`), `Renumber` (its second
half, which gives another entry with the same number the least free one),
`Stamp`, `DropOverdue`. No state.

**AppSync** - the whole downloader cycle. One action per step between which
power can fail or the environment can act: `FetchList`, `WriteCache`,
`StartPhase`, `Nap` (the `sleep(1)`), `mark_apk`, `StartSweep`, `remove_dir`,
`remove_overdue_info`, then per application `StartApk`, `KeepApk` (rename when
the version is not newer), `UnlinkOld`, `FetchApk`, `check_apk_size`,
`FetchIcon`, `FailApk`, `record_local_apk`. The environment publishes other
lists (new numbers, names, versions, withdrawn applications), cuts lists short,
fails downloads, sets the clock, cuts power. A file is known by its name and the
version of its content, `Partial` if it is short. A directory's time has the
resolution `MtimeGrain`. Lines of the list are handled in any order. Two history
variables serve the properties: `newest`, the newest version ever published of
each application, and `adopted`, the entries that were renamed while their own
file was gone and so took over whatever lay at the new path.

**SoftListArray** implements **AppRegistry**: the array with its capacity, the
heap blocks its entries own, the slots `realloc` adds (`Wild`: uninitialised,
freeing them may end the process or do nothing), the loop of
`remove_overdue_info` index by index. `Unshare` states the loop at the end of
`apk_info_copy` in closed form (the k-th entry that shares the number takes the
k-th free one), and `Sorted` allows any order of entries with equal numbers, as
`qsort` does. The refinement maps the members to the
abstract map; the abstract list drops all overdue entries at once, the array one
by one.

**CoreApk** - the assistant thread. `buff` is the text that the tries of a cycle
have left in the buffer, line by line; the next try goes on where the last stopped
(`Appended`, `Fused`), so that digits of two replies may run together into one
number (`Joined`). The lines are parsed in turn until one is accepted
(`FetchInfo`); a number out of range, or an `errno` that some earlier call left
behind, refuses a line, and when all are refused the try is repeated with the
first one still in the buffer (`ParseFails`). Fields that did not come keep the
last cycle's values, and a success without a byte ends the process (`NullBuff`).
`torn` is a ghost in what was read and in what is recorded: the version was not
read from one whole line.

**HttpDownload** - `http_download` as `download_file` calls it: look the host up
(with the check of `errno` that nobody cleared), empty the temporary file, connect,
the first packet with the header, further packets counted down in the unsigned
`left_length`, the peer's end of stream, the budget of `select` that serves all
waits together, the rename or the unlink. The server sends header, body and
perhaps more, in packets of any size; a header that does not fit the first packet
ends the process (`HeaderKills`). `good` is chosen when the call begins and says
that this call meets a network that behaves; the module's guards use it only to
rule out bad luck during such a call. It implements **Transfer**, which states
what a caller may rely on: a failure, a beginning of the body, the body, or the
body with something behind it; AppSync and FirmwareUpdate choose among these.

**RecordUpload** - `upload_record` with `http_upload`: the record is examined,
announced, sent, stored by the server, acknowledged and unlinked, while another
program appends to it (none of the repository: nothing else names the file). `calm` plays the part of `good`; `late` and `unsure` are
history variables that name the two ways in which the code may lose or repeat a
record. **Downloader** composes both with the loop of `main`: one thread, which
a peer that never answers an upload stops.

**Pppd** - the programs that hold the line, as others see them: which run, which
have been sent SIGTERM and have not exited yet (they still show up in `ps`), and
whose `ppp0` is. **PppWatchdog** - the loop of `ppp_daemon` statement by
statement in any number of processes. **Dial3g** - hotplugd (`HotAdd`,
`HotRemove`, `InitDone`, `InitFails`), rmohcimod_daemon (`Unload`, `Load`) and the
loop of 3gdial (`HangUp`, `NoLink`, `BadLink`, `Status`, `Prep`, `Dial`,
`DialEnds`) with the files between them. hotplugd makes the link and nothing else;
3gdial reads the card, writes its number and the operator's settings under
`/var/usbmodem` and takes the settings from there (`CheckModuleStatus`): `info` is
the modem whose card those files describe, `conf` the one whose settings 3gdial
holds, and a card that is not read leaves both to what the files say. `hcd` is the
USB driver, `sticky` the `mc8780_flag` that makes hotplugd ignore removals. The
ghosts `passed` and `unread` say what 3gdial has dropped since a modem was pulled
and that it took its settings without reading a card. **WanLink** composes the
three with `ralinkWanInit`, whose `killall` calls are steps of their own, and with
`tails`: what a running or sleeping script, or the shell of a killed watchdog, is
still going to start. `stray` remembers that a tail was pending when the programs
were stopped.

**Nvram** implements **NvramStore**. `cache`, `dirty`, `env` are the kernel's
`fb[index]`; `flash` holds the image its checksum was computed from and the image
its data came from, or what an erased sector reads. `ra_mtd_write_nm` reads,
erases and rewrites the sector, twice for each commit: `EraseSector`, `WriteCrc`,
`EraseSector`, `WriteData`. `names`, `unsaved`, `pc` are the library's state in
each program. `flash.rest` stands for the other blocks of the sector, which every
save erases and writes back; `cut` remembers power lost in between. Two ioctls interleave only where one sleeps (the driver runs under
the kernel lock, and holds `nvram_sem` while the flash is written); a program's
set and commit are two ioctls with anything in between. In NvramStore a save
first loses the image on disk and then has the new one.

**Provisioning** is built on NvramStore's operations: `nvram_daemon` (check
WebInit, clear, renew value by value, commit once) and `init_config` (check cmd,
request, then a set and a commit per value). `Goes` is the order of its
`nvram_set` calls. `Idle` is the semaphore.

**FirmwareUpdate** - the updater and `mtd_write`. An image is `Chunks` buffers,
`Data[v][j]` their contents; flash buffers hold those, ones, or a mixture.
`EraseBlock`, `WriteChunk`, `WriteFails`, `Verify` are the loop of `mtd_write`
with its position on the device apart from what it has read, because a write
that returns -1 does not stop it. `Boot` is the boot loader: a box whose flash is
not a whole image is `bricked`.

The `MC*` modules give constants for TLC; each has its `.cfg` files. The
`*Proofs` modules hold the theorems. Definitions whose comment begins with
"Mutant" are deliberately wrong variants, one for each property, which must
violate it.

## 3. What is checked

| Run | Instance | Result |
|---|---|---|
| appsync_order | 3 applications, numbers 1-3, one change of the server's list | `TypeOK`, `NumbersDistinct`, `ListOnCard`, `CycleConverges`, `SpaceReclaimed`, `ListedPresent` hold |
| appsync_faults | 1 application with 2 names, icons, versions that may go back; lists cut short, 2-second file times, clock set back and forward, one loss of power | `ListHonest`, `CycleConverges`, `SweepSparesListed` hold |
| softlist_array | 4 applications, capacity 2 that grows to 4 and 8 | `ArrayOK`, `Ownership`, refinement of AppRegistry hold |
| softlist_growth | the same | **violated**: `NeverExits` |
| coreapk | versions 1, 2 and 12 (1 and 2 run together read as 12), 2 addresses, 3 tries, one loss of power, cut replies | `CoreTypeOK`, `InstalledWhole`, `NeverAhead`, `RecordAfterFile`, `BecomesCurrent` hold |
| nvram_store | 2 programs, 3 names, 2 values, a cache of 2 entries, two losses of power | `NvTypeOK`, `SavedCovers`, `RestKept`, refinement of NvramStore hold |
| provisioning | 3 services, 2 answers, one reset, three losses of power | `FactoryWhole`, `ConfiguredWhole` hold |
| provisioning_race | the same, reset while `init_config` works | **violated**: `DoneMeansConfigured` |
| firmware | 3 versions, 4 buffers, blocks of 2, two errors, one loss of power | `FwTypeOK`, `OnlyChecked`, `SuccessMeansWhole`, `LostOnlyWhileWriting`, `GetsUpdated` hold |
| downloader | 2 files (one address with a port), packets of up to 3 units, up to 2 units behind the body, 2 records, one loss of power | `SizeTells`, `NoneLost`, `NoneTwice`, refinement of Transfer, `KeepsGoing`, `RecordsArrive`, `GetsFile` hold |
| wan | 2 modems (one that sets `mc8780_flag`) and another device, a driver reloaded any number of times, 2 watchdogs, any 2 events | `PptpStopped`, `OwnSettings`, `LinkRecovers`, `ModemRecovers`, `DisconnectObeyed` hold |
| firmware_padding | an image with two equal buffers in a row, one error | **violated**: `SuccessMeansWhole` |

What the violated ones show (details and quoted lines in `PROJECT.json`,
"findings"):

- `NeverExits`: the memset that was added so that the update program no longer
  exits clears the slot a removal vacates, but not the slots `realloc` adds;
  with more than 256 applications the first new one frees an uninitialised
  pointer.
- `DoneMeansConfigured`: a reset that overlaps `init_config` leaves `cmd` = 1
  with factory addresses, and no later boot asks the server again.
- `SuccessMeansWhole` with repeated buffers: `write()` = -1 compares as a large
  unsigned number, and the read-back looks at the buffer before.

Bounds. Every bound is a constant of the cfg (`MaxClock`, `MaxPublish`,
`MaxCrash`, `MaxErrors`, `MaxReset`, `MaxMembers`, `MaxTail`, `Budget`,
`MaxRec`, `MaxCopies`, `MaxFiles`, `MaxPower`, `MaxEvents`). Three applications are what
it takes for a swap of two numbers to push a third entry aside. A second change of
the server's list, or a second loss of power, starts from states the first has
already produced: the state after a cycle is a list, files and times, and the
runs reach the ones with a missing file, a short file, a path without a file and
a torn CONFIG_CACHE. Capacity 2 grows twice with four entries. A cache of two
entries and three names fills. Three losses of power let provisioning be
interrupted in each of clear, renew and set. Two erase blocks of two buffers have
a first and a last buffer of a block. Two losses of power let a boot from a torn
image be followed by a save that is torn in turn. In the downloader a body of one
unit and one of three, with two units behind it and packets of up to three, have
first packets that end before, at and behind the announced length; `Word` is a
small power of two in place of 2^32, larger than any body. `MaxEvents` counts everything
users and peers do in the WAN run together (switch the mode, renew an address, plug,
unplug, ask to connect or disconnect, lose a connection, a program dying); two are
enough for a modem that is pulled and another that is plugged in, for a renewal
before a switch, for a disconnect followed by either; what programs, scripts and
watchdogs do on their own is not bounded, except that the driver is unloaded only
when hotplugd's queue of uevents is empty. The box boots with the modem that does
not set `mc8780_flag`.

Assumptions, each of which the code needs and cannot enforce:

- writes reach the card in the order they are made (the code calls no `fsync`);
- the list file holds each id and each number once, as the program wrote it;
- a number from the server is below 512 (`SeqNos \subseteq 0 .. NumSize - 1`)
  and there are fewer than 512 applications: `num[512]` is indexed unchecked;
- `SleepSuffices`: the five seconds `init_config` sleeps are longer than
  `loadDefault` takes. Without it TLC violates `FactoryWhole`: a commit of
  `init_config` saves half-restored settings with WebInit already 1;
- `ResetApart`, in the passing run: no reset while `init_config` works;
- an answer to `init_config` has all its elements;
- the announced line ends in a newline, and what answers at its address are lines;
- a second `3gdial.sh` does not start within the three seconds of the first, so that
  one 3gdial runs;
- the flash driver does not fail while a block is saved: its error is ignored, and
  `SavedCovers` would not hold.

`ListedPresent` is stated for growing versions, whole lists and no loss of power.
`ListHonest` excepts the entries in `adopted`: `update_apk` ignores a failed
rename, so that an entry whose own file is gone then names whatever an earlier,
interrupted cycle left at the new path, perhaps an older version. It takes two
interruptions and a version that is taken back, which is more than the run allows;
the proof of `ListStaysHonest` met it. `NeverAhead` and `BecomesCurrent` except a
record that is `torn`: a failed try that stopped in the digits of the version is
continued by the next reply, 1 and 2 become 12, and 12 is recorded beside the file
of version 2 if size and address fit; when the server publishes version 12 the
thread takes it for the one it has. The same holds of a reply that was cut and
counts as success. Nothing else puts the record ahead of the file. The
properties of the downloader and of the WAN name their exceptions in the same way,
each of them a behaviour of the code that TLC found when it was not excepted:

- `NoneLost`: a record appended while an upload is under way goes with the unlink;
  `NoneTwice`: an upload whose answer is lost is repeated.
- `KeepsGoing`, `RecordsArrive`, `GetsFile`: an upload without name service, or a
  header that is not in the first packet, ends the process; an upload that is never
  answered stops the thread. Waiting for an answer for a while excuses nothing. `GetsFile` is about addresses without a port: any earlier
  failure leaves `errno` set, and one with a port is then refused for good.
- `PptpStopped`: tails of `udhcpc.sh`, which reads the mode when it begins and
  starts its programs later, and of a watchdog's shell start pppd after everything
  has been stopped.
- `LinkRecovers`: several watchdogs. Each renewal of an address adds one, and two
  that are out of step may kill each other's pppd for ever (`Alone`).
- `LinkRecovers`, `ModemRecovers`: a program of another mode that holds `ppp0`. It
  can be left over because openl2tpd is stopped before the watchdog that restarts
  it (`lktNetworkConfig.c` 370, 371), or by a tail of `3gdial.sh`.
- `OwnSettings`: a modem was pulled and 3gdial has not looked since (it may have
  been told to disconnect); or it has looked while `/var/hotplugadd` was there, so
  that the old modem's files stayed, and the card of the new one could not be read.
- `ModemRecovers`: a second device in the port, and 3gdial having exited
  (`PrepExits`; nobody restarts it). What it says is that the connection comes up
  again and again, or the driver is reloaded again and again, or the files hold a
  card's number for good while the link or the settings are lost (`Forlorn`). All
  three happen: rmohcimod_daemon reloads a modem that is linked and whose card has
  not been read in time, and a number left over keeps it from reloading at all.
- `DisconnectObeyed`: 3gdial waiting in the foreground for the pppd it should stop.

Fairness. The processes are endless loops with sleeps and no locks among each
other, so a step that stays enabled is taken (WF on the thread, on the updater's
local steps). Requests and downloads are tried again in every cycle, so that one
that is possible again and again succeeds some time (SF on the successful
outcome). In CoreApk this is asked of the first try of a cycle: a later one is
appended to what the first left behind. In Downloader, uploads are due and hours
allow updates again and again (SF on `UploadDue`, `StartUpdate`), and among the
calls repeated for ever some meet a network that behaves (SF on calls that begin
`good` or `calm`); nothing makes an unhelpful peer answer. In WanLink every program
goes on (WF for each watchdog, for hotplugd, 3gdial, the reload, `ralinkWanInit`
and the tails) and a program that was sent SIGTERM exits; none is asked of reading
a card. A modem that answers connects (WF on its `Links`, nobody interferes with its
pppd), and a VPN connection that is tried again and again under one watchdog comes
about (SF on `Alone` and `Links`): one watchdog leaves a program some 20 seconds
between starting and killing it, two may not. No fairness is asked of publishing, of
errors or of power. AppSync, Nvram and Provisioning are checked for safety only.
`CHECK_DEADLOCK FALSE` stands where the system may stop: a process that died, a
bricked box, a bound that is used up, a thread waiting for its peer.

## 4. What is proved

TLAPS checks these for every value of the constants, from the named assumptions
of the modules.

- **AppSyncProofs** `TypeCorrect`, `NumbersStayDistinct`, `ListStaysOnCard`. The
  inductive invariant `IndInv` is `TypeOK /\ NumbersDistinct /\ ListOnCard`
  strengthened by `Matched(lst)` (a line of the list file has a version code
  exactly when it has a package name: loading is then the inverse of saving) and
  `AtApk` (while an application is being updated, `cur` and all of `todo` are in
  the fetched list, and where its old file is kept or removed `cur` is in the
  local list). The numbers stay distinct because of a counting argument:
  `ClashLeavesRoom` - when two of n entries share a number, 1..n has a number
  nobody uses - so the search of `apk_info_copy` always ends with a free one, and
  `OneClash` - a list whose numbers were distinct has at most one entry in the
  way. This is why it needs fewer than 512 applications and nothing else.

  `ListStaysHonest` rests on `HonestInv`: besides the property, which part of a
  cycle uses which variable (`Phases`), that a line that was cut lacks its version
  and nothing else (`Lines`), what is at the old and the new path while a file is
  replaced (`Replacing`), and the same of the list in memory (`Backed`).

  The other four are about time and hold while the clock is not set back.
  `CyclesConverge`: no time lies in the future (`Times`), entries the fetched
  list does not name are older than the phase (`OldEntries`), and the lines that
  are done are in the list as fetched (`Recorded`): later lines push none of them
  aside, since the fetched numbers are distinct. `ListedSpared`: what a line
  has touched is younger than the limit of the sweep, in directories whose times
  are rounded down to `MtimeGrain` seconds. This needs the hypothesis `FatTimes`
  (`MtimeGrain` is 1 or 2): the `sleep(1)` of the code is enough for FAT and not
  for anything coarser. `SpaceStaysReclaimed` adds the converse (`DirsInv`):
  without loss of power, directories the fetched list does not name are older than
  the limit and go. `ListedStaysPresent` adds `GrowingInv` (what is published is the
  newest there is, and what is fetched no newer) and `PresentInv` (what is listed
  is there, or its version is older than the newest, so that a later cycle
  replaces it).
- **SoftListArrayProofs** `ArrayStaysOK`, `StringsOwned`, for every capacity and
  any number of applications. `Ownership` is about members; what is inductive,
  `OwnInv`, is about every slot: the slots behind the last member hold strings of
  their own, none, or what `realloc` left there, and never a pointer to strings
  that were freed. That is what the memset of `remove_overdue_info` is for.
  `ArrayRefines`: the array implements AppRegistry. `KeyInv` adds that members
  have ids and numbers of their own and that the members the drop loop has passed
  stay. The heart is `UnshareOne`: then at most one other entry has the number of
  the entry being written, there is a free number for it, and it is the least one,
  as in `Renumber`. Every call is one step of AppRegistry; the steps of the drop
  loop and its sorting are none, because the abstract list lost its overdue
  entries when the loop began.
- **CoreApkProofs** `CoreTypeCorrect`, `ApkStaysWhole`, `RecordFollowsFile`
  rest on `Staged`: from the accepted download on, the `.tmp` file, then the
  `.apk`, is complete and has the size of `info`. `RecordNeverAhead` adds `Ahead`:
  the file at an address is at least as new as a line that names it and as a record
  that is not torn, because addresses are only ever reused for newer versions, and
  what the buffer holds is of that kind or torn; it assumes `Monotone`.
- **NvramProofs** `NvTypeCorrect`, `CleanMeansSaved`, `NeighboursKept` and
  `StoreRefined`. `IndInv` is `NvTypeOK /\ SavedCovers` with `Bounded` (the cache, and
  what a boot would load, have at most `MaxEntry` names), `Writing` (which of checksum and data is the new
  one at each step of a save, and that the cache does not change under it) and
  `RestSafe` (the rest of the sector is in flash or in the buffer it was read
  into). For the refinement `DiskOf(flash)` is the image where checksum and data
  agree and `Lost` otherwise; the two rewrites of a commit are a `BeginSave` and
  an `EndSave`.
- **ProvisioningProofs** `FactorySettingsWhole`, `ConfigurationWhole`, both from
  `SleepSuffices` and `ResetApart`. `IndInv`: the two programs are not both at
  work (`Apart`), a disk with WebInit = 1 has a value for every name
  (`Restored`), one with cmd = 1 has all values of one answer (`Entered`).
- **FirmwareProofs** `WritesInside`, `CheckedOnly` for every image (`SafeInv`: the
  three positions of `mtd_write` keep their order, flash holds buffers of images
  that passed the check, ones or a mixture). `SuccessIsWhole`, `LostByPowerOnly`
  assume `Distinct`: no buffer of an image repeats the one before it. Run
  firmware_padding shows that they need it. `WholeInv` adds `Compared` (what was
  read back is in its place) and `Unharmed`.
- **DownloaderProofs** `LengthTells` and `TransferRefined` from `HttpInv` (the file
  holds the units of the answer in order, and `left_length` is what is missing or
  has wrapped around); `RecordsKept`, `RecordsOnce` from `UploadInv` (what the
  request announced is what the record file held, and how many copies the server
  has of each record).
- **WanLinkProofs** `PptpGone`: `StopInv` says that, unless a tail was pending, nothing that
  could start a program is left once `ralinkWanInit` has stopped udhcpc, and that
  once it has stopped the watchdogs none runs until the mode's own is started; after
  that every watchdog and every udhcpc.sh acts on the configured mode. `SettingsOwn`:
  `DialInv` says that the card files (`OwnFiles`) and the settings 3gdial holds
  (`OwnConf`) are those of a modem that is in, from the moment it has dropped those
  of the last one, for any modems, orders of events and outcomes of reading a card.

The assumptions are those the modules name. `NvramAssumption`,
`ProvisioningAssumption` and `Dial3gAssumption` also say that the model's own
marks ("lost", "ones", "off" ...) are not values of the system; `HttpAssumption`
that a body with what follows it is shorter than the counter's range.

Left to TLC: liveness under fairness (`BecomesCurrent`, `GetsUpdated`,
`KeepsGoing`, `RecordsArrive`, `GetsFile`, `LinkRecovers`, `ModemRecovers`,
`DisconnectObeyed`), which is out of the prover's reach, and the runs that expect a
violation. Every invariant, action property and refinement of the passing runs is
proved. That `Unshare` is what the loop of `apk_info_copy` computes is not a
theorem, because it would be an induction over the array; it was compared with the
loop, written as a recursive function, on all arrays of five slots with three ids
and numbers 0..4.

## 5. Plan

Next, in this order:

1. Proofs. The invariants that the liveness arguments of CoreApk and
   FirmwareUpdate rest on (a cycle that meets no error ends with the current
   version), as action properties. Shorter proofs where AppSyncProofs repeats an
   argument for each step of `update_apk`.
2. Liveness of AppSync (every published application is on the card in the end)
   under an untimed abstraction of the sweeps.
3. `http_post` and `wget` as step-by-step models, images that outgrow their block
   of the configuration store, failures of the flash driver.

## 6. Not modelled

Wording, logs, paths, MAC addresses and the parsing of text into fields (its
outcomes are modelled). `config.c` reads settings once. `goahead`, `802.1x`,
`ddns`, `ntpclient`, the modem tools beside 3gdial (`checkat`, `check_usb`,
`netwan`, `netcmd`, `wanflow`, `uas`) and everything else under `user/` and `lib/`
are vendored or without state of their own; as far as they touch the
modelled state they are the environment (`SetClock`, the second program of
Nvram). Allocation failures are left out, except where the code continues after
one.

Of the modelled programs: `convert_old_apklist_path` and the version files of the
downloader; `wget` and `http_post`, which are outcomes in CoreApk and Provisioning;
an answer to `init_config` that lacks an element (`GetMidStr` then returns an
uninitialised pointer); reading from the configuration store (a name another
program created after `nvram_init` is read as empty), values with a length, and
failures of the flash driver; manual dialling, the AT dialogue and mode switching
of each modem, how often its rmohcimod_daemons reload; the static, DHCP and PPPoE modes,
addresses, routes and switch ports.
