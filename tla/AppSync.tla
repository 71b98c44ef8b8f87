------------------------------ MODULE AppSync ------------------------------
(***************************************************************************)
(* The application downloader of the box (user/diyite_downloader/main.c):  *)
(* every half hour it fetches the server's list of applications and makes  *)
(* the SD card follow it.  One update() cycle                              *)
(*                                                                         *)
(*   - fetches the list and notes the time in CONFIG_CACHE,                *)
(*   - check_apk_list: marks what the list names, sweeps the rest away,    *)
(*   - update_apk for every line: rename, or unlink and download, then     *)
(*     record the entry in the soft list and rewrite the list file,        *)
(*   - sweeps again and notes the time again.                              *)
(*                                                                         *)
(* What is kept and what is deleted is decided by comparing times: the     *)
(* update_time of an entry and the mtime of a directory with the time at   *)
(* which the phase began.  The device has no clock of its own: it starts   *)
(* at 0 at power-on, is moved forward to CONFIG_CACHE, and is then set by  *)
(* ntpclient or from the web pages.                                        *)
(*                                                                         *)
(* Data kept: an application is an id; its file is known by the name in    *)
(* its path and by the version of its content; its icon by its path.  The  *)
(* order of the lines of the list is left open (any order).  Writes to     *)
(* the SD card take effect in the order the program makes them.            *)
(***************************************************************************)
EXTENDS SoftList

CONSTANTS
    Apps,        \* application ids
    NoApp,       \* no application is being updated
    Names,       \* the name part of an apk's path
    Icons,       \* icon paths
    Vers,        \* version codes the server hands out
    SeqNos,      \* numbers the server hands out
    Pkgs,        \* whether lines carry a package name (subset of BOOLEAN)
    NumSize,     \* size of num[] in apk_info_copy (512 in the code)
    MtimeGrain,  \* resolution of directory times (2 s on FAT)
    Truncation,  \* can a list arrive cut short?
    Stepping,    \* can the clock be set while the box runs?
    Rollback,    \* can the server go back to an older version?
    MaxClock,    \* bound on the clock
    MaxPublish,  \* bound on the server's changes
    MaxCrash     \* bound on power cuts

ASSUME AppsAssumption ==
    /\ IsFiniteSet(Apps) /\ Cardinality(Apps) < NumSize
    /\ NoApp \notin Apps
ASSUME DataAssumption ==
    /\ NumSize \in Nat
    /\ Vers \subseteq Nat \ {0}
    /\ SeqNos \subseteq 0 .. NumSize - 1
    /\ Pkgs \subseteq BOOLEAN
    /\ Truncation \in BOOLEAN /\ Stepping \in BOOLEAN /\ Rollback \in BOOLEAN
ASSUME BoundAssumption ==
    /\ MtimeGrain \in Nat \ {0}
    /\ MaxClock \in Nat /\ MaxPublish \in Nat /\ MaxCrash \in Nat

VARIABLES
    server, published, newest,                  \* the server's list
    clock, stepped, crashes,                    \* the environment
    adopted,        \* history: entries that took over a file left lying about
    lst, cfg, status, dirT, rootT, files, icons,    \* the SD card
    pc, list, cat, broken, todo, cur, seen, limit, phase, victims, flag

srvVars  == <<server, published, newest>>
envVars  == <<stepped, crashes, adopted>>
diskVars == <<lst, cfg, status, dirT, rootT, files, icons>>
procVars == <<pc, list, cat, broken, todo, cur, seen, limit, phase, victims,
              flag>>
vars == <<srvVars, clock, envVars, diskVars, procVars>>

-----------------------------------------------------------------------------
(* Data *)

Unknown == -1                    \* version_code of a line that has none
NoDir   == -1                    \* no such directory
NoCache == -1                    \* no CONFIG_CACHE
Torn    == -2                    \* CONFIG_CACHE opened "w+", not yet written
NoFile  == 0                     \* no file at a path
Partial == -1                    \* a file with fewer bytes than announced

Content == Vers \cup {NoFile, Partial}
\* A line of the apk list, with the version that its apk_url delivers.
Line == [seq : SeqNos, ver : Vers \cup {Unknown}, body : Vers, name : Names,
         icon : Icons, pkg : BOOLEAN]
\* struct apk_info
Entry == [seq : 0 .. NumSize - 1, ver : Vers \cup {Unknown, 0}, name : Names,
          icon : Icons, pkg : BOOLEAN, stamp : Nat]
\* A line of SOFT_LIST.lst
SavedEntry == [seq : 0 .. NumSize - 1, ver : Vers \cup {Unknown, 0},
               name : Names, icon : Icons, pkg : BOOLEAN]

\* A map from some of the applications into S.
IsMap(f, S) == DOMAIN f \subseteq Apps /\ f \in [DOMAIN f -> S]
Empty == [a \in {} |-> 0]

\* What the server may publish: complete lines, every number once.
ServerLines == {l \in Line : l.ver = l.body /\ l.pkg \in Pkgs}
Catalogs == {c \in UNION {[D -> ServerLines] : D \in SUBSET Apps} :
                 DistinctNumbers(c)}

\* The newest version ever published of each application (0: none yet).
Raise(top, c) ==
    [a \in Apps |-> IF a \in DOMAIN c /\ c[a].ver > top[a] THEN c[a].ver ELSE top[a]]

\* The apk list as fetched: full, or cut short between or inside lines.  A
\* line cut after its version has no version code and no package name.
Cut(c, D) == [a \in D |-> c[a]]
CutInside(c, D, a) ==
    [b \in D |-> IF b = a THEN [c[b] EXCEPT !.ver = Unknown, !.pkg = FALSE]
                          ELSE c[b]]

\* mtime as the file system stores it
Mtime(t) == t - (t % MtimeGrain)

-----------------------------------------------------------------------------
(* The list file *)

\* write_local_soft_file: the version code is written only together with a
\* package name.
Saved(l) ==
    [a \in DOMAIN l |->
        LET full == l[a].ver # Unknown /\ l[a].pkg IN
        [seq |-> l[a].seq, ver |-> IF full THEN l[a].ver ELSE Unknown,
         name |-> l[a].name, icon |-> l[a].icon, pkg |-> full]]

\* init_soft_list: a line without a version code is taken to be version 0.
Loaded(s, now) ==
    [a \in DOMAIN s |->
        [seq |-> s[a].seq, ver |-> IF s[a].ver = Unknown THEN 0 ELSE s[a].ver,
         name |-> s[a].name, icon |-> s[a].icon, pkg |-> s[a].pkg,
         stamp |-> now]]

\* The entry update_apk builds from the line of a.
Info(a) ==
    [seq |-> cat[a].seq, ver |-> cat[a].ver, name |-> cat[a].name,
     icon |-> cat[a].icon, pkg |-> cat[a].pkg, stamp |-> seen]

-----------------------------------------------------------------------------
Init ==
    /\ server \in Catalogs /\ published = 0 /\ newest = Raise([a \in Apps |-> 0], server)
    /\ clock = 0 /\ stepped = FALSE /\ crashes = 0 /\ adopted = {}
    /\ lst = Empty /\ cfg = NoCache /\ status = 0
    /\ dirT = [a \in Apps |-> NoDir] /\ rootT = NoDir
    /\ files = [a \in Apps |-> [n \in Names |-> NoFile]]
    /\ icons = [a \in Apps |-> {}]
    /\ pc = "off" /\ list = Empty /\ cat = Empty /\ broken = FALSE
    /\ todo = {} /\ cur = NoApp /\ seen = 0 /\ limit = 0
    /\ phase = 1 /\ victims = {} /\ flag = 1

-----------------------------------------------------------------------------
(* The environment *)

\* The server publishes another list.
Publish(c) ==
    /\ published < MaxPublish
    /\ c # server
    /\ Rollback \/ \A a \in DOMAIN c : c[a].ver >= newest[a]
    /\ server' = c /\ published' = published + 1
    /\ newest' = Raise(newest, c)
    /\ UNCHANGED <<clock, envVars, diskVars, procVars>>

Tick ==
    /\ pc # "off" /\ clock < MaxClock
    /\ clock' = clock + 1
    /\ UNCHANGED <<srvVars, envVars, diskVars, procVars>>

\* ntpclient or the web pages set the clock.
SetClock(t) ==
    /\ Stepping /\ pc # "off" /\ ~stepped /\ t < clock
    /\ clock' = t /\ stepped' = TRUE
    /\ UNCHANGED <<srvVars, crashes, adopted, diskVars, procVars>>

\* Power is cut: memory is lost and the clock starts over.
Crash ==
    /\ pc # "off" /\ crashes < MaxCrash
    /\ crashes' = crashes + 1
    /\ clock' = 0 /\ stepped' = FALSE
    /\ pc' = "off" /\ list' = Empty /\ cat' = Empty /\ broken' = FALSE
    /\ todo' = {} /\ cur' = NoApp /\ seen' = 0 /\ limit' = 0
    /\ phase' = 1 /\ victims' = {} /\ flag' = 1
    /\ UNCHANGED <<srvVars, adopted, diskVars>>

-----------------------------------------------------------------------------
(* main and the start of update() *)

\* check_system_time: the clock is moved forward to the time of the last
\* cycle.  A torn CONFIG_CACHE leaves last_update_time uninitialised.
CachedTimes == IF cfg = Torn THEN 0 .. MaxClock ELSE {cfg}

\* check_system_time, then init_soft_list.
Boot ==
    /\ pc = "off"
    /\ \E last \in CachedTimes :
          clock' = IF last > clock THEN last ELSE clock
    /\ list' = Loaded(lst, clock')
    /\ pc' = "idle"
    /\ UNCHANGED <<srvVars, envVars, diskVars, cat, broken, todo, cur, seen,
                   limit, phase, victims, flag>>

\* update(): the list is on the card, full or (http_download returns 0 when
\* the peer closes early) cut short, and CONFIG_CACHE has been opened.  A
\* transfer that fails leaves everything as it is.
FetchList ==
    /\ pc = "idle"
    /\ \/ cat' = server /\ broken' = FALSE
       \/ /\ Truncation
          /\ \E D \in SUBSET DOMAIN server : cat' = Cut(server, D)
          /\ broken' \in BOOLEAN
       \/ /\ Truncation
          /\ \E D \in SUBSET DOMAIN server, a \in DOMAIN server :
                 cat' = CutInside(server, D, a)
          /\ broken' = FALSE
    /\ limit' = clock /\ cfg' = Torn
    /\ phase' = 1 /\ flag' = 0 /\ pc' = "cache"
    /\ UNCHANGED <<srvVars, clock, envVars, lst, status, dirT, rootT, files,
                   icons, list, todo, cur, seen, victims>>

\* The time is written and the file closed: at the start of the cycle and,
\* in phase 2, at its end.
WriteCache ==
    /\ pc = "cache"
    /\ cfg' = limit
    /\ pc' = IF phase = 1 THEN "stamp" ELSE "idle"
    /\ limit' = IF phase = 1 THEN limit ELSE 0
    /\ phase' = 1
    /\ UNCHANGED <<srvVars, clock, envVars, lst, status, dirT, rootT, files,
                   icons, list, cat, broken, todo, cur, seen, victims, flag>>

\* timestamp (phase 1) or begin (phase 2) = time(NULL)
StartPhase ==
    /\ pc = "stamp"
    /\ limit' = clock /\ pc' = "nap"
    /\ UNCHANGED <<srvVars, clock, envVars, diskVars, list, cat, broken, todo,
                   cur, seen, phase, victims, flag>>

\* Mutant: no sleep between taking the time and stamping.
Nap_Short ==
    /\ pc = "nap"
    /\ todo' = DOMAIN cat
    /\ pc' = IF phase = 1 THEN "mark" ELSE "next"
    /\ UNCHANGED <<srvVars, clock, envVars, diskVars, list, cat, broken, cur,
                   seen, limit, phase, victims, flag>>

\* sleep(1)
Nap ==
    /\ pc = "nap" /\ clock < MaxClock
    /\ clock' = clock + 1
    /\ todo' = DOMAIN cat
    /\ pc' = IF phase = 1 THEN "mark" ELSE "next"
    /\ UNCHANGED <<srvVars, envVars, diskVars, list, cat, broken, cur, seen,
                   limit, phase, victims, flag>>

-----------------------------------------------------------------------------
(* check_apk_list and the sweeps *)

\* mark_apk: only an application whose directory exists is marked.
mark_apk(a) ==
    /\ pc = "mark" /\ a \in todo
    /\ todo' = todo \ {a}
    /\ IF dirT[a] = NoDir
       THEN UNCHANGED <<dirT, rootT, list>>
       ELSE /\ dirT' = [dirT EXCEPT ![a] = Mtime(clock)]
            /\ rootT' = Mtime(clock)
            /\ list' = Stamp(list, a, clock)
    /\ UNCHANGED <<srvVars, clock, envVars, lst, cfg, status, files, icons, pc,
                   cat, broken, cur, seen, limit, phase, victims, flag>>

\* The last line has no name or no icon: strdup(NULL) ends the process, and
\* nothing but a power cycle starts it again.
ParseDies ==
    /\ pc = "mark" /\ todo = {} /\ broken
    /\ pc' = "dead"
    /\ UNCHANGED <<srvVars, clock, envVars, diskVars, list, cat, broken, todo,
                   cur, seen, limit, phase, victims, flag>>

\* Mutant: only the age of APK_PATH counts.
Overdue_RootOnly == {a \in Apps : dirT[a] # NoDir /\ rootT < limit}

\* remove_overdue: a directory older than the phase goes; if APK_PATH itself
\* is older, everything in it goes.
Overdue ==
    {a \in Apps : dirT[a] # NoDir /\ (dirT[a] < limit \/ rootT < limit)}

\* The mark pass is over: remove_overdue looks at the directories.
StartSweep ==
    /\ pc = "mark" /\ todo = {} /\ ~broken
    /\ victims' = Overdue /\ pc' = "sweep"
    /\ UNCHANGED <<srvVars, clock, envVars, diskVars, list, cat, broken, todo,
                   cur, seen, limit, phase, flag>>

\* All lines are done: record_download_status, then remove_overdue.
EndUpdate ==
    /\ pc = "next" /\ todo = {}
    /\ status' = flag
    /\ victims' = Overdue /\ pc' = "sweep"
    /\ UNCHANGED <<srvVars, clock, envVars, lst, cfg, dirT, rootT, files, icons,
                   list, cat, broken, todo, cur, seen, limit, phase, flag>>

\* remove_dir of one application.
remove_dir(a) ==
    /\ pc = "sweep" /\ a \in victims
    /\ victims' = victims \ {a}
    /\ files' = [files EXCEPT ![a] = [n \in Names |-> NoFile]]
    /\ icons' = [icons EXCEPT ![a] = {}]
    /\ dirT' = [dirT EXCEPT ![a] = NoDir]
    /\ rootT' = Mtime(clock)
    /\ UNCHANGED <<srvVars, clock, envVars, lst, cfg, status, pc, list, cat,
                   broken, todo, cur, seen, limit, phase, flag>>

\* remove_overdue_info, which ends by rewriting the list file.  Phase 1 goes
\* on to begin = time(NULL), phase 2 to the final CONFIG_CACHE.
remove_overdue_info ==
    /\ pc = "sweep" /\ victims = {}
    /\ list' = DropOverdue(list, limit)
    /\ lst' = Saved(list')
    /\ \/ phase = 1 /\ phase' = 2 /\ pc' = "stamp" /\ UNCHANGED <<cfg, limit>>
       \/ phase = 2 /\ phase' = 2 /\ pc' = "cache" /\ cfg' = Torn
                    /\ limit' = clock
    /\ UNCHANGED <<srvVars, clock, envVars, status, dirT, rootT, files, icons,
                   cat, broken, todo, cur, seen, victims, flag>>

-----------------------------------------------------------------------------
(* update_apk *)

\* The line is parsed (update_time = time(NULL)), the directory exists from
\* here on, and the version decides: keep and rename, or replace.
StartApk(a) ==
    /\ pc = "next" /\ a \in todo
    /\ todo' = todo \ {a} /\ cur' = a /\ seen' = clock
    /\ dirT' = [dirT EXCEPT ![a] = Mtime(clock)] /\ rootT' = Mtime(clock)
    /\ pc' = IF a \notin DOMAIN list THEN "fetch"
             ELSE IF list[a].ver >= cat[a].ver THEN "keep" ELSE "unlink"
    /\ UNCHANGED <<srvVars, clock, envVars, lst, cfg, status, files, icons, list,
                   cat, broken, limit, phase, victims, flag>>

\* Creating, renaming or unlinking a file sets its directory's time.
TouchDir == dirT' = [dirT EXCEPT ![cur] = Mtime(clock)]

Move(f, old, new) ==
    IF old = new \/ f[old] = NoFile THEN f
    ELSE [f EXCEPT ![new] = f[old], ![old] = NoFile]

\* Up to date: follow a new name and a new icon.  The new icon is fetched, or
\* the old one renamed when that fails; rename of a missing file does nothing,
\* and the entry then takes over whatever there is at the new path.
KeepApk ==
    LET old == list[cur]  new == cat[cur] IN
    /\ pc = "keep"
    /\ files' = [files EXCEPT ![cur] = Move(@, old.name, new.name)]
    /\ adopted' = IF /\ files[cur][old.name] = NoFile
                     /\ files[cur][new.name] # NoFile
                  THEN adopted \cup {cur} ELSE adopted
    /\ \/ old.icon = new.icon /\ UNCHANGED icons
       \/ old.icon # new.icon
          /\ icons' = [icons EXCEPT ![cur] = (@ \ {old.icon}) \cup {new.icon}]
       \/ old.icon # new.icon
          /\ icons' = [icons EXCEPT ![cur] =
                           IF old.icon \in @ THEN (@ \ {old.icon}) \cup {new.icon}
                           ELSE @]
    /\ TouchDir /\ pc' = "record"
    /\ UNCHANGED <<srvVars, clock, stepped, crashes, lst, cfg, status, rootT,
                   list, cat, broken, todo, cur, seen, limit, phase, victims, flag>>

\* The old file and icon are unlinked before the new ones are fetched.
UnlinkOld ==
    /\ pc = "unlink"
    /\ files' = [files EXCEPT ![cur][list[cur].name] = NoFile]
    /\ icons' = [icons EXCEPT ![cur] = @ \ {list[cur].icon}]
    /\ TouchDir /\ pc' = "fetch"
    /\ UNCHANGED <<srvVars, clock, envVars, lst, cfg, status, rootT, list, cat,
                   broken, todo, cur, seen, limit, phase, victims, flag>>

\* download_file of the apk: http_download into a .tmp file that is renamed
\* when it returns 0, which it also does when the peer closes early.
FetchApk ==
    /\ pc = "fetch"
    /\ \/ /\ \E c \in {cat[cur].body, Partial} :
                files' = [files EXCEPT ![cur][cat[cur].name] = c]
          /\ adopted' = adopted \ {cur} /\ pc' = "size"
       \/ UNCHANGED <<files, adopted>> /\ pc' = "fail"
    /\ TouchDir
    /\ UNCHANGED <<srvVars, clock, stepped, crashes, lst, cfg, status, rootT,
                   icons, list, cat, broken, todo, cur, seen, limit, phase, victims, flag>>

\* Mutant: the size is not compared.
check_apk_size_Skipped ==
    /\ pc = "size" /\ pc' = "icon"
    /\ UNCHANGED <<srvVars, clock, envVars, diskVars, list, cat, broken, todo,
                   cur, seen, limit, phase, victims, flag>>

\* check_apk_size: stat and compare with the announced size.
check_apk_size ==
    /\ pc = "size"
    /\ pc' = IF files[cur][cat[cur].name] = Partial THEN "fail" ELSE "icon"
    /\ UNCHANGED <<srvVars, clock, envVars, diskVars, list, cat, broken, todo,
                   cur, seen, limit, phase, victims, flag>>

FetchIcon ==
    /\ pc = "icon"
    /\ \/ /\ icons' = [icons EXCEPT ![cur] = @ \cup {cat[cur].icon}]
          /\ pc' = "record"
       \/ UNCHANGED icons /\ pc' = "fail"
    /\ TouchDir
    /\ UNCHANGED <<srvVars, clock, envVars, lst, cfg, status, rootT, files, list,
                   cat, broken, todo, cur, seen, limit, phase, victims, flag>>

\* Mutant: a failed line is recorded all the same.
FailApk_Recorded ==
    /\ pc = "fail"
    /\ status' = 1 /\ flag' = 1
    /\ files' = [files EXCEPT ![cur][cat[cur].name] = NoFile]
    /\ icons' = [icons EXCEPT ![cur] = @ \ {cat[cur].icon}]
    /\ TouchDir /\ pc' = "record"
    /\ UNCHANGED <<srvVars, clock, envVars, lst, cfg, rootT, list, cat, broken,
                   todo, cur, seen, limit, phase, victims>>

\* record_download_status(1), both files unlinked; the soft list keeps what it
\* said before.
FailApk ==
    /\ pc = "fail"
    /\ status' = 1 /\ flag' = 1
    /\ files' = [files EXCEPT ![cur][cat[cur].name] = NoFile]
    /\ icons' = [icons EXCEPT ![cur] = @ \ {cat[cur].icon}]
    /\ TouchDir
    /\ pc' = "next" /\ cur' = NoApp /\ seen' = 0
    /\ UNCHANGED <<srvVars, clock, envVars, lst, cfg, rootT, list, cat, broken,
                   todo, limit, phase, victims>>

\* Mutant: the list file is not rewritten.
record_local_apk_MemoryOnly ==
    /\ pc = "record"
    /\ list' = RecordApk(list, cur, Info(cur))
    /\ pc' = "next" /\ cur' = NoApp /\ seen' = 0
    /\ UNCHANGED <<srvVars, clock, envVars, diskVars, cat, broken, todo, limit,
                   phase, victims, flag>>

\* record_local_apk: the entry goes into the list and the list to the card
\* (a temporary file renamed over the old one).
record_local_apk ==
    /\ pc = "record"
    /\ list' = RecordApk(list, cur, Info(cur))
    /\ lst' = Saved(list')
    /\ pc' = "next" /\ cur' = NoApp /\ seen' = 0
    /\ UNCHANGED <<srvVars, clock, envVars, cfg, status, dirT, rootT, files,
                   icons, cat, broken, todo, limit, phase, victims, flag>>

-----------------------------------------------------------------------------
Next ==
    \/ \E c \in Catalogs : Publish(c)
    \/ Tick \/ Crash
    \/ \E t \in 0 .. MaxClock : SetClock(t)
    \/ Boot \/ FetchList \/ WriteCache \/ StartPhase \/ Nap
    \/ \E a \in Apps : mark_apk(a) \/ remove_dir(a) \/ StartApk(a)
    \/ ParseDies \/ StartSweep \/ EndUpdate \/ remove_overdue_info
    \/ KeepApk \/ UnlinkOld \/ FetchApk \/ check_apk_size \/ FetchIcon
    \/ FailApk \/ record_local_apk

Spec == Init /\ [][Next]_vars

-----------------------------------------------------------------------------
(* Properties *)

Steps == {"off", "dead", "idle", "cache", "stamp", "nap", "mark", "sweep",
          "next", "keep", "unlink", "fetch", "size", "icon", "fail", "record"}

\* Types of the variables.
TypeOK ==
    /\ IsMap(server, Line) /\ published \in Nat /\ newest \in [Apps -> Nat]
    /\ clock \in Nat /\ stepped \in BOOLEAN /\ crashes \in Nat
    /\ adopted \subseteq Apps
    /\ IsMap(lst, SavedEntry) /\ cfg \in Nat \cup {NoCache, Torn}
    /\ status \in {0, 1}
    /\ dirT \in [Apps -> Nat \cup {NoDir}] /\ rootT \in Nat \cup {NoDir}
    /\ files \in [Apps -> [Names -> Content]] /\ icons \in [Apps -> SUBSET Icons]
    /\ pc \in Steps /\ IsMap(list, Entry) /\ IsMap(cat, Line)
    /\ broken \in BOOLEAN /\ todo \subseteq Apps
    /\ cur \in Apps \cup {NoApp} /\ seen \in Nat /\ limit \in Nat
    /\ phase \in {1, 2} /\ victims \subseteq Apps /\ flag \in {0, 1}

\* "Fix duplicate numbers" (apk_info_copy): whatever the server renumbers, in
\* whatever order lines succeed, fail or vanish, no two entries of the list in
\* memory or of the list file ever share a number.
NumbersDistinct == DistinctNumbers(list) /\ DistinctNumbers(lst)

\* The list in memory never drifts from the list file: what a power cut takes
\* away is only what update_apk has not recorded.
ListOnCard == pc # "off" => lst = Saved(list)

\* A cycle without a failed line leaves the list equal to the server's:
\* nothing missing, nothing left over, every number, version and path as
\* published, although numbers were swapped around on the way.
CycleConverges ==
    pc = "idle" /\ flag = 0 /\ ~stepped =>
        /\ DOMAIN list = DOMAIN cat
        /\ \A a \in DOMAIN list :
              /\ list[a].seq = cat[a].seq /\ list[a].ver = cat[a].ver
              /\ list[a].name = cat[a].name /\ list[a].icon = cat[a].icon

\* The list file never promises a newer version than the file it points to
\* holds, and never points to a short file unless power was cut inside the
\* check of a download.  The exception: an entry whose own file was gone when
\* update_apk renamed it, and that took over what lay at the new path.
ListHonest ==
    \A a \in DOMAIN lst \ adopted :
        LET c == files[a][lst[a].name] IN
        \/ c = NoFile
        \/ c = Partial /\ crashes > 0
        \/ c = Partial /\ cur = a /\ pc \in {"size", "fail"}
        \/ c # Partial /\ c >= lst[a].ver

\* As long as versions only grow, lists arrive whole and power stays on, a
\* cycle without a failed line leaves every listed application with its file
\* and its icon.
ListedPresent ==
    pc = "idle" /\ flag = 0 /\ ~stepped /\ crashes = 0 /\ ~Rollback /\ ~Truncation =>
        \A a \in DOMAIN list :
            files[a][list[a].name] \in Vers /\ list[a].icon \in icons[a]

\* Unless the clock was set back, no sweep removes the directory of an
\* application that the fetched list names.
SweepSparesListed ==
    [][\A a \in DOMAIN cat :
          dirT[a] # NoDir /\ dirT'[a] = NoDir => stepped]_vars

\* After a cycle only the applications of the fetched list occupy the card.
SpaceReclaimed ==
    pc = "idle" /\ flag = 0 /\ ~stepped /\ crashes = 0 =>
        \A a \in Apps : dirT[a] # NoDir <=> a \in DOMAIN cat

=============================================================================
