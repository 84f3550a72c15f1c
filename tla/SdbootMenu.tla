----------------------------- MODULE SdbootMenu -----------------------------
(***************************************************************************)
(* sdboot_boot_load_menu: the search for systemd-boot folders, the loading   *)
(* of loader.conf and of the entry files of each, the settings they change,  *)
(* and the entries they add to the boot menu.                                *)
(*                                                                           *)
(* Every call of the firmware or of the allocator may fail with a status of  *)
(* Faults.  The entries folder is read file by file, the other files whole.  *)
(***************************************************************************)
EXTENDS SdbootOrder, MenuOrder

CONSTANTS
    Situations, \* what sdboot_boot_load_menu finds: [disk, cfg, menu], with
                \* disk: [current, previous, handles, root, faults], the file
                \* systems and the statuses their calls fail with;
                \* cfg: the configuration's menu.sdboot.*, whether menu.timeout and
                \* menu.default are there, and the firmware's setup support;
                \* menu: g_embloader.menu as embloader_load_menu leaves it
    Faults      \* statuses a firmware call may fail with

\* What the files of a partition can be: a line of a loader.conf or of an entry
\* file gives a text where a text is expected.
LineKind == {"blank", "broken", "pair"}
IsConfLine(line) ==
    /\ line.kind \in LineKind
    /\ line.kind = "pair" /\ line.key = "default" => line.value \in Text
IsEntryLine(line) ==
    /\ line.kind \in LineKind
    /\ line.kind = "pair" => /\ line.key \in StringKey => line.value \in Text
                             /\ line.key \in ListKey => line.value \in Seq(Text)
IsEntryFile(f) ==
    /\ f.name \in Text /\ f.conf \in BOOLEAN
    /\ IsSequence(f.lines) /\ \A k \in DOMAIN f.lines : IsEntryLine(f.lines[k])
IsRoot(r) ==
    /\ r.folder \in BOOLEAN
    /\ r.conf # None => /\ IsSequence(r.conf)
                        /\ \A k \in DOMAIN r.conf : IsConfLine(r.conf[k])
    /\ r.entries # None => /\ IsSequence(r.entries)
                           /\ \A n \in DOMAIN r.entries : IsEntryFile(r.entries[n])

\* A partition that the search can meet is one of the disk.
ASSUME DisksAssumption ==
    \A s \in Situations :
       LET d == s.disk
       IN  /\ None \notin DOMAIN d.root
           /\ d.handles \in Seq(DOMAIN d.root)
           /\ {d.current, d.previous} \subseteq DOMAIN d.root \cup {None}
           /\ \A h \in DOMAIN d.root : IsRoot(d.root[h])

\* loader_is_valid refuses configured entries of type sdboot.
ASSUME MenusAssumption ==
    \A s \in Situations :
       /\ s.cfg.offset \in Int
       /\ s.cfg.multi \in BOOLEAN /\ s.cfg.hasTimeout \in BOOLEAN
       /\ s.cfg.hasDefault \in BOOLEAN /\ s.cfg.setup \in BOOLEAN
       /\ DOMAIN s.menu = {"loaders", "timeout", "disabled", "default"}
       /\ IsSequence(s.menu.loaders)
       /\ \A k \in DOMAIN s.menu.loaders :
             /\ s.menu.loaders[k].priority \in Int
             /\ s.menu.loaders[k].type # "sdboot" /\ s.menu.loaders[k].extra = 0
ASSUME FaultsAssumption == "SUCCESS" \notin Faults

\* What sdboot_boot_load_menu may return
Status == {"SUCCESS", "NOT_FOUND", "UNSUPPORTED", "LOAD_ERROR", "OUT_OF_RESOURCES"}
             \cup Faults

\* Where it may be
Control == {"start", "current", "previous", "locate", "scan", "conf", "folder",
            "files", "apply", "items", "done"}

ASSUME NoneAssumption == None \notin Status \cup Control

VARIABLES
    disk, cfg, menu0,   \* the inputs
    menu,               \* g_embloader.menu
    sdboot,             \* g_embloader.sdboot: its settings and its loaders
    pc, status,         \* control, and what sdboot_boot_load_menu returns
    back,               \* where the search goes on after this partition
    dir,                \* the partition being loaded
    index,              \* the next handle to look at
    haveSuccess,        \* a partition was loaded
    file, pending,      \* the next entry file, the folder's entries so far
    visited,            \* history: partitions loaded, in order
    confs,              \* history: partitions whose loader.conf was taken
    lost                \* history: entry files, and whole folders (0), skipped
                        \* for a firmware error

inputs == <<disk, cfg, menu0>>
search == <<back, dir, index, haveSuccess>>
folder == <<file, pending>>
history == <<visited, confs, lost>>
vars == <<inputs, menu, sdboot, pc, status, search, folder, history>>

\* sdboot_check_fs.  It is called at most once on a partition (Attempted), so
\* `folder` is what that one call finds: a partition whose /loader folder it
\* cannot reach, for any error of HandleProtocol, OpenVolume or Open, is passed
\* over for good, like one that has no such folder.
HasFolder(h) == h # None /\ disk.root[h].folder

\* The statuses a call of this machine's firmware may fail with.
Failing == disk.faults \cap Faults

\* A call fails with s: sdboot_boot_load_menu returns it.
Return(s) == pc' = "done" /\ status' = s
Goto(l) == pc' = l /\ UNCHANGED status

Init ==
    /\ \E s \in Situations : disk = s.disk /\ cfg = s.cfg /\ menu0 = s.menu
    /\ menu = menu0
    /\ sdboot = None
    /\ pc = "start" /\ status = None
    /\ back = None /\ dir = None /\ index = 1 /\ haveSuccess = FALSE
    /\ file = 1 /\ pending = <<>>
    /\ visited = <<>> /\ confs = <<>> /\ lost = {}

-----------------------------------------------------------------------------
(* The search for partitions *)

\* menu.sdboot.enabled, and the allocation of g_embloader.sdboot
Start ==
    /\ pc = "start"
    /\ \/ ~cfg.enabled /\ Return("UNSUPPORTED") /\ UNCHANGED sdboot
       \/ cfg.enabled /\ "OUT_OF_RESOURCES" \in Failing
            /\ Return("OUT_OF_RESOURCES") /\ UNCHANGED sdboot
       \/ cfg.enabled /\ Goto("current")
            /\ sdboot' = [menu |-> InitMenu, loaders |-> <<>>]
    /\ UNCHANGED <<inputs, menu, search, folder, history>>

\* sdboot_check_fs found /loader on partition h: load it, then go on at l.
Enter(h, l) ==
    /\ Goto("conf")
    /\ dir' = h /\ back' = l
    /\ visited' = Append(visited, h)
    /\ UNCHANGED <<confs, lost>>

\* The partition that holds the running image
TryCurrent ==
    /\ pc = "current"
    /\ \/ HasFolder(disk.current) /\ Enter(disk.current, "previous")
       \/ ~HasFolder(disk.current) /\ Goto("previous")
            /\ UNCHANGED <<back, dir, history>>
    /\ UNCHANGED <<inputs, menu, sdboot, index, haveSuccess, folder>>

\* The partition that holds the configuration, if it is another one
TryPrevious ==
    /\ pc = "previous"
    /\ LET new == disk.previous # disk.current /\ HasFolder(disk.previous)
       IN  \/ new /\ Enter(disk.previous, "locate")
           \/ ~new /\ Goto("locate") /\ UNCHANGED <<back, dir, history>>
    /\ UNCHANGED <<inputs, menu, sdboot, index, haveSuccess, folder>>

\* LocateHandleBuffer
Locate ==
    /\ pc = "locate"
    /\ \/ Goto("scan")
       \/ \E e \in Failing :
             IF e = "NOT_FOUND" THEN Goto("items") ELSE Return(e)
    /\ UNCHANGED <<inputs, menu, sdboot, search, folder, history>>

\* Mutant: handles that the firmware lists twice are not noticed.
AttemptedFirst(i) == disk.handles[i] \in {disk.current, disk.previous}

\* Whether handle i was met before
Attempted(i) ==
    \/ disk.handles[i] \in {disk.current, disk.previous}
    \/ \E j \in 1..(i - 1) : disk.handles[j] = disk.handles[i]

\* Mutant: a handle that is passed over is looked at again.
ScanStuck ==
    /\ pc = "scan" /\ index <= Len(disk.handles)
    /\ LET new == ~Attempted(index) /\ HasFolder(disk.handles[index])
       IN  \/ /\ new /\ Enter(disk.handles[index], "scan")
              /\ index' = index + 1
           \/ /\ ~new /\ Goto("scan") /\ UNCHANGED <<back, dir, index, history>>
    /\ UNCHANGED <<inputs, menu, sdboot, haveSuccess, folder>>

\* The next handle, unless it was met before
ScanNext ==
    /\ pc = "scan" /\ index <= Len(disk.handles)
    /\ LET new == ~Attempted(index) /\ HasFolder(disk.handles[index])
       IN  \/ new /\ Enter(disk.handles[index], "scan")
           \/ ~new /\ Goto("scan") /\ UNCHANGED <<back, dir, history>>
    /\ index' = index + 1
    /\ UNCHANGED <<inputs, menu, sdboot, haveSuccess, folder>>

ScanEnd ==
    /\ pc = "scan" /\ index > Len(disk.handles)
    /\ Goto("items")
    /\ UNCHANGED <<inputs, menu, sdboot, search, folder, history>>

-----------------------------------------------------------------------------
(* One partition: sdboot_boot_load_root *)

\* Mutant: the lines go straight into the settings, also if a later one fails.
LoadConfInPlace(settings, conf) ==
    LET parsed == ParseMenu(settings, conf)
        outcome(s, out) == [status |-> s, out |-> out]
    IN  IF conf = None THEN {outcome("NOT_FOUND", settings)}
        ELSE {outcome(e, ParseMenu(settings, SubSeq(conf, 1, n)).out) :
                 e \in Failing, n \in DOMAIN conf}
               \cup {outcome(IF parsed.ok THEN "SUCCESS" ELSE "LOAD_ERROR", parsed.out)}

\* sdboot_boot_load_file on loader.conf: what it returns, and the settings.
LoadConfOutcomes(settings, conf) ==
    LET parsed == ParseMenu(settings, conf)
        outcome(s, out) == [status |-> s, out |-> out]
    IN  {outcome(e, settings) : e \in Failing}
          \cup {IF conf = None THEN outcome("NOT_FOUND", settings)
                ELSE IF parsed.ok THEN outcome("SUCCESS", parsed.out)
                ELSE outcome("LOAD_ERROR", settings)}

LoadConf ==
    /\ pc = "conf"
    /\ \E r \in LoadConfOutcomes(sdboot.menu, disk.root[dir].conf) :
          /\ sdboot' = [sdboot EXCEPT !.menu = r.out]
          /\ confs' = IF r.status = "SUCCESS" THEN Append(confs, dir) ELSE confs
          /\ IF r.status \in {"SUCCESS", "NOT_FOUND"} THEN Goto("folder")
                                                      ELSE Return(r.status)
    /\ UNCHANGED <<inputs, menu, search, folder, visited, lost>>

\* Mutant: a partition without an entries folder ends the search.
OpenFolderStrict ==
    /\ pc = "folder"
    /\ IF disk.root[dir].entries # None THEN Goto("files") ELSE Return("NOT_FOUND")
    /\ file' = 1 /\ pending' = <<>>
    /\ UNCHANGED <<inputs, menu, sdboot, search, history>>

\* The start of sdboot_boot_load_entries_folder
OpenFolder ==
    /\ pc = "folder"
    /\ \/ disk.root[dir].entries # None /\ Goto("files") /\ UNCHANGED lost
       \/ disk.root[dir].entries = None /\ Goto("apply") /\ UNCHANGED lost
       \/ /\ "NOT_FOUND" \in Failing /\ Goto("apply")
          /\ lost' = lost \cup {<<dir, 0>>}
       \/ \E e \in Failing \ {"NOT_FOUND"} : Return(e) /\ UNCHANGED lost
    /\ file' = 1 /\ pending' = <<>>
    /\ UNCHANGED <<inputs, menu, sdboot, search, visited, confs>>

\* sdboot_boot_load_file on an entry file of partition h: the loaders it adds.
\* A file that does not parse or check is refused; one for another
\* architecture is dropped.
LoadEntry(h, f) ==
    LET new == [InitLoader EXCEPT !["name"] = f.name, !["root"] = h]
        r == ParseLoader(new, f.lines)
    IN  IF r.ok /\ LoaderCheck(r.out) /\ r.out["architecture"] = CurrentArch
        THEN <<r.out>> ELSE <<>>

\* One file of the folder.  A file that is not found or does not load is
\* skipped; any other error gives up the folder and the search.
ReadEntry ==
    /\ pc = "files" /\ file <= Len(disk.root[dir].entries)
    /\ LET f == disk.root[dir].entries[file]
       IN  \/ /\ ~f.conf
              /\ Goto("files") /\ UNCHANGED <<pending, lost>>
           \/ /\ f.conf
              /\ Goto("files") /\ UNCHANGED lost
              /\ pending' = pending \o LoadEntry(dir, f)
           \/ /\ f.conf /\ Failing \cap {"NOT_FOUND", "LOAD_ERROR"} # {}
              /\ Goto("files") /\ UNCHANGED pending
              /\ lost' = lost \cup {<<dir, file>>}
           \/ \E e \in Failing \ {"NOT_FOUND", "LOAD_ERROR"} :
              /\ f.conf
              /\ Return(e) /\ UNCHANGED lost
              /\ pending' = <<>>
    /\ file' = file + 1
    /\ UNCHANGED <<inputs, menu, sdboot, search, visited, confs>>

\* Mutant: the entries read so far are kept.
ReadFolderKeeps ==
    /\ pc = "files"
    /\ \E e \in Failing \ {"NOT_FOUND"} : Return(e)
    /\ sdboot' = [sdboot EXCEPT !.loaders = @ \o pending]
    /\ pending' = <<>>
    /\ UNCHANGED <<inputs, menu, search, file, history>>

\* Reading the folder itself fails.  (EFI_NOT_FOUND ends the folder with what was
\* read, where it stands: to the menu, each file that remains is not found, the
\* steps of ReadEntry that lose it and then CloseFolder.)
ReadFolderFails ==
    /\ pc = "files"
    /\ \E e \in Failing \ {"NOT_FOUND"} : Return(e)
    /\ pending' = <<>>
    /\ UNCHANGED <<inputs, menu, sdboot, search, file, history>>

\* The end of the folder: its entries join those of the other partitions.
\* (A folder without a valid entry is EFI_NOT_FOUND, which is no error here.)
CloseFolder ==
    /\ pc = "files" /\ file > Len(disk.root[dir].entries)
    /\ sdboot' = [sdboot EXCEPT !.loaders = @ \o pending]
    /\ pending' = <<>>
    /\ Goto("apply")
    /\ UNCHANGED <<inputs, menu, search, file, history>>

\* The loaders that "default auto-..." may name
IsReboot(item) ==
    /\ item.type = "reboot"
    /\ item.mode \in {"reboot", "reboot-cold", "reboot-warm", "reboot-with"}
IsShutdown(item) == item.type = "reboot" /\ item.mode \in {"shutdown", "poweroff"}
IsEfisetup(item) == item.type = "efisetup"

\* The name of the entry that find_efisetup, find_reboot or find_shutdown found
FirstName(loaders, found, otherwise) ==
    IF found # 0 THEN loaders[found].name ELSE otherwise

\* The entry that "default" names: an existing one or one to be added
ResolveDefault(loaders, entry) ==
    CASE entry = "auto-firmware" ->
           FirstName(loaders, SelectInSeq(loaders, IsEfisetup), "sdboot-auto-firmware")
      [] entry = "auto-reboot" ->
           FirstName(loaders, SelectInSeq(loaders, IsReboot), "sdboot-auto-reboot")
      [] entry = "auto-poweroff" ->
           FirstName(loaders, SelectInSeq(loaders, IsShutdown), "sdboot-auto-shutdown")
      [] OTHER -> entry

\* The end of sdboot_boot_load_root: the settings so far reach the menu where
\* the configuration leaves them open.
TimeoutFrom(settings) ==
    IF cfg.hasTimeout THEN menu
    ELSE [menu EXCEPT !.timeout = settings["timeout"],
                      !.disabled = settings["disabled"]]

DefaultFrom(settings, m) ==
    IF settings["default"] = None \/ cfg.hasDefault THEN m
    ELSE [m EXCEPT !.default = ResolveDefault(m.loaders, settings["default"])]

ApplySettings ==
    /\ pc = "apply"
    /\ LET timed == TimeoutFrom(sdboot.menu)
           named == DefaultFrom(sdboot.menu, timed)
       IN  \/ /\ menu' = named
              /\ haveSuccess' = TRUE
              /\ Goto(IF cfg.multi THEN back ELSE "items")
           \/ /\ "OUT_OF_RESOURCES" \in Failing
              /\ sdboot.menu["default"] # None /\ ~cfg.hasDefault
              /\ menu' = timed
              /\ Return("OUT_OF_RESOURCES") /\ UNCHANGED haveSuccess
    /\ UNCHANGED <<inputs, sdboot, back, dir, index, folder, history>>

-----------------------------------------------------------------------------
(* Publication: sdboot_boot_add_items *)

Item(name, type, mode, priority, extra) ==
    [name |-> name, type |-> type, mode |-> mode, priority |-> priority,
     extra |-> extra]

\* One item per entry; entry i is loader i of g_embloader.sdboot.  (At the only
\* call the menu holds no such item yet: loader_is_valid refuses configured ones.)
SdbootItems ==
    [i \in DOMAIN sdboot.loaders |->
       Item(sdboot.loaders[i]["name"], "sdboot", None,
            Priority(sdboot.loaders, cfg.offset, i), i)]

\* sdboot_boot_find_auto_items and sdboot_boot_add_auto_items: the special
\* entries that are wanted and not there, in this order.
WantedAutoItems(loaders) ==
    LET firmware == Item("sdboot-auto-firmware", "efisetup", None, 0, 0)
        poweroff == Item("sdboot-auto-shutdown", "reboot", "shutdown", 0, 0)
        reboot == Item("sdboot-auto-reboot", "reboot", "reboot", 0, 0)
        missing(Is(_)) == SelectInSeq(loaders, Is) = 0
        only(wanted, item) == IF wanted THEN <<item>> ELSE <<>>
        set == sdboot.menu
    IN  only(set["auto-firmware"] /\ cfg.setup /\ missing(IsEfisetup), firmware)
          \o only(set["auto-poweroff"] /\ missing(IsShutdown), poweroff)
          \o only(set["auto-reboot"] /\ missing(IsReboot), reboot)

AutoItems(loaders) ==
    LET wanted == WantedAutoItems(loaders)
        offset == AutoOffset(sdboot.loaders, cfg.offset)
    IN  [k \in DOMAIN wanted |->
           [wanted[k] EXCEPT !.priority = Saturated(offset + k - 1)]]

\* All entries of the boot menu, not sorted yet
AllItems(loaders) == loaders \o SdbootItems \o AutoItems(loaders)

AddItems ==
    /\ pc = "items"
    /\ \/ ~haveSuccess /\ Return("NOT_FOUND") /\ UNCHANGED menu
       \/ /\ haveSuccess /\ "OUT_OF_RESOURCES" \in Failing
          /\ Return("OUT_OF_RESOURCES") /\ UNCHANGED menu
       \/ /\ haveSuccess
          /\ Return("SUCCESS")
          /\ \E all \in {AllItems(menu.loaders)} :
                menu' = [menu EXCEPT !.loaders = SortByPriority(all)]
    /\ UNCHANGED <<inputs, sdboot, search, folder, history>>

-----------------------------------------------------------------------------
Next ==
    \/ Start \/ TryCurrent \/ TryPrevious \/ Locate \/ ScanNext \/ ScanEnd
    \/ LoadConf \/ OpenFolder \/ ReadEntry \/ ReadFolderFails \/ CloseFolder
    \/ ApplySettings \/ AddItems

Spec == Init /\ [][Next]_vars

\* The function is one thread that nothing interrupts.
FairSpec == Spec /\ WF_vars(Next)

-----------------------------------------------------------------------------
(* Properties *)

\* Types: the control state, the return value and the cursors stay in their
\* ranges, and the settings are always a whole sdboot_boot_menu.
TypeOK ==
    /\ pc \in Control
    /\ status \in Status \cup {None}
    /\ (pc = "done") = (status # None)
    /\ back \in {None, "previous", "locate", "scan"}
    /\ dir # None => HasFolder(dir)
    /\ index \in 1..(Len(disk.handles) + 1)
    /\ haveSuccess \in BOOLEAN
    /\ sdboot # None \/ visited # <<>> =>
          /\ DOMAIN sdboot.menu = MenuKey
          /\ sdboot.menu["timeout"] \in (-INT_MAX - 1)..INT_MAX

\* The partitions with a /loader folder, each once, in the order in which they
\* are to be tried: the current one, the previous one, the others as found.
Partitions ==
    LET all == <<disk.current, disk.previous>> \o disk.handles
        first(i) == HasFolder(all[i]) /\ \A j \in 1..(i - 1) : all[j] # all[i]
    IN  Selection(all, {i \in DOMAIN all : first(i)})

\* No partition is loaded twice, however often the firmware lists its handle,
\* and without menu.sdboot.multi-partitions only one partition is loaded.
VisitOnce ==
    /\ \A i, j \in DOMAIN visited : visited[i] = visited[j] => i = j
    /\ ~cfg.multi => Len(visited) <= 1

\* Partitions are loaded in that order, and a search that ran to its end has
\* left none out.
VisitOrder ==
    /\ IsPrefix(visited, Partitions)
    /\ status \in {"SUCCESS", "NOT_FOUND"} /\ index > Len(disk.handles)
         => visited = Partitions \/ (~cfg.multi /\ visited # <<>>)

\* The entries that the files of a partition define, but for the lost ones
ValidEntries(h) ==
    LET entries == disk.root[h].entries
        valid(n) == IF entries[n].conf /\ <<h, n>> \notin lost
                    THEN LoadEntry(h, entries[n]) ELSE <<>>
    IN  IF entries = None \/ <<h, 0>> \in lost THEN <<>>
        ELSE FlattenSeq([n \in DOMAIN entries |-> valid(n)])

\* g_embloader.sdboot never holds a part of a folder: a partition contributes
\* all its valid entries or, if reading it failed half-way, none of them.
WholeFolders ==
    sdboot # None =>
      \A k \in DOMAIN visited :
         LET from(i) == sdboot.loaders[i]["root"] = visited[k]
             got == Selection(sdboot.loaders, {i \in DOMAIN sdboot.loaders : from(i)})
         IN  /\ got \in {<<>>, ValidEntries(visited[k])}
             /\ status = "SUCCESS" => got = ValidEntries(visited[k])

\* The entries are those of a prefix of the partitions, folder by whole folder,
\* and of all partitions after a search that ran to its end
\* (sdboot_boot_load_menu, sdboot_boot_load_entries_folder).
EntriesWhole == VisitOrder /\ WholeFolders

\* The settings are at any time what the complete loader.conf files of the
\* partitions taken so far make of the defaults, later files over earlier ones;
\* a file that fails half-way or has no valid line leaves no trace.
SettingsOf(hs) ==
    LET after[k \in 0..Len(hs)] ==
          IF k = 0 THEN InitMenu
          ELSE ParseMenu(after[k - 1], disk.root[hs[k]].conf).out
    IN  after[Len(hs)]
SettingsWhole == sdboot # None => sdboot.menu = SettingsOf(confs)

\* When efi_main goes on although no entries were loaded, the menu is the one
\* that the configuration built: no timeout or default of a partition whose
\* entries are missing.
MenuUntouched == status \in {"NOT_FOUND", "UNSUPPORTED"} => menu = menu0

\* After a successful load the menu runs with the settings of all partitions
\* together, except for what the configuration itself says.
SettingsApplied ==
    status = "SUCCESS" =>
      LET set == sdboot.menu
      IN  /\ IF cfg.hasTimeout
             THEN menu.timeout = menu0.timeout /\ menu.disabled = menu0.disabled
             ELSE menu.timeout = set["timeout"] /\ menu.disabled = set["disabled"]
          /\ (cfg.hasDefault \/ set["default"] = None)
                => menu.default = menu0.default

AutoName == {"sdboot-auto-firmware", "sdboot-auto-reboot", "sdboot-auto-shutdown"}

\* "default auto-firmware" (-reboot, -poweroff) is given a name before the
\* automatic entries exist; once the menu is published the name is that of an
\* entry of the right kind, if the loader.conf files ask for such an entry.
AutoDefaultResolves ==
    status = "SUCCESS" /\ ~cfg.hasDefault =>
      LET set == sdboot.menu
          names(Is(_)) == \E k \in DOMAIN menu.loaders :
                             Is(menu.loaders[k]) /\ menu.loaders[k].name = menu.default
      IN  /\ set["default"] = "auto-firmware" /\ set["auto-firmware"] /\ cfg.setup
               => names(IsEfisetup)
          /\ set["default"] = "auto-reboot" /\ set["auto-reboot"] => names(IsReboot)
          /\ set["default"] = "auto-poweroff" /\ set["auto-poweroff"]
               => names(IsShutdown)

\* The settings that the loader.conf files make together reach the menu, a file
\* that fails leaves no trace in them, and a default that names an automatic
\* entry finds it (sdboot_boot_load_root).
SettingsReachMenu ==
    TypeOK /\ SettingsWhole /\ SettingsApplied /\ AutoDefaultResolves

\* The automatic entries come after all systemd-boot entries, also where the
\* priorities saturate at INT64_MAX or start below zero.  (A configured entry
\* may have the name of one, and stands where its own priority puts it.)
AutoItemsLast ==
    LET automatic(item) == item.type # "sdboot" /\ item.name \in AutoName
    IN  /\ status = "SUCCESS"
        /\ \A k \in DOMAIN menu0.loaders : ~automatic(menu0.loaders[k])
        => \A i, j \in DOMAIN menu.loaders :
              automatic(menu.loaders[i]) /\ menu.loaders[j].type = "sdboot" => j < i

\* The systemd-boot entries stand in the menu in the order of
\* sdboot_compare_entries, wherever that is an order (it is not transitive when
\* a version or machine-id is missing) and the priorities do not saturate.
EntriesInOrder ==
    LET L == sdboot.loaders
        before(i, j) == Compare(L[i], L[j]) < 0
        transitive == \A i, j, k \in DOMAIN L :
                         before(i, j) /\ before(j, k) => before(i, k)
    IN  status = "SUCCESS" /\ transitive /\ cfg.offset + Len(L) <= INT64_MAX =>
          \A i, j \in DOMAIN menu.loaders :
             LET a == menu.loaders[i].extra
                 b == menu.loaders[j].extra
             IN  a # 0 /\ b # 0 /\ before(a, b) => i < j

\* The menu of systemd-boot entries is in order, the automatic ones at its end
\* (sdboot_items_prepare, sdboot_boot_add_auto_items).
OrderRespected == EntriesInOrder /\ AutoItemsLast

\* Whatever the firmware answers, the search comes to an end.
Terminates == <>(pc = "done")
=============================================================================
