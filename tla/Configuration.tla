--------------------------- MODULE Configuration ---------------------------
(***************************************************************************)
(* What efi_main makes of the embloader folder: finding the folder,        *)
(* merging the configuration files in their fixed order, choosing the      *)
(* device and its profiles, and filling the menu from `loaders`.           *)
(*                                                                         *)
(* The configuration is a tree of ConfigSpec: ConfigTree shows that        *)
(* confignode_merge is TreeMerge or nothing.  Any step that allocates may  *)
(* find no memory.                                                         *)
(***************************************************************************)
EXTENDS ConfigSpec, MenuOrder

CONSTANTS
    Situations,         \* name -> files, volumes and firmware the loader meets
    FieldPath,          \* text of a match field -> path in the system information
    Strcasecmp(_, _),   \* strcasecmp, vercmp: negative, zero or positive
    Vercmp(_, _),
    Strcasestr(_, _),   \* strcasestr # NULL
    RegexpMatch(_, _),  \* regexp_match = 1
    CIntMin,            \* INT_MIN
    MaxFailures         \* bound: allocations that fail

None == "none"

\* A line of dtbo.txt as it was understood.
IsLine(line) ==
    /\ line.kind \in {"ignored", "malformed", "section", "overlay"}
    /\ line.kind \in {"section", "overlay"} => line.profile \in Strings \cup {None}
    /\ line.kind = "overlay" =>
          line.name \in Keys /\ line.params \in Seq([name : Keys, value : Strings])

\* A file that can be read: a tree, or lines or words.
Readable(name, file) ==
    CASE name = "dtbo.txt" -> /\ IsSequence(file.lines)
                              /\ \A i \in 1..Len(file.lines) : IsLine(file.lines[i])
      [] name = "cmdline.txt" -> file.words \in Seq(Strings)
      [] OTHER -> /\ file.doc \in Trees[Levels]
                  /\ name \in {"config.static.conf", "config.dynamic.conf"} =>
                        file.doc.type = "map"

ASSUME SituationAssumption ==
    \A s \in DOMAIN Situations :
        /\ {"files", "volumes", "image", "sysinfo", "setup"} \subseteq DOMAIN Situations[s]
        /\ Situations[s].volumes \in Seq({"no filesystem", "no folder", "folder"})
        /\ Situations[s].image \in 0..Len(Situations[s].volumes)
        /\ \A name \in DOMAIN Situations[s].files :
              Situations[s].files[name].state = "whole" => Readable(name, Situations[s].files[name])

\* The keys the loader writes itself; memory holds fewer keys than an int64_t
\* counts.
ASSUME KeysAssumption ==
    /\ {"devicetree", "overlays", "enabled", "profile", "params", "menu", "bootargs"} \subseteq Keys
    /\ IsFiniteSet(Keys) /\ Cardinality(Keys) < -IntMin
    /\ Levels >= 6

\* An int is no wider than an int64_t, and the default timeout, 10, is one.
ASSUME BoundAssumption ==
    MaxFailures \in Nat /\ CIntMin \in Int /\ IntMin <= CIntMin /\ CIntMin <= -11

VARIABLES
    sit,        \* the situation
    pc, at,     \* the step of efi_main, and its position in a loop
    dir,        \* g_embloader.dir: the volume that was found
    open,       \* file handles that are open, <<volume, "root" or "dir">>
    config,     \* g_embloader.config
    loaded,     \* files that were loaded, in order
    device, profiles,   \* g_embloader.device_name, g_embloader.profiles
    menu,       \* g_embloader.menu: timeout, save_default, default_entry
    loaders,    \* g_embloader.menu->loaders
    failures,   \* allocations that failed so far
    missed      \* history: what the chosen device and the entries set but was
                \* not found for want of memory, <<step, position, key>>

vars == <<sit, pc, at, dir, open, config, loaded, device, profiles, menu, loaders, failures,
          missed>>

cf == Situations[sit]

NoVolume == 0
Missing == [state |-> "missing"]

\* embloader_init: two empty maps
Init ==
    /\ sit \in DOMAIN Situations
    /\ pc = "folder" /\ at = 0
    /\ dir = NoVolume /\ open = {}
    /\ config = MapTree(<<>>)
    /\ loaded = <<>>
    /\ device = None /\ profiles = <<>>
    /\ menu = [timeout |-> 0, save_default |-> FALSE, default_entry |-> None]
    /\ loaders = <<>>
    /\ failures = 0 /\ missed = {}

\* One more allocation fails.
OutOfMemory == failures < MaxFailures /\ failures' = failures + 1

\* confignode_path_lookup returns NULL without memory for a key of the path, and
\* its callers take what they looked for as absent.
LookupsFail(lost) ==
    /\ failures' = failures + Cardinality(lost)
    /\ failures' <= MaxFailures

SeenKey(node, key, lost) == IF key \in lost THEN Absent ELSE LookupKey(node, key)

(***************************************************************************)
(* find_embloader_folder: the volume the loader came from, then every      *)
(* volume in the order of LocateHandleBuffer.                              *)
(***************************************************************************)
Candidate == IF at = 0 THEN cf.image ELSE at

\* What a volume without an embloader folder leaves open.
AfterMissingFolder(v) == {}

CheckFs(v) ==
    CASE cf.volumes[v] = "no filesystem" -> /\ dir' = NoVolume
                                            /\ open' = open
      [] cf.volumes[v] = "no folder" -> /\ dir' = NoVolume
                                        /\ open' = open \cup AfterMissingFolder(v)
      [] cf.volumes[v] = "folder" -> /\ dir' = v
                                     /\ open' = open \cup {<<v, "root">>, <<v, "dir">>}

FindFolder ==
    /\ pc = "folder" /\ at <= Len(cf.volumes)
    /\ IF Candidate = NoVolume THEN UNCHANGED <<dir, open>> ELSE CheckFs(Candidate)
    /\ IF dir' # NoVolume THEN pc' = "configs" /\ at' = 1 ELSE pc' = pc /\ at' = at + 1
    /\ UNCHANGED <<sit, config, loaded, device, profiles, menu, loaders, failures, missed>>

\* Without the folder no configuration is read at all.
FolderNotFound ==
    /\ pc = "folder" /\ at > Len(cf.volumes)
    /\ pc' = "device" /\ at' = 1
    /\ UNCHANGED <<sit, dir, open, config, loaded, device, profiles, menu, loaders, failures,
                   missed>>

(***************************************************************************)
(* embloader_load_configs.                                                 *)
(***************************************************************************)
\* Mutant: the files the user may change are read before the fixed ones.
DynamicFirst ==
    <<"config.dynamic.yaml", "config.dynamic.yml", "config.dynamic.json", "config.dynamic.conf",
      "dtbo.txt", "cmdline.txt",
      "config.static.yaml", "config.static.yml", "config.static.json", "config.static.conf">>

FileOrder ==
    <<"config.static.yaml", "config.static.yml", "config.static.json", "config.static.conf",
      "dtbo.txt", "cmdline.txt",
      "config.dynamic.yaml", "config.dynamic.yml", "config.dynamic.json", "config.dynamic.conf">>

File(name) == IF name \in DOMAIN cf.files THEN cf.files[name] ELSE Missing

Str(s) == ValueTree([kind |-> "string", s |-> s])
Bool(b) == ValueTree([kind |-> "bool", b |-> b])
MapOrEmpty(tree) == IF tree.type = "map" THEN tree ELSE MapTree(<<>>)

\* parse_overlay_params: values are set one after the other.  (The name of a
\* parameter is used as a path; here it is one key.  A line whose parameter has
\* a name that is no path is malformed.)
SetParams(overlay, params) ==
    LET set[i \in 0..Len(params)] ==
            IF i = 0 THEN MapOrEmpty(LookupKey(overlay, "params"))
            ELSE WithKey(set[i - 1], params[i].name, Str(params[i].value))
    IN  WithKey(overlay, "params", set[Len(params)])

\* parse_dtoverlay_line: an overlay that is configured already is kept and
\* enabled; its profile is the line's own, or the section's.
StoreOverlay(overlays, line, section) ==
    LET enabled == WithKey(MapOrEmpty(LookupKey(overlays, line.name)), "enabled", Bool(TRUE))
        profile == IF line.profile # None THEN line.profile ELSE section
        scoped == IF profile = None THEN enabled ELSE WithKey(enabled, "profile", Str(profile))
    IN  WithKey(overlays, line.name,
                IF line.params = <<>> THEN scoped ELSE SetParams(scoped, line.params))

\* The lines of dtbo.txt; a [section] sets the profile of those below it.
ReadOverlayLine(t, line) ==
    IF ~t.ok THEN t
    ELSE CASE line.kind = "ignored" -> t
           [] line.kind = "malformed" -> [t EXCEPT !.ok = FALSE]
           [] line.kind = "section" -> [t EXCEPT !.section = line.profile]
           [] line.kind = "overlay" ->
                 [t EXCEPT !.overlays = StoreOverlay(@, line, t.section)]

OverlayLines(tree, lines) ==
    LET read[i \in 0..Len(lines)] ==
            IF i = 0
            THEN [ok |-> TRUE, section |-> None,
                  overlays |-> MapOrEmpty(LookupKey(MapOrEmpty(LookupKey(tree, "devicetree")),
                                                    "overlays"))]
            ELSE ReadOverlayLine(read[i - 1], lines[i])
    IN  read[Len(lines)]

WithOverlays(tree, overlays) ==
    WithKey(tree, "devicetree",
            WithKey(MapOrEmpty(LookupKey(tree, "devicetree")), "overlays", overlays))

\* Mutant: the overlays read before a malformed line are kept.
OverlaysSoFar(tree, lines) ==
    IF tree.type # "map" THEN tree
    ELSE WithOverlays(tree, OverlayLines(tree, lines).overlays)

\* embloader_load_dtbo_config: on a copy of `devicetree`, put in place when
\* every line was understood
LoadDtbo(tree, lines) ==
    IF tree.type # "map" \/ ~OverlayLines(tree, lines).ok THEN tree
    ELSE WithOverlays(tree, OverlayLines(tree, lines).overlays)

\* embloader_load_cmdline_config: the words join the array menu.bootargs
LoadCmdline(tree, words) ==
    LET settings == MapOrEmpty(LookupKey(tree, "menu"))
        bootargs == LookupKey(settings, "bootargs")
        known == IF bootargs.type = "array" THEN bootargs.items ELSE <<>>
    IN  IF tree.type # "map" THEN tree
        ELSE WithKey(tree, "menu",
                     WithKey(settings, "bootargs",
                             ArrayTree(known \o [i \in DOMAIN words |-> Str(words[i])])))

Loads(name, tree) ==
    CASE name = "dtbo.txt" -> LoadDtbo(tree, File(name).lines)
      [] name = "cmdline.txt" -> LoadCmdline(tree, File(name).words)
      [] OTHER -> TreeMerge(tree, File(name).doc)

\* A file that was refused is not counted as loaded.
Accepted(name) ==
    CASE name = "dtbo.txt" -> config.type = "map" /\ OverlayLines(config, File(name).lines).ok
      [] name = "cmdline.txt" -> config.type = "map"
      [] OTHER -> TRUE

LoadFile ==
    /\ pc = "configs" /\ at <= Len(FileOrder)
    /\ File(FileOrder[at]).state = "whole"
    /\ config' = Loads(FileOrder[at], config)
    /\ loaded' = IF Accepted(FileOrder[at]) THEN Append(loaded, FileOrder[at]) ELSE loaded
    /\ at' = at + 1
    /\ UNCHANGED <<sit, pc, dir, open, device, profiles, menu, loaders, failures, missed>>

\* The file is missing or cannot be parsed, or memory runs out while it is
\* read, copied or merged.
SkipFile ==
    /\ pc = "configs" /\ at <= Len(FileOrder)
    /\ \/ File(FileOrder[at]).state # "whole" /\ UNCHANGED failures
       \/ File(FileOrder[at]).state = "whole" /\ OutOfMemory
    /\ at' = at + 1
    /\ UNCHANGED <<sit, pc, dir, open, config, loaded, device, profiles, menu, loaders, missed>>

ConfigsLoaded ==
    /\ pc = "configs" /\ at > Len(FileOrder)
    /\ pc' = "device" /\ at' = 1
    /\ UNCHANGED <<sit, dir, open, config, loaded, device, profiles, menu, loaders, failures,
                   missed>>

(***************************************************************************)
(* embloader_choose_device.                                                *)
(***************************************************************************)
SameText(a, b) == Strcasecmp(a, b) = 0

Holds(oper, found, value) ==
    CASE SameText(oper, "equals") -> SameText(found, value)
      [] SameText(oper, "noteq") -> ~SameText(found, value)
      [] SameText(oper, "contains") -> Strcasestr(found, value)
      [] SameText(oper, "regexp") -> RegexpMatch(value, found)
      [] SameText(oper, "greater") -> Strcasecmp(found, value) > 0
      [] SameText(oper, "less") -> Strcasecmp(found, value) < 0
      [] SameText(oper, "greater-equals") -> Strcasecmp(found, value) >= 0
      [] SameText(oper, "less-equals") -> Strcasecmp(found, value) <= 0
      [] SameText(oper, "older") -> Vercmp(found, value) < 0
      [] SameText(oper, "newer") -> Vercmp(found, value) > 0
      [] OTHER -> FALSE

\* embloader_try_match: a condition that is not complete, or about a field
\* the system information lacks, does not hold.
TryMatch(node) ==
    LET field == GetString(LookupKey(node, "field"), None)
        oper == GetString(LookupKey(node, "oper"), None)
        value == GetString(LookupKey(node, "value"), None)
        found == GetString(Lookup(cf.sysinfo, FieldPath[field.v]), None)
    IN  /\ node.type = "map"
        /\ field.ok /\ oper.ok /\ value.ok
        /\ field.v \in DOMAIN FieldPath /\ found.ok
        /\ Holds(oper.v, found.v, value.v)

TryMatches(node) ==
    node.type = "array" /\ \A i \in DOMAIN node.items : TryMatch(node.items[i])

\* What confignode_foreach visits.
Children(tree) ==
    IF tree.type = "map" THEN [i \in DOMAIN tree.items |-> tree.items[i].node]
    ELSE IF tree.type = "array" THEN tree.items
    ELSE <<>>

\* The leaves of a list of profiles, the only members that count.
ProfileList(tree) ==
    LET leaves == SelectSeq(Children(tree), LAMBDA node : node.type = "value")
    IN  [i \in DOMAIN leaves |-> GetString(leaves[i], None).v]

Devices == Children(LookupKey(config, "devices"))

\* embloader_match_device, when some lookups are lost
MatchedBut(node, lost) ==
    LET match == SeenKey(node, "match", lost)
    IN  /\ GetString(LookupKey(node, "name"), None).ok
        /\ match # Absent => TryMatches(match)

Matched(node) == MatchedBut(node, {})

\* A device whose conditions are not found is taken untested, and it has no
\* profiles when those are not found.
ChooseDevice ==
    /\ pc = "device" /\ at <= Len(Devices)
    /\ \E lost \in SUBSET {"match", "profiles"} :
          /\ MatchedBut(Devices[at], lost) /\ LookupsFail(lost)
          /\ profiles' = ProfileList(SeenKey(Devices[at], "profiles", lost))
          /\ missed' = missed \cup {<<"device", at, key>> : key \in lost}
    /\ device' = GetString(LookupKey(Devices[at], "name"), None).v
    /\ pc' = "settings" /\ at' = 1
    /\ UNCHANGED <<sit, dir, open, config, loaded, menu, loaders>>

\* The device does not match, or memory runs out while its name is read or its
\* profiles are collected.
NextDevice ==
    /\ pc = "device" /\ at <= Len(Devices)
    /\ IF Matched(Devices[at]) THEN OutOfMemory ELSE UNCHANGED failures
    /\ at' = at + 1
    /\ UNCHANGED <<sit, pc, dir, open, config, loaded, device, profiles, menu, loaders, missed>>

\* All devices were tried, or `devices` was not found.
NoDevice ==
    /\ pc = "device"
    /\ \/ at > Len(Devices) /\ UNCHANGED failures
       \/ at = 1 /\ OutOfMemory
    /\ pc' = "settings" /\ at' = 1
    /\ UNCHANGED <<sit, dir, open, config, loaded, device, profiles, menu, loaders, missed>>

(***************************************************************************)
(* embloader_load_menu.                                                    *)
(***************************************************************************)
\* A timeout that does not fit an int is replaced by the default.
TimeoutOf(timeout) == IF timeout \in CIntMin..(-CIntMin - 1) THEN timeout ELSE 10

\* A setting that is not found is the default one.
LoadSettings ==
    LET tree == LookupKey(config, "menu") IN
    /\ pc = "settings"
    /\ \E lost \in SUBSET {"timeout", "save-default", "default"} :
          /\ LookupsFail(lost)
          /\ menu' = [timeout |-> TimeoutOf(GetInt(SeenKey(tree, "timeout", lost), 10).v),
                      save_default |-> GetBool(SeenKey(tree, "save-default", lost), FALSE).v,
                      default_entry |-> GetString(SeenKey(tree, "default", lost), None).v]
    /\ pc' = "menu"
    /\ UNCHANGED <<sit, at, dir, open, config, loaded, device, profiles, loaders, missed>>

\* Without memory for the menu itself there are no entries either.
NoMenu ==
    /\ pc = "settings" /\ OutOfMemory
    /\ pc' = "done" /\ at' = 0
    /\ UNCHANGED <<sit, dir, open, config, loaded, device, profiles, menu, loaders, missed>>

LoaderTypes == {"efisetup", "reboot", "efi", "linux-efi", "linux", "sdboot"}

Active(profile) == \E i \in DOMAIN profiles : profiles[i] = profile

\* The profiles that an entry is allowed or disallowed for
ProfilesFor(node, key) == ProfileList(LookupKey(LookupKey(node, "profiles"), key))

\* Mutant: an entry for several profiles is shown when one of them is active.
AnyProfile(node, key, wanted, lost) ==
    LET list == ProfilesFor(node, key)
    IN  key \in lost \/ list = <<>> \/ \E i \in DOMAIN list : Active(list[i]) = wanted

\* loader_filter_profiles: a list that is not found filters nothing
FilterProfiles(node, key, wanted, lost) ==
    LET list == ProfilesFor(node, key)
    IN  key \in lost \/ \A i \in DOMAIN list : Active(list[i]) = wanted

\* An entry's arguments: unreadable ones drop the entry.
BootargsKey(type) ==
    IF type = "efi" THEN "cmdline"
    ELSE IF type \in {"linux", "linux-efi"} THEN "bootargs"
    ELSE None

BootargsReadable(node, type, lost) ==
    LET bootargs == SeenKey(node, BootargsKey(type), lost)
    IN  BootargsKey(type) = None \/ bootargs = Absent \/ StringList(bootargs).ok

\* loader_is_valid, for an entry of the configuration
LoaderIsValid(node, lost) ==
    LET type == GetString(LookupKey(node, "type"), None).v
        match == SeenKey(node, "match", lost)
    IN  /\ GetString(LookupKey(node, "title"), None).ok
        /\ type \in LoaderTypes \ {"sdboot"}
        /\ type = "efisetup" => cf.setup
        /\ match # Absent => TryMatches(match)
        /\ FilterProfiles(node, "allowed", TRUE, lost)
        /\ FilterProfiles(node, "disallowed", FALSE, lost)

\* embloader_load_loader: the default priority counts the entries so far
Loader(entry, lost) ==
    [name |-> entry.key,
     priority |-> GetInt(SeenKey(entry.node, "priority", lost), Len(loaders) + 1).v,
     type |-> GetString(LookupKey(entry.node, "type"), None).v]

Entries ==
    LET tree == LookupKey(config, "loaders")
    IN  IF tree.type = "map" THEN tree.items ELSE <<>>

AcceptsBut(entry, lost) ==
    /\ entry.node.type = "map"
    /\ LoaderIsValid(entry.node, lost)
    /\ BootargsReadable(entry.node, GetString(LookupKey(entry.node, "type"), None).v, lost)

Accepts(entry) == AcceptsBut(entry, {})

\* What an entry is kept without; "bootargs" and "cmdline" are the same setting.
LoaderKeys == {"priority", "match", "allowed", "disallowed", "bootargs", "cmdline"}

LoadLoader ==
    /\ pc = "menu" /\ at <= Len(Entries)
    /\ \E lost \in SUBSET LoaderKeys :
          /\ AcceptsBut(Entries[at], lost) /\ LookupsFail(lost)
          /\ loaders' = Append(loaders, Loader(Entries[at], lost))
          /\ missed' = missed \cup {<<"menu", at, key>> : key \in lost}
    /\ at' = at + 1
    /\ UNCHANGED <<sit, pc, dir, open, config, loaded, device, profiles, menu>>

\* The entry is not for this device, is not complete, or finds no memory.
DropLoader ==
    /\ pc = "menu" /\ at <= Len(Entries)
    /\ IF Accepts(Entries[at]) THEN OutOfMemory ELSE UNCHANGED failures
    /\ at' = at + 1
    /\ UNCHANGED <<sit, pc, dir, open, config, loaded, device, profiles, menu, loaders, missed>>

\* All entries were read, or `loaders` was not found.
MenuLoaded ==
    /\ pc = "menu"
    /\ \/ at > Len(Entries) /\ UNCHANGED failures
       \/ at = 1 /\ OutOfMemory
    /\ loaders' = SortByPriority(loaders)
    /\ pc' = "done" /\ at' = 0
    /\ UNCHANGED <<sit, dir, open, config, loaded, device, profiles, menu, missed>>

Next ==
    \/ FindFolder \/ FolderNotFound
    \/ LoadFile \/ SkipFile \/ ConfigsLoaded
    \/ ChooseDevice \/ NextDevice \/ NoDevice
    \/ LoadSettings \/ NoMenu \/ LoadLoader \/ DropLoader \/ MenuLoaded
    \/ pc = "done" /\ UNCHANGED vars

Spec == Init /\ [][Next]_vars

(***************************************************************************)
(* Properties.                                                             *)
(***************************************************************************)
\* Every variable is of its type; the menu's timeout is an int.
TypeOK ==
    /\ pc \in {"folder", "configs", "device", "settings", "menu", "done"}
    /\ dir \in DOMAIN cf.volumes \cup {NoVolume}
    /\ menu.timeout \in CIntMin..(-CIntMin - 1)
    /\ menu.save_default \in BOOLEAN
    /\ \A i \in DOMAIN loaders : loaders[i].type \in LoaderTypes /\ InRange(loaders[i].priority)
    /\ failures \in 0..MaxFailures

ConfigsDone == pc \in {"device", "settings", "menu", "done"}

\* The folder is found whenever some volume has one, on the loader's own
\* volume first, and of all the volumes that were tried only its two handles
\* stay open.
FolderHandles ==
    ConfigsDone =>
        LET with == {v \in DOMAIN cf.volumes : cf.volumes[v] = "folder"}
        IN  /\ dir = IF with = {} THEN NoVolume
                     ELSE IF cf.image \in with THEN cf.image
                     ELSE CHOOSE v \in with : \A w \in with : v <= w
            /\ open = IF dir = NoVolume THEN {} ELSE {<<dir, "root">>, <<dir, "dir">>}

\* The files that were loaded and are trees; the words of cmdline.txt are put
\* in like the tree that holds nothing else.
Docs == {i \in DOMAIN loaded : loaded[i] \notin {"dtbo.txt", "cmdline.txt"}}
WordList(words) == ArrayTree([i \in DOMAIN words |-> Str(words[i])])
Doc(i) ==
    IF loaded[i] = "cmdline.txt"
    THEN MapTree(<<Entry("menu", MapTree(<<Entry("bootargs", WordList(File(loaded[i]).words))>>))>>)
    ELSE File(loaded[i]).doc

\* A document that leaves a path to the ones before it: no node on the way
\* down stops being a map.
Leaves(doc, path) ==
    /\ Lookup(doc, path) = Absent
    /\ \A n \in 0..(Len(path) - 1) :
          Lookup(doc, SubSeq(path, 1, n)) = Absent \/ Lookup(doc, SubSeq(path, 1, n)).type = "map"

\* A file the user or a tool may change wins over the fixed ones, and among
\* its kind the one read later.
Changeable(name) == name \in {"config.dynamic.yaml", "config.dynamic.yml",
                              "config.dynamic.json", "config.dynamic.conf"}
Overrides(j, i) ==
    IF Changeable(loaded[i]) = Changeable(loaded[j]) THEN j > i ELSE Changeable(loaded[j])

\* A setting has the value of the file that takes precedence among those that
\* were loaded and set it, whatever files failed in between.
LastFileWins ==
    ConfigsDone =>
        \A i \in Docs : \A r \in Readings(Doc(i)) :
            (/\ \A k \in DOMAIN r[1] : IsKey(r[1][k])
             /\ \A j \in DOMAIN loaded :
                  loaded[j] # "dtbo.txt" /\ Overrides(j, i) => Leaves(Doc(j), r[1])
             /\ r[1] # <<>> => r[1][1] # KeyStep("devicetree"))
            => Lookup(config, r[1]) = ValueTree(r[2])

\* The overlays of dtbo.txt are taken all or none: after a malformed line or
\* a failed allocation no overlay of the file is configured, otherwise every
\* one is, enabled, with its own profile or that of the section it is in.
OverlaysAllOrNothing ==
    (pc = "configs" /\ at = 7) =>
        LET file == File("dtbo.txt")
            section(i) == LET above == {j \in 1..i : file.lines[j].kind = "section"}
                          IN  IF above = {} THEN None
                              ELSE file.lines[CHOOSE j \in above : \A k \in above : k <= j].profile
            node(name) == Lookup(config, <<KeyStep("devicetree"), KeyStep("overlays"), KeyStep(name)>>)
            fixed(name) == \E i \in Docs :
                Lookup(Doc(i), <<KeyStep("devicetree"), KeyStep("overlays"), KeyStep(name)>>) # Absent
        IN  file.state = "whole" =>
              \A i \in DOMAIN file.lines : file.lines[i].kind = "overlay" =>
                LET line == file.lines[i] IN
                IF \E k \in DOMAIN loaded : loaded[k] = "dtbo.txt"
                THEN /\ GetBool(LookupKey(node(line.name), "enabled"), FALSE).v
                     /\ (\A j \in DOMAIN file.lines : j > i => file.lines[j].kind # "overlay"
                                                                \/ file.lines[j].name # line.name)
                        => LET wanted == IF line.profile # None THEN line.profile ELSE section(i)
                           IN  wanted # None =>
                                 GetString(LookupKey(node(line.name), "profile"), None).v = wanted
                ELSE node(line.name) = Absent \/ fixed(line.name)

\* The kernel arguments of all files come in the order the files are read,
\* the words of cmdline.txt between the fixed and the changeable ones.
BootargsInOrder ==
    LET path == <<KeyStep("menu"), KeyStep("bootargs")>>
        list(i) == IF loaded[i] = "dtbo.txt" THEN Absent ELSE Lookup(Doc(i), path)
    IN  (/\ ConfigsDone
         /\ \A i \in DOMAIN loaded :
               IF list(i) # Absent THEN list(i).type = "array"
               ELSE loaded[i] = "dtbo.txt" \/ Leaves(Doc(i), path)
         /\ \E i \in DOMAIN loaded : list(i) # Absent)
        => Lookup(config, path) =
             ArrayTree(FlattenSeq([i \in DOMAIN loaded |->
                                      IF list(i) = Absent THEN <<>> ELSE list(i).items]))

\* The configuration is what the files of the right folder say together, later
\* ones over earlier ones (find_embloader_folder, embloader_load_configs).
FilesInOrder == FolderHandles /\ LastFileWins /\ BootargsInOrder

\* The device and the profiles belong together: they are those of one device
\* of the configuration all of whose conditions hold, the first such one
\* unless memory ran out; profiles of a device that was given up are gone.
\* A lookup that finds no memory is the one exception: a device may be taken
\* untested when its own conditions were not found, or without profiles.
DeviceWhole ==
    pc \in {"settings", "menu", "done"} =>
        \/ device = None /\ profiles = <<>>
              /\ (failures = 0 => \A d \in DOMAIN Devices : ~Matched(Devices[d]))
        \/ \E d \in DOMAIN Devices :
              /\ GetString(LookupKey(Devices[d], "name"), None).v = device
              /\ profiles = ProfileList(IF <<"device", d, "profiles">> \in missed THEN Absent
                                        ELSE LookupKey(Devices[d], "profiles"))
              /\ \/ <<"device", d, "match">> \in missed
                 \/ \A c \in DOMAIN Children(LookupKey(Devices[d], "match")) :
                       TryMatch(Children(LookupKey(Devices[d], "match"))[c])
              /\ failures = 0 => \A e \in 1..(d - 1) : ~Matched(Devices[e])

\* Entry number e is made for the profiles that are active, as far as its lists
\* of profiles were found, and its conditions hold, if they were.
MeantForDevice(e) ==
    LET node == Entries[e].node
        match == LookupKey(node, "match")
    IN  /\ \/ <<"menu", e, "match">> \in missed
           \/ \A c \in DOMAIN Children(match) : TryMatch(Children(match)[c])
        /\ \/ <<"menu", e, "allowed">> \in missed
           \/ ToSet(ProfilesFor(node, "allowed")) \subseteq ToSet(profiles)
        /\ \/ <<"menu", e, "disallowed">> \in missed
           \/ ToSet(ProfilesFor(node, "disallowed")) \cap ToSet(profiles) = {}

\* One entry of the menu stands before another by its priority, and one of the
\* same priority by its place in the configuration.
StandsBefore(a, b) ==
    \/ a.priority < b.priority
    \/ /\ a.priority = b.priority
       /\ \E d, e \in DOMAIN Entries :
             d < e /\ Entries[d].key = a.name /\ Entries[e].key = b.name

\* The menu holds exactly the entries made for this device, each once, by
\* priority and then in the order of the configuration: an entry for other
\* devices shows up only when its own conditions or lists of profiles were not
\* found for want of memory, and memory permitting none is missing.
EntriesForDevice ==
    pc = "done" =>
        LET listed == {loaders[i].name : i \in DOMAIN loaders}
        IN  /\ \A i, j \in DOMAIN loaders :
                  i < j => /\ loaders[i].name # loaders[j].name
                           /\ StandsBefore(loaders[i], loaders[j])
            /\ \A e \in DOMAIN Entries :
                  Entries[e].key \in listed => MeantForDevice(e)
            /\ \A e \in DOMAIN Entries :
                  failures = 0 /\ Accepts(Entries[e]) => Entries[e].key \in listed

\* The device, its profiles and the entries of the menu belong together
\* (embloader_choose_device, embloader_load_menu).
MenuForDevice == TypeOK /\ DeviceWhole /\ EntriesForDevice

=============================================================================
