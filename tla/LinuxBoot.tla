----------------------------- MODULE LinuxBoot ------------------------------
(***************************************************************************)
(* The attempts to start an entry that embloader_try_boot makes one after   *)
(* the other until one of them does not return: embloader_loader_boot_efi,  *)
(* _linux_efi, _linux and sdboot_boot_loader_invoke, with linux_data_load,  *)
(* linux_boot_use_efi, linux_boot_use_aarch64 and embloader_prepare_boot    *)
(* below them.  What an attempt leaves behind (g_embloader.fdt, the device  *)
(* tree in the firmware's configuration table, the registered initramfs,    *)
(* g_embloader.ktype) is where the next one starts.                         *)
(*                                                                          *)
(* Memory is the set of live allocations, each named by its use and the     *)
(* number of the attempt that made it, so that one is never confused with   *)
(* a later one.  Buffers that are allocated and freed within one call of a  *)
(* function of DeviceTree are left out.                                     *)
(***************************************************************************)
EXTENDS DeviceTree, ExitBoot, FiniteSets

CONSTANTS
    Situations,   \* configurations with their disks and entries
    MaxAttempts   \* bound on the number of attempts

ASSUME AttemptsAssumption == MaxAttempts \in Nat \ {0}

\* What the pages and pools of an attempt are allocated for.
Uses == {"firmware", "kernel", "initramfs", "dtb", "gfdt", "fetched", "table",
         "loader", "image", "options", "kernel64", "tree64", "memory64"}
Address == Uses \X Nat

\* The trees that can come from the disks of a configuration: a tree's file is
\* a disk and a path on it, the overlays in it are files on one of the disks,
\* with the parameters of an overlay that the configuration or an entry asks for.
Paths(c) == UNION {DOMAIN c.disk[d] : d \in DOMAIN c.disk}
Files(c) == {<<"firmware">>} \cup ((DOMAIN c.disk) \X Paths(c))
AskedFor(c) ==
    Range(c.overlays)
      \cup UNION {Range(c.entries[e].overlays) : e \in DOMAIN c.entries}
OverlaysOf(c) ==
    UNION {{Applied(c.disk[d], o, f) : o \in AskedFor(c), f \in DOMAIN c.disk[d]} :
             d \in DOMAIN c.disk}
TreeOf(c) == [addr : Address, file : Files(c), ovs : Seq(OverlaysOf(c))]

\* What g_embloader.ktype can be set to.
Ktypes(c) ==
    {c.ktype} \cup UNION {{c.entries[e].version, c.entries[e].ktype} :
                           e \in DOMAIN c.entries}

ASSUME SituationAssumption ==
    \A s \in DOMAIN Situations :
      LET c == Situations[s] IN
      /\ c.profiles \in Seq(Range(c.profiles))
      /\ c.overlays \in Seq(Range(c.overlays))
      /\ c.menuBootargs \in Seq(Range(c.menuBootargs))
      /\ \A i \in DOMAIN c.profiles :
           c.bootargs[c.profiles[i]] \in Seq(Range(c.bootargs[c.profiles[i]]))
      /\ "boot" \in DOMAIN c.disk
      /\ \A e \in DOMAIN c.entries :
           /\ c.entries[e] # None /\ c.entries[e].root \in DOMAIN c.disk
           /\ c.entries[e].initramfs \in Seq(Range(c.entries[e].initramfs))
           /\ c.entries[e].bootargs \in Seq(Range(c.entries[e].bootargs))
           /\ c.entries[e].overlays \in Seq(Range(c.entries[e].overlays))
      /\ \A o \in AskedFor(c) : o.params \in Seq(Range(o.params))
      /\ \A d \in DOMAIN c.disk : \A f \in DOMAIN c.disk[d] :
           LET targets == c.disk[d][f].overrides
           IN  \A p \in DOMAIN targets : targets[p] \in Seq(Range(targets[p]))
      /\ None \notin DOMAIN c.entries \cup Address \cup Paths(c) \cup Files(c)
      /\ None \notin TreeOf(c)

VARIABLES
    sit,        \* the index of the configuration in use; never changes
    attempt,    \* number of attempts made
    pc,         \* where the current one is
    cur,        \* the name of its entry, None for embloader_prepare_boot(NULL)
    mem,        \* live allocations
    data,       \* linux_data: kernel, initramfs, fdt, bootargs
    temps,      \* allocations that belong to the running function
    gfdt,       \* g_embloader.fdt
    table,      \* the device tree in the configuration table
    installed,  \* installed_fdt_allocation
    reg,        \* the LoadFile2 protocol of the initramfs
    hand,       \* initrd_hand
    ktype,      \* g_embloader.ktype
    leaked,     \* initramfs buffers given up to a protocol that stays
    chosen      \* /chosen of the tree copied for a raw Image

vars == <<sit, attempt, pc, cur, mem, data, temps, gfdt, table, installed, reg,
          hand, ktype, leaked, chosen, exit>>

cf == Situations[sit]
entry == IF cur = None THEN None ELSE cf.entries[cur]
Firmware == <<"firmware", 0>>
NoData == [kernel |-> None, initramfs |-> None, fdt |-> None,
           bootargs |-> None]
Addr(use) == <<use, attempt>>
Tree(addr, file) == [addr |-> addr, file |-> file, ovs |-> <<>>]
SourceTree == IF data.fdt # None THEN data.fdt ELSE gfdt
FirmwareTree == Tree(Firmware, <<"firmware">>)
Root == IF cur = None THEN "boot" ELSE entry.root
Disk == cf.disk[Root]
AddrOf(t) == IF t = None THEN {} ELSE {t.addr}

Init ==
    /\ sit \in DOMAIN Situations
    /\ attempt = 0 /\ pc = "idle" /\ cur = None
    /\ mem = {} /\ data = NoData /\ temps = {}
    /\ gfdt = None
    /\ table = IF cf.firmwareTree THEN FirmwareTree ELSE None
    /\ installed = None /\ reg = None /\ hand = FALSE
    /\ ktype = cf.ktype
    /\ leaked = {} /\ chosen = None /\ exit = NotExiting

-----------------------------------------------------------------------------
(***************************************************************************)
(* Starting an attempt                                                      *)
(***************************************************************************)

\* The kernel type of an attempt.  A new round of the menu loop has reset it
\* (embloader_load_ktype), a fallback has not; embloader_loader_boot takes the
\* "ktype" of a configured entry, sdboot_boot_loader_invoke the version.
KtypesOf(e) ==
    IF e.type = "sdboot" /\ e.version # None THEN {e.version}
    ELSE IF e.ktype # None THEN {e.ktype}
    ELSE {ktype, cf.ktype}

\* embloader_loader_boot for an entry.  An entry that is an EFI application
\* goes straight to embloader_start_efi.  A Linux entry is parsed
\* (linux_bootinfo_parse, sdboot_boot_loader_to_linux_bootinfo) and
\* linux_data_load drops a default tree that was loaded for another entry.
BootEntry(name) ==
    LET e == cf.entries[name] IN
    /\ pc = "idle" /\ attempt < MaxAttempts
    /\ attempt' = attempt + 1
    /\ cur' = name
    /\ ktype' \in KtypesOf(e)
    /\ LET drop == e.kernel # None /\ DependsOnLoader(cf.defaultDtb)
       IN  /\ gfdt' = IF drop THEN None ELSE gfdt
           /\ mem' = IF drop THEN mem \ AddrOf(gfdt) ELSE mem
    /\ pc' = IF e.kernel = None THEN "image" ELSE "kernel"
    /\ UNCHANGED <<sit, data, temps, table, installed, reg, hand, leaked,
                   chosen, exit>>

\* The attempt ends before linux_data_load: the entry cannot be parsed, its
\* arguments cannot be prepared, or it is a raw Image on another machine.
BootRefused(name) ==
    /\ pc = "idle" /\ attempt < MaxAttempts
    /\ attempt' = attempt + 1
    /\ ktype' \in {ktype, cf.ktype} \cup KtypesOf(cf.entries[name])
    /\ UNCHANGED <<sit, pc, cur, mem, data, temps, gfdt, table, installed, reg,
                   hand, leaked, chosen, exit>>

\* linux_data_clean, with what the running function frees before it.
CleanUp(more) ==
    /\ mem' = mem \ (more \cup AddrOf(data.fdt)
                     \cup {data.kernel, data.initramfs})
    /\ data' = NoData /\ temps' = {} /\ pc' = "idle" /\ cur' = None
    /\ hand' = FALSE /\ chosen' = None /\ exit' = NotExiting

KeepBoot == UNCHANGED <<sit, attempt, cur, table, installed, reg, hand, ktype,
                        leaked, chosen, exit>>

\* The attempt fails in linux_data_load or after it, before any image is
\* started: goto fail, linux_data_clean.
Abandon(more) ==
    /\ CleanUp(more)
    /\ UNCHANGED <<sit, attempt, gfdt, table, installed, reg, ktype, leaked>>

-----------------------------------------------------------------------------
(***************************************************************************)
(* linux_data_load                                                          *)
(***************************************************************************)

\* linux_load_kernel
LoadKernel ==
    /\ pc = "kernel"
    /\ \/ /\ data' = [data EXCEPT !.kernel = Addr("kernel")]
          /\ mem' = mem \cup {Addr("kernel")}
          /\ pc' = "initramfs"
          /\ UNCHANGED <<temps, gfdt>> /\ KeepBoot
       \/ Abandon({})

\* What the fail label of linux_load_initramfs frees besides the pages.
FilesToFree == temps

\* linux_load_initramfs: one file is read into pages of its own.
ReadInitramfs ==
    /\ pc = "initramfs"
    /\ Len(entry.initramfs) > 0
    /\ \E i \in DOMAIN entry.initramfs :
         /\ i = 1 + Cardinality(temps)
         /\ \/ /\ mem' = mem \cup {<<"file", attempt, i>>}
               /\ temps' = temps \cup {<<"file", attempt, i>>}
               /\ UNCHANGED <<data, gfdt, pc>> /\ KeepBoot
            \/ Abandon(FilesToFree)

\* The files are copied one after the other into one buffer and freed.
JoinInitramfs ==
    /\ pc = "initramfs"
    /\ Cardinality(temps) = Len(entry.initramfs)
    /\ \/ /\ IF temps = {} THEN UNCHANGED <<mem, data>>
             ELSE /\ mem' = (mem \ temps) \cup {Addr("initramfs")}
                  /\ data' = [data EXCEPT !.initramfs = Addr("initramfs")]
          /\ temps' = {} /\ pc' = "bootargs"
          /\ UNCHANGED gfdt /\ KeepBoot
       \/ temps # {} /\ Abandon(FilesToFree)

\* linux_prepare_bootargs: last profile first, then menu.bootargs, then the
\* arguments of the entry.  (Edited by the user or not: of a systemd-boot entry
\* the edited ones count only when the entry has options of its own, so
\* e.bootargs is what sdboot_boot_loader_to_linux_bootinfo makes of both.)
PrepareBootargs(e) ==
    LET ps == Reverse(cf.profiles)
    IN  FlattenSeq([i \in DOMAIN ps |-> cf.bootargs[ps[i]]])
          \o cf.menuBootargs \o e.bootargs

\* linux_load_bootargs
LoadBootargs ==
    /\ pc = "bootargs"
    /\ \/ /\ data' = [data EXCEPT !.bootargs = PrepareBootargs(entry)]
          /\ pc' = "devicetree"
          /\ UNCHANGED <<mem, temps, gfdt>> /\ KeepBoot
       \/ Abandon({})

\* linux_load_devicetree: the tree the entry names must be there.
LoadDevicetree ==
    /\ pc = "devicetree"
    /\ \/ /\ entry.devicetree = None
          /\ pc' = "overlays"
          /\ UNCHANGED <<mem, data, temps, gfdt>> /\ KeepBoot
       \/ /\ entry.devicetree \in DOMAIN Disk
          /\ data' = [data EXCEPT !.fdt = Tree(Addr("dtb"), <<Root, entry.devicetree>>)]
          /\ mem' = mem \cup {Addr("dtb")}
          /\ pc' = "overlays"
          /\ UNCHANGED <<temps, gfdt>> /\ KeepBoot
       \/ entry.devicetree # None /\ Abandon({})

-----------------------------------------------------------------------------
(***************************************************************************)
(* The default tree and the overlays                                        *)
(***************************************************************************)

\* What linux_load_default_dtb frees when it has read the new tree.
ReplacedDefault(g) == AddrOf(g)

\* linux_load_default_dtb with g_embloader.fdt g and memory m: the new g, m
\* and its return value.
LoadDefaultDtb(g, m) ==
    LET drop == DependsOnLoader(cf.defaultDtb)
        g1 == IF drop THEN None ELSE g
        m1 == IF drop THEN m \ AddrOf(g) ELSE m
        file == DefaultDtb(cf, Disk, entry, ktype)
    IN  IF file = None THEN [gfdt |-> g1, mem |-> m1, ok |-> FALSE]
        ELSE [gfdt |-> Tree(Addr("gfdt"), <<Root, file>>),
              mem |-> (m1 \ ReplacedDefault(g1)) \cup {Addr("gfdt")},
              ok |-> TRUE]

\* embloader_fetch_fdt: a copy of the tree in the configuration table.
FetchFdt(g, m) ==
    IF g # None \/ table = None THEN [gfdt |-> g, mem |-> m]
    ELSE [gfdt |-> [table EXCEPT !.addr = Addr("fetched")],
          mem |-> m \cup {Addr("fetched")}]

\* prepare_dtoverlay_fdt: which tree the overlays go to; ok is FALSE when the
\* default tree depends on the entry and is missing, or without memory for a
\* copy of the firmware's tree.
PrepareDtoverlayFdt(oom) ==
    LET d == LoadDefaultDtb(gfdt, mem)
        f == FetchFdt(d.gfdt, d.mem)
    IN  IF data.fdt # None THEN [gfdt |-> gfdt, mem |-> mem, ok |-> TRUE]
        ELSE IF d.ok \/ DependsOnLoader(cf.defaultDtb) THEN d
        ELSE IF oom /\ d.gfdt = None /\ table # None THEN d
        ELSE [gfdt |-> f.gfdt, mem |-> f.mem, ok |-> TRUE]

HasOverlays == entry.overlays # <<>> \/ cf.overlays # <<>>

\* The outcome of linux_load_dtoverlay decides whether linux_data_load goes on.
Continue(ok) == ok \/ cf.skipOverlaysError

\* The tree with the overlays, which are applied in place.
WithOverlays(t) ==
    LET a == ApplyOverlays(cf, Disk, entry, ktype, t.ovs)
    IN  [tree |-> [t EXCEPT !.ovs = a.ovs], ok |-> a.ok]

\* Where a loaded entry goes next.
BootPath(e, g) ==
    IF data.fdt # None \/ g # None
    THEN IF e.type = "linux" THEN "image64" ELSE "install"
    ELSE "prepare"

\* linux_load_dtoverlay, and the end of linux_data_load.  Without memory for
\* the backup that "revert" needs, no overlay is tried.
LoadDtoverlay ==
    /\ pc = "overlays"
    /\ \E oom \in BOOLEAN :
       \E p \in {IF HasOverlays THEN PrepareDtoverlayFdt(oom)
                 ELSE [gfdt |-> gfdt, mem |-> mem, ok |-> TRUE]} :
       \E t \in {IF data.fdt # None THEN data.fdt ELSE p.gfdt} :
       \E r \in {IF ~(HasOverlays /\ p.ok /\ t # None)
                 THEN [tree |-> t, ok |-> p.ok]
                 ELSE IF oom /\ OnError(cf) = "revert"
                 THEN [tree |-> t, ok |-> FALSE]
                 ELSE WithOverlays(t)} :
       LET g == IF data.fdt = None THEN r.tree ELSE p.gfdt
       IN  IF Continue(r.ok)
           THEN /\ gfdt' = g /\ mem' = p.mem
                /\ data' = IF data.fdt = None THEN data
                           ELSE [data EXCEPT !.fdt = r.tree]
                /\ pc' = BootPath(entry, g)
                /\ UNCHANGED temps /\ KeepBoot
           ELSE /\ gfdt' = g
                /\ mem' = p.mem \ (AddrOf(data.fdt)
                                   \cup {data.kernel, data.initramfs})
                /\ data' = NoData /\ pc' = "idle" /\ cur' = None
                /\ UNCHANGED <<sit, attempt, temps, table, installed, reg, hand,
                               ktype, leaked, chosen, exit>>

\* embloader_prepare_boot up to the installation: the default tree or the one
\* of the firmware, with the configured overlays.  Memory may be missing for
\* the copy of the firmware's tree or for the backup that "revert" needs.
PrepareTree ==
    /\ pc = "prepare"
    /\ \E oom \in BOOLEAN :
       \E d \in {LoadDefaultDtb(gfdt, mem)} :
       LET missing == ~d.ok /\ DependsOnLoader(cf.defaultDtb)
           f == IF missing \/ oom THEN d ELSE FetchFdt(d.gfdt, d.mem)
           stop == missing \/ f.gfdt = None \/ (oom /\ OnError(cf) = "revert")
       IN  \E r \in {IF stop THEN [tree |-> f.gfdt, count |-> -1]
                     ELSE LET l == LoadDtbos(cf, Disk, entry, ktype, f.gfdt.ovs)
                          IN  [tree |-> [f.gfdt EXCEPT !.ovs = l.ovs],
                               count |-> l.count]} :
           LET revert == ~stop /\ r.count = -1 /\ OnError(cf) = "revert"
           IN  /\ gfdt' = IF revert THEN f.gfdt ELSE r.tree
               /\ mem' = f.mem
               /\ pc' = IF r.count >= 0 \/ revert THEN "installPrepared"
                        ELSE "unprepared"
    /\ UNCHANGED <<data, temps>> /\ KeepBoot

\* embloader_prepare_boot failed: linux_boot_use_efi goes on without a tree
\* of its own, linux_boot_use_aarch64 and the caller without an entry do not.
Unprepared ==
    /\ pc = "unprepared"
    /\ IF cur # None /\ entry.type # "linux"
       THEN /\ pc' = "register"
            /\ UNCHANGED <<mem, data, temps, gfdt>> /\ KeepBoot
       ELSE IF cur # None THEN Abandon({})
       ELSE /\ pc' = "returned"
            /\ UNCHANGED <<mem, data, temps, gfdt>> /\ KeepBoot

\* Mutant: the copy in the table is freed although it could not be replaced.
FreeInstalled == mem \ {installed}

\* Memory when InstallConfigurationTable has failed.
AfterFailedInstall == mem

\* linux_install_fdt: a copy, fixed up by the firmware, goes into the table
\* and then the copy installed before is freed.  On every failure the new
\* copy is freed; linux_boot_use_efi gives up, embloader_prepare_boot reports.
InstallFdt ==
    /\ pc \in {"install", "installPrepared"}
    /\ LET t == SourceTree
       IN  \/ /\ table' = [t EXCEPT !.addr = Addr("table")]
              /\ installed' = Addr("table")
              /\ mem' = (mem \ {installed}) \cup {Addr("table")}
              /\ pc' = IF cur = None THEN "returned"
                       ELSE IF entry.type = "linux" THEN "image64"
                       ELSE "register"
           \/ /\ mem' = AfterFailedInstall
              /\ pc' = IF pc = "install" THEN "clean" ELSE "unprepared"
              /\ UNCHANGED <<table, installed>>
    /\ UNCHANGED <<sit, attempt, cur, data, temps, gfdt, reg, hand, ktype,
                   leaked, chosen, exit>>

\* embloader_show_menu without a complete entry prepares the tree for the
\* next boot loader and returns to the firmware.
PrepareOnly ==
    /\ pc = "idle" /\ attempt = 0
    /\ DOMAIN cf.entries = {}
    /\ attempt' = 1 /\ pc' = "prepare"
    /\ UNCHANGED <<sit, cur, mem, data, temps, gfdt, table, installed, reg,
                   hand, ktype, leaked, chosen, exit>>

-----------------------------------------------------------------------------
(***************************************************************************)
(* Starting an EFI image                                                    *)
(***************************************************************************)

\* Mutant: the kernel is started although its initramfs is not registered.
StartUnregistered == "image"

\* Where linux_boot_use_efi goes when the registration fails.
AfterFailedRegister == "clean"

\* linux_initramfs_register: a protocol that is there already is an error.
Register ==
    /\ pc = "register"
    /\ \/ /\ data.initramfs = None
          /\ pc' = "image"
          /\ UNCHANGED <<mem, reg, hand>>
       \/ /\ data.initramfs # None /\ reg = None
          /\ reg' = [addr |-> data.initramfs, loader |-> Addr("loader"),
                     files |-> entry.initramfs]
          /\ mem' = mem \cup {Addr("loader")}
          /\ hand' = TRUE /\ pc' = "image"
       \/ /\ data.initramfs # None
          /\ pc' = AfterFailedRegister
          /\ UNCHANGED <<mem, reg, hand>>
    /\ UNCHANGED <<sit, attempt, cur, data, temps, gfdt, table, installed,
                   ktype, leaked, chosen, exit>>

\* embloader_start_efi: LoadImage, the test of the image type and the load
\* options; a failure unloads the image and frees the options.
LoadImage ==
    /\ pc = "image"
    /\ \/ /\ temps' = {Addr("image"), Addr("options")}
          /\ mem' = mem \cup temps'
          /\ pc' = "start"
       \/ /\ pc' = "unregister"
          /\ UNCHANGED <<mem, temps>>
    /\ UNCHANGED <<data, gfdt>> /\ KeepBoot

\* The kernel has called ExitBootServices, or the loader has.
OsTakesOver ==
    /\ pc = "start" \/ (pc = "handoff" /\ exit.at = "done")
    /\ pc' = "os"
    /\ UNCHANGED <<mem, data, temps, gfdt>> /\ KeepBoot

\* StartImage comes back: refused, or from an application that ended, whose
\* image the firmware has unloaded then.
ImageReturns ==
    /\ pc = "start"
    /\ \/ UNCHANGED <<mem, temps>>
       \/ /\ mem' = mem \ {Addr("image")}
          /\ temps' = temps \ {Addr("image")}
    /\ pc' = "stop"
    /\ UNCHANGED <<data, gfdt>> /\ KeepBoot

AfterUnload == {}

\* The fail label of embloader_start_efi: the options are freed and the image
\* is unloaded, which the firmware refuses for a handle that is gone.
UnloadImage ==
    /\ pc = "stop"
    /\ mem' = mem \ temps
    /\ temps' = AfterUnload
    /\ pc' = "unregister"
    /\ UNCHANGED <<data, gfdt>> /\ KeepBoot

\* data->initramfs after an unregistration that failed.
InitramfsKept == None

\* linux_initramfs_unregister, only for a protocol this attempt registered.
Unregister ==
    /\ pc = "unregister"
    /\ pc' = "clean"
    /\ \/ ~hand /\ UNCHANGED <<mem, data, reg, hand, leaked>>
       \/ /\ hand
          /\ mem' = mem \ {reg.loader}
          /\ reg' = None /\ hand' = FALSE
          /\ UNCHANGED <<data, leaked>>
       \/ /\ hand
          /\ leaked' = leaked \cup {data.initramfs, reg.loader}
          /\ data' = [data EXCEPT !.initramfs = InitramfsKept]
          /\ hand' = FALSE
          /\ UNCHANGED <<mem, reg>>
    /\ UNCHANGED <<sit, attempt, cur, temps, gfdt, table, installed, ktype,
                   chosen, exit>>

\* The caller of linux_boot_use_efi: linux_data_clean, and the status goes
\* to embloader_try_boot.
Clean == pc = "clean" /\ Abandon({})

-----------------------------------------------------------------------------
(***************************************************************************)
(* Starting a raw Image: linux_boot_use_aarch64                             *)
(***************************************************************************)

\* The tree of the firmware may describe an initramfs of an earlier stage.
ChosenOf(t) ==
    [bootargs |-> None,
     initrd |-> IF t.file = FirmwareTree.file THEN Firmware ELSE None]

\* linux_fdt_fill_initrd: the properties are set or deleted.
FillInitrd(c, addr) == [c EXCEPT !.initrd = addr]

\* linux_fdt_fill_bootargs
FillBootargs(c, args) == [c EXCEPT !.bootargs = args]

\* The buffers of linux_boot_use_aarch64, in the order in which it makes
\* them: the kernel at its place (prepare_kernel), the copy of the tree and
\* the memory map.  The done label frees those that were made.
Buffers64 == <<"kernel64", "tree64", "memory64">>

PrepareImage ==
    /\ pc = "image64"
    /\ \E i \in DOMAIN Buffers64 :
         /\ temps = {Addr(Buffers64[j]) : j \in 1..(i - 1)}
         /\ \/ /\ temps' = temps \cup {Addr(Buffers64[i])}
               /\ mem' = mem \cup temps'
               /\ pc' = IF i = Len(Buffers64) THEN "handoff" ELSE pc
               /\ chosen' = IF Buffers64[i] # "tree64" THEN chosen
                            ELSE FillInitrd(FillBootargs(ChosenOf(SourceTree),
                                                         data.bootargs),
                                            data.initramfs)
               /\ UNCHANGED <<sit, attempt, cur, data, gfdt, table, installed,
                              reg, hand, ktype, leaked, exit>>
            \/ Abandon(temps)

\* invoke_boot: linux_exit_boot_services runs.
Handoff ==
    /\ pc = "handoff"
    /\ IF exit.at = "off" THEN StartExit ELSE ExitStep
    /\ UNCHANGED <<sit, attempt, pc, cur, mem, data, temps, gfdt, table,
                   installed, reg, hand, ktype, leaked, chosen>>

HandoffFails == pc = "handoff" /\ exit.at = "failed" /\ Abandon(temps)

-----------------------------------------------------------------------------
Next ==
    \/ \E e \in DOMAIN cf.entries : BootEntry(e) \/ BootRefused(e)
    \/ LoadKernel \/ ReadInitramfs \/ JoinInitramfs \/ LoadBootargs
    \/ LoadDevicetree \/ LoadDtoverlay \/ PrepareTree \/ Unprepared
    \/ InstallFdt \/ PrepareOnly \/ Register \/ LoadImage \/ OsTakesOver
    \/ ImageReturns \/ UnloadImage \/ Unregister \/ Clean \/ PrepareImage \/ Handoff
    \/ HandoffFails

Spec == Init /\ [][Next]_vars

-----------------------------------------------------------------------------
(***************************************************************************)
(* Properties                                                               *)
(***************************************************************************)

\* The overlay is in OverlaysOf(c), looked for by its file.
OverlayFrom(c, ov) ==
    \E d \in DOMAIN c.disk, o \in AskedFor(c) :
      ov.file \in DOMAIN c.disk[d] /\ ov = Applied(c.disk[d], o, ov.file)

\* The variables hold values of their types.
TypeOK ==
    /\ sit \in DOMAIN Situations /\ attempt \in 0..MaxAttempts
    /\ cur \in DOMAIN cf.entries \cup {None}
    /\ DOMAIN data = {"kernel", "initramfs", "fdt", "bootargs"}
    /\ \A t \in {gfdt, table, data.fdt} \ {None} :
          /\ t.addr \in Address /\ t.file \in Files(cf)
          /\ \A i \in DOMAIN t.ovs : OverlayFrom(cf, t.ovs[i])
    /\ hand \in BOOLEAN
    /\ temps \subseteq mem

\* No pointer outlives what it points to: the buffers of linux_data, the
\* trees of the loader and of the firmware's table, and the initramfs that a
\* registered protocol hands out are live allocations, at every step of
\* every attempt (linux_data_clean, linux_install_fdt, linux_boot_use_efi).
HeldIsLive ==
    /\ {data.kernel, data.initramfs} \ {None} \subseteq mem
    /\ AddrOf(data.fdt) \cup AddrOf(gfdt) \subseteq mem
    /\ AddrOf(table) \subseteq mem \cup {Firmware}
    /\ {installed} \ {None} \subseteq mem
    /\ reg # None => {reg.addr, reg.loader} \subseteq mem

\* An attempt that comes back has freed everything but the loader's tree, the
\* copy in the table and the initramfs of a protocol that could not be
\* removed, whichever of its steps failed.
NothingLost ==
    pc \in {"idle", "returned"} =>
        mem = AddrOf(gfdt) \cup ({installed} \ {None}) \cup leaked

\* Memory is accounted for through every failure of every attempt: nothing is
\* freed while it is referred to, and nothing else stays.
MemoryAccounted == TypeOK /\ HeldIsLive /\ NothingLost

Starting == pc \in {"start", "handoff"} /\ entry.kernel # None

\* The kernel is offered the initramfs of its own entry, all its files in
\* their order, or none; a protocol left by an earlier attempt is met only
\* by an entry without an initramfs (linux_initramfs_register).
OwnInitramfs ==
    Starting /\ entry.type # "linux" /\ reg # None =>
        \/ reg.files = entry.initramfs /\ reg.addr = data.initramfs
        \/ entry.initramfs = <<>> /\ reg.addr \in leaked

\* The tree the kernel is given: the table's, or the copy of the raw Image.
GivenTree == IF entry.type = "linux" THEN SourceTree ELSE table

\* It was read from a file in this attempt (and, for an EFI stub, installed).
ReadNow ==
    /\ SourceTree # None
    /\ SourceTree.addr \in {Addr("dtb"), Addr("gfdt")}
    /\ entry.type # "linux" => table # None /\ table.addr = Addr("table")

\* The overlay was applied by file f.
Directories == ResolvePath(cf, entry, ktype, cf.dtboDir)
AppliedAs(o, f) ==
    LET fs == OverlayFiles(o, Directories) IN \E i \in DOMAIN fs : fs[i] = f
Wanted == ConfiguredOverlays(cf) \o entry.overlays
AppliedFiles == {GivenTree.ovs[i].file : i \in DOMAIN GivenTree.ovs}

\* A tree read for this attempt carries overlays the configuration or this
\* entry asks for, each of them once, in that order, and the error policy
\* kept its word: "failure" means all of them, "needone" at least one,
\* "revert" all or none (linux_load_dtoverlay, linux_load_dtbos).
PolicyKept ==
    Starting /\ ReadNow =>
      LET wanted == Wanted
          files == AppliedFiles
          ovs == GivenTree.ovs
          all == \A i \in DOMAIN wanted : \E f \in files : AppliedAs(wanted[i], f)
      IN  /\ Len(ovs) <= Len(wanted)
          /\ \A f \in files : \E i \in DOMAIN wanted : AppliedAs(wanted[i], f)
          /\ OnError(cf) = "failure" /\ ~cf.skipOverlaysError => all
          /\ OnError(cf) = "needone" /\ ~cf.skipOverlaysError /\ wanted # <<>> =>
                ovs # <<>>
          /\ OnError(cf) = "revert" => ovs = <<>> \/ all

\* An overlay with parameters is applied only when every parameter reached
\* every one of its targets (linux_dtbo_write_overrides, do_load_dtbo).
ParametersReachTargets ==
    Starting /\ ReadNow =>
        LET wanted == Wanted
            ovs == GivenTree.ovs
        IN  \A k \in DOMAIN ovs :
            LET ov == ovs[k]
            IN  \E i \in DOMAIN wanted :
                  /\ AppliedAs(wanted[i], ov.file)
                  /\ \A j \in DOMAIN wanted[i].params :
                       LET p == wanted[i].params[j]
                           targets == Disk[ov.file].overrides
                           ts == targets[p.name]
                       IN  /\ p.name \in DOMAIN targets
                           /\ \A t \in DOMAIN ts : \E w \in DOMAIN ov.cells :
                                 ov.cells[w].target = ts[t]

\* The tree of this attempt has the overlays that were asked for, with their
\* parameters, or as the error policy says without them.
OverlayPolicy == PolicyKept /\ ParametersReachTargets

\* A raw Image is told of its own arguments and initramfs, never of the one an
\* earlier stage left in the tree (linux_fdt_fill_bootargs, _initrd).
OwnChosen ==
    pc = "handoff" => /\ chosen.bootargs = PrepareBootargs(entry)
                      /\ chosen.initrd = data.initramfs
                      /\ data.initramfs # None <=> entry.initramfs # <<>>

\* The path of the default tree has the variable.
PathHas(var) == cf.defaultDtb # None /\ Contains(cf.defaultDtb, var)

\* The paths of the default tree for an entry and a kernel type, and the file
\* of the last profile that has one on the entry's disk.
DefaultPaths(e, k) == ResolvePath(cf, e, k, cf.defaultDtb)
HasDefault == \E path \in Range(DefaultPaths(entry, ktype)) : path \in DOMAIN Disk
IsDefaultFor(file, e, k) ==
    LET ps == DefaultPaths(e, k) IN
    \E i \in DOMAIN ps :
      /\ file = <<e.root, ps[i]>> /\ ps[i] \in DOMAIN cf.disk[e.root]
      /\ \A j \in DOMAIN ps : j > i => ps[j] \notin DOMAIN cf.disk[e.root]

\* The file is the firmware's, the own tree of an entry, or the default one for
\* an entry on another disk or for another kernel type.
IsLeftOver(file) ==
    \/ file = FirmwareTree.file
    \/ \E n \in DOMAIN cf.entries :
         LET e == cf.entries[n] IN
         \/ file = <<e.root, e.devicetree>>
         \/ /\ e.root # entry.root \/ PathHas("{ktype}")
            /\ \E k \in Ktypes(cf) : IsDefaultFor(file, e, k)

\* The kernel is given the tree its entry names, wherever earlier attempts left
\* theirs.  An entry that names none is given, as far as this attempt prepares
\* one, the default tree for this entry, this machine and this kernel type,
\* and no other if {version} is in its path.  Otherwise it is given a tree that
\* is no default of its own only if that one is not on the disk, or nobody
\* asks for overlays: linux_boot_use_efi takes what is in g_embloader.fdt then,
\* which can differ from the own default tree by the kernel type, by the disk,
\* or by being no default tree (linux_data_load, linux_load_default_dtb).
OwnTree ==
    Starting /\ GivenTree # None =>
      IF entry.devicetree # None
      THEN GivenTree.file = <<entry.root, entry.devicetree>>
      ELSE entry.type = "linux" \/ GivenTree.addr = Addr("table") =>
             \/ IsDefaultFor(GivenTree.file, entry, ktype)
             \/ /\ ~PathHas("{version}")
                /\ ~HasDefault \/ ~HasOverlays
                /\ IsLeftOver(GivenTree.file)

\* The arguments stand in the command line after its first k.
StandAfter(args, k) ==
    /\ k + Len(args) <= Len(data.bootargs)
    /\ \A m \in DOMAIN args : data.bootargs[k + m] = args[m]

\* The command line has the arguments of all profiles, those of the first
\* profile closest to the end, then the menu's and the entry's, whole and in
\* this order (a kernel takes the last of two settings of one parameter).
BootargsPriority ==
    Starting =>
        LET c == cf
            Of(i) == c.bootargs[c.profiles[i]]
            end == Len(data.bootargs) - Len(entry.bootargs)
            menu == end - Len(c.menuBootargs)
        IN  /\ StandAfter(entry.bootargs, end)
            /\ StandAfter(c.menuBootargs, menu)
            /\ \E at \in [DOMAIN c.profiles -> 0..Len(data.bootargs)] :
                 \A i \in DOMAIN c.profiles :
                    /\ StandAfter(Of(i), at[i])
                    /\ at[i] + Len(Of(i)) <= menu
                    /\ \A j \in DOMAIN c.profiles :
                          i < j => at[j] + Len(Of(j)) <= at[i]

\* A kernel is started with the initramfs and the arguments of its own entry,
\* through the protocol, the load options or /chosen, and not with those of an
\* attempt that failed before it.
OwnInput == OwnInitramfs /\ OwnChosen /\ BootargsPriority

-----------------------------------------------------------------------------
(***************************************************************************)
(* What the repository says and the code does not keep                      *)
(***************************************************************************)

\* docs/zh/embloader.md: the next boot loader need not handle the tree,
\* because the default one has been chosen and loaded before.  When
\* embloader_prepare_boot(NULL) installs a tree and the default one is
\* there, it is the default one.
NextLoaderGetsTree ==
    (/\ pc = "returned" /\ installed # None
     /\ cf.defaultDtb # None /\ cf.defaultDtb \in DOMAIN Disk)
        => table.file = <<"boot", cf.defaultDtb>>

=============================================================================
