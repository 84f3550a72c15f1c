# embloader in TLA+

embloader is a UEFI boot loader for embedded boards. It runs alone on one CPU
before any operating system: there are no threads and no messages. What makes
it hard is everything around that one thread of control:

* it keeps state in non-volatile EFI variables that an operating system wrote in
  an earlier power cycle and that survive a power loss between any two writes;
* every firmware service it calls (variables, files, memory) may fail, and most
  failures are tolerated and the program goes on with less;
* images it starts may return, fail, hang until a watchdog fires, or never
  return, and the program has to go on sensibly after each;
* several sources of configuration override one another, in an order that is
  only visible in the code.

## The system and its parts

| part | state | operations | interacts with |
|---|---|---|---|
| boot menu loop (`main/main.c`, `menu/menu.c`, `loader/loader.c`) | `g_embloader.menu` (entries, timeout, default), `g_embloader.ktype`, the watchdog | `efi_main`, `embloader_show_menu`, `embloader_try_boot`, `embloader_loader_boot` | everything below |
| Boot Loader Interface (`sdboot/variables.c`, `lib/variables.c`) | `Loader*` EFI variables; statics `entry_last_booted`, `entry_oneshot_selected`, `save_last_booted`, `menu_variables_initialized` | `sdboot_init_menu_variables`, `sdboot_set_selected_entry` | changes the menu's timeout and default before the loop; called back before every boot |
| menu front ends (`menu/menus/*`, `lib/readline.c`) | selected item, countdown, escape sequence state | `embloader_{text,tui,gui,hii}_menu_start` | called by the loop, return an entry and flags |
| systemd-boot menu (`sdboot/{menu,file,parser,types,base}.c`) | `g_embloader.sdboot` (settings, entries), the list of pending menu items | `sdboot_boot_load_menu` and below | adds entries, timeout and default to the menu |
| extlinux menu (`main/extlinux.c`) | entries | `embloader_extlinux_load_menu` | adds entries |
| configuration tree and files (`configfile/*`) | nodes with parent pointers, child lists, keys and indexes | create, attach, replace, copy, merge, path lookup, load and save | holds the configuration; read by all parts |
| configuration of the machine (`main/{config,dir,device,match,cmdline,dtbo}.c`, `menu/menu.c`) | `g_embloader.config`, `dir`, `device_name`, `profiles` | `find_embloader_folder`, `embloader_load_configs`, `embloader_choose_device`, `embloader_load_menu` | decides which entries, overlays and kernel types apply |
| Linux boot path (`linux/*`, `loader/*`, `sdboot/boot.c`, `main/resolve.c`) | kernel, initramfs and device tree buffers, `g_embloader.fdt`, the firmware's table, the LoadFile2 protocol | `linux_data_load`, `linux_boot_use_efi`, `linux_boot_use_aarch64`, `embloader_prepare_boot` | started by the entries |
| log (`log/*`) | stored messages, backends, delivery marks | `log_print`, `log_init`, flush | called by all parts |
| linked list (`lib/list.c`) | `prev`/`next` pointers | add, insert, remove, sort | used by all parts |
| SMBIOS, encodings, file and string helpers | none of their own | conversions | |

## What is hard here

PROJECT.json lists the hazards with their lines. They fall into five groups:
non-volatile writes cut short by power loss or refused by the firmware;
values that are cached, passed on by name, or left over from an earlier boot
attempt; sources of configuration that override one another; loops that must
end without a user; and steps that fail half way through a compound change.

## Modules

**BootEntries** is the menu as a value, a sequence of entries, and the searches
of `menu.c`, `loader.c` and `sdboot/variables.c` over it. NULL is position 0.

**LoaderInterface** has the EFI variables and the statics of
`sdboot/variables.c`. `sdboot_init_menu_variables` is four actions, cut at its
writes to non-volatile memory (`ReadConfigTimeout`, `ConsumeTimeoutOneShot`,
`ConsumeEntryOneShot`, `SelectEntry`), so that power can fail between any two.
With `FirmwareFaults` every variable service may fail, and so may memory
allocation in the selection.

**BootMenu** composes them into a machine over any number of power cycles.
`pc` is where `efi_main` is. One action per step of `embloader_show_menu`
(`PrepareOnly`, `BootHidden`, `ShowMenu`), of the front ends (`MenuTimeout`,
`MenuEnter`, `MenuSelect`, `MenuKey`, `MenuLeave`, `TuiReset`), of
`embloader_try_boot` and `embloader_loader_boot` (`StartEntry`, `Fallback`,
`TryBootReturns`), of the images (`OsTakesOver`, `ResetEntry`), and of the
environment (`WatchdogFires`, `PowerLoss`, `Reboot`, `OsSetsVariable`). The
variables after "only observes" are history variables: no guard reads them.

**BootMenuProofs** holds the theorems, **MCBootMenu** the small machines.

**MenuOrder** is `embloader_sort_menu_loaders` as an operator, a stable sort by
priority, and what is selected from a list without changing its order. LinkedList shows
that `list_sort` is such a sort.

**SdbootParser** is what one line, and a whole file, does to a `sdboot_boot_menu`
(loader.conf) or a `sdboot_boot_loader` (an entry file), error status by error
status. **SdbootOrder** is the comparison of entries and the priorities that
`sdboot_items_prepare` counts out. **SdbootMenu** is `sdboot_boot_load_menu`.
`pc` is where the search is: the current partition, the previous one, the list
of handles; in a partition (`dir`, with `back` as the return address) loader.conf,
the entries folder file by file (`file`, `pending`), the settings; at last the
items of the menu. `sdboot_check_fs` is called at most once for a partition, so that the
constant `folder` of a partition is the outcome of that call, a failed one included. Every call may fail with a status of `Faults`. The code's
staging (a file is parsed into a copy, a folder into a list of its own) is visible
as what a failing action leaves unchanged. `visited`, `confs` and `lost` are
history. `efi_main` goes on after `EFI_NOT_FOUND` and `EFI_UNSUPPORTED` and
returns on every other error. **SdbootProofs** holds the theorems, **MCSdbootMenu**
the disks.

**Extlinux** is `embloader_extlinux_load_menu`. The lines of the file are chosen
while it is parsed, so a run looks at every file over its alphabet. `parser` is
`struct extlinux_parser`; one action parses a line, one publishes, one loads an
entry. What the file says is stated a second time, reading it as a whole (last
line of a keyword, lines of a label), and the properties compare the menu with
that. Two differences from the systemd-boot menu are in the code and in the model:
`PROMPT` and `MENU HIDDEN` apply even if `menu.timeout` is configured, and the
default of extlinux.conf replaces one that loader.conf has set. **ExtlinuxProofs**,
**MCExtlinux**: as above.

**ListSpec** is what the users of `lib/list.c` rely on: a few sequences, and for each
function of the library what it does to the sequence of the list it is called for, at which
place. **LinkedList**
is the code: `heap` maps items to their `prev`, `next` and `data`, `lst` holds the
callers' pointers, which may point anywhere in their list, and `sort` is the state
of a running `list_sort`, one comparison per action. `Implements` is the refinement
of ListSpec, with the sequence of a list read off its pointers, and `SameCall`: a call of
a function with its arguments is the operation of ListSpec of that name with those
arguments, so that an item put in front of the last one, or into another list, does not
pass for another operation. A
comparison of `list_sort` that swaps is `Settle`, two neighbours that are out of
order change places; one that does not is a stutter.
**MCLinkedList**: as above.

**Recursion** is for the proofs: what is defined by recursion over a number or a
sequence, and induction over a finite set, both from the least element of a set of
numbers (`LeastMember`, `SetInduction`, `Iteration`, `FlattenIsSeq`, `FlattenBlocks`);
and what the operators of MenuOrder give: the one list of a finite set that an order
has (`ListsUnique`, `AscendingOnly`), and a sort as such a list (`SortLists`).

**DeviceTree** has what finds and changes a device tree as operators on values:
the variables of a path and the order of what it resolves to, the default tree,
the parameters of an overlay and where they are written, and the overlay lists
with their error policy (`ConfiguredLoop`, `OwnLoop` go over a list, overlay by
overlay; `RevertTo` is what a failure leaves). **ExitBoot** is the loop that gets the memory map and leaves
the firmware, with events of the firmware changing the map between its two calls.
**LinuxBoot** composes them into the boot attempts of one power cycle: EFI programs,
EFI-stub kernels, raw Images and systemd-boot entries, and the call without an entry
that prepares for the next boot loader. `pc` follows
`linux_data_load` (`LoadKernel`, `ReadInitramfs`, `JoinInitramfs`, `LoadBootargs`,
`LoadDevicetree`, `LoadDtoverlay`), `embloader_prepare_boot` (`PrepareTree`,
`InstallFdt`), the start (`Register`, `LoadImage`, `OsTakesOver`, `ImageReturns`,
`UnloadImage`, `Unregister`, or `PrepareImage` and `Handoff`) and `linux_data_clean` (`Clean`); every
step can fail and then takes the code's own way out. Memory is the set of live
allocations; `gfdt`, `table`, `installed`, `reg`, `hand` and `ktype` survive an
attempt, and what the next one makes of them is the question. **LinuxBootProofs** holds
the theorems, **MCLinuxBoot** the machines.

**MemoryMap** is `load_memory_map` and the search for a place in
`allocate_legacy_kernel_pages`, descriptor by descriptor: collect, sort by insertion,
merge in place. It is a module of its own because every map is an initial state; its
theorems are in LinuxBootProofs, next to those of the boot path that calls it.

**ConfigSpec** is what a configuration tree means: trees as values, lookup, readings
as integers, booleans and strings, and the merge as a function. `Trees` are the trees of
at most `Levels` levels; the merge and the readings are functions, level by level.
**ConfigTree** is the library on a heap of nodes. A call of it is one action and may run out of memory at
any of its allocations (`left`, chosen from `Budgets`). What the code does by recursion
(`Copy`, `MergeInPlace`, `Build`) is a function of the level: `Copying[k]` maps a heap, the
allocations left and a node to what `confignode_copy` makes of it, and takes the copies of the
children from `Copying[k - 1]`. **TreeProofs** holds the theorems. **ConfigFiles** reads a
tree off the heap as a value of ConfigSpec, has paths written out and the `.conf` format in both
directions, and checks the heap against ConfigSpec: a merge on the heap is the merge of the
values or nothing. **MCConfigTree** is the small instance of both. **Configuration**
is `efi_main` from the search for the folder to the sorted menu. It works on
the values of ConfigSpec, one action per volume, file, device and entry, any of
which may run out of memory. That can drop the file, device or entry, or, in
`confignode_path_lookup`, make a key count as absent that is there (`LookupsFail`); the
history variable `missed` has the lookups of the device and of the menu's entries that did. **ConfigurationProofs** holds the theorems, and the lemmas
about merging and reading trees.

**Log** is the store of messages and its backends. `room[b]` is the number of writes
that backend `b` still accepts and changes at any time, so that a backend fails and
recovers between two messages, inside one, and while `log_init` logs about itself. A
message has `good` pieces in front of the first text that a backend with an encoding of
its own cannot convert.
`sent` and `acked` are history. **LibraryProofs** holds the theorems of LinkedList and Log,
the two parts that all others use.

Operators whose comment starts with "Mutant" are not used by any specification:
each is a plausible mistake in the definition below it, kept to show that the
properties notice.

## Runs

Larger invariants are conjunctions of named parts, each with its own comment.

| run | asks | bounds |
|---|---|---|
| `saved_entry` | Are one-shot requests used once, and do `LoaderEntryLastBooted`, its cached copy, `LoaderEntrySelected` and `LoaderEntries` agree, with power failing anywhere and any variable service refused? | two entries, any number of power cycles |
| `unattended` | Do configured, lasting and one-shot timeouts show or hide the menu as asked in three front ends; is the promised entry started first; which chains of rescue and next entries start an entry twice, and does an unattended machine get somewhere in all others? | timeouts below, at and above both integer limits; up to four entries, a rescue entry after its entry, before it with and without `menu.try-next-on-failure`, and none |
| `sdboot` | Are partitions loaded once and in order, files and folders whole or not at all, the menu untouched when nothing was found; do the settings of partitions and configuration come together; are the entries in order; does the search end? | up to three partitions, repeated handles, every call failing with four statuses; all triples of 14 entries |
| `extlinux` | Unique names, the right default, entries and settings, all or nothing | every file of 4 to 6 lines over four alphabets |
| `linked_list` | No dangling pointer, both directions agree, refinement of ListSpec, `list_sort` ends and is stable | four items, two lists, two data |
| `linux_boot` | Is memory freed once and never while referred to; does a kernel get its own initramfs, arguments and overlays whatever failed before; which tree of an earlier attempt can it be given instead of its own; do the attempts to leave the firmware suffice for one change of the map? | two attempts on 640 machines (five error policies, four default trees, with and without the firmware's tree, six menus, three overlay lists); map sizes 1, 2 and 6 around a slack of 2; two events |
| `memory_map` | Is the kernel told of exactly the usable memory, and an old one put at the lowest place? | every map of up to three descriptors of up to two pages over six addresses, with ends beyond the last address |
| `config_tree` | Do calls and failed calls leave well-formed trees and no lost node; is a merge whole; does a write stay on its path; is what is read what is there? | three calls on 16 nodes, allocations failing after 0, 1, 2, 3 or 5 |
| `configuration` | Do later files override earlier ones, is a malformed `dtbo.txt` dropped as a whole, do device, profiles and entries belong together; what does a lookup without memory do to them; are entries in order, also those of equal priority? | six situations, two allocation failures |
| `log` | Does each backend get every retained message up to the first it can never take, in order and once? | six messages of three sizes, one kind of which cannot be converted half way, limits 0, 4, 6 and a negative one, two changes of a backend's state |
| `ktype_fallback`, `linux_next_loader` | disagreements, see below | as the run of the same part |

**Why the bounds are enough.** Integer widths are small but keep their
relations: `INT_MAX` = 3, `UINT32_MAX` = 7, `INT64_MAX` = 6, `UINT64_MAX` = 63, and -8 or
-100 for `INT64_MIN` in the configuration, leave values below, at and above each limit,
and the sum or product of two values in range can leave the range. Two or three
entries are enough for "first", "other" and "last" to differ, four for a rescue entry
that is not adjacent. Three partitions let the current, the previous and a scanned one
be different, equal or absent. Four list items give a pair with neighbours on both
sides, and a sort that needs several passes. A file of six lines holds two labels with
a kernel and two lines in front of, between or after them; alphabets are per keyword
group, since the groups change different fields of the parser. An attempt to boot
leaves its traces in a handful of variables that the next one overwrites or keeps, so
that two attempts show what one can do to another. Three descriptors give a range that
is inside, touches or follows a merged pair. Three calls build a tree, a second one
and merge them. The trees of the situations have at most 7 levels, those of three calls on
16 nodes fewer than the 16 that `Levels` allows there. Power cycles are not bounded.

**Deadlock.** The machine of BootMenu, the lists, the log and Configuration, which loops
when done, never stop. SdbootMenu, Extlinux, LinuxBoot and MemoryMap are functions that
return (or do not), and ConfigTree is bounded by its calls: their runs do not check for
deadlock. `Terminates` says that the search of SdbootMenu gets to its return.

## Fairness

embloader is one thread that nothing preempts, so a function that can make a step
makes it: weak fairness of `Next` in SdbootMenu, and of the sort's
steps in LinkedList (the callers need not call anything). In BootMenu, weak
fairness is assumed of the loader's own steps, of the menu's countdown (the
firmware timer) and of the watchdog, and of nothing else: not of the user, the
operating system, power, or of an image's return. Extlinux, MemoryMap and
Configuration only count upwards to the end of a file or a list, LinuxBoot has no loop but that of
ExitBoot, which counts its attempts: nothing is claimed about their ends.

## What is proved

tlapm checks these for all values of the constants. The named assumptions are those
of the modules: besides the types of the constants, that a name made by appending
"-rescue" ends with it (`RescueAssumption` of BootEntries), that NULL is no item
(`NullAssumption` of LinkedList), that the number of addresses is a multiple of the
kernel's alignment, as with 2^64 (`MapAssumption` of MemoryMap), and that the lists of a configuration
are sequences and its entries name disks it has (`SituationAssumption` of LinuxBoot), and that
`log.backends` is a sequence and `log.size-limit` a number (`SituationAssumption` of Log). TLC
evaluates them in the runs.
Of the configuration they say that a file that can be read is lines, words or a tree of
given keys and strings (`SituationAssumption` of Configuration, `Levels` bounds the depth),
that the keys the loader writes itself are keys and the trees deep enough for what it
writes, that there are fewer keys than an `int64_t` counts, so that a place counted as a
priority does not overflow (`KeysAssumption`), that no word is both true and false
(`ConfigSpecAssumption`), and that the default timeout is an `int` (`BoundAssumption`).
Of ConfigTree: that there is a node of memory, that values, paths and documents are such,
documents of at most `Levels` levels, and that no key stands for none (`ConfigAssumption`).
Of SdbootMenu they say what its disks hold: sequences, lines with a text or none, priorities
and timeouts that are numbers (`DisksAssumption`, `MenusAssumption`, `TextAssumption`), and
that the comparison of two texts is a number that changes its sign with their order
(`CompareAssumption`). Of Extlinux: that a label is a sequence of parts (`InputAssumption`),
that NULL is no text (`NoneAssumption`), and that different numbers are written differently
and there are enough of them to name every label (`NumeralAssumption`; the code's are
`unsigned int`, more than a file of 1 MiB has lines).

**BootMenu**

* `OneShotOnce`: a one-shot request is acted on in at most one power
  cycle, unless the firmware refuses to remove the variable. `OneShotAtMostOnce` is
  not inductive: that a request is not used again rests on the variable being gone
  once it has been used (`OneShotGone`); a new write of the operating system starts
  a new count.
* `SavedCache`: the cached copy of `LoaderEntryLastBooted` agrees with the
  variable. It is inductive once the variables are known to be
  a function of their names (`CacheInv`). `BootRecorded`: while an entry is started,
  the variables tell the operating system the truth about it.
* `TypeCorrect`, and from it `LoaderNotNull`: every timeout fits its
  type and the loop never follows a NULL entry. The invariant `TypeInv` is split
  into the shape of the state and the flags, because no single prover does both.
* `UnattendedAtMostOnce`, `NoEntryBootedTwice`: after a boot has failed or returned, no
  countdown runs and no hidden boot happens; and one unattended chain of rescue and next
  entries starts no entry twice, but for those between a rescue entry and a later entry it
  rescues, with `menu.try-next-on-failure`. The invariant `DescendingChain`: whatever lies
  between the entry in hand and a tried one further down lies between such a pair.
* `MenuShownAsAsked`: a one-shot timeout shows the menu before the first boot, a
  disabled menu stays hidden until then, for every text of the variables.
* `DefaultIsHonoured`: the first entry started unattended is the one that was promised,
  for every menu with unique names and every `fnmatch`.
  What is promised is what the sources of a default say in their order; the code also takes
  an entry whose name is the configured default, and `Promised` has that wish too.

**SdbootMenu, Extlinux**

* `PartitionsOnce`: no partition is loaded twice. The invariant
  `OnceInv` says, for each stage of the search, which partitions may be in
  `visited`.
* `MenuKept`: if `efi_main` goes on without entries, the menu is the
  configured one. It assumes that no firmware call fails with `EFI_UNSUPPORTED`,
  which the code takes for "disabled". The invariant
  `UntouchedInv` ties the menu to `haveSuccess`: until a partition was loaded the
  menu is the configured one, and afterwards the search no longer ends in
  `EFI_NOT_FOUND`.
* `PriorityAgrees` (SdbootOrder): counting smaller entries gives priorities that agree
  with the comparison wherever the comparison is a strict order and priorities
  stay below `INT64_MAX`.
* `EntriesAreWhole`: the entries of a partition are all those of its folder or none.
  `VisitInv` says what is loaded of the partition that is being visited, and `WholeInv` what
  is loaded of those before it (`Complete`), with `lost` for what a failed allocation took.
* `SettingsReach`: the settings of the partitions and of the configuration come together in
  the menu as they should. `SettingsInv` has what is decided by the lines read so far
  (`Decided`), and is kept by each line of loader.conf.
* `OrderIsRespected`: the menu lists the entries as their sort keys, versions and tries ask
  for, and the automatic ones last. It combines `PriorityAgrees` with what a stable sort
  of the numbers it counts out does to the list (`AutomaticLast`).
* `PublishedWhole` (Extlinux): a file changes the menu as a whole or not at all.
  `AllOrNothing` is inductive itself.
* `FileIsMatched` (Extlinux): a published menu has what the file says, read as a whole. The
  parser reads it line by line: `FileInv` says of each field of `parser` what it is of the
  lines so far, and a lemma for each helper what a line more does to it (`LastNext`,
  `EntryNext`, `DefaultTextNext`, `ReadyNext`). `EntriesReady` is what remains when the file is
  read, and `ItemsInv` follows the entries into the menu until the sort, which is stable and so
  keeps both the file's entries and the others in their order (`SortedOurs`, `SortedOthers`).
* `DefaultIsRight` (Extlinux): the default names one entry, the right one. A new name exists
  because there are more numbers than names (`SomeNumber`, by the pigeonhole principle), so
  that names stay unique (`NamesAre`) and the first entry found by the name is the label's
  own (`NameFinds`).

**Configuration**, for any files and trees, and any number of failed allocations

* `FilesAreInOrder`: the folder is the right one, a setting has the value of the file that
  takes precedence, and the kernel arguments come in the order of the files. None of the
  three is inductive: they speak of the end of the search, or of all files together.
  `FolderInv` says which volumes were tried, `LoadedInv` that the files loaded so far are in
  the order of `FileOrder`, `WinsInv` that a path reads what the last file that sets it has
  there (`LaterOverrides`: among loaded files, the later one takes precedence), `ArgsInv` that the
  arguments are those of the files end to end. They rest on what a path of keys reads after a
  merge (`MergedLookup`): the new tree's node, or the old one's where the new tree leaves the
  path alone. That is shown by walking down both trees and their merge at the same time
  (`MergedWalks`); what one map becomes is decided entry by entry (`MergedEntries`), and that a
  merge is a tree again by going up the levels (`MergingTyped`).
* `OverlaysTogether`: the overlays of `dtbo.txt` are all configured, with their own profile or
  that of the section they are in, or none is. `LinesTaken` follows the lines (`SectionStep`,
  `LineStep`); `OverlayInv` says that without `dtbo.txt` an overlay comes from another
  file, and that right after it the configuration has what its lines say.
* `MenuIsForDevice`: the device, its profiles and the menu's entries belong together, and
  the entries stand by priority and then in the order of the configuration. The code keeps this only
  as far as its lookups find memory: a device is taken untested, or an entry for other
  devices shown, only when the lookup of its own conditions or lists of profiles failed
  (`missed`), never because something else did. `DeviceInv` is about the devices that were
  passed over, `MenuInv` about the entries taken so far: each is an accepted one before the
  current position, no key comes twice. The final sort is stable and keeps that (`SortKeeps`).

**ConfigTree**, for heaps of any size and any keys, values, paths and documents

* `TreesWellFormed`: after any calls, failed ones included, memory holds well-formed trees and
  nothing else. `WellFormed` alone is not inductive: nodes whose links agree could go
  round in a circle that no client reaches. `TreeInv` adds that going up from any node ends at a root
  (`Rooted`: no set of nodes has all its parents in itself) and that the roots are
  exactly what the clients hold; that every node is then below a held one is the step back
  (`InvWellFormed`). Whether memory runs out inside a call decides how far it gets, so that each
  inner call has a contract for all of its ends: `Made` (it made one new tree or none), `Within`
  (only the tree it works on changed), `Gave` (it took the tree it was given, or failed and left it),
  all of them with `Kept`, which says what it left alone: every set of nodes that is closed upwards
  and apart from where the call worked. A node that replaces another one (`TakenPlace`), two
  nodes that swap their contents (`SwappedGood`) and a node cut off and freed
  (`CutOffIs`, `CleanIs`) are where the links change in several places at once. Copies, merges and
  documents are followed level by level: `CopyLevelIs`, `MergeLevelIs` and `BuildNodeIs`
  show that a level keeps the contract if the one below does.

**LinkedList**, for lists of any length and any number of them

* `ListsAreSequences`: the pointers implement ListSpec, each function the operation of its
  own name (`CallRefines`, with a lemma per function). The invariant `Core` says that
  the sequences read off the pointers are lists in both directions, that every
  allocated item is in exactly one of them, and that the caller's pointer is NULL or
  some item of its list. A lemma per operation on the heap says which pointers it
  changes (`InsertPointers`, `PushPointers`, `RemovePointers`, `SwapPointers`), one that
  the lists are then the ones ListSpec asks for, and one that all other lists are as before. That
  a walk from anywhere in a list finds its ends (`FirstIs`, `LastIs`, `ItemsAre`) rests on Recursion.
* `PointersLive`, `LinksAgree`: no dangling pointer, and both directions agree. From `Core`.
* `SortsStably`: `list_sort` is a stable sort. `SortInv` says that the list is a
  rearrangement in which only strictly descending pairs have changed places (`Stable`),
  and that as long as a pass has swapped nothing, all pairs up to the cursor are in
  order (`Cursor`): the pairs skipped after a swap do not matter, because the pass
  that ends the sort has none.

**LinuxBoot, ExitBoot, MemoryMap**

* `MemoryIsAccounted`: memory is freed once and never while something refers to it,
  through any number of attempts and failures. The invariant `MemInv` says who owns each live
  allocation (`Ledger`), where the buffers of an attempt are (`Places`), what the firmware
  refers to (`Registration`), what `temps` holds (`Temporaries`), and which of these an
  attempt has at each `pc` (`Phases`).
* `TreeIsOwn`: an entry that names a tree is started with it, whatever `g_embloader.fdt`
  holds. Any other is started, as far as a tree is prepared for it, with the default tree of its
  own disk, version and kernel type, but for one case in which the code is wrong: the path
  lacks `{version}`, and the default tree is not on the disk or nobody asks for overlays.
  Then it may be a tree that is left over (`IsLeftOver`). This is no precondition on where the
  tree came from: a tree of an earlier attempt is covered as one of this attempt is.
  `DefaultInv` follows the tree in `g_embloader.fdt` from one attempt to the next.
* `InputIsOwn`: the kernel that starts is handed the initramfs and the
  arguments of its own entry, whatever the attempts before it left behind. `InputInv` the chosen entry from its path (`PathInv`,
  `EntryInv`) to what was loaded for it (`ChosenInv`). The order of the arguments is stated
  by `BootargsPriority` with the positions the words of each source have in the result
  (`StandAfter`).
* `OverlaysFollowPolicy`: the overlays in a tree are those that the error policy lets stand.
  `PolicyInv`: the firmware's table is made from a tree that follows the policy
  (`TableInv`), and a tree that was just loaded has no overlays (`FreshInv`).
* `ExitSurvives`: without an error of the firmware it takes two changes of
  the memory map to make the hand-off to a raw Image fail. It assumes the code's four
  attempts (or more) and that allocating the buffer splits the map by no more
  descriptors than the loader adds to its size. The invariant `ExitInv` adds
  `Spent`: how many attempts can be gone at each of the two calls, depending on whether
  the buffer is large enough, the key is current and the one change has happened.
* `MapExact`, `PlaceIsLowest`: for a memory map of any length, the kernel is told of exactly
  the usable memory, and an old kernel is put at the lowest aligned place that holds it. `MapInv`
  says, for each of the loops, that the ranges cover what they covered, that the ones
  before the index are sorted, and that the merged ones do not touch.

**Log**, for any number of messages, backends and failures

* `OrderIsKept`: each backend gets the messages in order, once, and none is passed over.
* `StoreIsTrue`: the size is what the messages hold and within the limit, and a mark means
  that the message went out whole.
* `EveryoneCatchesUp`, a property of steps: a call whose message is retained leaves every
  backend that works with all of them up to the first one that it can never take, because
  it has no output or its text cannot be converted.

None of the three is inductive. `Store` adds that messages are numbered in the order of the
list (`Numbered`), that the marks of a backend are the messages it acknowledged and every
unmarked one is behind them (`Acks`), that nothing unmarked is before what went out
(`Sends`), and that a message whose flag is set has the marks of all backends (`FlagsTrue`):
this is what allows `log_flush_fast` to start at the last flag. The invariant holds at
the end of each function of the log, so there is a lemma per function (`WriteServes`,
`SendServes`, `FlushFastKeeps`, `SizeLimitKeeps`, `SubmitKeeps`, `FlushToKeeps`, `CreateKeeps`),
and the loops among them are shown to iterate their step through Recursion.

## What is only model-checked

Liveness (`Progress`, `Terminates`, `SortEnds`), which is out of the prover's reach. And the
three invariants of ConfigFiles (`MergeWhole`, `WritesStayOnPath`, `ReadsBack`): they compare the
heap with the value that is read off it by recursion (`TreeAt`, `PathGet`, `ConfLines`), and tlapm takes no
module with a RECURSIVE operator. What Configuration relies on, that `confignode_merge` is
`TreeMerge` or nothing, is therefore checked by TLC on small heaps; that the heap is well-formed
after it, and what follows from `TreeMerge`, is proved.

The library's theorems of induction take an operator as a parameter, which the provers
cannot instantiate. Where a proof needs an induction, it takes the least counterexample
instead, and a recursive definition is unfolded through the fixed point that
`Iteration` builds.

## Disagreements between the code and its own words

Two are runs, and PROJECT.json quotes the lines:

* `ktype_fallback`: a fallback entry without a kernel type is booted with the type
  of the entry that failed before it.
* `linux_next_loader`: when no entry can be booted the next boot loader is meant to get
  the configured tree, but without an entry the variable `{version}` has no value and
  `embloader_resolve_path` gives up, also on a path that does not have it: the
  firmware's tree is installed again.

Others were met while modelling. The models have them as the code does:

* An unattended boot may never end: with `menu.try-next-on-failure` and an entry
  `a-rescue` in front of `a`, the failed `a` is rescued by `a-rescue`, after which the next
  entry of the menu is `a` again, for ever and without a later entry being tried
  (`menu.c:227-277`). Each failed boot disarms the watchdog (`loader.c:40`), so that nothing
  resets the machine. `Progress` says that no other menu runs for ever, and the run has one
  that does.
* The documented path of the default tree has `{ktype}` (`docs/zh/embloader.md:204`), but only
  `{version}` is marked as depending on the entry (`resolve.c:55-60`). After an attempt
  that failed, `linux_boot_use_efi` installs what is in `g_embloader.fdt` (`linux/boot.c:18`):
  a later entry that needs no overlays gets the tree of the earlier one's kernel type, or the file of
  the same path on the earlier one's disk; and one without a default tree of its own gets
  the tree another entry brought, or the firmware's. `OwnTree` states these cases and no others.
  The overlays of such a tree come with it.
* Where `linux_boot_use_efi` says "continuing without one" (`linux/boot.c:27`), the firmware's
  table still has the tree that an earlier attempt installed.
* An application that returns was unloaded by the firmware, but `embloader_start_efi` writes to its
  `LoadedImage` protocol when it had arguments (`loader/efi.c:74`), and unloads it again (line 81).
* The edited arguments of a systemd-boot entry that has no options are ignored (`sdboot/boot.c:28`).
* A lookup that runs out of memory returns NULL like one that finds nothing
  (`configfile/path.c:105`). `match` and `profiles` of a device (`device.c:10-13`) and
  `match`, `profiles.allowed`, `profiles.disallowed` and `bootargs` of an entry (`menu.c:33-43`, `53-56`,
  `120`) then count as absent: an untested device is taken, an entry for another
  device shown, an entry started without its arguments. `missed` has these cases.
* A log message that cannot be converted fails at each attempt (`log/backends/file.c:119-130`)
  and holds up all later ones of its backend until it is evicted.
* `embloader_sort_menu_loaders` is said to put higher priorities first (`menu.c:146-147`); it
  puts lower numbers first.
* `embloader_show_menu` goes round after a boot that returned `EFI_SUCCESS`
  (`menu.c:308`).
* A file system's own `EFI_UNSUPPORTED` is taken for a disabled systemd-boot menu
  (`sdboot/menu.c:348`).
* An entry file that cannot be read ends the search (`sdboot/file.c:232`), one that
  cannot be parsed does not.
* A refused timeout line changes the timeout all the same (`sdboot/types.c:309`).
* The policy "revert" takes back the overlays of one list: those that an earlier attempt
  left in `g_embloader.fdt` stay.
* `greater` and `less` compare texts, so that 10 is less than 9 (`match.c:49`);
  `newer` and `older` compare numbers.
* An empty YAML file is a null node, and merging it replaces the configuration.
  A `menu.bootargs` that is a string is replaced by the words of `cmdline.txt`, and an
  entry whose `bootargs:` is empty is dropped from the menu.
* A message as large as the limit of the log is dropped, and a line is repeated on a
  backend whose flush fails after the line was written.
* `README.md` and `docs/zh/embloader.md` still call extlinux support planned.
  A configured negative timeout other than -1 behaves like -1.

## What is not modelled

The split of a line of text into key and value, and the conversion of file names
and texts: properties here do not depend on them, names are abstract. Drawing,
scrolling and editing in the front ends. Informational variables such as
`LoaderTime*`: pure output. SMBIOS: fields copied one by one into the tree. The
tokenising of json-c and libyaml and the format of a flattened device tree. The
GUI toolkit glue and other third-party code.
PROJECT.json has the list by component.

Some failures are left out where they would not show anything new: a lookup or a copy
without memory in the boot loop and in the preparation of an entry (`sdboot/boot.c:73`,
the `ktype` of an entry), and in resolving a path; a default tree that is on the disk can be read. The name of an overlay's parameter is a path in `dtbo.c:56` and one
key here, and `OverlaysAllOrNothing` does not look at parameters. `UniqueNames`, the condition of
`DefaultHonoured`, leaves open what entries that share a name do.

Two behaviours of `sdboot/variables.c` are known and have no property. A
`LoaderConfigTimeoutOneShot` that is not understood is never removed (line 379), which
is harmless: it is ignored every time. A saved id is used as an `fnmatch` pattern (line
415): an id with a bracket does not match itself. `fnmatch` is a parameter here.

## Plan

1. **Theorems**: the invariants of ConfigFiles, with its walks down the heap as functions of
   the depth, as ConfigSpec has them.
2. **TuiMenu**: selection, scrolling and countdown; `readline`'s editing buffer.
3. **Operators**: `vercmp`, the path normaliser and the encodings, against reference
   definitions over bounded inputs.
4. **Composition**: the menu that Configuration, SdbootMenu and Extlinux make one after
   the other as the `MenuConfigs` of BootMenu.
