----------------------------- MODULE DeviceTree -----------------------------
(***************************************************************************)
(* The device tree of a boot as a value, and the functions that find and    *)
(* change it: embloader_resolve_path (main/resolve.c), the default tree     *)
(* (linux/devicetree.c), the parameters of an overlay (linux/dtbo_params.c) *)
(* and the overlay lists with their error policy (linux/dtbo.c).            *)
(*                                                                          *)
(* A path is a sequence of tokens, some of which are the variables          *)
(* {version}, {ktype}, {profile} and {dtb-id}.  A disk maps the paths of    *)
(* the files that linux_try_load_dtb accepts to their contents.  A tree is  *)
(* the memory it is in, the file it came from and the overlays applied to   *)
(* it, oldest first: linux_apply_dtbo works on a copy, so an overlay is     *)
(* applied as a whole or not at all.                                        *)
(***************************************************************************)
EXTENDS Integers, Sequences, SequencesExt

CONSTANTS
    None,       \* the null pointer
    Yes, No,    \* the words string_is_true and string_is_false accept
    CellSize,   \* sizeof(uint32_t)
    CellMax     \* UINT32_MAX

ASSUME CellAssumption == CellSize \in Nat \ {0} /\ CellMax \in Nat

\* The values of a variable: the getters of variable_getters.  version_getter
\* fails without a loader, which fails the whole resolution.
Values(cf, loader, ktype, var) ==
    CASE var = "{version}" ->
           IF loader.version = None THEN <<>> ELSE <<loader.version>>
      [] var = "{ktype}" -> IF ktype = None THEN <<>> ELSE <<ktype>>
      [] var = "{profile}" -> cf.profiles
      [] var = "{dtb-id}" ->
           FlattenSeq([i \in DOMAIN cf.profiles |->
                         LET id == cf.dtbId[cf.profiles[i]]
                         IN  IF id = None THEN <<>> ELSE <<id>>])

\* replace_variable
Replace(path, var, value) ==
    [i \in DOMAIN path |-> IF path[i] = var THEN value ELSE path[i]]

\* The paths one level of resolve_path_recursive makes of a path.  A variable
\* without a value stays in the path, and so does everything when the path
\* does not have the variable.
Expand(path, var, values) ==
    IF values = <<>> \/ ~Contains(path, var) THEN <<path>>
    ELSE [i \in DOMAIN values |-> Replace(path, var, values[i])]

\* All levels below the first: the recursion visits the leaves in this order.
ExpandAll(paths, var, values) ==
    FlattenSeq([i \in DOMAIN paths |-> Expand(paths[i], var, values)])

\* list *embloader_resolve_path(loader, path, ...): <<>> stands for NULL.  One
\* level per variable, in the order of variable_getters.
ResolvePath(cf, loader, ktype, path) ==
    LET V(var) == Values(cf, loader, ktype, var)
        p1 == Expand(path, "{version}", V("{version}"))
        p2 == ExpandAll(p1, "{ktype}", V("{ktype}"))
        p3 == ExpandAll(p2, "{profile}", V("{profile}"))
    IN  IF path = None \/ loader = None THEN <<>>
        ELSE ExpandAll(p3, "{dtb-id}", V("{dtb-id}"))

\* Mutant: no variable is marked as one that depends on the entry.
NeverDepends(path) == FALSE

\* path_depends_on_loader: the variables whose getter is marked so.
DependsOnLoader(path) == path # None /\ Contains(path, "{version}")

\* The file linux_load_default_dtb takes: the list is reversed, so the most
\* specific profile wins.
DefaultDtb(cf, disk, loader, ktype) ==
    LET ps == ResolvePath(cf, loader, ktype, cf.defaultDtb)
        hit == {i \in DOMAIN ps : ps[i] \in DOMAIN disk}
    IN  IF hit = {} THEN None
        ELSE ps[CHOOSE i \in hit : \A j \in hit : i >= j]

-----------------------------------------------------------------------------
(***************************************************************************)
(* Overlay parameters.  The contents of an overlay file are its properties  *)
(* with their lengths and, in __overrides__, the targets of each parameter. *)
(***************************************************************************)

\* parse_override_value: a word (an empty one is true), or a number that fits
\* a cell.  None stands for a value that is not understood.
ParseOverrideValue(v) ==
    CASE v = Yes -> 1
      [] v = No -> 0
      [] v \in 0..CellMax -> v
      [] OTHER -> None

\* The bounds test of apply_override_parameter, for one target.
TargetFits(file, t) ==
    /\ t.property \in DOMAIN file.properties
    /\ t.offset <= file.properties[t.property]
    /\ file.properties[t.property] - t.offset >= CellSize

\* One parameter: its specification is there, its value is understood and
\* every target takes it.
ParameterApplies(file, p) ==
    /\ p.name \in DOMAIN file.overrides
    /\ ParseOverrideValue(p.value) # None
    /\ \A i \in DOMAIN file.overrides[p.name] :
          TargetFits(file, file.overrides[p.name][i])

\* bool linux_dtbo_write_overrides(fdt, overrides): every parameter is tried,
\* one that fails makes do_load_dtbo drop the overlay.
WriteOverrides(file, params) ==
    \A i \in DOMAIN params : ParameterApplies(file, params[i])

\* The cells written into the overlay; a later parameter overwrites.
OverrideWrites(file, params) ==
    FlattenSeq([i \in DOMAIN params |->
        IF ~ParameterApplies(file, params[i]) THEN <<>>
        ELSE [j \in DOMAIN file.overrides[params[i].name] |->
                [target |-> file.overrides[params[i].name][j],
                 value |-> ParseOverrideValue(params[i].value)]]])

-----------------------------------------------------------------------------
(***************************************************************************)
(* Overlay lists.  An overlay asked for is a name (relative to the overlay  *)
(* directories) or an absolute path, with parameters; one of the            *)
(* configuration can also be switched off or be for one profile.            *)
(***************************************************************************)

\* linux_get_dtbo_on_error: a value that is not known means failure.
OnError(cf) ==
    IF cf.onError \in {"failure", "ignore", "needone", "revert"}
    THEN cf.onError ELSE "failure"

\* An overlay of devicetree.overlays is switched on and matches a profile
\* (dtbo_matches_active_profile).
IsActive(cf, o) ==
    o.enabled /\ (o.profile = None \/ Contains(cf.profiles, o.profile))

\* The ones that linux_load_dtbos does not pass over.
ConfiguredOverlays(cf) ==
    FlattenSeq([k \in DOMAIN cf.overlays |->
                  IF IsActive(cf, cf.overlays[k]) THEN <<cf.overlays[k]>>
                  ELSE <<>>])

\* The files do_load_dtbo_dirs tries for an overlay.
OverlayFiles(o, dirs) ==
    IF o.absolute THEN <<o.path>> ELSE [i \in DOMAIN dirs |-> dirs[i] \o o.path]

\* The one it applies, None when there is none.
PickOverlay(disk, o, dirs) ==
    LET fs == OverlayFiles(o, dirs)
        ok == {i \in DOMAIN fs : /\ fs[i] \in DOMAIN disk
                                 /\ disk[fs[i]].applies
                                 /\ WriteOverrides(disk[fs[i]], o.params)}
    IN  IF ok = {} THEN None ELSE fs[CHOOSE i \in ok : \A j \in ok : i <= j]

\* do_load_dtbo: what the overlay adds to the tree.
Applied(disk, o, file) ==
    [file |-> file, cells |-> OverrideWrites(disk[file], o.params)]

\* One overlay of the loop of linux_load_dtbos, which ends at the count -1.
LoadConfigured(disk, dirs, onError, r, o) ==
    LET file == PickOverlay(disk, o, dirs)
    IN  IF r.count = -1 THEN r
        ELSE IF file # None
        THEN [ovs |-> Append(r.ovs, Applied(disk, o, file)),
              count |-> r.count + 1]
        ELSE IF onError \in {"failure", "revert"}
        THEN [ovs |-> r.ovs, count |-> -1]
        ELSE r

\* The loop: what it has done after each of the overlays.
ConfiguredLoop(cf, disk, dirs, ovs) ==
    LET r[k \in 0..Len(cf.overlays)] ==
          IF k = 0 THEN [ovs |-> ovs, count |-> 0]
          ELSE IF ~IsActive(cf, cf.overlays[k]) THEN r[k - 1]
          ELSE LoadConfigured(disk, dirs, OnError(cf), r[k - 1], cf.overlays[k])
    IN  r

\* int linux_load_dtbos(loader, base, fdt, NULL, on_error): the overlays of the
\* tree and the number returned.  The directories are searched last profile
\* first.
LoadDtbos(cf, disk, loader, ktype, ovs) ==
    LET dirs == Reverse(ResolvePath(cf, loader, ktype, cf.dtboDir))
        r == ConfiguredLoop(cf, disk, dirs, ovs)[Len(cf.overlays)]
        isEmpty == \A k \in DOMAIN cf.overlays : ~IsActive(cf, cf.overlays[k])
    IN  IF ~isEmpty /\ r.count = 0 /\ OnError(cf) = "needone"
        THEN [ovs |-> r.ovs, count |-> -1] ELSE r

\* Mutant: a failed overlay of the entry is not taken back.
KeepOverlays(before, now) == now

\* The backup is copied back over the tree.
RevertTo(before, now) == before

\* One overlay of the entry, in linux_load_dtoverlay.  stop ends the loop,
\* with the status in ok.
LoadOwn(disk, dirs, onError, before, r, o) ==
    LET file == PickOverlay(disk, o, dirs)
    IN  IF r.stop THEN r
        ELSE IF file # None
        THEN [r EXCEPT !.ovs = Append(@, Applied(disk, o, file)),
                       !.applied = @ + 1]
        ELSE IF onError = "failure"
        THEN [r EXCEPT !.stop = TRUE, !.ok = FALSE]
        ELSE IF onError = "revert"
        THEN [r EXCEPT !.stop = TRUE, !.ovs = RevertTo(before, @),
                       !.applied = 0, !.failed = 0]
        ELSE [r EXCEPT !.failed = @ + 1]

\* The loop over info->dtoverlay: what it has done after each of them.
OwnLoop(cf, disk, dirs, before, start, todo) ==
    LET r[k \in 0..Len(todo)] ==
          IF k = 0 THEN start
          ELSE LoadOwn(disk, dirs, OnError(cf), before, r[k - 1], todo[k])
    IN  r

\* The overlays of linux_load_dtoverlay on a tree: the configured ones, then
\* those of the entry, whose directories are searched first profile first.
ApplyOverlays(cf, disk, loader, ktype, ovs) ==
    LET c == LoadDtbos(cf, disk, loader, ktype, ovs)
        dirs == ResolvePath(cf, loader, ktype, cf.dtboDir)
        start == [ovs |-> c.ovs, stop |-> FALSE, ok |-> TRUE,
                  applied |-> IF c.count > 0 THEN c.count ELSE 0,
                  failed |-> IF c.count = -1 THEN 1 ELSE 0]
        r == OwnLoop(cf, disk, dirs, ovs, start, loader.overlays)[
               Len(loader.overlays)]
    IN  IF c.count = -1 /\ OnError(cf) = "failure"
        THEN [ovs |-> c.ovs, ok |-> FALSE]
        ELSE IF c.count = -1 /\ OnError(cf) = "revert"
        THEN [ovs |-> ovs, ok |-> TRUE]
        ELSE [ovs |-> r.ovs,
              ok |-> r.ok /\ ~(/\ OnError(cf) = "needone"
                               /\ r.applied = 0 /\ r.failed > 0)]

=============================================================================
