---------------------------- MODULE BootEntries ----------------------------
(***************************************************************************)
(* The boot menu as a value: a sequence of loader entries, in the order in  *)
(* which embloader_sort_menu_loaders left them, and the functions of        *)
(* menu/menu.c, loader/loader.c and sdboot/variables.c that look an entry   *)
(* up in it.  A loader pointer is an index into the sequence, NULL is 0.    *)
(*                                                                          *)
(* Names are taken modulo case: every comparison modelled here folds case   *)
(* in the code (strcasecmp, FNM_CASEFOLD) except the strcmp of the text     *)
(* front ends, which compare with a name that was copied from an entry.     *)
(***************************************************************************)
EXTENDS Naturals, Sequences

CONSTANTS
    Name,             \* loader names (embloader_loader.name)
    Ktype,            \* kernel types, the {ktype} of a device tree path
    None,             \* the null pointer: no name, no value, no kernel type
    ConfId(_),        \* asprintf("%s.conf", name)
    RescueName(_),    \* asprintf("%s-rescue", name)
    EndsWithRescue(_),\* endwiths(name, "-rescue")
    fnmatch(_, _)     \* fnmatch(pattern, text, FNM_CASEFOLD) == 0

ASSUME NoneAssumption == None \notin Name \cup Ktype

\* A name that is another one with "-rescue" appended ends with "-rescue".
ASSUME RescueAssumption ==
    \A n \in Name : RescueName(n) \in Name => EndsWithRescue(RescueName(n))

\* embloader_loader_type without LOADER_NONE, which loader_is_valid refuses.
LoaderType == {"efisetup", "reboot", "efi", "linux-efi", "linux", "sdboot"}

\* The fields of embloader_loader that decide which entry is booted and how.
\* ktype is the "ktype" of a configured entry, or the version of an sdboot one.
Loader == [name : Name, type : LoaderType, complete : BOOLEAN,
           ktype : Ktype \cup {None}]

\* The first index of a set of list positions, 0 (NULL) when there is none.
FirstOf(S) ==
    IF S = {} THEN 0 ELSE CHOOSE i \in S : \A j \in S : i <= j

\* The last one: a scan that overwrites its result at every match.
LastOf(S) ==
    IF S = {} THEN 0 ELSE CHOOSE i \in S : \A j \in S : i >= j

\* bool embloader_menu_is_complete()
MenuIsComplete(ls) == \E i \in DOMAIN ls : ls[i].complete

\* embloader_loader *embloader_find_loader(name)
FindLoader(ls, name) == FirstOf({i \in DOMAIN ls : ls[i].name = name})

\* embloader_get_default_loader(), and get_default_loader() of the GUI menu.
GetDefaultLoader(ls, entry) ==
    IF FindLoader(ls, entry) # 0 THEN FindLoader(ls, entry)
                                 ELSE FirstOf(DOMAIN ls)

\* def_loader of the text and TUI menus: the last entry of that name.
MenuDefaultLoader(ls, entry) ==
    LET found == LastOf({i \in DOMAIN ls : ls[i].name = entry})
    IN  IF found # 0 THEN found ELSE FirstOf(DOMAIN ls)

\* Mutant: the search for the next entry starts with the current one.
NextLoaderFromSelf(ls, tryNext, cur) ==
    IF tryNext THEN FirstOf({i \in DOMAIN ls : i >= cur /\ ls[i].complete})
               ELSE 0

\* embloader_get_next_loader(current): the entry's own rescue entry, else,
\* with menu.try-next-on-failure, the next complete entry of the menu.
GetNextLoader(ls, tryNext, cur) ==
    LET rescue == IF EndsWithRescue(ls[cur].name) THEN 0
                  ELSE FindLoader(ls, RescueName(ls[cur].name))
        later  == {i \in DOMAIN ls : i > cur /\ ls[i].complete}
    IN  IF rescue # 0 THEN rescue
        ELSE IF tryNext THEN FirstOf(later) ELSE 0

\* bool sdboot_loader_is_bootable(loader)
IsBootable(l) == l.type \in {"efi", "linux-efi", "linux", "sdboot"}

\* char *sdboot_loader_entry_id(loader)
EntryId(l) ==
    IF l.type = "sdboot" THEN ConfId(l.name)
    ELSE IF l.type = "efisetup" /\ l.name = "sdboot-auto-firmware"
         THEN "auto-reboot-to-firmware-setup"
    ELSE IF l.type = "reboot" /\ l.name = "sdboot-auto-shutdown"
         THEN "auto-poweroff"
    ELSE IF l.type = "reboot" /\ l.name = "sdboot-auto-reboot"
         THEN "auto-reboot"
    ELSE l.name

\* The ids the entries of a menu can have.
Id == {EntryId(l) : l \in Loader}

\* Mutant: the last match wins.
FindLastLoader(ls, pattern, allowInternalName) ==
    IF pattern = None THEN 0
    ELSE LastOf({i \in DOMAIN ls :
                    \/ allowInternalName /\ fnmatch(pattern, ls[i].name)
                    \/ fnmatch(pattern, EntryId(ls[i]))})

\* sdboot_find_loader(pattern, allow_internal_name, ret)
SdbootFindLoader(ls, pattern, allowInternalName) ==
    IF pattern = None THEN 0
    ELSE FirstOf({i \in DOMAIN ls :
                    \/ allowInternalName /\ fnmatch(pattern, ls[i].name)
                    \/ fnmatch(pattern, EntryId(ls[i]))})

\* No two entries of the menu share a name.
UniqueNames(ls) ==
    \A i, j \in DOMAIN ls : ls[i].name = ls[j].name => i = j
=============================================================================
