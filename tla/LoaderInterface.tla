-------------------------- MODULE LoaderInterface --------------------------
(***************************************************************************)
(* The Boot Loader Interface of sdboot/variables.c on top of the EFI        *)
(* variable services of lib/variables.c: the loader reads its configuration *)
(* from variables an operating system left in non-volatile memory, consumes *)
(* the one-shot ones, and writes back which entry it booted.                *)
(*                                                                          *)
(* sdboot_init_menu_variables is split at its writes to non-volatile        *)
(* memory, in program order, so that power can fail between them.  Every    *)
(* firmware call may fail: a failed read leaves the caller with no value, a *)
(* failed write leaves the variable as it was, and the code goes on.        *)
(***************************************************************************)
EXTENDS BootEntries, Integers

CONSTANTS
    Pattern,        \* texts the OS stores in the entry variables, "@saved" too
    TimeoutText,    \* texts it stores in the timeout variables
    INT_MAX,        \* largest int
    UINT32_MAX,     \* largest uint32_t
    FirmwareFaults  \* whether variable services may fail

ASSUME BoundsAssumption ==
    /\ INT_MAX \in Nat \ {0}
    /\ UINT32_MAX \in Nat
    /\ INT_MAX < UINT32_MAX

ASSUME VariableAssumption ==
    /\ FirmwareFaults \in BOOLEAN
    /\ None \notin Pattern \cup Id
    /\ None \notin TimeoutText
    /\ Id \subseteq STRING
    /\ TimeoutText \subseteq
         [word : {"menu-force", "menu-hidden", "menu-disabled",
                  "digits", "other"}, n : Nat]

VARIABLES
    nv,          \* the non-volatile Loader* variables, None when not set
    entrySelected, \* LoaderEntrySelected (volatile)
    entries,     \* LoaderEntries (volatile): menu position |-> exported id
    loaders,     \* g_embloader.menu->loaders
    timeout,     \* g_embloader.menu->timeout
    disabled,    \* g_embloader.menu->disabled
    defaultEntry,\* g_embloader.menu->default_entry
    entryOneshot,\* local entry_oneshot of sdboot_init_menu_variables
    lastBooted,  \* static entry_last_booted
    oneshotSelected, \* static entry_oneshot_selected
    saveLastBooted,  \* static save_last_booted
    varsInitialized, \* static menu_variables_initialized
    fault,       \* some firmware call failed since power on
    pc           \* where efi_main is

efivars == <<nv, entrySelected, entries>>
menuVars == <<loaders, timeout, disabled, defaultEntry>>
statics == <<entryOneshot, lastBooted, oneshotSelected, saveLastBooted,
             varsInitialized>>

NvName == {"ConfigTimeout", "ConfigTimeoutOneShot", "EntryOneShot",
           "EntryDefault", "EntryLastBooted"}

-----------------------------------------------------------------------------
(* lib/variables.c *)

\* efivar_get_raw and its str16-to-str8 wrappers: the value, or, when the
\* service fails, the same nothing as for a variable that is not set.
Get(v, value, failed) ==
    \/ value = nv[v] /\ failed = FALSE
    \/ FirmwareFaults /\ value = None /\ failed = TRUE

\* efivar_set_raw and its wrappers: SetVariable takes effect, or fails.
Set(v, value, failed) ==
    \/ nv' = [nv EXCEPT ![v] = value] /\ failed = FALSE
    \/ FirmwareFaults /\ UNCHANGED nv /\ failed = TRUE

\* Mutant: the variable is only forgotten in RAM.
UnsetInRam(v, failed) == UNCHANGED nv /\ failed = (v \notin NvName)

\* efivar_unset: writes only a variable it can read, and both may fail.
Unset(v, failed) ==
    \/ nv[v] = None /\ UNCHANGED nv /\ failed = FALSE
    \/ nv[v] # None /\ Set(v, None, failed)
    \/ FirmwareFaults /\ UNCHANGED nv /\ failed = TRUE

\* sdboot_var_get_timeout: the value of the text, -1 waits for ever.
TimeoutIsValid(t) == t # None /\ t.word # "other"

\* Mutant: a value that does not fit an int is not clamped.
TimeoutUnclamped(t) ==
    IF t.word = "menu-force" THEN -1
    ELSE IF t.word = "digits" /\ t.n < UINT32_MAX THEN t.n ELSE 0

TimeoutValue(t) ==
    CASE t.word = "menu-force" -> -1
      [] t.word \in {"menu-hidden", "menu-disabled"} -> 0
      [] t.word = "digits" -> IF t.n >= UINT32_MAX THEN -1
                              ELSE IF t.n > INT_MAX THEN INT_MAX ELSE t.n

-----------------------------------------------------------------------------
(* sdboot_init_menu_variables *)

\* LoaderConfigTimeout overrides the configured timeout.
ReadConfigTimeout ==
    /\ pc = "vars-timeout"
    /\ \E t \in TimeoutText \cup {None}, failed \in BOOLEAN :
         /\ Get("ConfigTimeout", t, failed)
         /\ timeout' = IF TimeoutIsValid(t) THEN TimeoutValue(t) ELSE timeout
         /\ disabled' = IF TimeoutIsValid(t) THEN t.word = "menu-disabled"
                                             ELSE disabled
         /\ fault' = (fault \/ failed)
    /\ entryOneshot' = None
    /\ lastBooted' = None
    /\ oneshotSelected' = 0
    /\ saveLastBooted' = FALSE
    /\ varsInitialized' = FALSE
    /\ pc' = "vars-timeout-oneshot"
    /\ UNCHANGED <<efivars, loaders, defaultEntry>>

\* Mutant: a one-shot timeout of 0 hides the menu like a lasting one.
OneShotMayHide(t) == TimeoutValue(t)

\* A one-shot timeout of 0 shows the menu without one.
OneShotTimeout(t) == IF TimeoutValue(t) <= 0 THEN -1 ELSE TimeoutValue(t)

\* LoaderConfigTimeoutOneShot overrides both and never hides the menu; it is
\* removed, unless its text was not understood.
ConsumeTimeoutOneShot ==
    /\ pc = "vars-timeout-oneshot"
    /\ \E t \in TimeoutText \cup {None}, getFailed, setFailed \in BOOLEAN :
         /\ Get("ConfigTimeoutOneShot", t, getFailed)
         /\ IF TimeoutIsValid(t)
            THEN /\ timeout' = OneShotTimeout(t)
                 /\ disabled' = FALSE
                 /\ Unset("ConfigTimeoutOneShot", setFailed)
            ELSE /\ UNCHANGED <<nv, timeout, disabled>>
                 /\ setFailed = FALSE
         /\ fault' = (fault \/ getFailed \/ setFailed)
    /\ pc' = "vars-oneshot"
    /\ UNCHANGED <<entrySelected, entries, loaders, defaultEntry, statics>>

\* LoaderEntryOneShot is read into RAM and removed before it is used.
ConsumeEntryOneShot(getFailed, setFailed) ==
    /\ pc = "vars-oneshot"
    /\ \E p \in Pattern \cup {None} :
         /\ Get("EntryOneShot", p, getFailed)
         /\ entryOneshot' = p
         /\ IF p # None THEN Unset("EntryOneShot", setFailed)
                        ELSE UNCHANGED nv /\ setFailed = FALSE
         /\ fault' = (fault \/ getFailed \/ setFailed)
    /\ pc' = "vars-select"
    /\ UNCHANGED <<entrySelected, entries, menuVars, lastBooted,
                   oneshotSelected, saveLastBooted, varsInitialized>>

\* sdboot_export_entries: the id at the first position that has it.
ExportedIds(ls) ==
    [i \in {k \in DOMAIN ls : \A j \in 1..(k - 1) :
                                EntryId(ls[j]) # EntryId(ls[k])}
       |-> EntryId(ls[i])]

\* The entry the variables and the configuration select: the one-shot entry,
\* else the default of the OS, else the configured one ("@saved" stands for
\* the last booted entry in both).
SelectedByOneShot(ls, one) == SdbootFindLoader(ls, one, FALSE)

SelectedByDefault(ls, def, last) ==
    SdbootFindLoader(ls, IF def = "@saved" THEN last ELSE def, FALSE)

SelectedByConfig(ls, cfg, last) ==
    IF cfg = "@saved" THEN SdbootFindLoader(ls, last, FALSE)
                      ELSE SdbootFindLoader(ls, cfg, TRUE)

\* The selection itself: its result is stored as the NAME of the entry in
\* menu->default_entry.  Running out of memory in it leaves the statics
\* uninitialised, so that nothing is saved later.
SelectEntry ==
    /\ pc = "vars-select"
    /\ \E def \in Pattern \cup {None}, last \in Id \cup {None},
          dFailed, lFailed, oom, eFailed \in BOOLEAN :
         LET useSaved == def = "@saved" \/ defaultEntry = "@saved"
             one  == SelectedByOneShot(loaders, entryOneshot)
             vDef == SelectedByDefault(loaders, def, last)
             conf == SelectedByConfig(loaders, defaultEntry, last)
             sel  == IF one # 0 THEN one ELSE IF vDef # 0 THEN vDef ELSE conf
         IN  /\ Get("EntryDefault", def, dFailed)
             /\ IF useSaved THEN Get("EntryLastBooted", last, lFailed)
                            ELSE last = None /\ lFailed = FALSE
             /\ oom => FirmwareFaults
             /\ saveLastBooted' = \/ def = "@saved"
                                  \/ def = None /\ defaultEntry = "@saved"
             /\ lastBooted' = IF oom THEN lastBooted ELSE last
             /\ varsInitialized' = ~oom
             /\ defaultEntry' = IF sel # 0 /\ ~oom THEN loaders[sel].name
                                                   ELSE defaultEntry
             /\ oneshotSelected' = IF one # 0 /\ ~oom THEN one
                                                      ELSE oneshotSelected
             /\ eFailed => FirmwareFaults
             /\ entries' = IF eFailed THEN entries ELSE ExportedIds(loaders)
             /\ fault' = (fault \/ dFailed \/ lFailed \/ oom \/ eFailed)
    /\ pc' = "loop"
    /\ UNCHANGED <<nv, entrySelected, loaders, timeout, disabled, entryOneshot>>

-----------------------------------------------------------------------------
(* sdboot_set_selected_entry(loader), called before every boot attempt *)

\* Mutant: nothing is removed when saving is off.
SaveWithoutRemoval(id, failed) ==
    IF ~saveLastBooted \/ lastBooted = id
    THEN UNCHANGED <<nv, lastBooted>> /\ failed = FALSE
    ELSE /\ Set("EntryLastBooted", id, failed)
         /\ lastBooted' = IF failed THEN lastBooted ELSE id

\* Mutant: the cache is replaced whether or not the write succeeded.
SaveCachesFailure(id, failed) ==
    IF ~saveLastBooted
    THEN Unset("EntryLastBooted", failed) /\ lastBooted' = None
    ELSE Set("EntryLastBooted", id, failed) /\ lastBooted' = id

\* The update of LoaderEntryLastBooted: removed when saving is off, left
\* alone when it already names the entry, else written.
SaveLastBooted(id, failed) ==
    IF ~saveLastBooted
    THEN /\ Unset("EntryLastBooted", failed)
         /\ lastBooted' = IF failed THEN lastBooted ELSE None
    ELSE IF lastBooted = id
    THEN UNCHANGED <<nv, lastBooted>> /\ failed = FALSE
    ELSE /\ Set("EntryLastBooted", id, failed)
         /\ lastBooted' = IF failed THEN lastBooted ELSE id

\* The entry is about to be booted as the one-shot entry.
IsOneShot(i) == i = oneshotSelected

SetSelectedEntry(i) ==
    LET oneshot == IsOneShot(i)
        id      == EntryId(loaders[i])
    IN  /\ oneshotSelected' = IF oneshot THEN 0 ELSE oneshotSelected
        /\ IF ~IsBootable(loaders[i])
           THEN UNCHANGED <<nv, entrySelected, lastBooted, fault>>
           ELSE \E sFailed, failed \in BOOLEAN :
                  /\ sFailed => FirmwareFaults
                  /\ entrySelected' = IF sFailed THEN entrySelected ELSE id
                  /\ IF varsInitialized /\ ~oneshot
                     THEN SaveLastBooted(id, failed)
                     ELSE UNCHANGED <<nv, lastBooted>> /\ failed = FALSE
                  /\ fault' = (fault \/ sFailed \/ failed)
        /\ UNCHANGED <<entries, entryOneshot, saveLastBooted, varsInitialized>>
=============================================================================
