------------------------------ MODULE BootMenu ------------------------------
(***************************************************************************)
(* One machine over many power cycles.  Each cycle runs efi_main: it loads  *)
(* a menu, reads the Boot Loader Interface variables (LoaderInterface) and  *)
(* runs the loop of embloader_show_menu: hidden boot or menu, then          *)
(* embloader_try_boot with its chain of fallback entries.  Around it are    *)
(* the firmware watchdog, the user, the images that are started, the        *)
(* operating system that writes the variables, and the power supply.        *)
(***************************************************************************)
EXTENDS LoaderInterface

CONSTANTS
    MenuConfigs,  \* the menus the files on disk can give, see ConfigAssumption
    FrontEnds,    \* the menu front ends this machine supports
    OsWrites,     \* the <<variable, value>> pairs an OS may write
    PowerFails    \* whether power can fail at any moment

\* A menu as embloader_load_menu, sdboot_boot_load_menu and
\* embloader_extlinux_load_menu leave it, the kernel type of its profile and
\* its menu.try-next-on-failure.
ASSUME ConfigAssumption ==
    /\ PowerFails \in BOOLEAN
    /\ FrontEnds \subseteq {"text", "tui", "gui"}
    /\ \A c \in MenuConfigs :
         /\ c.loaders \in Seq(Loader)
         /\ c.timeout \in -1..INT_MAX
         /\ c.disabled \in BOOLEAN
         /\ c.default \in Name \cup Pattern \cup {None}
         /\ c.ktype \in Ktype \cup {None}
         /\ c.tryNext \in BOOLEAN

VARIABLES
    conf,       \* the member of MenuConfigs in use
    loader,     \* embloader_loader *loader of the loop
    autoboot,   \* flags & EMBLOADER_FLAG_AUTOBOOT
    ktype,      \* g_embloader.ktype
    watchdog,   \* the 5 minute watchdog is armed
    frontend,   \* the front end that shows the menu
    countdown,  \* its countdown is running
    \* What follows only observes:
    nv0,        \* nv when the machine was switched on
    fresh,      \* nothing has been booted since then
    shown,      \* a menu has been shown since then
    tried,      \* the entries this embloader_try_boot has booted
    oneshotBoot,\* the entry is being booted as the one-shot entry
    uses,       \* power cycles that acted on LoaderEntryOneShot since it was
                \* written (2 stands for more)
    stuck       \* since then the firmware refused to remove it

ifaceVars == <<nv, entrySelected, entries, loaders, timeout, disabled,
               defaultEntry, entryOneshot, lastBooted, oneshotSelected,
               saveLastBooted, varsInitialized, fault>>
ghosts == <<nv0, fresh, shown, tried, oneshotBoot, uses, stuck>>
bootVars == <<conf, loader, autoboot, ktype, watchdog, frontend, countdown>>
vars == <<ifaceVars, pc, bootVars, ghosts>>

\* The values a variable can hold.
NvValue(v) ==
    IF v \in {"ConfigTimeout", "ConfigTimeoutOneShot"}
    THEN TimeoutText \cup {None}
    ELSE IF v = "EntryLastBooted" THEN Id \cup {None}
    ELSE Pattern \cup {None}

NvEmpty == [v \in NvName |-> None]

ASSUME OsAssumption ==
    \A w \in OsWrites : w[1] \in NvName /\ w[2] \in NvValue(w[1])

NoConfig == [loaders |-> <<>>, timeout |-> -1, disabled |-> FALSE,
             default |-> None, ktype |-> None, tryNext |-> FALSE]

-----------------------------------------------------------------------------
(* Power *)

\* What RAM and the volatile variables hold while the machine is off.
RamCleared ==
    /\ entrySelected' = None /\ entries' = <<>> /\ loaders' = <<>>
    /\ timeout' = -1 /\ disabled' = FALSE /\ defaultEntry' = None
    /\ entryOneshot' = None /\ lastBooted' = None /\ oneshotSelected' = 0
    /\ saveLastBooted' = FALSE /\ varsInitialized' = FALSE /\ fault' = FALSE
    /\ conf' = NoConfig /\ loader' = 0 /\ autoboot' = FALSE /\ ktype' = None
    /\ watchdog' = FALSE /\ frontend' = None /\ countdown' = FALSE
    /\ nv0' = NvEmpty /\ fresh' = TRUE /\ shown' = FALSE /\ tried' = {}
    /\ oneshotBoot' = FALSE

Init ==
    /\ nv = NvEmpty
    /\ entrySelected = None /\ entries = <<>> /\ loaders = <<>>
    /\ timeout = -1 /\ disabled = FALSE /\ defaultEntry = None
    /\ entryOneshot = None /\ lastBooted = None /\ oneshotSelected = 0
    /\ saveLastBooted = FALSE /\ varsInitialized = FALSE /\ fault = FALSE
    /\ conf = NoConfig /\ loader = 0 /\ autoboot = FALSE /\ ktype = None
    /\ watchdog = FALSE /\ frontend = None /\ countdown = FALSE
    /\ nv0 = NvEmpty /\ fresh = TRUE /\ shown = FALSE /\ tried = {}
    /\ oneshotBoot = FALSE
    /\ uses = 0 /\ stuck = FALSE
    /\ pc = "off"

\* The machine is reset or loses power: only non-volatile variables survive.
TurnOff ==
    /\ pc' = "off"
    /\ RamCleared
    /\ UNCHANGED <<nv, uses, stuck>>

PowerLoss ==
    /\ PowerFails
    /\ pc # "off"
    /\ TurnOff

\* efi_main up to the menu: the watchdog is disarmed and the menu loaded.
PowerOn(c) ==
    /\ pc = "off"
    /\ conf' = c
    /\ loaders' = c.loaders
    /\ timeout' = c.timeout
    /\ disabled' = c.disabled
    /\ defaultEntry' = c.default
    /\ watchdog' = FALSE
    /\ nv0' = nv
    /\ pc' = "vars-timeout"
    /\ UNCHANGED <<efivars, statics, fault, loader, autoboot, ktype, frontend,
                   countdown, fresh, shown, tried, oneshotBoot, uses, stuck>>

\* efi_main gives up before the menu: embloader_init failed, or
\* sdboot_boot_load_menu did with more than NOT_FOUND or UNSUPPORTED.
StartFails ==
    /\ pc = "off"
    /\ pc' = "returned"
    /\ UNCHANGED <<ifaceVars, bootVars, ghosts>>

-----------------------------------------------------------------------------
(* sdboot_init_menu_variables, see LoaderInterface *)

InitTimeout ==
    ReadConfigTimeout /\ UNCHANGED <<bootVars, ghosts>>

InitTimeoutOneShot ==
    ConsumeTimeoutOneShot /\ UNCHANGED <<bootVars, ghosts>>

InitEntryOneShot ==
    /\ \E getFailed, setFailed \in BOOLEAN :
         /\ ConsumeEntryOneShot(getFailed, setFailed)
         /\ stuck' = (stuck \/ setFailed)
    /\ uses' = IF entryOneshot' # None /\ uses < 2 THEN uses + 1 ELSE uses
    /\ UNCHANGED <<bootVars, nv0, fresh, shown, tried, oneshotBoot>>

InitSelection ==
    SelectEntry /\ UNCHANGED <<bootVars, ghosts>>

-----------------------------------------------------------------------------
(* embloader_show_menu: the top of the loop *)

\* embloader_load_ktype: the kernel type of the profile.
LoadKtype == ktype' = conf.ktype

\* No complete entry: embloader_prepare_boot, and back to the firmware.
PrepareOnly ==
    /\ pc = "loop"
    /\ ~MenuIsComplete(loaders)
    /\ LoadKtype
    /\ pc' = "returned"
    /\ UNCHANGED <<ifaceVars, conf, loader, autoboot, watchdog, frontend,
                   countdown, ghosts>>

\* Timeout 0 and no key pressed, or the menu disabled: boot the default.
BootHidden ==
    /\ pc = "loop"
    /\ MenuIsComplete(loaders)
    /\ timeout = 0
    /\ LoadKtype
    /\ loader' = GetDefaultLoader(loaders, defaultEntry)
    /\ autoboot' = TRUE
    /\ tried' = {}
    /\ pc' = "selected"
    /\ UNCHANGED <<ifaceVars, conf, watchdog, frontend, countdown, nv0, fresh,
                   shown, oneshotBoot, uses, stuck>>

\* The menu comes up; a key pressed during a hidden boot asks for it and
\* turns its timeout off.
ShowMenu ==
    /\ pc = "loop"
    /\ MenuIsComplete(loaders)
    /\ timeout = 0 => ~disabled
    /\ LoadKtype
    /\ timeout' = IF timeout = 0 THEN -1 ELSE timeout
    /\ countdown' = (timeout > 0)
    /\ frontend' \in FrontEnds
    /\ shown' = TRUE
    /\ pc' = "menu"
    /\ UNCHANGED <<efivars, statics, loaders, disabled, defaultEntry, fault,
                   conf, loader, autoboot, watchdog, nv0, fresh, tried,
                   oneshotBoot, uses, stuck>>

-----------------------------------------------------------------------------
(* The front ends: embloader_text_menu_start, _tui_ and _gui_ *)

\* def_loader of the text and TUI menus, get_default_loader() of the GUI.
FrontEndDefault ==
    IF frontend = "gui" THEN GetDefaultLoader(loaders, defaultEntry)
                        ELSE MenuDefaultLoader(loaders, defaultEntry)

\* The menu hands entry i to embloader_try_boot.
Choose(i, auto) ==
    /\ loader' = i
    /\ autoboot' = auto
    /\ countdown' = FALSE
    /\ tried' = {}
    /\ pc' = "selected"
    /\ UNCHANGED <<ifaceVars, conf, ktype, watchdog, frontend, nv0, fresh,
                   shown, oneshotBoot, uses, stuck>>

MenuTimeout ==
    pc = "menu" /\ countdown /\ Choose(FrontEndDefault, TRUE)

\* Enter on an empty line of the text menu boots the default unattended.
MenuEnter ==
    pc = "menu" /\ frontend = "text" /\ Choose(FrontEndDefault, TRUE)

MenuSelect ==
    pc = "menu" /\ \E i \in DOMAIN loaders : Choose(i, FALSE)

\* A key stops the countdown; an invalid choice of the text menu asks again
\* and starts it anew.
MenuKey ==
    /\ pc = "menu"
    /\ \/ countdown' = FALSE
       \/ frontend = "text" /\ countdown' = (timeout >= 0)
    /\ UNCHANGED <<ifaceVars, pc, conf, loader, autoboot, ktype, watchdog,
                   frontend, ghosts>>

\* ESC, a deselected entry, or a front end that fails: efi_main returns.
MenuLeave ==
    /\ pc = "menu"
    /\ pc' = "returned"
    /\ countdown' = FALSE
    /\ UNCHANGED <<ifaceVars, conf, loader, autoboot, ktype, watchdog,
                   frontend, ghosts>>

\* The B, O and F keys of the TUI reset the machine.
TuiReset ==
    pc = "menu" /\ frontend = "tui" /\ TurnOff

-----------------------------------------------------------------------------
(* embloader_try_boot and embloader_loader_boot *)

\* Mutant: the image runs without a watchdog.
NoWatchdog == UNCHANGED watchdog

ArmWatchdog == watchdog' = TRUE

\* The "ktype" in the node of a configured entry
NodeKtype(l) == IF l.type = "sdboot" THEN None ELSE l.ktype

\* The version of a systemd-boot entry, which has no "ktype"
VersionKtype(l) == IF l.type = "sdboot" THEN l.ktype ELSE None

\* entry_selected(loader), then the first half of embloader_loader_boot, and for a
\* systemd-boot entry what sdboot_boot_loader_invoke begins with.
StartEntry ==
    /\ pc = "selected"
    /\ SetSelectedEntry(loader)
    /\ LET node == NodeKtype(loaders[loader])
           version == VersionKtype(loaders[loader])
       IN  ktype' = IF version # None THEN version ELSE IF node # None THEN node ELSE ktype
    /\ ArmWatchdog
    /\ oneshotBoot' = (loader = oneshotSelected)
    /\ tried' = tried \cup {loader}
    /\ pc' = "boot"
    /\ UNCHANGED <<menuVars, conf, loader, autoboot, frontend, countdown, nv0,
                   fresh, shown, uses, stuck>>

\* A kernel calls ExitBootServices, which also stops the watchdog.
OsTakesOver ==
    /\ pc = "boot"
    /\ IsBootable(loaders[loader])
    /\ watchdog' = FALSE
    /\ pc' = "os"
    /\ UNCHANGED <<ifaceVars, conf, loader, autoboot, ktype, frontend,
                   countdown, ghosts>>

\* A reboot or firmware setup entry resets the machine, and so does the
\* watchdog when the image has hung.
ResetEntry ==
    pc = "boot" /\ ~IsBootable(loaders[loader]) /\ TurnOff

WatchdogFires ==
    watchdog /\ TurnOff

\* embloader_loader_boot fails: with AUTOBOOT the next entry is tried.
Fallback ==
    /\ pc = "boot"
    /\ autoboot
    /\ GetNextLoader(loaders, conf.tryNext, loader) # 0
    /\ loader' = GetNextLoader(loaders, conf.tryNext, loader)
    /\ watchdog' = FALSE
    /\ fresh' = FALSE
    /\ pc' = "selected"
    /\ UNCHANGED <<ifaceVars, conf, autoboot, ktype, frontend, countdown, nv0,
                   shown, tried, oneshotBoot, uses, stuck>>

\* Mutant: the timeout stays what it was.
KeepTimeout == UNCHANGED <<timeout, disabled>>

\* From now on the menu waits for its user.
StopTimeout == timeout' = -1 /\ disabled' = FALSE

\* embloader_try_boot returns: an image ended without an error (which a reset
\* never does), or it failed and has no successor.  The menu now has no
\* timeout, so it never boots by itself again.
TryBootReturns ==
    /\ pc = "boot"
    /\ \/ IsBootable(loaders[loader])
       \/ autoboot => GetNextLoader(loaders, conf.tryNext, loader) = 0
    /\ watchdog' = FALSE
    /\ StopTimeout
    /\ fresh' = FALSE
    /\ pc' = "anykey"
    /\ UNCHANGED <<efivars, statics, loaders, defaultEntry, fault, conf,
                   loader, autoboot, ktype, frontend, countdown, nv0, shown,
                   tried, oneshotBoot, uses, stuck>>

\* "Press any key to continue..."
AnyKey ==
    /\ pc = "anykey"
    /\ pc' = "loop"
    /\ UNCHANGED <<ifaceVars, bootVars, ghosts>>

-----------------------------------------------------------------------------
(* The operating system, and the firmware after efi_main returned *)

OsSetsVariable(w) ==
    /\ pc = "os"
    /\ nv' = [nv EXCEPT ![w[1]] = w[2]]
    /\ uses' = IF w[1] = "EntryOneShot" THEN 0 ELSE uses
    /\ stuck' = IF w[1] = "EntryOneShot" THEN FALSE ELSE stuck
    /\ UNCHANGED <<entrySelected, entries, menuVars, statics, fault, pc,
                   bootVars, nv0, fresh, shown, tried, oneshotBoot>>

Reboot ==
    pc \in {"os", "returned"} /\ TurnOff

-----------------------------------------------------------------------------
InitVariables ==
    InitTimeout \/ InitTimeoutOneShot \/ InitEntryOneShot \/ InitSelection

ShowMenuLoop == PrepareOnly \/ BootHidden \/ ShowMenu

User == MenuEnter \/ MenuSelect \/ MenuKey \/ MenuLeave \/ TuiReset \/ AnyKey

BootOutcome == OsTakesOver \/ ResetEntry \/ Fallback \/ TryBootReturns

Environment ==
    \/ PowerLoss
    \/ Reboot
    \/ \E w \in OsWrites : OsSetsVariable(w)

Next ==
    \/ \E c \in MenuConfigs : PowerOn(c)
    \/ StartFails
    \/ InitVariables
    \/ ShowMenuLoop
    \/ MenuTimeout
    \/ StartEntry
    \/ WatchdogFires
    \/ User
    \/ BootOutcome
    \/ Environment

Spec == Init /\ [][Next]_vars

\* The loader's own code runs, its countdown and the watchdog expire.  Keys,
\* images that return, the OS and the power supply owe nothing.
Fairness ==
    /\ WF_vars(InitVariables)
    /\ WF_vars(ShowMenuLoop)
    /\ WF_vars(MenuTimeout)
    /\ WF_vars(StartEntry)
    /\ WF_vars(WatchdogFires)

FairSpec == Spec /\ Fairness

-----------------------------------------------------------------------------
(* Properties *)

TypeOK ==
    /\ nv = [v \in NvName |-> nv[v]]
    /\ \A v \in NvName : nv[v] \in NvValue(v)
    /\ entrySelected \in Id \cup {None}
    /\ DOMAIN entries \subseteq DOMAIN loaders
    /\ loaders \in Seq(Loader)
    /\ timeout \in -1..INT_MAX
    /\ disabled \in BOOLEAN
    /\ defaultEntry \in Name \cup Pattern \cup {None}
    /\ entryOneshot \in Pattern \cup {None}
    /\ lastBooted \in Id \cup {None}
    /\ oneshotSelected \in 0..Len(loaders)
    /\ saveLastBooted \in BOOLEAN
    /\ varsInitialized \in BOOLEAN
    /\ fault \in BOOLEAN
    /\ pc \in {"off", "vars-timeout", "vars-timeout-oneshot", "vars-oneshot",
              "vars-select", "loop", "menu", "selected", "boot", "anykey",
              "returned", "os"}
    /\ conf \in MenuConfigs \cup {NoConfig}
    /\ loader \in 0..Len(loaders)
    /\ autoboot \in BOOLEAN
    /\ ktype \in Ktype \cup {None}
    /\ watchdog \in BOOLEAN
    /\ frontend \in FrontEnds \cup {None}
    /\ countdown \in BOOLEAN
    /\ tried \subseteq DOMAIN loaders
    /\ uses \in 0..2
    /\ stuck \in BOOLEAN

\* A request in LoaderEntryOneShot is acted on in at most one power cycle,
\* however often power fails, unless the firmware refuses to remove it:
\* sdboot_init_menu_variables removes the variable before it uses its value.
OneShotAtMostOnce == uses <= 1 \/ stuck

\* Booting the one-shot entry first thing after power on leaves
\* LoaderEntryLastBooted as it was: sdboot_set_selected_entry neither saves
\* that entry nor clears the saved one.
OneShotLeavesNoTrace ==
    pc = "boot" /\ oneshotBoot /\ fresh
      => nv["EntryLastBooted"] = nv0["EntryLastBooted"]

\* "@saved" was asked for, by the OS or, if it asks for nothing, by the menu.
SavedRequested ==
    \/ nv0["EntryDefault"] = "@saved"
    \/ nv0["EntryDefault"] = None /\ conf.default = "@saved"

\* While an entry is started that is not the one-shot one, the saved entry is
\* this very entry if "@saved" was asked for at power on and nothing if not,
\* fallback entries and later attempts included: the comparison with the
\* cached entry_last_booted never suppresses a write that was needed.
SavedEntryIsBooted ==
    pc = "boot" /\ ~oneshotBoot /\ IsBootable(loaders[loader]) /\ ~fault
      => nv["EntryLastBooted"] =
           IF SavedRequested THEN EntryId(loaders[loader]) ELSE None

\* The cached entry_last_booted never differs from the variable, whatever the
\* firmware refused: sdboot_set_selected_entry replaces it only after
\* SetVariable succeeded.
SavedCacheCoherent ==
    lastBooted # None /\ pc # "os" => nv["EntryLastBooted"] = lastBooted

\* LoaderEntrySelected names an entry of LoaderEntries: the entry the loader
\* says it booted is one the OS can find in the exported list.
SelectedIsExported ==
    pc = "boot" /\ IsBootable(loaders[loader]) /\ ~fault
      => \E i \in DOMAIN entries : entries[i] = entrySelected

\* While an entry is started the variables tell the operating system the truth
\* about it (sdboot_set_selected_entry): the saved entry is this one, nothing,
\* or untouched by a one-shot boot, and the selected entry is an exported one.
BootIsRecorded ==
    OneShotLeavesNoTrace /\ SavedEntryIsBooted /\ SelectedIsExported

\* The entries a pattern names, by id, and for the configured default by name.
Named(p) ==
    IF p = None THEN {}
    ELSE {i \in DOMAIN loaders : fnmatch(p, EntryId(loaders[i]))}

Saved(p) == IF p = "@saved" THEN nv0["EntryLastBooted"] ELSE p

ConfigNamed(p) ==
    Named(Saved(p)) \cup
      {i \in DOMAIN loaders : p \notin {None, "@saved"} /\ fnmatch(p, loaders[i].name)}

\* The entry that an unattended boot promises: the first one named by the
\* first of these that names any.  A configured default that matches nothing
\* as a pattern is still looked for as a name.
Promised ==
    LET wishes == <<Named(nv0["EntryOneShot"]),
                    Named(Saved(nv0["EntryDefault"])),
                    ConfigNamed(conf.default),
                    {i \in DOMAIN loaders : loaders[i].name = conf.default},
                    DOMAIN loaders>>
        rank   == CHOOSE r \in DOMAIN wishes :
                    wishes[r] # {} /\ \A q \in 1..(r - 1) : wishes[q] = {}
    IN  CHOOSE i \in wishes[rank] : \A j \in wishes[rank] : i <= j

\* The first unattended boot, hidden or after the countdown of any front end,
\* starts the promised entry.  The entry is passed on by name, so this needs
\* names that are unique.
DefaultHonoured ==
    pc = "selected" /\ autoboot /\ fresh /\ tried = {} /\ ~fault
      /\ UniqueNames(loaders)
      => loader = Promised

\* A one-shot timeout shows the menu before the first boot, and a disabled
\* menu is not shown before it.
MenuVisibility ==
    fresh /\ pc \in {"menu", "selected"} /\ ~fault =>
      LET once == TimeoutIsValid(nv0["ConfigTimeoutOneShot"])
          set  == nv0["ConfigTimeout"]
      IN  /\ once => shown
          /\ ~once /\ set # None /\ set.word = "menu-disabled" => ~shown

\* After a boot has failed or returned nothing starts by itself any more: no
\* countdown runs and the hidden boot is off, in every front end.
UnattendedOnce ==
    ~fresh /\ pc \in {"loop", "menu"} => ~countdown /\ timeout < 0

\* The entry in hand stands between a rescue entry and the later entry it rescues.
BehindRescue ==
    \E i \in DOMAIN loaders :
      LET r == FindLoader(loaders, RescueName(loaders[i].name))
      IN  r # 0 /\ r <= loader /\ loader <= i

\* With menu.try-next-on-failure the chain comes back to such entries: the rescue entry
\* fails, the next entries of the menu are tried down to the one it rescues, which fails
\* and is rescued again.
GoesRound == conf.tryNext /\ BehindRescue

\* One unattended embloader_try_boot starts no entry twice, other than those that a
\* rescue entry in front of its entry sends it back to.
NoEntryTwice ==
    pc = "selected" /\ loader \in tried => GoesRound

\* The kernel type the entry is booted with: its own, else the profile's.
EffectiveKtype ==
    IF loaders[loader].ktype # None THEN loaders[loader].ktype ELSE conf.ktype

\* docs/zh/embloader.md says of a profile's ktype that it is used only when
\* the boot option sets none: every entry that is started gets the kernel type
\* meant for it.
EveryKtype ==
    pc = "boot" => ktype = EffectiveKtype

\* The loader waits for its user.
WaitsForUser == pc = "anykey" \/ (pc = "menu" /\ ~countdown)

\* Again and again the loader has ended, been reset, or waits for its user: a hanging
\* image is stopped by the watchdog of embloader_loader_boot, an unattended menu by its
\* countdown.  The loader runs for ever by itself in one case only: from some time on it
\* is in the chain of a menu whose rescue entry stands in front of its entry, each
\* image fails, and each failure disarms the watchdog.
Progress ==
    \/ []<>(pc \in {"off", "returned", "os"} \/ WaitsForUser)
    \/ <>[](pc \in {"selected", "boot"} /\ autoboot /\ GoesRound)
=============================================================================
