--------------------------- MODULE BootMenuProofs ---------------------------
(***************************************************************************)
(* Theorems about BootMenu for every menu, every set of variable contents   *)
(* and every behaviour of the firmware, the user, the OS and the power      *)
(* supply.                                                                  *)
(***************************************************************************)
EXTENDS BootMenu, WellFoundedInduction, TLAPS

\* nv is a function on the names of the variables.
NvOK == DOMAIN nv = NvName /\ nv = [v \in NvName |-> nv[v]]

\* OneShotAtMostOnce is not inductive: that a request is not used twice rests
\* on its being gone once it was used.
OneShotGone == uses > 0 /\ ~stuck => nv["EntryOneShot"] = None

OneShotInv ==
    /\ NvOK
    /\ uses \in 0..2
    /\ OneShotAtMostOnce
    /\ OneShotGone

-----------------------------------------------------------------------------
(* What the variable services do to nv *)

\* efivar_set_raw keeps nv a function and touches one variable.
LEMMA SetEffect ==
    ASSUME NvOK, NEW v \in NvName, NEW x, NEW failed, Set(v, x, failed)
    PROVE  /\ NvOK'
           /\ \A w \in NvName : w # v => nv'[w] = nv[w]
           /\ ~failed => nv'[v] = x
           /\ failed => nv' = nv
           /\ failed \in BOOLEAN
  BY DEF Set, NvOK

\* efivar_unset removes one variable, unless the firmware refuses.
LEMMA UnsetEffect ==
    ASSUME NvOK, NEW v \in NvName, NEW failed, Unset(v, failed)
    PROVE  /\ NvOK'
           /\ \A w \in NvName : w # v => nv'[w] = nv[w]
           /\ ~failed => nv'[v] = None
           /\ failed => nv' = nv
           /\ failed \in BOOLEAN
  <1>1. CASE nv[v] = None /\ UNCHANGED nv /\ failed = FALSE
    BY <1>1 DEF NvOK
  <1>2. CASE nv[v] # None /\ Set(v, None, failed)
    BY <1>2, SetEffect
  <1>3. CASE UNCHANGED nv /\ failed = TRUE
    BY <1>3 DEF NvOK
  <1> QED BY <1>1, <1>2, <1>3 DEF Unset

\* sdboot_set_selected_entry touches no variable but LoaderEntryLastBooted, and
\* its cache agrees with that variable afterwards if it agreed before.
LEMMA SelectedEntryEffect ==
    ASSUME NvOK, NEW i, SetSelectedEntry(i)
    PROVE  /\ NvOK'
           /\ \A w \in NvName : w # "EntryLastBooted" => nv'[w] = nv[w]
           /\ (lastBooted # None => nv["EntryLastBooted"] = lastBooted)
                => (lastBooted' # None => nv'["EntryLastBooted"] = lastBooted')
  <1> DEFINE id == EntryId(loaders[i])
  <1>0. "EntryLastBooted" \in NvName
    BY DEF NvName
  <1>1. CASE UNCHANGED <<nv, lastBooted>>
    BY <1>1 DEF NvOK
  <1>2. ASSUME NEW failed \in BOOLEAN, SaveLastBooted(id, failed)
        PROVE  /\ NvOK'
               /\ \A w \in NvName : w # "EntryLastBooted" => nv'[w] = nv[w]
               /\ (lastBooted # None => nv["EntryLastBooted"] = lastBooted)
                => (lastBooted' # None => nv'["EntryLastBooted"] = lastBooted')
    <2>1. CASE ~saveLastBooted
      BY <1>0, <1>2, <2>1, UnsetEffect DEF SaveLastBooted
    <2>2. CASE saveLastBooted /\ lastBooted = id
      BY <1>1, <1>2, <2>2 DEF SaveLastBooted
    <2>3. CASE saveLastBooted /\ lastBooted # id
      BY <1>0, <1>2, <2>3, SetEffect DEF SaveLastBooted
    <2> QED BY <2>1, <2>2, <2>3
  <1> QED BY <1>1, <1>2 DEF SetSelectedEntry
-----------------------------------------------------------------------------
(* The one-shot request *)

\* No request is pending when the machine is first switched on.
LEMMA OneShotInit == Init => OneShotInv
  BY DEF Init, OneShotInv, NvOK, NvEmpty, NvName, OneShotAtMostOnce,
         OneShotGone

\* Steps that write no variable and do not read the request.
LEMMA OneShotQuiet ==
    ASSUME OneShotInv, UNCHANGED <<nv, uses, stuck>>
    PROVE  OneShotInv'
  BY DEF OneShotInv, NvOK, OneShotAtMostOnce, OneShotGone

\* Every step keeps the invariant: the only ones that matter are the removal of
\* the request by sdboot_init_menu_variables and a new request by the OS.
LEMMA OneShotStep == OneShotInv /\ [Next]_vars => OneShotInv'
  <1> SUFFICES ASSUME OneShotInv, [Next]_vars PROVE OneShotInv'
    OBVIOUS
  <1> USE DEF ifaceVars, efivars, menuVars, statics, bootVars, ghosts
  <1>0. NvOK /\ {"EntryOneShot", "ConfigTimeoutOneShot"} \subseteq NvName
    BY DEF OneShotInv, NvName
  <1>1. ASSUME NEW c \in MenuConfigs, PowerOn(c) PROVE OneShotInv'
    BY <1>1, OneShotQuiet DEF PowerOn
  <1>2. CASE StartFails
    BY <1>2, OneShotQuiet DEF StartFails
  <1>3. CASE InitVariables
    <2>1. CASE InitTimeout
      BY <2>1, OneShotQuiet DEF InitTimeout, ReadConfigTimeout
    <2>2. CASE InitTimeoutOneShot
      <3>1. NvOK' /\ nv'["EntryOneShot"] = nv["EntryOneShot"]
        BY <1>0, <2>2, UnsetEffect
           DEF InitTimeoutOneShot, ConsumeTimeoutOneShot, NvOK
      <3>2. UNCHANGED <<uses, stuck>>
        BY <2>2 DEF InitTimeoutOneShot
      <3> QED BY <3>1, <3>2 DEF OneShotInv, OneShotAtMostOnce, OneShotGone
    <2>3. CASE InitEntryOneShot
      <3>1. PICK getFailed \in BOOLEAN, setFailed \in BOOLEAN :
              /\ ConsumeEntryOneShot(getFailed, setFailed)
              /\ stuck' = (stuck \/ setFailed)
        BY <2>3 DEF InitEntryOneShot
      <3>2. uses' = IF entryOneshot' # None /\ uses < 2 THEN uses + 1 ELSE uses
        BY <2>3 DEF InitEntryOneShot
      <3>3. CASE entryOneshot' = None
        BY <3>1, <3>2, <3>3, OneShotQuiet, Zenon
           DEF ConsumeEntryOneShot, OneShotInv, NvOK, OneShotAtMostOnce,
               OneShotGone
      <3>4. CASE entryOneshot' # None
        <4>1. nv["EntryOneShot"] # None
          BY <3>1, <3>4 DEF ConsumeEntryOneShot, Get
        <4>2. uses = 0 \/ stuck
          BY <4>1 DEF OneShotInv, OneShotGone
        <4>3. Unset("EntryOneShot", setFailed)
          BY <3>1, <3>4 DEF ConsumeEntryOneShot
        <4>4. NvOK' /\ (~setFailed => nv'["EntryOneShot"] = None)
          BY <1>0, <4>3, UnsetEffect
        <4>5. (stuck => stuck') /\ (setFailed => stuck')
          BY <3>1, Zenon
        <4>6. uses' \in 0..2 /\ (uses = 0 => uses' = 1)
          BY <3>2, <3>4 DEF OneShotInv
        <4> QED BY <4>2, <4>4, <4>5, <4>6
                DEF OneShotInv, OneShotAtMostOnce, OneShotGone
      <3> QED BY <3>3, <3>4
    <2>4. CASE InitSelection
      BY <2>4, OneShotQuiet DEF InitSelection, SelectEntry
    <2> QED BY <1>3, <2>1, <2>2, <2>3, <2>4 DEF InitVariables
  <1>4. CASE ShowMenuLoop
    BY <1>4, OneShotQuiet DEF ShowMenuLoop, PrepareOnly, BootHidden, ShowMenu
  <1>5. CASE MenuTimeout
    BY <1>5, OneShotQuiet DEF MenuTimeout, Choose
  <1>6. CASE StartEntry
    <2>1. NvOK' /\ nv'["EntryOneShot"] = nv["EntryOneShot"]
      BY <1>0, <1>6, SelectedEntryEffect DEF StartEntry
    <2>2. UNCHANGED <<uses, stuck>>
      BY <1>6 DEF StartEntry
    <2> QED BY <2>1, <2>2 DEF OneShotInv, OneShotAtMostOnce, OneShotGone
  <1>7. CASE WatchdogFires
    BY <1>7, OneShotQuiet DEF WatchdogFires, TurnOff
  <1>8. CASE User
    BY <1>8, OneShotQuiet
       DEF User, MenuEnter, MenuSelect, Choose, MenuKey, MenuLeave, TuiReset,
           TurnOff, AnyKey
  <1>9. CASE BootOutcome
    BY <1>9, OneShotQuiet
       DEF BootOutcome, OsTakesOver, ResetEntry, Fallback, TryBootReturns,
           TurnOff
  <1>10. CASE Environment
    <2>1. CASE PowerLoss \/ Reboot
      BY <2>1, OneShotQuiet DEF PowerLoss, Reboot, TurnOff
    <2>2. ASSUME NEW w \in OsWrites, OsSetsVariable(w) PROVE OneShotInv'
      <3>1. NvOK' /\ (w[1] # "EntryOneShot" =>
                        nv'["EntryOneShot"] = nv["EntryOneShot"])
        BY <1>0, <2>2, OsAssumption DEF OsSetsVariable, NvOK
      <3>2. \/ uses' = 0 /\ w[1] = "EntryOneShot"
            \/ uses' = uses /\ w[1] # "EntryOneShot"
        BY <2>2 DEF OsSetsVariable
      <3>3. w[1] # "EntryOneShot" => stuck' = stuck
        BY <2>2 DEF OsSetsVariable
      <3> QED BY <3>1, <3>2, <3>3 DEF OneShotInv,
                    OneShotAtMostOnce, OneShotGone
    <2> QED BY <1>10, <2>1, <2>2 DEF Environment
  <1>11. CASE UNCHANGED vars
    BY <1>11, OneShotQuiet DEF vars
  <1> QED BY <1>1, <1>2, <1>3, <1>4, <1>5, <1>6, <1>7, <1>8, <1>9, <1>10,
             <1>11 DEF Next

\* A one-shot request is acted on in at most one power cycle, wherever power
\* fails, as long as the firmware does not refuse to remove the variable.
THEOREM OneShotOnce == Spec => []OneShotAtMostOnce
  <1>1. OneShotInv => OneShotAtMostOnce
    BY DEF OneShotInv
  <1> QED BY <1>1, OneShotInit, OneShotStep, PTL DEF Spec
-----------------------------------------------------------------------------
(* The cached LoaderEntryLastBooted *)

CacheInv == NvOK /\ SavedCacheCoherent

\* The cache is empty at first.
LEMMA CacheInit == Init => CacheInv
  BY DEF Init, CacheInv, NvOK, NvEmpty, NvName, SavedCacheCoherent

\* Steps that touch neither the variable nor the cache nor enter the OS.
LEMMA CacheQuiet ==
    ASSUME CacheInv, pc # "os", NvOK', lastBooted' = lastBooted,
           nv'["EntryLastBooted"] = nv["EntryLastBooted"]
    PROVE  CacheInv'
  BY DEF CacheInv, SavedCacheCoherent

\* Switching the machine off empties the cache.
LEMMA CacheOff ==
    ASSUME CacheInv, TurnOff
    PROVE  CacheInv'
  BY DEF CacheInv, NvOK, SavedCacheCoherent, TurnOff, RamCleared

\* Every step keeps the cache and the variable in agreement.
LEMMA CacheStep == CacheInv /\ [Next]_vars => CacheInv'
  <1> SUFFICES ASSUME CacheInv, [Next]_vars PROVE CacheInv'
    OBVIOUS
  <1> USE DEF ifaceVars, efivars, menuVars, statics, bootVars, ghosts
  <1>0. /\ NvOK
        /\ {"EntryOneShot", "ConfigTimeoutOneShot", "EntryLastBooted"}
             \subseteq NvName
    BY DEF CacheInv, NvName
  <1>q. ASSUME UNCHANGED <<nv, lastBooted>>, pc # "os" PROVE CacheInv'
    BY <1>0, <1>q, CacheQuiet DEF NvOK
  <1>1. ASSUME NEW c \in MenuConfigs, PowerOn(c) PROVE CacheInv'
    BY <1>1, <1>q DEF PowerOn
  <1>2. CASE StartFails
    BY <1>2, <1>q DEF StartFails
  <1>3. CASE InitVariables
    <2>1. CASE InitTimeout
      BY <1>0, <2>1
         DEF InitTimeout, ReadConfigTimeout, CacheInv, NvOK,
             SavedCacheCoherent
    <2>2. CASE InitTimeoutOneShot
      <3>1. NvOK' /\ nv'["EntryLastBooted"] = nv["EntryLastBooted"]
        BY <1>0, <2>2, UnsetEffect
           DEF InitTimeoutOneShot, ConsumeTimeoutOneShot, NvOK
      <3> QED BY <2>2, <3>1, CacheQuiet
              DEF InitTimeoutOneShot, ConsumeTimeoutOneShot
    <2>3. CASE InitEntryOneShot
      <3>1. NvOK' /\ nv'["EntryLastBooted"] = nv["EntryLastBooted"]
        BY <1>0, <2>3, UnsetEffect
           DEF InitEntryOneShot, ConsumeEntryOneShot, NvOK
      <3> QED BY <2>3, <3>1, CacheQuiet
              DEF InitEntryOneShot, ConsumeEntryOneShot
    <2>4. CASE InitSelection
      <3>1. pc = "vars-select" /\ UNCHANGED nv
        BY <2>4 DEF InitSelection, SelectEntry
      <3>2. lastBooted' = lastBooted \/ lastBooted' = None
              \/ lastBooted' = nv["EntryLastBooted"]
        BY <2>4 DEF InitSelection, SelectEntry, Get
      <3> QED BY <3>1, <3>2 DEF CacheInv, NvOK, SavedCacheCoherent
    <2> QED BY <1>3, <2>1, <2>2, <2>3, <2>4 DEF InitVariables
  <1>4. CASE ShowMenuLoop
    BY <1>4, <1>q DEF ShowMenuLoop, PrepareOnly, BootHidden, ShowMenu
  <1>5. CASE MenuTimeout
    BY <1>5, <1>q DEF MenuTimeout, Choose
  <1>6. CASE StartEntry
    BY <1>0, <1>6, SelectedEntryEffect
       DEF StartEntry, CacheInv, SavedCacheCoherent
  <1>7. CASE WatchdogFires
    BY <1>7, CacheOff DEF WatchdogFires
  <1>8. CASE User
    BY <1>8, <1>q, CacheOff
       DEF User, MenuEnter, MenuSelect, Choose, MenuKey, MenuLeave, TuiReset,
           AnyKey
  <1>9. CASE BootOutcome
    BY <1>9, <1>q, CacheOff
       DEF BootOutcome, OsTakesOver, ResetEntry, Fallback, TryBootReturns
  <1>10. CASE Environment
    <2>1. CASE PowerLoss \/ Reboot
      BY <2>1, CacheOff DEF PowerLoss, Reboot
    <2>2. ASSUME NEW w \in OsWrites, OsSetsVariable(w) PROVE CacheInv'
      BY <1>0, <2>2, OsAssumption
         DEF OsSetsVariable, CacheInv, NvOK, SavedCacheCoherent
    <2> QED BY <1>10, <2>1, <2>2 DEF Environment
  <1>11. CASE UNCHANGED vars
    BY <1>11 DEF vars, CacheInv, NvOK, SavedCacheCoherent
  <1> QED BY <1>1, <1>2, <1>3, <1>4, <1>5, <1>6, <1>7, <1>8, <1>9, <1>10,
             <1>11 DEF Next

\* Whatever writes the firmware refuses, the cached entry_last_booted that
\* decides whether LoaderEntryLastBooted is written agrees with the variable.
THEOREM SavedCache == Spec => []SavedCacheCoherent
  <1>1. CacheInv => SavedCacheCoherent
    BY DEF CacheInv
  <1> QED BY <1>1, CacheInit, CacheStep, PTL DEF Spec
-----------------------------------------------------------------------------
(* The searches of the menu *)

\* FirstOf is the least position of a set, 0 exactly for the empty one.
LEMMA FirstOfIsLeast ==
    ASSUME NEW S \in SUBSET Nat
    PROVE  /\ S = {} => FirstOf(S) = 0
           /\ S # {} => /\ FirstOf(S) \in S
                        /\ \A j \in S : FirstOf(S) <= j
  <1>1. CASE S = {}
    BY <1>1 DEF FirstOf
  <1>2. CASE S # {}
    <2>1. \E i \in S : \A j \in S : ~(<<j, i>> \in OpToRel(<, Nat))
      BY <1>2, NatLessThanWellFounded, WFMin, Zenon
    <2>2. PICK i \in S : \A j \in S : ~(<<j, i>> \in OpToRel(<, Nat))
      BY <2>1
    <2>3. \A j \in S : ~(j < i)
      BY <2>2, Zenon DEF OpToRel
    <2>4. \A j \in S : i <= j
      BY <2>3
    <2> QED BY <1>2, <2>4 DEF FirstOf
  <1> QED BY <1>1, <1>2

\* LastOf is the greatest position of a set of list positions.
LEMMA LastOfIsGreatest ==
    ASSUME NEW n \in Nat, NEW S \in SUBSET (1..n)
    PROVE  /\ S = {} => LastOf(S) = 0
           /\ S # {} => /\ LastOf(S) \in S
                        /\ \A j \in S : LastOf(S) >= j
  <1>1. CASE S = {}
    BY <1>1 DEF LastOf
  <1>2. CASE S # {}
    <2> DEFINE T == {k \in Nat : n - k \in S}
    <2>1. T \in SUBSET Nat /\ T # {}
      <3>1. PICK i \in S : TRUE
        BY <1>2
      <3>2. n - i \in T
        BY <3>1
      <3> QED BY <3>2
    <2>2. FirstOf(T) \in T /\ \A k \in T : FirstOf(T) <= k
      BY <2>1, FirstOfIsLeast
    <2>3. /\ n - FirstOf(T) \in S
          /\ \A j \in S : n - FirstOf(T) >= j
      <3>1. \A j \in S : n - j \in T
        OBVIOUS
      <3> QED BY <2>2, <3>1
    <2> QED BY <1>2, <2>3 DEF LastOf
  <1> QED BY <1>1, <1>2

\* Every search of the menu returns a position of it or 0.
LEMMA SearchTypes ==
    ASSUME NEW ls \in Seq(Loader)
    PROVE  /\ \A name : FindLoader(ls, name) \in 0..Len(ls)
           /\ \A p, internal : SdbootFindLoader(ls, p, internal) \in 0..Len(ls)
           /\ \A next : \A cur \in DOMAIN ls :
                GetNextLoader(ls, next, cur) \in 0..Len(ls)
           /\ DOMAIN ls # {} => \A entry :
                /\ GetDefaultLoader(ls, entry) \in DOMAIN ls
                /\ MenuDefaultLoader(ls, entry) \in DOMAIN ls
  <1>0. Len(ls) \in Nat /\ DOMAIN ls = 1..Len(ls)
    OBVIOUS
  <1>1. \A S \in SUBSET DOMAIN ls :
          /\ FirstOf(S) \in 0..Len(ls) /\ LastOf(S) \in 0..Len(ls)
          /\ S # {} => FirstOf(S) \in DOMAIN ls
    <2> TAKE S \in SUBSET DOMAIN ls
    <2>1. S \in SUBSET Nat /\ S \in SUBSET (1..Len(ls))
      BY <1>0
    <2>2. FirstOf(S) = 0 \/ FirstOf(S) \in S
      BY <2>1, FirstOfIsLeast
    <2>3. LastOf(S) = 0 \/ LastOf(S) \in S
      BY <1>0, <2>1, LastOfIsGreatest
    <2>4. S # {} => FirstOf(S) \in S
      BY <2>1, FirstOfIsLeast
    <2> QED BY <1>0, <2>2, <2>3, <2>4
  <1>2. \A name : FindLoader(ls, name) \in 0..Len(ls)
    BY <1>1 DEF FindLoader
  <1>3. \A p, internal : SdbootFindLoader(ls, p, internal) \in 0..Len(ls)
    BY <1>0, <1>1 DEF SdbootFindLoader
  <1>4. ASSUME NEW next, NEW cur \in DOMAIN ls
        PROVE  GetNextLoader(ls, next, cur) \in 0..Len(ls)
    <2> DEFINE later == {i \in DOMAIN ls : i > cur /\ ls[i].complete}
    <2>1. FirstOf(later) \in 0..Len(ls)
      BY <1>1
    <2> HIDE DEF later
    <2>2. GetNextLoader(ls, next, cur) =
            LET rescue == IF EndsWithRescue(ls[cur].name) THEN 0
                          ELSE FindLoader(ls, RescueName(ls[cur].name))
            IN  IF rescue # 0 THEN rescue
                ELSE IF next THEN FirstOf(later) ELSE 0
      BY DEF GetNextLoader, later
    <2> QED BY <1>0, <1>2, <2>1, <2>2
  <1>5. ASSUME DOMAIN ls # {}, NEW entry
        PROVE  /\ GetDefaultLoader(ls, entry) \in DOMAIN ls
               /\ MenuDefaultLoader(ls, entry) \in DOMAIN ls
    <2>1. FirstOf(DOMAIN ls) \in DOMAIN ls
      BY <1>1, <1>5
    <2>2. LastOf({i \in DOMAIN ls : ls[i].name = entry}) \in 0..Len(ls)
      BY <1>1
    <2> QED BY <1>0, <1>2, <2>1, <2>2
            DEF GetDefaultLoader, MenuDefaultLoader
  <1> QED BY <1>2, <1>3, <1>4, <1>5

\* sdboot_var_get_timeout gives an int that is at least -1.
LEMMA TimeoutType ==
    ASSUME NEW t \in TimeoutText, TimeoutIsValid(t)
    PROVE  TimeoutValue(t) \in -1..INT_MAX /\ OneShotTimeout(t) \in -1..INT_MAX
  <1>1. /\ t.word \in {"menu-force", "menu-hidden", "menu-disabled", "digits"}
        /\ t.n \in Nat
    BY VariableAssumption DEF TimeoutIsValid
  <1>2. TimeoutValue(t) \in -1..INT_MAX
    BY <1>1, BoundsAssumption DEF TimeoutValue
  <1> QED BY <1>2, BoundsAssumption DEF OneShotTimeout
-----------------------------------------------------------------------------
(* Type correctness *)

\* TypeOK in parts, so that a step is only asked about the ones it changes, and
\* the flags apart from the numbers.
NvType == NvOK /\ \A v \in NvName : nv[v] \in NvValue(v)

MenuType ==
    /\ DOMAIN entries \subseteq DOMAIN loaders
    /\ loaders \in Seq(Loader)
    /\ timeout \in -1..INT_MAX
    /\ defaultEntry \in Name \cup Pattern \cup {None}

StaticType ==
    /\ entrySelected \in Id \cup {None}
    /\ entryOneshot \in Pattern \cup {None}
    /\ lastBooted \in Id \cup {None}
    /\ oneshotSelected \in 0..Len(loaders)

BootType ==
    /\ pc \in {"off", "vars-timeout", "vars-timeout-oneshot", "vars-oneshot",
              "vars-select", "loop", "menu", "selected", "boot", "anykey",
              "returned", "os"}
    /\ conf \in MenuConfigs \cup {NoConfig}
    /\ loader \in 0..Len(loaders)
    /\ ktype \in Ktype \cup {None}
    /\ frontend \in FrontEnds \cup {None}
    /\ tried \subseteq DOMAIN loaders
    /\ uses \in 0..2

FlagType ==
    /\ disabled \in BOOLEAN
    /\ saveLastBooted \in BOOLEAN
    /\ varsInitialized \in BOOLEAN
    /\ fault \in BOOLEAN
    /\ autoboot \in BOOLEAN
    /\ watchdog \in BOOLEAN
    /\ countdown \in BOOLEAN
    /\ stuck \in BOOLEAN

\* The loader pointer is only followed where it is not NULL, a menu is only
\* shown when there is an entry to choose, and no position of an old menu
\* survives a power cycle.
PointerOK ==
    /\ pc = "off" => /\ loader = 0 /\ oneshotSelected = 0
                     /\ tried = {} /\ DOMAIN entries = {}
    /\ pc \in {"selected", "boot"} => loader # 0
    /\ pc = "menu" => DOMAIN loaders # {}

ShapeInv == NvType /\ MenuType /\ StaticType /\ BootType /\ PointerOK

TypeInv == ShapeInv /\ FlagType

\* The id of an entry is one of Id.
LEMMA EntryIdType ==
    ASSUME NEW l \in Loader PROVE EntryId(l) \in Id
  BY DEF Id

\* The shape of the state (everything but its flags) at first.
LEMMA ShapeInit == Init => ShapeInv
  <1> SUFFICES ASSUME Init PROVE ShapeInv
    OBVIOUS
  <1>1. NvType
    BY DEF Init, NvType, NvOK, NvEmpty, NvValue
  <1>2. loaders = <<>> /\ loaders \in Seq(Loader) /\ Len(loaders) = 0
    BY DEF Init
  <1>3. MenuType
    BY <1>2, BoundsAssumption DEF Init, MenuType
  <1>4. StaticType
    BY <1>2 DEF Init, StaticType
  <1>5. BootType /\ PointerOK
    BY <1>2 DEF Init, BootType, PointerOK
  <1> QED BY <1>1, <1>3, <1>4, <1>5 DEF ShapeInv

\* A machine that is off satisfies the invariant if its variables do.
LEMMA ShapeOff == ASSUME ShapeInv, TurnOff PROVE ShapeInv'
  <1>1. NvType'
    BY DEF ShapeInv, NvType, NvOK, TurnOff
  <1>2. loaders' = <<>> /\ loaders' \in Seq(Loader) /\ Len(loaders') = 0
    BY DEF TurnOff, RamCleared
  <1>3. MenuType' /\ StaticType'
    BY <1>2, BoundsAssumption DEF TurnOff, RamCleared, MenuType, StaticType
  <1>4. BootType' /\ PointerOK'
    BY <1>2 DEF TurnOff, RamCleared, BootType, PointerOK, ShapeInv
  <1> QED BY <1>1, <1>3, <1>4 DEF ShapeInv

\* A write of a value of the right type keeps the type of nv.
LEMMA NvTypeKept ==
    ASSUME NvType, NvOK', NEW v \in NvName, nv'[v] \in NvValue(v),
           \A w \in NvName : w # v => nv'[w] = nv[w]
    PROVE  NvType'
  BY DEF NvType

\* The steps of sdboot_init_menu_variables.
LEMMA ShapeInitVariables == ASSUME ShapeInv, InitVariables PROVE ShapeInv'
  <1> USE DEF ifaceVars, efivars, menuVars, statics, bootVars, ghosts
  <1>0. NvType /\ NvOK /\ MenuType /\ StaticType /\ BootType /\ PointerOK
    BY DEF ShapeInv, NvType
  <1>1. CASE InitTimeout
    <2>1. timeout' \in -1..INT_MAX
      BY <1>0, <1>1, TimeoutType
         DEF InitTimeout, ReadConfigTimeout, MenuType, TimeoutIsValid
    <2>2. NvType' /\ MenuType' /\ StaticType'
      BY <1>0, <1>1, <2>1
         DEF InitTimeout, ReadConfigTimeout, NvType, NvOK, MenuType,
             StaticType
    <2>3. BootType' /\ PointerOK'
      BY <1>0, <1>1
         DEF InitTimeout, ReadConfigTimeout, BootType, PointerOK
    <2> QED BY <2>2, <2>3 DEF ShapeInv
  <1>2. CASE InitTimeoutOneShot
    <2>1. PICK t \in TimeoutText \cup {None}, getFailed \in BOOLEAN,
               setFailed \in BOOLEAN :
            IF TimeoutIsValid(t)
            THEN /\ timeout' = OneShotTimeout(t)
                 /\ Unset("ConfigTimeoutOneShot", setFailed)
            ELSE UNCHANGED <<nv, timeout>>
      BY <1>2 DEF InitTimeoutOneShot, ConsumeTimeoutOneShot
    <2>2. timeout' \in -1..INT_MAX
      BY <1>0, <2>1, TimeoutType DEF MenuType, TimeoutIsValid
    <2>3. NvType'
      <3>1. CASE UNCHANGED nv
        BY <1>0, <3>1 DEF NvType, NvOK
      <3>2. CASE Unset("ConfigTimeoutOneShot", setFailed)
        <4>1. "ConfigTimeoutOneShot" \in NvName /\ None \in NvValue("ConfigTimeoutOneShot")
          BY DEF NvName, NvValue
        <4>2. /\ NvOK'
              /\ nv'["ConfigTimeoutOneShot"] \in NvValue("ConfigTimeoutOneShot")
              /\ \A w \in NvName : w # "ConfigTimeoutOneShot" => nv'[w] = nv[w]
          BY <1>0, <3>2, <4>1, UnsetEffect DEF NvType
        <4> QED BY <1>0, <4>1, <4>2, NvTypeKept
      <3> QED BY <2>1, <3>1, <3>2
    <2>4. MenuType' /\ StaticType'
      BY <1>0, <1>2, <2>2
         DEF InitTimeoutOneShot, ConsumeTimeoutOneShot, MenuType, StaticType
    <2>5. BootType' /\ PointerOK'
      BY <1>0, <1>2
         DEF InitTimeoutOneShot, ConsumeTimeoutOneShot, BootType, PointerOK
    <2> QED BY <2>3, <2>4, <2>5 DEF ShapeInv
  <1>3. CASE InitEntryOneShot
    <2>1. PICK p \in Pattern \cup {None}, setFailed \in BOOLEAN :
            /\ entryOneshot' = p
            /\ \/ UNCHANGED nv
               \/ Unset("EntryOneShot", setFailed)
      BY <1>3 DEF InitEntryOneShot, ConsumeEntryOneShot
    <2>2. NvType'
      <3>1. CASE UNCHANGED nv
        BY <1>0, <3>1 DEF NvType, NvOK
      <3>2. CASE Unset("EntryOneShot", setFailed)
        <4>1. "EntryOneShot" \in NvName /\ None \in NvValue("EntryOneShot")
          BY DEF NvName, NvValue
        <4>2. /\ NvOK'
              /\ nv'["EntryOneShot"] \in NvValue("EntryOneShot")
              /\ \A w \in NvName : w # "EntryOneShot" => nv'[w] = nv[w]
          BY <1>0, <3>2, <4>1, UnsetEffect DEF NvType
        <4> QED BY <1>0, <4>1, <4>2, NvTypeKept
      <3> QED BY <2>1, <3>1, <3>2
    <2>3. MenuType' /\ StaticType'
      BY <1>0, <1>3, <2>1
         DEF InitEntryOneShot, ConsumeEntryOneShot, MenuType, StaticType
    <2>4. uses' \in 0..2
      BY <1>0, <1>3 DEF InitEntryOneShot, BootType
    <2>5. BootType' /\ PointerOK'
      BY <1>0, <1>3, <2>4
         DEF InitEntryOneShot, ConsumeEntryOneShot, BootType, PointerOK
    <2> QED BY <2>2, <2>3, <2>5 DEF ShapeInv
  <1>4. CASE InitSelection
    <2>1. loaders \in Seq(Loader) /\ UNCHANGED loaders
      BY <1>0, <1>4 DEF InitSelection, SelectEntry, MenuType
    <2> DEFINE One == SelectedByOneShot(loaders, entryOneshot)
               Def(def, last) == SelectedByDefault(loaders, def, last)
               Conf(last) == SelectedByConfig(loaders, defaultEntry, last)
               Sel(def, last) == IF One # 0 THEN One
                                 ELSE IF Def(def, last) # 0
                                 THEN Def(def, last) ELSE Conf(last)
    <2>2. /\ One \in 0..Len(loaders)
          /\ \A def, last : Sel(def, last) \in 0..Len(loaders)
      BY <2>1, SearchTypes
         DEF SelectedByOneShot, SelectedByDefault, SelectedByConfig
    <2>3. \A i \in 0..Len(loaders) : i # 0 => loaders[i].name \in Name
      <3>1. \A i \in 1..Len(loaders) : loaders[i] \in Loader
        BY <2>1
      <3>2. Len(loaders) \in Nat
        BY <2>1
      <3> QED BY <3>1, <3>2 DEF Loader
    <2>4. PICK def \in Pattern \cup {None}, last \in Id \cup {None},
               oom \in BOOLEAN, eFailed \in BOOLEAN :
            /\ lastBooted' = IF oom THEN lastBooted ELSE last
            /\ defaultEntry' = IF Sel(def, last) # 0 /\ ~oom
                               THEN loaders[Sel(def, last)].name
                               ELSE defaultEntry
            /\ oneshotSelected' = IF One # 0 /\ ~oom THEN One
                                                     ELSE oneshotSelected
            /\ entries' = IF eFailed THEN entries ELSE ExportedIds(loaders)
      BY <1>4 DEF InitSelection, SelectEntry
    <2>5. DOMAIN ExportedIds(loaders) \subseteq DOMAIN loaders
      BY DEF ExportedIds
    <2> HIDE DEF One, Sel
    <2>6. defaultEntry' \in Name \cup Pattern \cup {None}
      BY <1>0, <2>2, <2>3, <2>4 DEF MenuType
    <2>7. NvType' /\ MenuType'
      BY <1>0, <1>4, <2>1, <2>4, <2>5, <2>6
         DEF InitSelection, SelectEntry, NvType, NvOK, MenuType
    <2>8. StaticType'
      BY <1>0, <1>4, <2>1, <2>2, <2>4
         DEF InitSelection, SelectEntry, StaticType
    <2>9. BootType' /\ PointerOK'
      BY <1>0, <1>4 DEF InitSelection, SelectEntry, BootType, PointerOK
    <2> QED BY <2>7, <2>8, <2>9 DEF ShapeInv
  <1> QED BY <1>1, <1>2, <1>3, <1>4 DEF InitVariables

\* sdboot_set_selected_entry writes ids of entries and nothing else.
LEMMA ShapeStartEntry == ASSUME ShapeInv, StartEntry PROVE ShapeInv'
  <1> USE DEF ifaceVars, efivars, menuVars, statics, bootVars, ghosts
  <1>0. NvType /\ NvOK /\ MenuType /\ StaticType /\ BootType /\ PointerOK
    BY DEF ShapeInv, NvType
  <1>1. loader \in DOMAIN loaders /\ loaders[loader] \in Loader
    BY <1>0 DEF StartEntry, MenuType, BootType, PointerOK
  <1> DEFINE id == EntryId(loaders[loader])
  <1>2. id \in Id
    BY <1>1, EntryIdType
  <1>3. UNCHANGED <<entries, loaders, timeout, defaultEntry, entryOneshot,
                    conf, loader, frontend, uses>>
    BY DEF StartEntry, SetSelectedEntry
  <1>4. /\ entrySelected' \in {entrySelected, id}
        /\ \/ UNCHANGED <<nv, lastBooted>>
           \/ \E failed \in BOOLEAN : SaveLastBooted(id, failed)
        /\ oneshotSelected' \in {0, oneshotSelected}
    BY DEF StartEntry, SetSelectedEntry
  <1>5. /\ "EntryLastBooted" \in NvName
        /\ {None, id} \subseteq NvValue("EntryLastBooted")
    BY <1>2 DEF NvName, NvValue
  <1>6. NvType' /\ lastBooted' \in Id \cup {None}
    <2>1. CASE UNCHANGED <<nv, lastBooted>>
      BY <1>0, <2>1 DEF NvType, NvOK, StaticType
    <2>2. ASSUME NEW failed \in BOOLEAN, SaveLastBooted(id, failed)
          PROVE  NvType' /\ lastBooted' \in Id \cup {None}
      <3>1. CASE ~saveLastBooted
        <4>1. /\ Unset("EntryLastBooted", failed)
              /\ lastBooted' \in {lastBooted, None}
          BY <2>2, <3>1 DEF SaveLastBooted
        <4>2. /\ NvOK'
              /\ nv'["EntryLastBooted"] \in NvValue("EntryLastBooted")
              /\ \A w \in NvName : w # "EntryLastBooted" => nv'[w] = nv[w]
          BY <1>0, <1>5, <4>1, UnsetEffect DEF NvType
        <4> QED BY <1>0, <1>5, <4>1, <4>2, NvTypeKept DEF StaticType
      <3>2. CASE saveLastBooted /\ lastBooted = id
        BY <2>1, <2>2, <3>2 DEF SaveLastBooted
      <3>3. CASE saveLastBooted /\ lastBooted # id
        <4>1. /\ Set("EntryLastBooted", id, failed)
              /\ lastBooted' \in {lastBooted, id}
          BY <2>2, <3>3 DEF SaveLastBooted
        <4>2. /\ NvOK'
              /\ nv'["EntryLastBooted"] \in NvValue("EntryLastBooted")
              /\ \A w \in NvName : w # "EntryLastBooted" => nv'[w] = nv[w]
          BY <1>0, <1>5, <4>1, SetEffect DEF NvType
        <4> QED BY <1>0, <1>2, <1>5, <4>1, <4>2, NvTypeKept DEF StaticType
      <3> QED BY <3>1, <3>2, <3>3
    <2> QED BY <1>4, <2>1, <2>2
  <1> HIDE DEF id
  <1>7. MenuType' /\ StaticType'
    BY <1>0, <1>2, <1>3, <1>4, <1>6 DEF MenuType, StaticType
  <1>8. ktype' \in Ktype \cup {None} /\ tried' \subseteq DOMAIN loaders
    BY <1>0, <1>1 DEF StartEntry, BootType, Loader, NodeKtype, VersionKtype
  <1>9. BootType' /\ PointerOK'
    BY <1>0, <1>3, <1>8 DEF StartEntry, BootType, PointerOK
  <1> QED BY <1>6, <1>7, <1>9 DEF ShapeInv

\* Steps that leave the variables and the menu alone.
LEMMA ShapeQuiet ==
    ASSUME ShapeInv, UNCHANGED <<nv, entrySelected, entries, loaders,
             defaultEntry, entryOneshot, lastBooted, oneshotSelected>>,
           timeout' \in {timeout, -1}, BootType', PointerOK'
    PROVE  ShapeInv'
  BY BoundsAssumption DEF ShapeInv, NvType, NvOK, MenuType, StaticType

\* Every step keeps the shape of the state.
LEMMA ShapeStep == ShapeInv /\ [Next]_vars => ShapeInv'
  <1> SUFFICES ASSUME ShapeInv, [Next]_vars PROVE ShapeInv'
    OBVIOUS
  <1> USE DEF ifaceVars, efivars, menuVars, statics, bootVars, ghosts
  <1>0. MenuType /\ StaticType /\ BootType /\ PointerOK
    BY DEF ShapeInv
  <1>k. conf.ktype \in Ktype \cup {None}
    BY <1>0, ConfigAssumption DEF BootType, NoConfig
  <1>d. DOMAIN loaders # {} =>
          /\ GetDefaultLoader(loaders, defaultEntry) \in 1..Len(loaders)
          /\ FrontEndDefault \in 1..Len(loaders)
    BY <1>0, SearchTypes DEF MenuType, FrontEndDefault
  <1>1. ASSUME NEW c \in MenuConfigs, PowerOn(c) PROVE ShapeInv'
    <2>1. /\ c.loaders \in Seq(Loader)
          /\ c.timeout \in -1..INT_MAX
          /\ c.default \in Name \cup Pattern \cup {None}
      BY ConfigAssumption
    <2>2. Len(c.loaders) \in Nat
      BY <2>1
    <2>3. NvType'
      BY <1>1 DEF PowerOn, ShapeInv, NvType, NvOK
    <2>4. MenuType' /\ StaticType'
      BY <1>0, <1>1, <2>1, <2>2
         DEF PowerOn, MenuType, StaticType, PointerOK
    <2>5. BootType' /\ PointerOK'
      BY <1>0, <1>1, <2>2 DEF PowerOn, BootType, PointerOK
    <2> QED BY <2>3, <2>4, <2>5 DEF ShapeInv
  <1>2. CASE StartFails
    BY <1>0, <1>2, ShapeQuiet DEF StartFails, BootType, PointerOK
  <1>3. CASE InitVariables
    BY <1>3, ShapeInitVariables
  <1>4. CASE ShowMenuLoop
    <2>1. CASE PrepareOnly
      BY <1>0, <1>k, <2>1, ShapeQuiet
         DEF PrepareOnly, LoadKtype, BootType, PointerOK
    <2>2. CASE BootHidden
      <3>1. loader' \in 1..Len(loaders)
        BY <1>d, <2>2 DEF BootHidden, MenuIsComplete
      <3> QED BY <1>0, <1>k, <2>2, <3>1, ShapeQuiet
              DEF BootHidden, LoadKtype, BootType, PointerOK
    <2>3. CASE ShowMenu
      BY <1>0, <1>k, <2>3, ShapeQuiet
         DEF ShowMenu, LoadKtype, MenuIsComplete, BootType, PointerOK
    <2> QED BY <1>4, <2>1, <2>2, <2>3 DEF ShowMenuLoop
  <1>c. ASSUME NEW i \in 1..Len(loaders), NEW auto, Choose(i, auto)
        PROVE  ShapeInv'
    BY <1>0, <1>c, ShapeQuiet DEF Choose, BootType, PointerOK
  <1>5. CASE MenuTimeout
    BY <1>0, <1>5, <1>c, <1>d DEF MenuTimeout, PointerOK
  <1>6. CASE StartEntry
    BY <1>6, ShapeStartEntry
  <1>7. CASE WatchdogFires
    BY <1>7, ShapeOff DEF WatchdogFires
  <1>8. CASE User
    <2>1. CASE MenuEnter
      BY <1>0, <1>c, <1>d, <2>1 DEF MenuEnter, PointerOK
    <2>2. CASE MenuSelect
      <3>1. DOMAIN loaders = 1..Len(loaders)
        BY <1>0 DEF MenuType
      <3> QED BY <1>c, <2>2, <3>1 DEF MenuSelect
    <2>3. CASE MenuKey \/ MenuLeave \/ AnyKey
      BY <1>0, <2>3, ShapeQuiet
         DEF MenuKey, MenuLeave, AnyKey, BootType, PointerOK
    <2>4. CASE TuiReset
      BY <2>4, ShapeOff DEF TuiReset
    <2> QED BY <1>8, <2>1, <2>2, <2>3, <2>4 DEF User
  <1>9. CASE BootOutcome
    <2>1. CASE OsTakesOver \/ TryBootReturns
      BY <1>0, <2>1, ShapeQuiet
         DEF OsTakesOver, TryBootReturns, StopTimeout, BootType, PointerOK
    <2>2. CASE ResetEntry
      BY <2>2, ShapeOff DEF ResetEntry
    <2>3. CASE Fallback
      <3>1. loader' \in 1..Len(loaders)
        BY <1>0, <2>3, SearchTypes
           DEF Fallback, MenuType, BootType, PointerOK
      <3> QED BY <1>0, <2>3, <3>1, ShapeQuiet
              DEF Fallback, BootType, PointerOK
    <2> QED BY <1>9, <2>1, <2>2, <2>3 DEF BootOutcome
  <1>10. CASE Environment
    <2>1. CASE PowerLoss \/ Reboot
      BY <2>1, ShapeOff DEF PowerLoss, Reboot
    <2>2. ASSUME NEW w \in OsWrites, OsSetsVariable(w) PROVE ShapeInv'
      <3>1. NvType'
        BY <2>2, OsAssumption DEF OsSetsVariable, ShapeInv, NvType, NvOK
      <3>2. MenuType' /\ StaticType'
        BY <1>0, <2>2 DEF OsSetsVariable, MenuType, StaticType
      <3>3. BootType' /\ PointerOK'
        BY <1>0, <2>2 DEF OsSetsVariable, BootType, PointerOK
      <3> QED BY <3>1, <3>2, <3>3 DEF ShapeInv
    <2> QED BY <1>10, <2>1, <2>2 DEF Environment
  <1>11. CASE UNCHANGED vars
    BY <1>0, <1>11, ShapeQuiet DEF vars, BootType, PointerOK
  <1> QED BY <1>1, <1>2, <1>3, <1>4, <1>5, <1>6, <1>7, <1>8, <1>9, <1>10,
             <1>11 DEF Next

\* The flags are Boolean at first.
LEMMA FlagInit == Init => FlagType
  BY Zenon DEF Init, FlagType

\* Switching the machine off keeps the flags Boolean.
LEMMA FlagOff == ASSUME FlagType, TurnOff PROVE FlagType'
  BY Zenon DEF TurnOff, RamCleared, FlagType

\* Every step keeps the flags Boolean.
LEMMA FlagStep == FlagType /\ [Next]_vars => FlagType'
  <1> SUFFICES ASSUME FlagType, [Next]_vars PROVE FlagType'
    OBVIOUS
  <1> USE DEF ifaceVars, efivars, menuVars, statics, bootVars, ghosts
  <1>1. ASSUME NEW c \in MenuConfigs, PowerOn(c) PROVE FlagType'
    BY <1>1, ConfigAssumption, Zenon DEF PowerOn, FlagType
  <1>2. CASE StartFails
    BY <1>2, Zenon DEF StartFails, FlagType
  <1>3. CASE InitVariables
    <2>1. CASE InitTimeout
      BY <2>1, Zenon DEF InitTimeout, ReadConfigTimeout, FlagType
    <2>2. CASE InitTimeoutOneShot
      BY <2>2, Zenon DEF InitTimeoutOneShot, ConsumeTimeoutOneShot, FlagType
    <2>3. CASE InitEntryOneShot
      BY <2>3, Zenon DEF InitEntryOneShot, ConsumeEntryOneShot, FlagType
    <2>4. CASE InitSelection
      <3>1. /\ saveLastBooted' \in BOOLEAN
            /\ varsInitialized' \in BOOLEAN
            /\ fault' \in BOOLEAN
        BY <2>4 DEF InitSelection, SelectEntry
      <3>2. UNCHANGED <<disabled, autoboot, watchdog, countdown, stuck>>
        BY <2>4 DEF InitSelection, SelectEntry
      <3> QED BY <3>1, <3>2, Zenon DEF FlagType
    <2> QED BY <1>3, <2>1, <2>2, <2>3, <2>4 DEF InitVariables
  <1>4. CASE ShowMenuLoop
    <2>1. CASE PrepareOnly
      BY <2>1, Zenon DEF PrepareOnly, FlagType
    <2>2. CASE BootHidden
      BY <2>2, Zenon DEF BootHidden, FlagType
    <2>3. CASE ShowMenu
      <3>1. countdown' \in BOOLEAN
        BY <2>3 DEF ShowMenu
      <3> QED BY <2>3, <3>1, Zenon DEF ShowMenu, FlagType
    <2> QED BY <1>4, <2>1, <2>2, <2>3 DEF ShowMenuLoop
  <1>c. ASSUME NEW i, NEW auto \in BOOLEAN, Choose(i, auto) PROVE FlagType'
    BY <1>c, Zenon DEF Choose, FlagType
  <1>5. CASE MenuTimeout
    BY <1>5, <1>c, Zenon DEF MenuTimeout
  <1>6. CASE StartEntry
    BY <1>6, Zenon DEF StartEntry, SetSelectedEntry, ArmWatchdog, FlagType
  <1>7. CASE WatchdogFires
    BY <1>7, FlagOff DEF WatchdogFires
  <1>8. CASE User
    <2>1. CASE MenuEnter \/ MenuSelect
      BY <1>c, <2>1, Zenon DEF MenuEnter, MenuSelect
    <2>2. CASE MenuLeave \/ AnyKey
      BY <2>2, Zenon DEF MenuLeave, AnyKey, FlagType
    <2>4. CASE MenuKey
      <3>1. countdown' = FALSE \/ countdown' = (timeout >= 0)
        BY <2>4 DEF MenuKey
      <3>2. countdown' = (timeout >= 0) => countdown' \in BOOLEAN
        OBVIOUS
      <3> QED BY <2>4, <3>1, <3>2, Zenon DEF MenuKey, FlagType
    <2>3. CASE TuiReset
      BY <2>3, FlagOff DEF TuiReset
    <2> QED BY <1>8, <2>1, <2>2, <2>3, <2>4 DEF User
  <1>9. CASE BootOutcome
    <2>1. CASE OsTakesOver \/ Fallback
      BY <2>1, Zenon DEF OsTakesOver, Fallback, FlagType
    <2>2. CASE TryBootReturns
      BY <2>2, Zenon DEF TryBootReturns, StopTimeout, FlagType
    <2>3. CASE ResetEntry
      BY <2>3, FlagOff DEF ResetEntry
    <2> QED BY <1>9, <2>1, <2>2, <2>3 DEF BootOutcome
  <1>10. CASE Environment
    <2>1. CASE PowerLoss \/ Reboot
      BY <2>1, FlagOff DEF PowerLoss, Reboot
    <2>2. ASSUME NEW w \in OsWrites, OsSetsVariable(w) PROVE FlagType'
      BY <2>2, Zenon DEF OsSetsVariable, FlagType
    <2> QED BY <1>10, <2>1, <2>2 DEF Environment
  <1>11. CASE UNCHANGED vars
    BY <1>11, Zenon DEF vars, FlagType
  <1> QED BY <1>1, <1>2, <1>3, <1>4, <1>5, <1>6, <1>7, <1>8, <1>9, <1>10,
             <1>11 DEF Next

\* The inductive invariant gives the type invariant.
LEMMA TypeInvImplies == TypeInv => TypeOK
  <1> SUFFICES ASSUME TypeInv PROVE TypeOK
    OBVIOUS
  <1> QED BY Zenon DEF TypeInv, ShapeInv, NvType, NvOK, MenuType, StaticType,
                       BootType, FlagType, TypeOK

\* The model is type correct: among other things every timeout fits an int and
\* every entry the loop follows is an entry of the menu of this power cycle.
THEOREM TypeCorrect == Spec => []TypeOK
  <1>1. Init => TypeInv
    BY ShapeInit, FlagInit DEF TypeInv
  <1>2. TypeInv /\ [Next]_vars => TypeInv'
    BY ShapeStep, FlagStep DEF TypeInv
  <1> QED BY <1>1, <1>2, TypeInvImplies, PTL DEF Spec

\* embloader_try_boot and the front ends never follow a NULL loader.
THEOREM LoaderNotNull == Spec => [](pc \in {"selected", "boot"} => loader # 0)
  <1>1. Init => TypeInv
    BY ShapeInit, FlagInit DEF TypeInv
  <1>2. TypeInv /\ [Next]_vars => TypeInv'
    BY ShapeStep, FlagStep DEF TypeInv
  <1>3. TypeInv => (pc \in {"selected", "boot"} => loader # 0)
    BY DEF TypeInv, ShapeInv, PointerOK
  <1> QED BY <1>1, <1>2, <1>3, PTL DEF Spec
-----------------------------------------------------------------------------
(* Nothing boots by itself after a failure *)

\* A countdown runs only in the menu and with a timeout, and only a machine
\* that has just been switched on has one left.
CountdownOnlyInMenu == countdown => pc = "menu" /\ timeout >= 0

BeforeMenu == {"off", "vars-timeout", "vars-timeout-oneshot", "vars-oneshot",
               "vars-select"}

TimeoutStopped ==
    /\ pc \in BeforeMenu => fresh
    /\ ~fresh /\ pc \in {"anykey", "loop", "menu"} => timeout = -1

UnattendedInv == CountdownOnlyInMenu /\ TimeoutStopped

LEMMA UnattendedStep ==
    TypeInv /\ UnattendedInv /\ [Next]_vars => UnattendedInv'
  <1> SUFFICES ASSUME TypeInv, UnattendedInv, [Next]_vars
               PROVE  UnattendedInv'
    OBVIOUS
  <1> USE DEF ifaceVars, efivars, menuVars, statics, bootVars, ghosts
  <1>t. timeout \in Int
    BY BoundsAssumption DEF TypeInv, ShapeInv, MenuType
  <1>q. ASSUME UNCHANGED <<countdown, fresh, timeout>>,
               pc # "menu" \/ pc' = "menu",
               pc' \in BeforeMenu => pc \in BeforeMenu,
               pc' \in {"anykey", "loop", "menu"} =>
                  pc \in BeforeMenu \cup {"anykey", "loop", "menu"}
        PROVE  UnattendedInv'
    BY <1>q DEF UnattendedInv, CountdownOnlyInMenu, TimeoutStopped
  <1>o. ASSUME TurnOff PROVE UnattendedInv'
    BY <1>o DEF TurnOff, RamCleared, UnattendedInv, CountdownOnlyInMenu,
                TimeoutStopped
  <1>1. ASSUME NEW c \in MenuConfigs, PowerOn(c) PROVE UnattendedInv'
    BY <1>1 DEF PowerOn, UnattendedInv, CountdownOnlyInMenu, TimeoutStopped,
                BeforeMenu
  <1>2. CASE StartFails
    BY <1>2, <1>q DEF StartFails, BeforeMenu
  <1>3. CASE InitVariables
    <2>1. /\ UNCHANGED <<countdown, fresh>> /\ pc \in BeforeMenu
          /\ pc' \in BeforeMenu \cup {"loop"}
      BY <1>3
         DEF InitVariables, InitTimeout, ReadConfigTimeout, InitTimeoutOneShot,
             ConsumeTimeoutOneShot, InitEntryOneShot, ConsumeEntryOneShot,
             InitSelection, SelectEntry, BeforeMenu
    <2> QED BY <2>1 DEF UnattendedInv, CountdownOnlyInMenu, TimeoutStopped,
                        BeforeMenu
  <1>4. CASE ShowMenuLoop
    <2>1. CASE PrepareOnly
      BY <2>1, <1>q DEF PrepareOnly, BeforeMenu
    <2>2. CASE BootHidden
      BY <2>2, <1>q DEF BootHidden, BeforeMenu
    <2>3. CASE ShowMenu
      <3>1. /\ pc = "loop" /\ pc' = "menu" /\ fresh' = fresh
            /\ countdown' = (timeout > 0)
            /\ timeout' = IF timeout = 0 THEN -1 ELSE timeout
        BY <2>3 DEF ShowMenu
      <3>2. timeout > 0 => timeout' >= 0
        BY <1>t, <3>1
      <3>3. timeout = -1 => timeout' = -1
        BY <1>t, <3>1
      <3>4. CountdownOnlyInMenu'
        BY <3>1, <3>2, Zenon DEF CountdownOnlyInMenu
      <3>5. pc' \notin BeforeMenu /\ pc \in {"anykey", "loop", "menu"}
        BY <3>1 DEF BeforeMenu
      <3>6. TimeoutStopped'
        BY <3>1, <3>3, <3>5, Zenon DEF UnattendedInv, TimeoutStopped
      <3> QED BY <3>4, <3>6 DEF UnattendedInv
    <2> QED BY <1>4, <2>1, <2>2, <2>3 DEF ShowMenuLoop
  <1>c. ASSUME NEW i, NEW auto, Choose(i, auto) PROVE UnattendedInv'
    BY <1>c DEF Choose, UnattendedInv, CountdownOnlyInMenu, TimeoutStopped,
                BeforeMenu
  <1>5. CASE MenuTimeout
    BY <1>5, <1>c DEF MenuTimeout
  <1>6. CASE StartEntry
    BY <1>6, <1>q DEF StartEntry, SetSelectedEntry, BeforeMenu
  <1>7. CASE WatchdogFires
    BY <1>7, <1>o DEF WatchdogFires
  <1>8. CASE User
    <2>1. CASE MenuEnter \/ MenuSelect
      BY <2>1, <1>c DEF MenuEnter, MenuSelect
    <2>2. CASE MenuLeave
      BY <2>2 DEF MenuLeave, UnattendedInv, CountdownOnlyInMenu,
                  TimeoutStopped, BeforeMenu
    <2>3. CASE AnyKey
      BY <2>3, <1>q DEF AnyKey, BeforeMenu
    <2>4. CASE MenuKey
      <3>1. /\ pc = "menu" /\ pc' = "menu" /\ UNCHANGED <<fresh, timeout>>
            /\ countdown' = FALSE \/ countdown' = (timeout >= 0)
        BY <2>4 DEF MenuKey
      <3> QED BY <3>1 DEF UnattendedInv, CountdownOnlyInMenu, TimeoutStopped
    <2>5. CASE TuiReset
      BY <2>5, <1>o DEF TuiReset
    <2> QED BY <1>8, <2>1, <2>2, <2>3, <2>4, <2>5 DEF User
  <1>9. CASE BootOutcome
    <2>1. CASE OsTakesOver
      BY <2>1, <1>q DEF OsTakesOver, BeforeMenu
    <2>2. CASE ResetEntry
      BY <2>2, <1>o DEF ResetEntry
    <2>3. CASE Fallback
      BY <2>3 DEF Fallback, UnattendedInv, CountdownOnlyInMenu,
                  TimeoutStopped, BeforeMenu
    <2>4. CASE TryBootReturns
      BY <2>4 DEF TryBootReturns, StopTimeout, UnattendedInv,
                  CountdownOnlyInMenu, TimeoutStopped, BeforeMenu
    <2> QED BY <1>9, <2>1, <2>2, <2>3, <2>4 DEF BootOutcome
  <1>10. CASE Environment
    <2>1. CASE PowerLoss \/ Reboot
      BY <2>1, <1>o DEF PowerLoss, Reboot
    <2>2. ASSUME NEW w \in OsWrites, OsSetsVariable(w) PROVE UnattendedInv'
      BY <2>2, <1>q DEF OsSetsVariable, BeforeMenu
    <2> QED BY <1>10, <2>1, <2>2 DEF Environment
  <1>11. CASE UNCHANGED vars
    BY <1>11, <1>q DEF vars
  <1> QED BY <1>1, <1>2, <1>3, <1>4, <1>5, <1>6, <1>7, <1>8, <1>9, <1>10,
             <1>11 DEF Next

LEMMA TypeInitially == Init => TypeInv
  BY ShapeInit, FlagInit DEF TypeInv

LEMMA TypeStep == TypeInv /\ [Next]_vars => TypeInv'
  BY ShapeStep, FlagStep DEF TypeInv

\* After a boot has failed or returned no countdown runs and no hidden boot
\* happens, in every front end (embloader_show_menu).
THEOREM UnattendedAtMostOnce == Spec => []UnattendedOnce
  <1>1. Init => UnattendedInv
    BY DEF Init, UnattendedInv, CountdownOnlyInMenu, TimeoutStopped
  <1>2. TypeInv /\ UnattendedInv => UnattendedOnce
    BY DEF UnattendedInv, CountdownOnlyInMenu, TimeoutStopped, UnattendedOnce
  <1> QED BY <1>1, <1>2, TypeInitially, TypeStep, UnattendedStep, PTL DEF Spec
-----------------------------------------------------------------------------
(* The steps of the machine, as the invariants below see them *)

\* The bookkeeping of the loop, of which only the countdown, the watchdog, the
\* kernel type and the front end may have changed: the machine returns to its
\* firmware, hands over to an OS, waits for a key, or leaves the menu as it is.
Quiet ==
    /\ UNCHANGED <<ifaceVars, conf, loader, autoboot, ghosts>>
    /\ \/ pc' = pc
       \/ pc' \in {"returned", "os"}
       \/ pc = "anykey" /\ pc' = "loop"

\* The loop or its menu hands an entry to embloader_try_boot.
Chosen ==
    /\ pc \in {"loop", "menu"}
    /\ pc = "loop" => timeout = 0 /\ MenuIsComplete(loaders)
    /\ pc' = "selected"
    /\ tried' = {}
    /\ autoboot' => loader' \in {GetDefaultLoader(loaders, defaultEntry),
                                 MenuDefaultLoader(loaders, defaultEntry)}
    /\ UNCHANGED <<ifaceVars, conf, nv0, fresh, shown, oneshotBoot, uses,
                   stuck>>

\* Every step is of one of these kinds.
LEMMA StepKinds ==
    ASSUME [Next]_vars
    PROVE  \/ TurnOff
           \/ \E c \in MenuConfigs : PowerOn(c)
           \/ InitTimeout \/ InitTimeoutOneShot \/ InitEntryOneShot
           \/ InitSelection
           \/ ShowMenu \/ Chosen \/ StartEntry
           \/ Fallback \/ TryBootReturns
           \/ \E w \in OsWrites : OsSetsVariable(w)
           \/ Quiet
  <1> USE DEF ifaceVars, efivars, menuVars, statics, bootVars, ghosts
  <1>1. CASE StartFails \/ UNCHANGED vars
    BY <1>1 DEF StartFails, Quiet, vars
  <1>2. CASE InitVariables
    BY <1>2 DEF InitVariables
  <1>3. CASE ShowMenuLoop
    <2>1. CASE PrepareOnly
      BY <2>1 DEF PrepareOnly, Quiet
    <2>2. CASE BootHidden
      BY <2>2 DEF BootHidden, Chosen
    <2> QED BY <1>3, <2>1, <2>2 DEF ShowMenuLoop
  <1>4. ASSUME NEW i, NEW auto, pc = "menu", Choose(i, auto),
               auto => i = FrontEndDefault
        PROVE  Chosen
    BY <1>4, Zenon DEF Choose, Chosen, FrontEndDefault
  <1>5. CASE MenuTimeout
    BY <1>4, <1>5 DEF MenuTimeout
  <1>6. CASE User
    <2>1. CASE MenuEnter
      BY <1>4, <2>1 DEF MenuEnter
    <2>2. CASE MenuSelect
      BY <1>4, <2>2 DEF MenuSelect
    <2>3. CASE MenuKey \/ MenuLeave \/ AnyKey
      BY <2>3 DEF MenuKey, MenuLeave, AnyKey, Quiet
    <2>4. CASE TuiReset
      BY <2>4 DEF TuiReset
    <2> QED BY <1>6, <2>1, <2>2, <2>3, <2>4 DEF User
  <1>7. CASE BootOutcome
    <2>1. CASE OsTakesOver
      BY <2>1 DEF OsTakesOver, Quiet
    <2>2. CASE ResetEntry
      BY <2>2 DEF ResetEntry
    <2> QED BY <1>7, <2>1, <2>2 DEF BootOutcome
  <1>8. CASE WatchdogFires \/ Environment
    BY <1>8 DEF WatchdogFires, Environment, PowerLoss, Reboot
  <1> QED BY <1>1, <1>2, <1>3, <1>5, <1>6, <1>7, <1>8 DEF Next
-----------------------------------------------------------------------------
(* The chain of fallback entries *)

\* With menu.try-next-on-failure off the chain is an entry and its rescue entry.
RescueChain ==
    ~conf.tryNext =>
      /\ pc = "selected" =>
           \/ tried = {}
           \/ /\ EndsWithRescue(loaders[loader].name)
              /\ \A t \in tried : ~EndsWithRescue(loaders[t].name)
      /\ pc = "boot" =>
           tried = {loader} \/ EndsWithRescue(loaders[loader].name)

\* Entry x stands between a rescue entry and the later entry it rescues.
Between(x) ==
    \E i \in DOMAIN loaders :
      LET r == FindLoader(loaders, RescueName(loaders[i].name))
      IN  r # 0 /\ r <= x /\ x <= i

\* The chain moves down the menu, or up from an entry to its rescue entry: all that lies
\* between the entry in hand and one further down that was tried is between such a pair.
DescendingChain ==
    /\ pc = "selected" =>
         \A t \in tried, x \in DOMAIN loaders : loader <= x /\ x <= t => Between(x)
    /\ pc = "boot" =>
         \A t \in tried, x \in DOMAIN loaders :
            loader < t /\ loader <= x /\ x <= t => Between(x)

ChainInv == RescueChain /\ DescendingChain

\* embloader_get_next_loader answers with the rescue entry, which ends with
\* "-rescue", or with a later entry.
LEMMA NextLoaderIs ==
    ASSUME NEW ls \in Seq(Loader), NEW next, NEW cur \in DOMAIN ls,
           GetNextLoader(ls, next, cur) # 0
    PROVE  LET n == GetNextLoader(ls, next, cur)
           IN  /\ n \in DOMAIN ls
               /\ \/ /\ ~EndsWithRescue(ls[cur].name)
                     /\ EndsWithRescue(ls[n].name)
                     /\ n = FindLoader(ls, RescueName(ls[cur].name))
                  \/ next /\ n > cur
  <1> DEFINE rescue == FindLoader(ls, RescueName(ls[cur].name))
             named == {i \in DOMAIN ls : ls[i].name = RescueName(ls[cur].name)}
             later == {i \in DOMAIN ls : i > cur /\ ls[i].complete}
             n == GetNextLoader(ls, next, cur)
  <1>0. DOMAIN ls = 1..Len(ls) /\ Len(ls) \in Nat
    OBVIOUS
  <1>1. named \in SUBSET Nat /\ later \in SUBSET Nat
    BY <1>0
  <1>2. \/ ~EndsWithRescue(ls[cur].name) /\ rescue # 0 /\ n = rescue
        \/ next /\ n = FirstOf(later)
    BY DEF GetNextLoader
  <1>3. ASSUME ~EndsWithRescue(ls[cur].name), rescue # 0, n = rescue
        PROVE  n \in DOMAIN ls /\ EndsWithRescue(ls[n].name)
    <2>1. rescue = FirstOf(named)
      BY DEF FindLoader
    <2>2. rescue \in named
      BY <1>1, <1>3, <2>1, FirstOfIsLeast
    <2>3. n \in DOMAIN ls /\ ls[n].name = RescueName(ls[cur].name)
      BY <1>3, <2>2
    <2>4. ls[n].name \in Name /\ ls[cur].name \in Name
      <3>1. ls[n] \in Loader /\ ls[cur] \in Loader
        BY <2>3
      <3> QED BY <3>1 DEF Loader
    <2> QED BY <2>3, <2>4, RescueAssumption
  <1>4. ASSUME n = FirstOf(later) PROVE n \in DOMAIN ls /\ n > cur
    <2>1. n \in later
      BY <1>1, <1>4, FirstOfIsLeast
    <2> QED BY <2>1
  <1> QED BY <1>2, <1>3, <1>4

LEMMA ChainStep == TypeInv /\ ChainInv /\ [Next]_vars => ChainInv'
  <1> SUFFICES ASSUME TypeInv, ChainInv, [Next]_vars PROVE ChainInv'
    OBVIOUS
  <1> USE DEF ifaceVars, efivars, menuVars, statics, bootVars, ghosts
  <1>0. pc' \notin {"selected", "boot"} => ChainInv'
    BY DEF ChainInv, RescueChain, DescendingChain
  <1>t. /\ loaders \in Seq(Loader) /\ loader \in 0..Len(loaders)
        /\ pc \in {"selected", "boot"} => loader \in DOMAIN loaders
        /\ tried \subseteq DOMAIN loaders
    <2>1. /\ loaders \in Seq(Loader) /\ loader \in 0..Len(loaders)
          /\ pc \in {"selected", "boot"} => loader # 0
          /\ tried \subseteq DOMAIN loaders
      BY DEF TypeInv, ShapeInv, MenuType, BootType, PointerOK
    <2> QED BY <2>1
  <1>1. CASE Chosen
    BY <1>1 DEF Chosen, ChainInv, RescueChain, DescendingChain
  <1>2. CASE StartEntry
    <2>1. /\ pc = "selected" /\ pc' = "boot" /\ tried' = tried \cup {loader}
          /\ UNCHANGED <<loader, loaders, conf>>
      BY <1>2 DEF StartEntry
    <2>2. RescueChain'
      BY <2>1, Zenon DEF ChainInv, RescueChain
    <2>b. \A x : Between(x)' <=> Between(x)
      BY <2>1 DEF Between
    <2>3. DescendingChain'
      <3>1. ASSUME NEW t \in tried \cup {loader}, NEW x \in DOMAIN loaders,
                   loader < t, loader <= x, x <= t
            PROVE  Between(x)
        BY <1>t, <2>1, <3>1 DEF ChainInv, DescendingChain
      <3> QED BY <2>1, <2>b, <3>1 DEF DescendingChain
    <2> QED BY <2>2, <2>3 DEF ChainInv
  <1>3. CASE Fallback
    <2>1. /\ pc = "boot" /\ pc' = "selected" /\ UNCHANGED <<loaders, conf, tried>>
          /\ loader' = GetNextLoader(loaders, conf.tryNext, loader)
          /\ loader' # 0
      BY <1>3 DEF Fallback
    <2>2. /\ loader' \in DOMAIN loaders
          /\ \/ /\ ~EndsWithRescue(loaders[loader].name)
                /\ EndsWithRescue(loaders[loader'].name)
                /\ loader' = FindLoader(loaders, RescueName(loaders[loader].name))
             \/ conf.tryNext /\ loader' > loader
      BY <1>t, <2>1, NextLoaderIs
    <2>3. RescueChain'
      BY <2>1, <2>2, Zenon DEF ChainInv, RescueChain
    <2>4. ASSUME NEW t \in tried, NEW x \in DOMAIN loaders, loader' <= x, x <= t
          PROVE  Between(x)
      <3>1. CASE x <= loader
        <4>1. loader' = FindLoader(loaders, RescueName(loaders[loader].name)) \/ loader' > loader
          BY <2>2
        <4>2. CASE loader' > loader
          BY <1>t, <2>1, <2>2, <2>4, <3>1, <4>2
        <4>3. CASE loader' = FindLoader(loaders, RescueName(loaders[loader].name))
          BY <1>t, <2>1, <2>4, <3>1, <4>3 DEF Between
        <4> QED BY <4>1, <4>2, <4>3
      <3>2. CASE ~(x <= loader)
        <4>1. loader < t /\ loader <= x
          BY <1>t, <2>4, <3>2
        <4> QED BY <2>1, <2>4, <4>1 DEF ChainInv, DescendingChain
      <3> QED BY <3>1, <3>2
    <2>5. \A x : Between(x)' <=> Between(x)
      BY <2>1 DEF Between
    <2>6. DescendingChain'
      BY <2>1, <2>4, <2>5 DEF DescendingChain
    <2> QED BY <2>3, <2>6 DEF ChainInv
  <1>4. CASE Quiet
    <2>1. pc' \in {"selected", "boot"} => pc' = pc
      BY <1>4 DEF Quiet
    <2>2. UNCHANGED <<loader, loaders, conf, tried>>
      BY <1>4 DEF Quiet
    <2>3. RescueChain'
      BY <2>1, <2>2, Zenon DEF ChainInv, RescueChain
    <2>4. \A x : Between(x)' <=> Between(x)
      BY <2>2 DEF Between
    <2>5. DescendingChain'
      BY <2>1, <2>2, <2>4, Zenon DEF ChainInv, DescendingChain
    <2> QED BY <2>3, <2>5 DEF ChainInv
  <1>5. ASSUME NEW w \in OsWrites, OsSetsVariable(w) PROVE ChainInv'
    BY <1>0, <1>5 DEF OsSetsVariable
  <1>6. CASE TurnOff \/ (\E c \in MenuConfigs : PowerOn(c)) \/ ShowMenu
    BY <1>0, <1>6 DEF TurnOff, PowerOn, ShowMenu
  <1>7. CASE InitTimeout \/ InitTimeoutOneShot \/ InitEntryOneShot
               \/ InitSelection \/ TryBootReturns
    BY <1>0, <1>7
       DEF InitTimeout, ReadConfigTimeout, InitTimeoutOneShot,
           ConsumeTimeoutOneShot, InitEntryOneShot, ConsumeEntryOneShot,
           InitSelection, SelectEntry, TryBootReturns
  <1> QED BY <1>1, <1>2, <1>3, <1>4, <1>5, <1>6, <1>7, StepKinds

\* One unattended embloader_try_boot starts no entry twice, whatever the menu, other than
\* those that embloader_get_next_loader is sent back to by a rescue entry in front of the
\* entry it rescues, with menu.try-next-on-failure.
THEOREM NoEntryBootedTwice == Spec => []NoEntryTwice
  <1>1. Init => ChainInv
    BY DEF Init, ChainInv, RescueChain, DescendingChain
  <1>2. TypeInv /\ ChainInv => NoEntryTwice
    <2> SUFFICES ASSUME TypeInv, ChainInv, pc = "selected", loader \in tried
                 PROVE  GoesRound
      BY DEF NoEntryTwice
    <2>1. conf.tryNext
      BY Zenon DEF ChainInv, RescueChain
    <2>2. loader \in Nat /\ loader \in DOMAIN loaders
      BY DEF TypeInv, ShapeInv, MenuType, BootType
    <2>3. Between(loader)
      BY <2>2 DEF ChainInv, DescendingChain
    <2> QED BY <2>1, <2>3 DEF GoesRound, BehindRescue, Between
  <1> QED BY <1>1, <1>2, TypeInitially, TypeStep, ChainStep, PTL DEF Spec
-----------------------------------------------------------------------------
(* From the variables to the boot *)

Reading == {"vars-timeout", "vars-timeout-oneshot", "vars-oneshot",
            "vars-select"}

\* embloader_show_menu has begun.
Looping == {"loop", "menu", "selected", "boot", "anykey"}

\* sdboot_init_menu_variables finds every variable as it was at power on until
\* it consumes it itself.
FoundInv ==
    /\ pc \in Reading =>
         /\ defaultEntry = conf.default
         /\ nv["ConfigTimeout"] = nv0["ConfigTimeout"]
         /\ nv["EntryDefault"] = nv0["EntryDefault"]
         /\ nv["EntryLastBooted"] = nv0["EntryLastBooted"]
    /\ pc \in {"vars-timeout", "vars-timeout-oneshot"} =>
         nv["ConfigTimeoutOneShot"] = nv0["ConfigTimeoutOneShot"]
    /\ pc \in Reading \ {"vars-select"} =>
         nv["EntryOneShot"] = nv0["EntryOneShot"]
    /\ pc = "vars-select" /\ ~fault => entryOneshot = nv0["EntryOneShot"]

\* Once it is through, the statics hold what sdboot_set_selected_entry needs,
\* unless the firmware failed.
StaticsReady ==
    pc \in Looping /\ ~fault =>
      /\ varsInitialized
      /\ saveLastBooted <=> SavedRequested
      /\ entries = ExportedIds(loaders)

\* Nothing but a boot touches the saved entry.
SavedUntouched ==
    fresh /\ pc \in {"loop", "menu", "selected"} =>
      nv["EntryLastBooted"] = nv0["EntryLastBooted"]

\* What follows is only said of the first boot.
AnyKeyIsLater == pc = "anykey" => ~fresh

RecordInv ==
    FoundInv /\ StaticsReady /\ SavedUntouched /\ AnyKeyIsLater /\ BootIsRecorded

\* Every id of the menu is exported, at the first position that has it.
LEMMA EveryIdExported ==
    ASSUME NEW ls \in Seq(Loader), NEW k \in DOMAIN ls
    PROVE  \E i \in DOMAIN ExportedIds(ls) :
             ExportedIds(ls)[i] = EntryId(ls[k])
  <1> DEFINE same == {i \in DOMAIN ls : EntryId(ls[i]) = EntryId(ls[k])}
  <1>0. DOMAIN ls = 1..Len(ls) /\ Len(ls) \in Nat
    OBVIOUS
  <1>1. same \in SUBSET Nat /\ same # {}
    BY <1>0
  <1>2. FirstOf(same) \in same /\ \A j \in same : FirstOf(same) <= j
    BY <1>1, FirstOfIsLeast
  <1>3. \A j \in 1..(FirstOf(same) - 1) :
          j \in DOMAIN ls /\ EntryId(ls[j]) # EntryId(ls[k])
    <2> TAKE j \in 1..(FirstOf(same) - 1)
    <2>1. j \in DOMAIN ls /\ ~(FirstOf(same) <= j)
      BY <1>0, <1>2
    <2> QED BY <1>2, <2>1
  <1>4. FirstOf(same) \in DOMAIN ls
        /\ EntryId(ls[FirstOf(same)]) = EntryId(ls[k])
    BY <1>2
  <1> HIDE DEF same
  <1>5. FirstOf(same) \in DOMAIN ExportedIds(ls)
    BY <1>3, <1>4, Zenon DEF ExportedIds
  <1>6. ExportedIds(ls)[FirstOf(same)] = EntryId(ls[FirstOf(same)])
    BY <1>3, <1>4, <1>5, Zenon DEF ExportedIds
  <1> QED BY <1>4, <1>5, <1>6, Zenon

\* What sdboot_set_selected_entry leaves behind when the firmware does not
\* fail it: nothing for the one-shot entry, else the entry or nothing.
LEMMA SelectedEntryRecords ==
    ASSUME NvOK, NEW i, SetSelectedEntry(i), IsBootable(loaders[i]), ~fault',
           fault \in BOOLEAN, varsInitialized, EntryId(loaders[i]) \in Id,
           lastBooted # None => nv["EntryLastBooted"] = lastBooted
    PROVE  /\ ~fault
           /\ entrySelected' = EntryId(loaders[i])
           /\ i # oneshotSelected =>
                nv'["EntryLastBooted"] =
                  IF saveLastBooted THEN EntryId(loaders[i]) ELSE None
  <1> DEFINE id == EntryId(loaders[i])
  <1>0. "EntryLastBooted" \in NvName /\ id # None
    BY VariableAssumption DEF NvName
  <1> HIDE DEF id
  <1>1. PICK sFailed, failed \in BOOLEAN :
          /\ entrySelected' = IF sFailed THEN entrySelected ELSE id
          /\ IF varsInitialized /\ ~IsOneShot(i)
             THEN SaveLastBooted(id, failed)
             ELSE UNCHANGED <<nv, lastBooted>> /\ failed = FALSE
          /\ fault' = (fault \/ sFailed \/ failed)
    BY Zenon DEF SetSelectedEntry, id
  <1>2. ~sFailed /\ ~failed /\ ~fault
    BY <1>1, Zenon
  <1>3. ASSUME i # oneshotSelected
        PROVE  nv'["EntryLastBooted"] = IF saveLastBooted THEN id ELSE None
    <2>0. SaveLastBooted(id, failed)
      BY <1>1, <1>3, Zenon DEF IsOneShot
    <2>1. CASE ~saveLastBooted
      <3>1. Unset("EntryLastBooted", failed)
        BY <2>0, <2>1, Zenon DEF SaveLastBooted
      <3>2. nv'["EntryLastBooted"] = None
        BY <1>0, <1>2, <3>1, UnsetEffect
      <3> QED BY <2>1, <3>2, Zenon
    <2>2. CASE saveLastBooted /\ lastBooted = id
      <3>1. nv' = nv
        BY <2>0, <2>2, Zenon DEF SaveLastBooted
      <3> QED BY <1>0, <2>2, <3>1, Zenon
    <2>3. CASE saveLastBooted /\ lastBooted # id
      <3>1. Set("EntryLastBooted", id, failed)
        BY <2>0, <2>3, Zenon DEF SaveLastBooted
      <3>2. nv'["EntryLastBooted"] = id
        BY <1>0, <1>2, <3>1, SetEffect
      <3> QED BY <2>3, <3>2, Zenon
    <2> QED BY <2>1, <2>2, <2>3
  <1>4. entrySelected' = id
    BY <1>1, <1>2, Zenon
  <1> QED BY <1>2, <1>3, <1>4 DEF id

\* The entry that the variables found at power on and the configured default
\* select, 0 when they select none.
SelectedEntry ==
    LET last == nv0["EntryLastBooted"]
        one  == SelectedByOneShot(loaders, nv0["EntryOneShot"])
        vDef == SelectedByDefault(loaders, nv0["EntryDefault"], last)
    IN  IF one # 0 THEN one
        ELSE IF vDef # 0 THEN vDef
        ELSE SelectedByConfig(loaders, conf.default, last)

\* The end of sdboot_init_menu_variables when no firmware call has failed.
LEMMA SelectionEffect ==
    ASSUME TypeInv, FoundInv, InitSelection, ~fault'
    PROVE  /\ varsInitialized'
           /\ saveLastBooted' <=> SavedRequested
           /\ entries' = ExportedIds(loaders)
           /\ defaultEntry' = IF SelectedEntry # 0
                              THEN loaders[SelectedEntry].name
                              ELSE conf.default
  <1>0. /\ pc = "vars-select" /\ fault \in BOOLEAN
        /\ defaultEntry = conf.default
        /\ nv["EntryDefault"] = nv0["EntryDefault"]
        /\ nv["EntryLastBooted"] = nv0["EntryLastBooted"]
    BY DEF InitSelection, SelectEntry, FoundInv, Reading, TypeInv, FlagType
  <1>1. PICK def \in Pattern \cup {None}, last \in Id \cup {None},
             dFailed, lFailed, oom, eFailed \in BOOLEAN :
         LET useSaved == def = "@saved" \/ defaultEntry = "@saved"
             one  == SelectedByOneShot(loaders, entryOneshot)
             vDef == SelectedByDefault(loaders, def, last)
             cnf  == SelectedByConfig(loaders, defaultEntry, last)
             sel  == IF one # 0 THEN one ELSE IF vDef # 0 THEN vDef ELSE cnf
         IN  /\ Get("EntryDefault", def, dFailed)
             /\ IF useSaved THEN Get("EntryLastBooted", last, lFailed)
                            ELSE last = None /\ lFailed = FALSE
             /\ saveLastBooted' = \/ def = "@saved"
                                  \/ def = None /\ defaultEntry = "@saved"
             /\ varsInitialized' = ~oom
             /\ defaultEntry' = IF sel # 0 /\ ~oom THEN loaders[sel].name
                                                   ELSE defaultEntry
             /\ entries' = IF eFailed THEN entries ELSE ExportedIds(loaders)
             /\ fault' = (fault \/ dFailed \/ lFailed \/ oom \/ eFailed)
    BY DEF InitSelection, SelectEntry
  <1>2. ~fault /\ ~dFailed /\ ~lFailed /\ ~oom /\ ~eFailed
    BY <1>0, <1>1, Zenon
  <1>3. entryOneshot = nv0["EntryOneShot"]
    BY <1>0, <1>2, Zenon DEF FoundInv
  <1>4. def = nv0["EntryDefault"]
    BY <1>0, <1>1, <1>2, Zenon DEF Get
  <1>5. def = "@saved" \/ conf.default = "@saved" =>
          last = nv0["EntryLastBooted"]
    BY <1>0, <1>1, <1>2, Zenon DEF Get
  <1>6. SelectedByDefault(loaders, def, last)
          = SelectedByDefault(loaders, nv0["EntryDefault"], nv0["EntryLastBooted"])
    BY <1>4, <1>5, Zenon DEF SelectedByDefault
  <1>7. SelectedByConfig(loaders, conf.default, last)
          = SelectedByConfig(loaders, conf.default, nv0["EntryLastBooted"])
    BY <1>5, Zenon DEF SelectedByConfig
  <1>8. defaultEntry' = IF SelectedEntry # 0 THEN loaders[SelectedEntry].name
                                             ELSE conf.default
    BY <1>0, <1>1, <1>2, <1>3, <1>6, <1>7, Zenon DEF SelectedEntry
  <1>9. varsInitialized' /\ entries' = ExportedIds(loaders)
    BY <1>1, <1>2, Zenon
  <1>10. saveLastBooted' <=> SavedRequested
    BY <1>0, <1>1, <1>4, Zenon DEF SavedRequested
  <1> QED BY <1>8, <1>9, <1>10

LEMMA FoundStep == TypeInv /\ FoundInv /\ [Next]_vars => FoundInv'
  <1> SUFFICES ASSUME TypeInv, FoundInv, [Next]_vars PROVE FoundInv'
    OBVIOUS
  <1> USE DEF ifaceVars, efivars, menuVars, statics, bootVars, ghosts
  <1>0. pc' \notin Reading => FoundInv'
    BY DEF FoundInv, Reading
  <1>n. NvOK /\ fault \in BOOLEAN
        /\ {"EntryOneShot", "ConfigTimeoutOneShot", "ConfigTimeout",
            "EntryDefault", "EntryLastBooted"} \subseteq NvName
    BY DEF TypeInv, ShapeInv, NvType, FlagType, NvName
  <1>1. ASSUME NEW c \in MenuConfigs, PowerOn(c) PROVE FoundInv'
    BY <1>1 DEF PowerOn, FoundInv
  <1>2. CASE InitTimeout
    BY <1>2 DEF InitTimeout, ReadConfigTimeout, FoundInv, Reading
  <1>3. CASE InitTimeoutOneShot
    <2>1. \A v \in NvName : v # "ConfigTimeoutOneShot" => nv'[v] = nv[v]
      BY <1>n, <1>3, UnsetEffect DEF InitTimeoutOneShot, ConsumeTimeoutOneShot
    <2>2. /\ pc = "vars-timeout-oneshot" /\ pc' = "vars-oneshot"
          /\ UNCHANGED <<defaultEntry, conf, nv0>>
      BY <1>3 DEF InitTimeoutOneShot, ConsumeTimeoutOneShot
    <2> QED BY <1>n, <2>1, <2>2 DEF FoundInv, Reading
  <1>4. CASE InitEntryOneShot
    <2>1. PICK getFailed, setFailed \in BOOLEAN :
            ConsumeEntryOneShot(getFailed, setFailed)
      BY <1>4 DEF InitEntryOneShot
    <2>2. \A v \in NvName : v # "EntryOneShot" => nv'[v] = nv[v]
      BY <1>n, <2>1, UnsetEffect DEF ConsumeEntryOneShot
    <2>3. /\ pc = "vars-oneshot" /\ pc' = "vars-select"
          /\ UNCHANGED <<defaultEntry, conf, nv0>>
      BY <1>4 DEF InitEntryOneShot, ConsumeEntryOneShot
    <2>4. fault' = (fault \/ getFailed \/ setFailed)
          /\ Get("EntryOneShot", entryOneshot', getFailed)
      BY <2>1, Zenon DEF ConsumeEntryOneShot
    <2>5. ~fault' => entryOneshot' = nv["EntryOneShot"]
      BY <1>n, <2>4, Zenon DEF Get
    <2>6. nv["EntryOneShot"] = nv0["EntryOneShot"]
      BY <2>3 DEF FoundInv, Reading
    <2> QED BY <1>n, <2>2, <2>3, <2>5, <2>6 DEF FoundInv, Reading
  <1>5. CASE InitSelection \/ Chosen \/ ShowMenu \/ StartEntry \/ Fallback
               \/ TryBootReturns \/ TurnOff
    BY <1>0, <1>5 DEF InitSelection, SelectEntry, Chosen, ShowMenu, StartEntry,
                      Fallback, TryBootReturns, TurnOff, Reading
  <1>6. ASSUME NEW w \in OsWrites, OsSetsVariable(w) PROVE FoundInv'
    BY <1>0, <1>6 DEF OsSetsVariable, Reading
  <1>7. CASE Quiet
    <2>1. pc' \in Reading => pc' = pc
      BY <1>7 DEF Quiet, Reading
    <2>2. UNCHANGED <<nv, nv0, conf, defaultEntry, fault, entryOneshot>>
      BY <1>7 DEF Quiet
    <2> QED BY <1>0, <2>1, <2>2, Zenon DEF FoundInv
  <1> QED BY <1>1, <1>2, <1>3, <1>4, <1>5, <1>6, <1>7, StepKinds

\* While an entry is started the statics, the saved entry and the exported list
\* are what the first lines of embloader_try_boot found and left.
LEMMA RecordStep ==
    TypeInv /\ CacheInv /\ RecordInv /\ [Next]_vars => RecordInv'
  <1> SUFFICES ASSUME TypeInv, CacheInv, RecordInv, [Next]_vars
               PROVE  RecordInv'
    OBVIOUS
  <1> USE DEF ifaceVars, efivars, menuVars, statics, bootVars, ghosts
  <1>f. FoundInv'
    BY FoundStep DEF RecordInv
  <1>0. pc' \notin Looping => RecordInv'
    BY <1>f DEF RecordInv, StaticsReady, SavedUntouched, AnyKeyIsLater, Looping,
                BootIsRecorded, OneShotLeavesNoTrace, SavedEntryIsBooted,
                SelectedIsExported
  <1>n. NvOK /\ fault \in BOOLEAN /\ "EntryLastBooted" \in NvName
    BY DEF TypeInv, ShapeInv, NvType, FlagType, NvName
  <1>b. pc' # "boot" => BootIsRecorded'
    BY DEF BootIsRecorded, OneShotLeavesNoTrace, SavedEntryIsBooted,
           SelectedIsExported
  <1>s. ASSUME UNCHANGED <<varsInitialized, saveLastBooted, entries, loaders,
                           nv0, conf>>,
               pc' \in Looping => pc \in Looping,
               fault => fault'
        PROVE  StaticsReady'
    <2>1. SavedRequested' <=> SavedRequested
      BY <1>s, Zenon DEF SavedRequested
    <2>2. ExportedIds(loaders') = ExportedIds(loaders)
      BY <1>s
    <2> QED BY <1>s, <2>1, <2>2, Zenon DEF RecordInv, StaticsReady
  <1>1. CASE InitSelection
    <2>1. /\ pc = "vars-select" /\ pc' = "loop"
          /\ UNCHANGED <<nv, nv0, loaders, conf>>
      BY <1>1 DEF InitSelection, SelectEntry
    <2>2. StaticsReady'
      <3> SUFFICES ASSUME ~fault'
                   PROVE  /\ varsInitialized'
                          /\ saveLastBooted' <=> SavedRequested'
                          /\ entries' = ExportedIds(loaders')
        BY DEF StaticsReady
      <3>1. SavedRequested' <=> SavedRequested
        BY <2>1, Zenon DEF SavedRequested
      <3>2. /\ varsInitialized'
            /\ saveLastBooted' <=> SavedRequested
            /\ entries' = ExportedIds(loaders)
        BY <1>1, SelectionEffect, Zenon DEF RecordInv
      <3> QED BY <2>1, <3>1, <3>2, Zenon
    <2>3. SavedUntouched' /\ AnyKeyIsLater'
      BY <2>1 DEF RecordInv, FoundInv, Reading, SavedUntouched, AnyKeyIsLater
    <2> QED BY <1>f, <1>b, <2>1, <2>2, <2>3 DEF RecordInv
  <1>2. CASE Chosen \/ ShowMenu
    <2>1. /\ pc \in {"loop", "menu"} /\ pc' \in {"menu", "selected"}
          /\ UNCHANGED <<nv, nv0, conf, entries, loaders, fault, fresh,
                         varsInitialized, saveLastBooted>>
      BY <1>2 DEF Chosen, ShowMenu
    <2>2. StaticsReady'
      BY <1>s, <2>1 DEF Looping
    <2>3. SavedUntouched' /\ AnyKeyIsLater'
      BY <2>1 DEF RecordInv, SavedUntouched, AnyKeyIsLater
    <2> QED BY <1>f, <1>b, <2>1, <2>2, <2>3 DEF RecordInv
  <1>3. CASE StartEntry
    <2>1. /\ pc = "selected" /\ pc' = "boot"
          /\ SetSelectedEntry(loader)
          /\ oneshotBoot' = (loader = oneshotSelected)
          /\ UNCHANGED <<loader, loaders, conf, nv0, fresh, entries,
                         varsInitialized, saveLastBooted>>
      BY <1>3 DEF StartEntry, SetSelectedEntry
    <2>2. fault => fault'
      BY <2>1, Zenon DEF SetSelectedEntry
    <2>3. StaticsReady'
      BY <1>s, <2>1, <2>2 DEF Looping
    <2>4. SavedUntouched' /\ AnyKeyIsLater'
      BY <2>1 DEF SavedUntouched, AnyKeyIsLater
    <2>5. OneShotLeavesNoTrace'
      <3> SUFFICES ASSUME loader = oneshotSelected, fresh
                   PROVE  nv'["EntryLastBooted"] = nv0["EntryLastBooted"]
        BY <2>1, Zenon DEF OneShotLeavesNoTrace
      <3>1. nv' = nv
        BY <2>1, Zenon DEF SetSelectedEntry, IsOneShot
      <3> QED BY <2>1, <3>1 DEF RecordInv, SavedUntouched
    <2>6. loaders \in Seq(Loader) /\ loader \in DOMAIN loaders
      <3>1. loaders \in Seq(Loader) /\ loader \in 0..Len(loaders) /\ loader # 0
        BY <2>1 DEF TypeInv, ShapeInv, MenuType, BootType, PointerOK
      <3> QED BY <3>1
    <2>7. EntryId(loaders[loader]) \in Id
      BY <2>6, EntryIdType
    <2>8. lastBooted # None => nv["EntryLastBooted"] = lastBooted
      BY <2>1 DEF CacheInv, SavedCacheCoherent
    <2>9. ASSUME IsBootable(loaders[loader]), ~fault'
          PROVE  /\ entrySelected' = EntryId(loaders[loader])
                 /\ entries = ExportedIds(loaders)
                 /\ loader # oneshotSelected =>
                      nv'["EntryLastBooted"] =
                        IF SavedRequested THEN EntryId(loaders[loader]) ELSE None
      <3>1. ~fault
        BY <2>2, <2>9
      <3>2. /\ varsInitialized /\ (saveLastBooted <=> SavedRequested)
            /\ entries = ExportedIds(loaders)
        BY <2>1, <3>1 DEF RecordInv, StaticsReady, Looping
      <3>3. /\ entrySelected' = EntryId(loaders[loader])
            /\ loader # oneshotSelected =>
                 nv'["EntryLastBooted"] =
                   IF saveLastBooted THEN EntryId(loaders[loader]) ELSE None
        BY <1>n, <2>1, <2>7, <2>8, <2>9, <3>2, SelectedEntryRecords
      <3> QED BY <3>2, <3>3, Zenon
    <2>10. SavedRequested' <=> SavedRequested
      BY <2>1, Zenon DEF SavedRequested
    <2>11. IsBootable(loaders'[loader']) <=> IsBootable(loaders[loader])
      BY <2>1
    <2>12. EntryId(loaders'[loader']) = EntryId(loaders[loader])
      BY <2>1
    <2>13. SavedEntryIsBooted'
      BY <2>1, <2>9, <2>10, <2>11, <2>12, Zenon DEF SavedEntryIsBooted
    <2>14. SelectedIsExported'
      <3> SUFFICES ASSUME IsBootable(loaders[loader]), ~fault'
                   PROVE  \E i \in DOMAIN entries' : entries'[i] = entrySelected'
        BY <2>11, Zenon DEF SelectedIsExported
      <3>1. \E i \in DOMAIN ExportedIds(loaders) :
              ExportedIds(loaders)[i] = EntryId(loaders[loader])
        BY <2>6, EveryIdExported, Zenon
      <3>2. entries' = ExportedIds(loaders)
            /\ entrySelected' = EntryId(loaders[loader])
        BY <2>1, <2>9
      <3> QED BY <3>1, <3>2, Zenon
    <2> QED BY <1>f, <2>3, <2>4, <2>5, <2>13, <2>14
            DEF RecordInv, BootIsRecorded
  <1>4. CASE Fallback \/ TryBootReturns
    <2>1. /\ pc = "boot" /\ pc' \in {"selected", "anykey"} /\ fresh' = FALSE
          /\ UNCHANGED <<varsInitialized, saveLastBooted, entries, loaders,
                         nv0, conf, fault>>
      BY <1>4 DEF Fallback, TryBootReturns
    <2>2. StaticsReady'
      BY <1>s, <2>1 DEF Looping
    <2>3. SavedUntouched' /\ AnyKeyIsLater'
      BY <2>1 DEF SavedUntouched, AnyKeyIsLater
    <2> QED BY <1>f, <1>b, <2>1, <2>2, <2>3 DEF RecordInv
  <1>5. CASE Quiet
    <2>1. pc' \in Looping => pc' = pc \/ (pc = "anykey" /\ pc' = "loop")
      BY <1>5 DEF Quiet, Looping
    <2>2. UNCHANGED <<nv, nv0, conf, loaders, loader, entries, fault, fresh,
                      entrySelected, oneshotBoot, varsInitialized,
                      saveLastBooted>>
      BY <1>5 DEF Quiet
    <2>3. StaticsReady'
      <3>1. pc' \in Looping => pc \in Looping
        BY <2>1 DEF Looping
      <3> QED BY <1>s, <2>2, <3>1
    <2>4. CASE pc' = pc
      <3>1. SavedUntouched' /\ AnyKeyIsLater'
        BY <2>2, <2>4, Zenon DEF RecordInv, SavedUntouched, AnyKeyIsLater
      <3>2. BootIsRecorded'
        <4>1. SavedRequested' <=> SavedRequested
          BY <2>2, Zenon DEF SavedRequested
        <4>2. OneShotLeavesNoTrace' /\ SelectedIsExported'
          BY <2>2, <2>4, Zenon
             DEF RecordInv, BootIsRecorded, OneShotLeavesNoTrace,
                 SelectedIsExported
        <4>3. SavedEntryIsBooted'
          BY <2>2, <2>4, <4>1, Zenon
             DEF RecordInv, BootIsRecorded, SavedEntryIsBooted
        <4> QED BY <4>2, <4>3 DEF BootIsRecorded
      <3> QED BY <1>f, <2>3, <3>1, <3>2 DEF RecordInv
    <2>5. CASE pc = "anykey" /\ pc' = "loop"
      <3>1. SavedUntouched' /\ AnyKeyIsLater'
        BY <2>2, <2>5 DEF RecordInv, SavedUntouched, AnyKeyIsLater
      <3> QED BY <1>f, <1>b, <2>3, <2>5, <3>1 DEF RecordInv
    <2> QED BY <1>0, <2>1, <2>4, <2>5
  <1>6. CASE TurnOff \/ (\E c \in MenuConfigs : PowerOn(c)) \/ InitTimeout
               \/ InitTimeoutOneShot \/ InitEntryOneShot
    BY <1>0, <1>6
       DEF TurnOff, PowerOn, InitTimeout, ReadConfigTimeout,
           InitTimeoutOneShot, ConsumeTimeoutOneShot, InitEntryOneShot,
           ConsumeEntryOneShot, Looping
  <1>7. ASSUME NEW w \in OsWrites, OsSetsVariable(w) PROVE RecordInv'
    BY <1>0, <1>7 DEF OsSetsVariable, Looping
  <1> QED BY <1>1, <1>2, <1>3, <1>4, <1>5, <1>6, <1>7, StepKinds

LEMMA RecordInit == Init => RecordInv
  BY DEF Init, RecordInv, FoundInv, Reading, StaticsReady, Looping,
         SavedUntouched, AnyKeyIsLater, BootIsRecorded, OneShotLeavesNoTrace,
         SavedEntryIsBooted, SelectedIsExported

\* While an entry is started the variables tell the operating system the truth
\* about it, whatever the menu, the variables found and the firmware's failures
\* before (sdboot_init_menu_variables and sdboot_set_selected_entry).
THEOREM BootRecorded == Spec => []BootIsRecorded
  <1>1. RecordInv => BootIsRecorded
    BY DEF RecordInv
  <1> QED BY <1>1, TypeInitially, TypeStep, CacheInit, CacheStep, RecordInit,
             RecordStep, PTL DEF Spec
-----------------------------------------------------------------------------
(* Whether the menu is shown *)

\* The OS asked once for the menu, and for ever for no menu.
ShowOnce == TimeoutIsValid(nv0["ConfigTimeoutOneShot"])

NeverShow ==
    nv0["ConfigTimeout"] # None /\ nv0["ConfigTimeout"].word = "menu-disabled"

\* What the timeout variables made of menu->timeout and menu->disabled by the
\* time the loop looks at them.
VisibilityInv ==
    /\ fresh /\ pc \in BeforeMenu \cup {"loop"} => ~shown
    /\ pc = "menu" => shown
    /\ ~fault /\ pc = "vars-timeout-oneshot" /\ NeverShow =>
         timeout = 0 /\ disabled
    /\ ~fault /\ fresh /\ pc \in {"vars-oneshot", "vars-select", "loop"} =>
         /\ ShowOnce => timeout # 0
         /\ ~ShowOnce /\ NeverShow => timeout = 0 /\ disabled
    /\ MenuVisibility

LEMMA VisibilityStep ==
    TypeInv /\ RecordInv /\ VisibilityInv /\ [Next]_vars => VisibilityInv'
  <1> SUFFICES ASSUME TypeInv, RecordInv, VisibilityInv, [Next]_vars
               PROVE  VisibilityInv'
    OBVIOUS
  <1> USE DEF ifaceVars, efivars, menuVars, statics, bootVars, ghosts
  <1>0. (pc' \in {"selected", "boot", "anykey", "returned", "os"} \/ ~fresh')
          /\ pc' # "menu" /\ pc' # "vars-timeout-oneshot"
          /\ (~fresh' \/ pc' # "selected") => VisibilityInv'
    BY DEF VisibilityInv, BeforeMenu, MenuVisibility
  <1>n. fault \in BOOLEAN /\ "ConfigTimeout" \in NvName
        /\ "ConfigTimeoutOneShot" \in NvName
    BY DEF TypeInv, FlagType, NvName
  <1>1. CASE TurnOff
    BY <1>1 DEF TurnOff, RamCleared, VisibilityInv, MenuVisibility
  <1>2. ASSUME NEW c \in MenuConfigs, PowerOn(c) PROVE VisibilityInv'
    BY <1>2 DEF PowerOn, VisibilityInv, MenuVisibility, BeforeMenu
  <1>3. CASE InitTimeout
    <2>1. PICK t \in TimeoutText \cup {None}, failed \in BOOLEAN :
            /\ Get("ConfigTimeout", t, failed)
            /\ timeout' = IF TimeoutIsValid(t) THEN TimeoutValue(t) ELSE timeout
            /\ disabled' = IF TimeoutIsValid(t) THEN t.word = "menu-disabled"
                                                ELSE disabled
            /\ fault' = (fault \/ failed)
      BY <1>3 DEF InitTimeout, ReadConfigTimeout
    <2>2. /\ pc = "vars-timeout" /\ pc' = "vars-timeout-oneshot"
          /\ UNCHANGED <<nv0, fresh, shown>>
      BY <1>3 DEF InitTimeout, ReadConfigTimeout
    <2>3. ASSUME ~fault', NeverShow' PROVE timeout' = 0 /\ disabled'
      <3>1. ~failed
        BY <2>1, <2>3, Zenon
      <3>2. t = nv0["ConfigTimeout"]
        <4>1. nv["ConfigTimeout"] = nv0["ConfigTimeout"]
          BY <2>2 DEF RecordInv, FoundInv, Reading
        <4> QED BY <2>1, <3>1, <4>1, Zenon DEF Get
      <3>3. t # None /\ t.word = "menu-disabled"
        BY <2>2, <2>3, <3>2 DEF NeverShow
      <3>4. TimeoutIsValid(t)
        BY <3>3 DEF TimeoutIsValid
      <3>5. TimeoutValue(t) = 0
        BY <3>3 DEF TimeoutValue
      <3> QED BY <2>1, <3>3, <3>4, <3>5, Zenon
    <2>4. fresh => ~shown
      BY <2>2 DEF VisibilityInv, BeforeMenu
    <2> QED BY <2>2, <2>3, <2>4 DEF VisibilityInv, MenuVisibility, BeforeMenu
  <1>4. CASE InitTimeoutOneShot
    <2>1. PICK t \in TimeoutText \cup {None}, getFailed, setFailed \in BOOLEAN :
            /\ Get("ConfigTimeoutOneShot", t, getFailed)
            /\ IF TimeoutIsValid(t)
               THEN timeout' = OneShotTimeout(t)
               ELSE UNCHANGED <<timeout, disabled>>
            /\ fault' = (fault \/ getFailed \/ setFailed)
      BY <1>4 DEF InitTimeoutOneShot, ConsumeTimeoutOneShot
    <2>2. /\ pc = "vars-timeout-oneshot" /\ pc' = "vars-oneshot"
          /\ UNCHANGED <<nv0, fresh, shown>>
      BY <1>4 DEF InitTimeoutOneShot, ConsumeTimeoutOneShot
    <2>3. ASSUME ~fault'
          PROVE  /\ ShowOnce => timeout' # 0
                 /\ ~ShowOnce /\ NeverShow => timeout' = 0 /\ disabled'
      <3>1. ~fault /\ ~getFailed
        BY <1>n, <2>1, <2>3, Zenon
      <3>2. t = nv0["ConfigTimeoutOneShot"]
        <4>1. nv["ConfigTimeoutOneShot"] = nv0["ConfigTimeoutOneShot"]
          BY <2>2 DEF RecordInv, FoundInv
        <4> QED BY <2>1, <3>1, <4>1, Zenon DEF Get
      <3>3. ASSUME ShowOnce PROVE timeout' # 0
        <4>1. TimeoutIsValid(t) /\ t \in TimeoutText
          BY <3>2, <3>3 DEF ShowOnce, TimeoutIsValid
        <4>2. TimeoutValue(t) \in Int
          BY <4>1, TimeoutType, BoundsAssumption
        <4>3. OneShotTimeout(t) # 0
          BY <4>2 DEF OneShotTimeout
        <4> QED BY <2>1, <4>1, <4>3, Zenon
      <3>4. ASSUME ~ShowOnce, NeverShow PROVE timeout' = 0 /\ disabled'
        <4>1. UNCHANGED <<timeout, disabled>>
          BY <2>1, <3>2, <3>4, Zenon DEF ShowOnce
        <4> QED BY <2>2, <3>1, <3>4, <4>1 DEF VisibilityInv
      <3> QED BY <3>3, <3>4
    <2>4. (ShowOnce' <=> ShowOnce) /\ (NeverShow' <=> NeverShow)
      BY <2>2, Zenon DEF ShowOnce, NeverShow
    <2>5. fresh => ~shown
      BY <2>2 DEF VisibilityInv, BeforeMenu
    <2> QED BY <2>2, <2>3, <2>4, <2>5
            DEF VisibilityInv, MenuVisibility, BeforeMenu
  <1>5. CASE InitEntryOneShot \/ InitSelection
    <2>1. /\ pc \in {"vars-oneshot", "vars-select"}
          /\ pc' \in {"vars-select", "loop"}
          /\ UNCHANGED <<nv0, fresh, shown, timeout, disabled>>
      BY <1>5 DEF InitEntryOneShot, ConsumeEntryOneShot, InitSelection,
                  SelectEntry
    <2>2. ~fault' => ~fault
      <3>1. CASE InitEntryOneShot
        BY <3>1, Zenon DEF InitEntryOneShot, ConsumeEntryOneShot
      <3>2. CASE InitSelection
        <4>1. \E d, l, o, e \in BOOLEAN : fault' = (fault \/ d \/ l \/ o \/ e)
          BY <3>2 DEF InitSelection, SelectEntry
        <4> QED BY <4>1, Zenon
      <3> QED BY <1>5, <3>1, <3>2
    <2>3. (ShowOnce' <=> ShowOnce) /\ (NeverShow' <=> NeverShow)
      BY <2>1, Zenon DEF ShowOnce, NeverShow
    <2> QED BY <2>1, <2>2, <2>3 DEF VisibilityInv, MenuVisibility, BeforeMenu
  <1>v. ASSUME UNCHANGED <<nv0, fresh, fault>>, pc = "loop",
               pc' \in {"menu", "selected"},
               timeout = 0 => shown' = FALSE \/ ~disabled,
               timeout # 0 => shown' = TRUE,
               pc' = "menu" => shown' = TRUE
        PROVE  VisibilityInv'
    <2>1. (ShowOnce' <=> ShowOnce) /\ (NeverShow' <=> NeverShow)
      BY <1>v, Zenon DEF ShowOnce, NeverShow
    <2> QED BY <1>v, <2>1 DEF VisibilityInv, MenuVisibility, BeforeMenu,
                              ShowOnce, NeverShow
  <1>6. CASE ShowMenu
    BY <1>6, <1>v DEF ShowMenu
  <1>7. CASE Chosen
    <2>1. UNCHANGED <<nv0, fresh, fault, shown>> /\ pc' = "selected"
      BY <1>7 DEF Chosen
    <2>2. (ShowOnce' <=> ShowOnce) /\ (NeverShow' <=> NeverShow)
      BY <2>1, Zenon DEF ShowOnce, NeverShow
    <2>3. CASE pc = "loop"
      <3>1. timeout = 0
        BY <1>7, <2>3 DEF Chosen
      <3> QED BY <2>1, <2>2, <2>3, <3>1
              DEF VisibilityInv, MenuVisibility, BeforeMenu, ShowOnce,
                  NeverShow
    <2>4. CASE pc = "menu"
      BY <2>1, <2>2, <2>4, Zenon DEF VisibilityInv, MenuVisibility, BeforeMenu
    <2> QED BY <1>7, <2>3, <2>4 DEF Chosen
  <1>8. CASE StartEntry
    BY <1>0, <1>8 DEF StartEntry
  <1>9. CASE Fallback \/ TryBootReturns
    BY <1>0, <1>9 DEF Fallback, TryBootReturns
  <1>10. ASSUME NEW w \in OsWrites, OsSetsVariable(w) PROVE VisibilityInv'
    BY <1>0, <1>10 DEF OsSetsVariable
  <1>11. CASE Quiet
    <2>1. UNCHANGED <<nv0, fresh, fault, shown, timeout, disabled>>
      BY <1>11 DEF Quiet
    <2>2. (ShowOnce' <=> ShowOnce) /\ (NeverShow' <=> NeverShow)
      BY <2>1, Zenon DEF ShowOnce, NeverShow
    <2>3. CASE pc' = pc
      BY <2>1, <2>2, <2>3, Zenon DEF VisibilityInv, MenuVisibility, BeforeMenu
    <2>4. CASE pc' \in {"returned", "os"}
      BY <1>0, <2>4
    <2>5. CASE pc = "anykey" /\ pc' = "loop"
      BY <1>0, <2>1, <2>5 DEF RecordInv, AnyKeyIsLater
    <2> QED BY <1>11, <2>3, <2>4, <2>5 DEF Quiet
  <1> QED BY <1>1, <1>2, <1>3, <1>4, <1>5, <1>6, <1>7, <1>8, <1>9, <1>10,
             <1>11, StepKinds

\* A one-shot timeout always shows the menu before the first boot and a
\* disabled menu stays hidden until then, for every text of the variables.
THEOREM MenuShownAsAsked == Spec => []MenuVisibility
  <1>1. Init => VisibilityInv
    BY DEF Init, VisibilityInv, MenuVisibility
  <1>2. VisibilityInv => MenuVisibility
    BY DEF VisibilityInv
  <1> QED BY <1>1, <1>2, TypeInitially, TypeStep, CacheInit, CacheStep,
             RecordInit, RecordStep, VisibilityStep, PTL DEF Spec
-----------------------------------------------------------------------------
(* The entry an unattended boot starts *)

\* What the first unattended boot starts: the least member of the first of
\* these sets that has one.
Wishes ==
    <<Named(nv0["EntryOneShot"]), Named(Saved(nv0["EntryDefault"])),
      ConfigNamed(conf.default),
      {i \in DOMAIN loaders : loaders[i].name = conf.default},
      DOMAIN loaders>>

LEMMA PromisedIs ==
    ASSUME NEW r \in 1..5, Wishes[r] # {},
           \A q \in 1..(r - 1) : Wishes[q] = {}
    PROVE  Promised = FirstOf(Wishes[r])
  <1>1. DOMAIN Wishes = 1..5
    BY DEF Wishes
  <1> DEFINE rank == CHOOSE x \in DOMAIN Wishes :
                       /\ Wishes[x] # {}
                       /\ \A q \in 1..(x - 1) : Wishes[q] = {}
  <1>2. /\ rank \in DOMAIN Wishes /\ Wishes[rank] # {}
        /\ \A q \in 1..(rank - 1) : Wishes[q] = {}
    <2>1. \E x \in DOMAIN Wishes :
             /\ Wishes[x] # {}
             /\ \A q \in 1..(x - 1) : Wishes[q] = {}
      BY <1>1
    <2> QED BY <2>1, Zenon
  <1>3. rank = r
    <2> HIDE DEF rank
    <2>1. ~(rank < r)
      BY <1>1, <1>2
    <2>2. ~(r < rank)
      BY <1>1, <1>2
    <2> QED BY <1>1, <1>2, <2>1, <2>2
  <1>4. Promised = CHOOSE i \in Wishes[rank] : \A j \in Wishes[rank] : i <= j
    BY Zenon DEF Promised, Wishes
  <1> HIDE DEF rank
  <1>5. FirstOf(Wishes[rank])
          = CHOOSE i \in Wishes[rank] : \A j \in Wishes[rank] : i <= j
    BY <1>2, Zenon DEF FirstOf
  <1> QED BY <1>3, <1>4, <1>5

\* The three searches of sdboot_init_menu_variables find the least member of
\* the three sets.
LEMMA SearchesFindWishes ==
    /\ SelectedByOneShot(loaders, nv0["EntryOneShot"]) = FirstOf(Wishes[1])
    /\ SelectedByDefault(loaders, nv0["EntryDefault"], nv0["EntryLastBooted"])
         = FirstOf(Wishes[2])
    /\ SelectedByConfig(loaders, conf.default, nv0["EntryLastBooted"])
         = FirstOf(Wishes[3])
  <1>0. /\ Wishes[1] = Named(nv0["EntryOneShot"])
        /\ Wishes[2] = Named(Saved(nv0["EntryDefault"]))
        /\ Wishes[3] = ConfigNamed(conf.default)
    BY DEF Wishes
  <1>1. \A p : SdbootFindLoader(loaders, p, FALSE) = FirstOf(Named(p))
    <2> TAKE p
    <2>1. CASE p = None
      BY <2>1, Zenon DEF SdbootFindLoader, Named, FirstOf
    <2>2. CASE p # None
      <3>1. {i \in DOMAIN loaders :
               \/ FALSE /\ fnmatch(p, loaders[i].name)
               \/ fnmatch(p, EntryId(loaders[i]))} = Named(p)
        BY <2>2, Zenon DEF Named
      <3> QED BY <2>2, <3>1, Zenon DEF SdbootFindLoader
    <2> QED BY <2>1, <2>2
  <1>2. SelectedByDefault(loaders, nv0["EntryDefault"], nv0["EntryLastBooted"])
          = FirstOf(Named(Saved(nv0["EntryDefault"])))
    <2>1. CASE nv0["EntryDefault"] = "@saved"
      BY <1>1, <2>1, Zenon DEF SelectedByDefault, Saved
    <2>2. CASE nv0["EntryDefault"] # "@saved"
      BY <1>1, <2>2, Zenon DEF SelectedByDefault, Saved
    <2> QED BY <2>1, <2>2
  <1>3. SelectedByConfig(loaders, conf.default, nv0["EntryLastBooted"])
          = FirstOf(ConfigNamed(conf.default))
    <2> DEFINE p == conf.default
    <2>1. CASE p = "@saved"
      <3>1. ConfigNamed(p) = Named(nv0["EntryLastBooted"])
        BY <2>1, Zenon DEF ConfigNamed, Saved
      <3> QED BY <1>1, <2>1, <3>1, Zenon DEF SelectedByConfig
    <2>2. CASE p = None /\ p # "@saved"
      <3>1. ConfigNamed(p) = {}
        BY <2>2, Zenon DEF ConfigNamed, Saved, Named
      <3> QED BY <2>2, <3>1, Zenon
              DEF SelectedByConfig, SdbootFindLoader, FirstOf
    <2>3. CASE p # None /\ p # "@saved"
      <3>1. {i \in DOMAIN loaders :
               \/ TRUE /\ fnmatch(p, loaders[i].name)
               \/ fnmatch(p, EntryId(loaders[i]))} = ConfigNamed(p)
        BY <2>3, Zenon DEF ConfigNamed, Saved, Named
      <3> QED BY <2>3, <3>1, Zenon DEF SelectedByConfig, SdbootFindLoader
    <2> QED BY <2>1, <2>2, <2>3
  <1> QED BY <1>0, <1>1, <1>2, <1>3, Zenon DEF SelectedByOneShot

\* Where names are unique the name in menu->default_entry leads every front end
\* to the promised entry.
LEMMA DefaultIsPromised ==
    ASSUME loaders \in Seq(Loader), UniqueNames(loaders), DOMAIN loaders # {}
    PROVE  LET d == IF SelectedEntry # 0 THEN loaders[SelectedEntry].name
                                         ELSE conf.default
           IN  /\ GetDefaultLoader(loaders, d) = Promised
               /\ MenuDefaultLoader(loaders, d) = Promised
  <1> DEFINE W(r) == Wishes[r]
  <1>0. DOMAIN loaders = 1..Len(loaders) /\ Len(loaders) \in Nat
    OBVIOUS
  <1>1. \A r \in 1..5 : W(r) \in SUBSET DOMAIN loaders
    BY DEF Wishes, Named, ConfigNamed
  <1>2. \A r \in 1..5 : W(r) \in SUBSET Nat /\ W(r) \in SUBSET (1..Len(loaders))
    BY <1>0, <1>1
  <1>3. \A r \in 1..5 :
          /\ W(r) = {} => FirstOf(W(r)) = 0
          /\ W(r) # {} => FirstOf(W(r)) \in W(r)
    BY <1>2, FirstOfIsLeast
  <1>4. \A r \in 1..5 : FirstOf(W(r)) # 0 <=> W(r) # {}
    <2>1. 0 \notin DOMAIN loaders
      BY <1>0
    <2> QED BY <1>1, <1>3, <2>1
  <1>5. SelectedEntry = IF FirstOf(W(1)) # 0 THEN FirstOf(W(1))
                        ELSE IF FirstOf(W(2)) # 0 THEN FirstOf(W(2))
                        ELSE FirstOf(W(3))
    BY SearchesFindWishes, Zenon DEF SelectedEntry
  <1>6. W(4) = {i \in DOMAIN loaders : loaders[i].name = conf.default}
        /\ W(5) = DOMAIN loaders
    BY DEF Wishes
  <1>7. \A r \in 1..5 :
          W(r) # {} /\ (\A q \in 1..(r - 1) : W(q) = {})
            => Promised = FirstOf(W(r))
    BY PromisedIs
  <1> HIDE DEF W
  <1>8. ASSUME NEW d, NEW k \in DOMAIN loaders, loaders[k].name = d
        PROVE  GetDefaultLoader(loaders, d) = k
               /\ MenuDefaultLoader(loaders, d) = k
    <2> DEFINE S == {i \in DOMAIN loaders : loaders[i].name = d}
    <2>1. \A i \in S : i = k
      BY <1>8 DEF UniqueNames
    <2>2. S \in SUBSET Nat /\ S \in SUBSET (1..Len(loaders)) /\ S # {}
      BY <1>0, <1>8
    <2>3. FirstOf(S) \in S /\ LastOf(S) \in S
      BY <1>0, <2>2, FirstOfIsLeast, LastOfIsGreatest
    <2>4. FirstOf(S) = k /\ LastOf(S) = k /\ k # 0
      BY <1>0, <2>1, <2>3
    <2>5. FindLoader(loaders, d) = k
      BY <2>4, Zenon DEF FindLoader
    <2> QED BY <2>4, <2>5, Zenon DEF GetDefaultLoader, MenuDefaultLoader
  <1>9. CASE SelectedEntry # 0
    <2>1. PICK r \in {1, 2, 3} :
            /\ SelectedEntry = FirstOf(W(r)) /\ W(r) # {}
            /\ \A q \in 1..(r - 1) : W(q) = {}
      <3>1. CASE W(1) # {}
        BY <1>4, <1>5, <3>1
      <3>2. CASE W(1) = {} /\ W(2) # {}
        BY <1>4, <1>5, <3>2
      <3>3. CASE W(1) = {} /\ W(2) = {}
        <4>1. FirstOf(W(1)) = 0 /\ FirstOf(W(2)) = 0
          BY <1>3, <3>3
        <4>2. SelectedEntry = FirstOf(W(3))
          BY <1>5, <4>1, Zenon
        <4>3. W(3) # {}
          BY <1>4, <1>9, <4>2
        <4>4. \A q \in 1..(3 - 1) : W(q) = {}
          BY <3>3
        <4> QED BY <4>2, <4>3, <4>4
      <3> QED BY <3>1, <3>2, <3>3
    <2>2. SelectedEntry \in DOMAIN loaders
      BY <1>1, <1>3, <2>1
    <2>3. Promised = SelectedEntry
      BY <1>7, <2>1
    <2> QED BY <1>8, <1>9, <2>2, <2>3
  <1>10. CASE SelectedEntry = 0
    <2>1. W(1) = {} /\ W(2) = {} /\ W(3) = {}
      <3>1. FirstOf(W(1)) = 0 /\ FirstOf(W(2)) = 0 /\ FirstOf(W(3)) = 0
        BY <1>5, <1>10, Zenon
      <3> QED BY <1>4, <3>1
    <2>2. CASE W(4) # {}
      <3>1. FirstOf(W(4)) \in W(4)
        BY <1>3, <2>2
      <3>2. /\ FirstOf(W(4)) \in DOMAIN loaders
            /\ loaders[FirstOf(W(4))].name = conf.default
        BY <1>6, <3>1, Zenon
      <3>3. \A q \in 1..(4 - 1) : W(q) = {}
        BY <2>1
      <3>4. Promised = FirstOf(W(4))
        BY <1>7, <2>2, <3>3
      <3> QED BY <1>8, <1>10, <3>2, <3>4
    <2>3. CASE W(4) = {}
      <3>1. \A q \in 1..(5 - 1) : W(q) = {}
        BY <2>1, <2>3
      <3>2. Promised = FirstOf(DOMAIN loaders)
        BY <1>6, <1>7, <3>1
      <3>3. FirstOf({i \in DOMAIN loaders : loaders[i].name = conf.default}) = 0
            /\ LastOf({i \in DOMAIN loaders : loaders[i].name = conf.default}) = 0
        BY <1>6, <2>3, Zenon DEF FirstOf, LastOf
      <3> QED BY <1>10, <3>2, <3>3, Zenon
              DEF FindLoader, GetDefaultLoader, MenuDefaultLoader
    <2> QED BY <2>2, <2>3
  <1> QED BY <1>9, <1>10

\* Until the first boot menu->default_entry leads to the promised entry.
DefaultInv ==
    /\ ~fault /\ fresh /\ pc \in {"loop", "menu"} /\ UniqueNames(loaders)
         /\ DOMAIN loaders # {} =>
         /\ GetDefaultLoader(loaders, defaultEntry) = Promised
         /\ MenuDefaultLoader(loaders, defaultEntry) = Promised
    /\ DefaultHonoured

LEMMA DefaultStep ==
    TypeInv /\ RecordInv /\ DefaultInv /\ [Next]_vars => DefaultInv'
  <1> SUFFICES ASSUME TypeInv, RecordInv, DefaultInv, [Next]_vars
               PROVE  DefaultInv'
    OBVIOUS
  <1> USE DEF ifaceVars, efivars, menuVars, statics, bootVars, ghosts
  <1>0. ~fresh' \/ pc' \notin {"loop", "menu", "selected"} => DefaultInv'
    BY DEF DefaultInv, DefaultHonoured
  <1>p. ASSUME UNCHANGED <<nv0, conf, loaders>> PROVE Promised' = Promised
    BY <1>p DEF Promised, Named, Saved, ConfigNamed
  <1>1. CASE InitSelection
    <2>1. /\ pc' = "loop" /\ UNCHANGED <<nv0, conf, loaders>>
      BY <1>1 DEF InitSelection, SelectEntry
    <2>2. ASSUME ~fault', UniqueNames(loaders), DOMAIN loaders # {}
          PROVE  /\ GetDefaultLoader(loaders, defaultEntry') = Promised
                 /\ MenuDefaultLoader(loaders, defaultEntry') = Promised
      <3>1. loaders \in Seq(Loader)
        BY DEF TypeInv, ShapeInv, MenuType
      <3>2. defaultEntry' = IF SelectedEntry # 0
                            THEN loaders[SelectedEntry].name ELSE conf.default
        BY <1>1, <2>2, SelectionEffect DEF RecordInv
      <3> QED BY <2>2, <3>1, <3>2, DefaultIsPromised, Zenon
    <2> QED BY <1>p, <2>1, <2>2 DEF DefaultInv, DefaultHonoured
  <1>2. CASE ShowMenu
    <2>1. /\ pc = "loop" /\ pc' = "menu"
          /\ UNCHANGED <<nv0, conf, loaders, fault, fresh, defaultEntry>>
      BY <1>2 DEF ShowMenu
    <2> QED BY <1>p, <2>1 DEF DefaultInv, DefaultHonoured
  <1>3. CASE Chosen
    <2>1. /\ pc \in {"loop", "menu"} /\ pc' = "selected"
          /\ autoboot' =>
               loader' \in {GetDefaultLoader(loaders, defaultEntry),
                            MenuDefaultLoader(loaders, defaultEntry)}
          /\ UNCHANGED <<nv0, conf, loaders, fault, fresh, defaultEntry>>
      BY <1>3 DEF Chosen
    <2>2. DOMAIN loaders # {}
      BY <1>3 DEF Chosen, MenuIsComplete, TypeInv, ShapeInv, PointerOK
    <2>3. ASSUME autoboot', fresh, ~fault, UniqueNames(loaders)
          PROVE  loader' = Promised
      <3>1. loader' \in {GetDefaultLoader(loaders, defaultEntry),
                         MenuDefaultLoader(loaders, defaultEntry)}
        BY <2>1, <2>3
      <3>2. /\ GetDefaultLoader(loaders, defaultEntry) = Promised
            /\ MenuDefaultLoader(loaders, defaultEntry) = Promised
        BY <2>1, <2>2, <2>3 DEF DefaultInv
      <3> QED BY <3>1, <3>2
    <2> QED BY <1>p, <2>1, <2>3 DEF DefaultInv, DefaultHonoured
  <1>4. CASE Quiet
    <2>1. UNCHANGED <<nv0, conf, loaders, loader, autoboot, tried, fault, fresh,
                      defaultEntry>>
      BY <1>4 DEF Quiet
    <2>2. CASE pc' = pc
      BY <1>p, <2>1, <2>2, Zenon DEF DefaultInv, DefaultHonoured
    <2>3. CASE pc' \in {"returned", "os"}
      BY <1>0, <2>3
    <2>4. CASE pc = "anykey" /\ pc' = "loop"
      BY <1>0, <2>1, <2>4 DEF RecordInv, AnyKeyIsLater
    <2> QED BY <1>4, <2>2, <2>3, <2>4 DEF Quiet
  <1>5. CASE TurnOff \/ (\E c \in MenuConfigs : PowerOn(c)) \/ InitTimeout
               \/ InitTimeoutOneShot \/ InitEntryOneShot
    BY <1>0, <1>5
       DEF TurnOff, PowerOn, InitTimeout, ReadConfigTimeout,
           InitTimeoutOneShot, ConsumeTimeoutOneShot, InitEntryOneShot,
           ConsumeEntryOneShot
  <1>6. CASE StartEntry \/ Fallback \/ TryBootReturns
    BY <1>0, <1>6 DEF StartEntry, Fallback, TryBootReturns
  <1>7. ASSUME NEW w \in OsWrites, OsSetsVariable(w) PROVE DefaultInv'
    BY <1>0, <1>7 DEF OsSetsVariable
  <1> QED BY <1>1, <1>2, <1>3, <1>4, <1>5, <1>6, <1>7, StepKinds

\* The first unattended boot, hidden or after the countdown of any front end,
\* starts the entry the variables and the configuration promise, for every
\* menu with unique names, every fnmatch and every text in the variables.
THEOREM DefaultIsHonoured == Spec => []DefaultHonoured
  <1>1. Init => DefaultInv
    BY DEF Init, DefaultInv, DefaultHonoured
  <1>2. DefaultInv => DefaultHonoured
    BY DEF DefaultInv
  <1> QED BY <1>1, <1>2, TypeInitially, TypeStep, CacheInit, CacheStep,
             RecordInit, RecordStep, DefaultStep, PTL DEF Spec
=============================================================================
