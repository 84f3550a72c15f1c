---------------------------- MODULE MCSdbootMenu ----------------------------
(***************************************************************************)
(* Small disks, configurations and menus for SdbootMenu.                     *)
(***************************************************************************)
EXTENDS SdbootMenu

\* Texts in ascending order, for strcmp and vercmp
Texts == <<"1", "2", "a", "auto-firmware", "auto-poweroff", "auto-reboot", "b", "c",
           "k", "l", "m", "n">>
MCText == {Texts[i] : i \in DOMAIN Texts}
TextRank(t) == CHOOSE i \in DOMAIN Texts : Texts[i] = t
MCCompare(a, b) == TextRank(a) - TextRank(b)

Seconds(n) == [word |-> "int", n |-> n]
Word(w) == [word |-> w, n |-> 0]
Timeout(v) == Pair("timeout", v)

File(name, lines) == [name |-> name, conf |-> TRUE, lines |-> lines]
NotConf == [name |-> "c", conf |-> FALSE, lines |-> <<>>]
Root(conf, entries) == [folder |-> TRUE, conf |-> conf, entries |-> entries]
NoFolder == [folder |-> FALSE, conf |-> None, entries |-> None]

Disk(cur, prev, hs, root, faults) ==
    [current |-> cur, previous |-> prev, handles |-> hs, root |-> root,
     faults |-> faults]
Config(enabled, multi, time, def, offset, setup) ==
    [enabled |-> enabled, multi |-> multi, hasTimeout |-> time,
     hasDefault |-> def, offset |-> offset, setup |-> setup]
Menu(loaders) ==
    [loaders |-> loaders, timeout |-> 1, disabled |-> FALSE, default |-> None]

-----------------------------------------------------------------------------
(* The search: up to three partitions, met in several ways. *)

Linux(name) == File(name, <<Pair("title", "a"), Pair("linux", "k"),
                            Pair("options", <<"1", "2">>)>>)
Foreign == File("c", <<Pair("efi", "k"), Pair("architecture", "arm")>>)
Invalid == File("c", <<Broken, Pair("architecture", "vax")>>)
Both == File("b", <<Pair("linux", "k"), Pair("efi", "k"), Pair("unknown", "k")>>)

One == Root(<<Blank, Pair("default", "a"), Timeout(Word("menu-disabled"))>>,
            <<Linux("a"), Foreign, NotConf, Linux("b")>>)
Two == Root(<<Timeout(Seconds(2)), Broken, Pair("editor", "no"),
              Pair("console-mode", "max"), Pair("beep", "k")>>,
            <<Invalid, Both, Linux("a")>>)
NoConf == Root(None, <<Linux("c")>>)
NoEntries == Root(<<Timeout(Word("menu-force")), Timeout(Seconds(9)),
                    Pair("secureboot-enroll", "force"),
                    Pair("secureboot-enroll", "k"), Pair("unknown", "k")>>, None)
NothingValid == Root(<<Broken>>, <<>>)

AllFaults == {"DEVICE_ERROR", "OUT_OF_RESOURCES", "NOT_FOUND", "LOAD_ERROR"}
SearchRoots ==
    {[h1 |-> x, h2 |-> y, h3 |-> z] :
        x \in {One, NoFolder}, y \in {NoConf, NoEntries, NothingValid, NoFolder},
        z \in {Two, NoFolder}}
SearchDisks ==
    {Disk("h1", "h2", <<"h2", "h1", "h3", "h3">>, r, AllFaults) : r \in SearchRoots}
      \cup {Disk("h1", "h1", <<"h3", "h2">>, r, AllFaults) : r \in SearchRoots}
      \cup {Disk(None, None, <<"h2", "h1", "h2">>, r, AllFaults) : r \in SearchRoots}
      \cup {Disk("h1", None, <<>>, [h \in {"h1", "h2", "h3"} |-> NoFolder], AllFaults)}
SearchConfigs ==
    {Config(TRUE, m, FALSE, FALSE, 1, TRUE) : m \in BOOLEAN}
      \cup {Config(FALSE, TRUE, FALSE, FALSE, 1, TRUE)}
Situation(disks, configs, menus) ==
    {[disk |-> d, cfg |-> c, menu |-> m] : d \in disks, c \in configs, m \in menus}
SearchSituations == Situation(SearchDisks, SearchConfigs, {Menu(<<>>)})

-----------------------------------------------------------------------------
(* Settings and order: one or two partitions, all readable. *)

Special(name, type, mode) == Item(name, type, mode, 2, 0)
PublishMenus ==
    {Menu(<<>>),
     Menu(<<Special("setup", "efisetup", None), Special("a", "reboot", "reboot-warm")>>),
     Menu(<<Special("off", "reboot", "poweroff")>>)}

Autos(f, r, p) == <<Pair("auto-firmware", f), Pair("auto-reboot", r),
                    Pair("auto-poweroff", p)>>
Defaults == {"auto-firmware", "auto-reboot", "auto-poweroff", "b"}
AutoConfs ==
    {Append(Autos(f, r, p), Pair("default", d)) :
        f, r, p \in {"yes", "no"}, d \in Defaults}
SecondConfs == {None, <<Timeout(Word("menu-hidden")), Pair("auto-reboot", "yes")>>}
Pairs(c1, c2) ==
    Disk("h1", "h2", <<"h1", "h2">>,
         [h1 |-> Root(c1, <<Linux("a"), Linux("b")>>),
          h2 |-> Root(c2, <<Linux("a")>>)], {})
SettingsDisks == {Pairs(c1, c2) : c1 \in AutoConfs, c2 \in SecondConfs}
SettingsConfigs ==
    {Config(TRUE, TRUE, time, def, 3, s) : time, def, s \in BOOLEAN}

\* Three entries with and without the fields they are ordered by
Optional(key, v) == IF v = None THEN <<>> ELSE <<Pair(key, v)>>
Sortable(name, key, id, version) ==
    File(name, <<Pair("linux", "k")>> \o Optional("sort-key", key)
                 \o Optional("machine-id", id) \o Optional("version", version))
Sortables ==
    {Sortable(n, None, None, "2") : n \in {"a", "c"}}
      \cup {Sortable(n, "k", None, v) : n \in {"a", "b", "c"}, v \in {None, "1", "2"}}
      \cup {Sortable("b", "l", "m", v) : v \in {"1", "2"}}
      \cup {Sortable("b", "l", "n", "1")}
OrderDisks ==
    {Disk("h1", None, <<>>,
          [h1 |-> Root(<<Pair("auto-reboot", "yes"), Pair("auto-poweroff", "yes")>>, fs)], {}) :
        fs \in [1..3 -> Sortables]}
OrderConfigs == {Config(TRUE, FALSE, TRUE, TRUE, o, TRUE) : o \in {-2, 1, 5, 6}}
OrderMenus == {Menu(<<Special("off", "reboot", "poweroff")>>)}

PublishSituations ==
    Situation(SettingsDisks, SettingsConfigs, PublishMenus)
      \cup Situation(OrderDisks, OrderConfigs, OrderMenus)

AllSituations == SearchSituations \cup PublishSituations
=============================================================================
