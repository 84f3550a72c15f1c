----------------------------- MODULE MCExtlinux -----------------------------
(***************************************************************************)
(* Small alphabets of lines, configurations and menus for Extlinux.  Each    *)
(* part of the file is about other keywords, so that files are long enough   *)
(* for what these keywords do to each other.                                 *)
(***************************************************************************)
EXTENDS Extlinux

MCPart == {"extlinux", "a", "b", "c", "A"} \cup {ToString(n) : n \in 2..11}
MCLowerCase == [A |-> "a"]
MCNumeral == [n \in 2..11 |-> ToString(n)]

Line(key, value) == [key |-> key, value |-> value]
Kernel == Line("KERNEL", "k")

Config(ready, enabled, def, time, title) ==
    [ready |-> ready, enabled |-> enabled, hasDefault |-> def, hasTimeout |-> time,
     hasTitle |-> title]
Plain == {Config(TRUE, TRUE, FALSE, FALSE, FALSE)}

Input(lines, maxLines, cfgs, menus, faults) ==
    {[lines |-> lines, maxLines |-> maxLines, cfg |-> c, menu |-> m, faults |-> faults] :
        c \in cfgs, m \in menus}

Item(name, priority) ==
    [name |-> name, title |-> <<"t">>, priority |-> priority, node |-> NoLabel]
Menu(loaders, def) ==
    [loaders |-> loaders, default |-> def, timeout |-> 1, disabled |-> FALSE,
     title |-> ""]

-----------------------------------------------------------------------------
(* Names: labels that differ in case only, and one that ends in a number *)

NamesLines == {Line("LABEL", <<"a">>), Line("LABEL", <<"A">>), Line("LABEL", <<"a", "2">>),
               Kernel}
NamesMenus ==
    {Menu(<<>>, None),
     Menu(<<Item(<<"extlinux", "A">>, 1), Item(<<"extlinux", "a", "3">>, 9)>>, None)}

-----------------------------------------------------------------------------
(* The default *)

DefaultLines ==
    {Line("LABEL", <<"a">>), Line("LABEL", <<"b">>), Kernel, Line("DEFAULT", <<"A">>),
     Line("DEFAULT", <<"b">>), Line("MENU DEFAULT", None), Line("ONTIMEOUT", <<"b">>)}
DefaultMenus == {Menu(<<Item(<<"extlinux", "a">>, 1), Item(<<"b">>, 2)>>, <<"b">>)}

-----------------------------------------------------------------------------
(* Entries, with every call failing *)

Relative(p) == [relative |-> TRUE, dir |-> None, path |-> p]
Absolute(p) == [relative |-> FALSE, dir |-> None, path |-> p]
EntryLines ==
    {Line("LABEL", <<"a">>), Line("LABEL", None), Line("MENU LABEL", <<"t">>),
     Kernel, Line("LINUX", "l"), Line("INITRD", None),
     Line("APPEND", None), Line("FDTDIR", "d"), Line("FDT", Relative("x")),
     Line("FDT", Absolute("y"))}
EntryMenus == {Menu(<<Item(<<"b">>, 4), Item(<<"c">>, 2)>>, None)}

-----------------------------------------------------------------------------
(* Settings *)

Tenths == {0, 10, 11, 31, 54, 55, 64, -30}
SettingsLines ==
    {Line("LABEL", <<"a">>), Kernel, Line("TIMEOUT", None), Line("PROMPT", "0"),
     Line("PROMPT", "1"), Line("PROMPT", "k"), Line("MENU HIDDEN", None),
     Line("MENU TITLE", "t"), Line("MENU TITLE", None)}
      \cup {Line("TIMEOUT", v) : v \in Tenths}
SettingsConfigs ==
    {Config(TRUE, TRUE, FALSE, t, m) : t, m \in BOOLEAN}
      \cup {Config(TRUE, TRUE, TRUE, FALSE, FALSE), Config(FALSE, TRUE, FALSE, FALSE, FALSE),
            Config(TRUE, FALSE, FALSE, FALSE, FALSE)}

-----------------------------------------------------------------------------
AllInputs ==
    Input(NamesLines, 6, Plain, NamesMenus, {})
      \cup Input(DefaultLines, 6, Plain, DefaultMenus, {})
      \cup Input(EntryLines, 5, Plain, EntryMenus, {"OUT_OF_RESOURCES", "DEVICE_ERROR"})
      \cup Input(SettingsLines, 4, SettingsConfigs, EntryMenus, {})
=============================================================================
