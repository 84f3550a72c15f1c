-------------------------- MODULE MCConfiguration --------------------------
(***************************************************************************)
(* Situations for Configuration: files that override, extend and break     *)
(* each other, devices told apart by the system information, entries for   *)
(* some profiles only.                                                     *)
(***************************************************************************)
EXTENDS Configuration, TLC

\* Texts in strcasecmp order; vercmp compares the numbers.
\* "Contains" is as good as "contains".
Folded(s) == IF s = "Contains" THEN "contains" ELSE s
Order == <<"10", "9", "ACME", "Board A", "Board B", "a", "contains", "equals", "greater",
           "greater-equals", "is", "less", "less-equals", "newer", "none", "noteq", "older",
           "regexp", "x">>
Rank(s) == IF \E i \in DOMAIN Order : Order[i] = s
           THEN CHOOSE i \in DOMAIN Order : Order[i] = s ELSE 0
MCNumerals == ("9" :> 9) @@ ("10" :> 10) @@ ("99" :> 99)
MCIntMin == -100
MCStrings == STRING
MCKeys ==
    {"devices", "name", "match", "profiles", "field", "oper", "value", "menu", "timeout",
     "bootargs", "default", "save-default", "devicetree", "overlays", "enabled", "profile",
     "params", "loaders", "allowed", "disallowed", "title", "type", "priority", "d1", "d2", "d3",
     "a", "b", "old", "setup", "bad", "scalar", "spi", "i2c", "uart", "bus"}
MCCIntMin == -20
MCStrcasecmp(a, b) == Rank(Folded(a)) - Rank(Folded(b))
MCVercmp(a, b) == IF {a, b} \subseteq DOMAIN MCNumerals THEN MCNumerals[a] - MCNumerals[b]
                  ELSE Rank(a) - Rank(b)
MCStrcasestr(a, b) == a = b \/ <<a, b>> \in {<<"Board A", "a">>}
MCRegexpMatch(pattern, s) == pattern = "Board." /\ s \in {"Board A", "Board B"}

MCFieldPath ==
    ("vendor" :> <<KeyStep("smbios"), KeyStep("vendor")>>)
    @@ ("product" :> <<KeyStep("smbios"), KeyStep("product")>>)
    @@ ("version" :> <<KeyStep("smbios"), KeyStep("version")>>)

T(s) == Str(s)
I(i) == ValueTree([kind |-> "int", i |-> i])
M(entries) == MapTree([i \in DOMAIN entries |-> Entry(entries[i][1], entries[i][2])])
A(items) == ArrayTree(items)
Cond(field, oper, value) == M(<<<<"field", T(field)>>, <<"oper", T(oper)>>, <<"value", T(value)>>>>)
Whole(doc) == [state |-> "whole", doc |-> doc]
Broken == [state |-> "unreadable"]

Sysinfo(product, version) ==
    M(<<<<"smbios", M(<<<<"vendor", T("ACME")>>, <<"product", T(product)>>,
                        <<"version", T(version)>>>>)>>>>)

DevicesDoc ==
    A(<<M(<<<<"name", T("board-a")>>,
            <<"match", A(<<Cond("vendor", "equals", "ACME"), Cond("product", "Contains", "a"),
                           Cond("version", "newer", "9")>>)>>,
            <<"profiles", A(<<T("common"), T("soc-a")>>)>>>>),
        M(<<<<"name", T("board-b")>>,
            <<"match", A(<<Cond("product", "regexp", "Board."), Cond("version", "less-equals", "9"),
                           Cond("vendor", "noteq", "x")>>)>>,
            <<"profiles", A(<<T("common"), M(<<>>)>>)>>>>),
        M(<<<<"name", T("broken")>>, <<"match", A(<<M(<<<<"field", T("vendor")>>>>)>>)>>>>),
        M(<<<<"match", A(<<>>)>>>>),
        M(<<<<"name", T("any")>>>>)>>)

Linux(title, extra) == M(<<<<"title", T(title)>>, <<"type", T("linux")>>>> \o extra)

Static ==
    M(<<<<"devices", DevicesDoc>>,
        <<"menu", M(<<<<"timeout", I(5)>>, <<"bootargs", A(<<T("ro")>>)>>,
                      <<"default", T("a")>>>>)>>,
        <<"devicetree", M(<<<<"overlays", M(<<<<"spi", M(<<<<"enabled", Bool(FALSE)>>>>)>>>>)>>>>)>>,
        <<"loaders",
          M(<<<<"a", Linux("A", <<<<"profiles", M(<<<<"allowed", A(<<T("common"), T("soc-a")>>)>>>>)>>>>)>>,
              <<"b", Linux("B", <<<<"profiles", M(<<<<"disallowed", A(<<T("soc-a")>>)>>>>)>>>>)>>,
              <<"old", Linux("Old", <<<<"match", A(<<Cond("version", "older", "10")>>)>>>>)>>,
              <<"setup", M(<<<<"title", T("Setup")>>, <<"type", T("efisetup")>>,
                             <<"priority", I(1)>>>>)>>,
              <<"bad", Linux("Bad", <<<<"bootargs", NullTree>>>>)>>,
              <<"scalar", T("x")>>>>)>>>>)

Dynamic ==
    M(<<<<"menu", M(<<<<"timeout", T("99")>>, <<"bootargs", A(<<T("quiet")>>)>>,
                      <<"save-default", T("yes")>>>>)>>,
        <<"loaders", M(<<<<"a", M(<<<<"title", T("A2")>>>>)>>>>)>>>>)

Line(profile, name, params) == [kind |-> "overlay", profile |-> profile, name |-> name,
                                params |-> params]
Overlays(lines) == [state |-> "whole", lines |-> lines]
GoodOverlays ==
    Overlays(<<Line(None, "i2c", <<[name |-> "bus", value |-> "9"]>>), [kind |-> "ignored"],
               [kind |-> "section", profile |-> "soc-a"],
               Line(None, "spi", <<>>), Line("common", "i2c", <<[name |-> "bus", value |-> "10"]>>)>>)
BadOverlays == Overlays(<<Line(None, "i2c", <<>>), [kind |-> "malformed"], Line(None, "uart", <<>>)>>)
Words == [state |-> "whole", words |-> <<"root=x", "console=y">>]

MCSituations ==
    ("board a" :>
        [files |-> ("config.static.yaml" :> Whole(Static)) @@ ("dtbo.txt" :> GoodOverlays)
                   @@ ("cmdline.txt" :> Words) @@ ("config.dynamic.yaml" :> Whole(Dynamic))
                   @@ ("config.dynamic.conf" :> Whole(M(<<<<"menu", M(<<<<"timeout", I(7)>>>>)>>>>))),
         volumes |-> <<"no folder", "folder", "folder">>, image |-> 3,
         sysinfo |-> Sysinfo("Board A", "10"), setup |-> TRUE])
    @@ ("board b" :>
        [files |-> ("config.static.json" :> Whole(Static)) @@ ("dtbo.txt" :> BadOverlays)
                   @@ ("cmdline.txt" :> Words) @@ ("config.dynamic.yaml" :> Broken)
                   @@ ("config.dynamic.json" :> Whole(Dynamic)),
         volumes |-> <<"no filesystem", "no folder", "folder">>, image |-> 2,
         sysinfo |-> Sysinfo("Board B", "9"), setup |-> FALSE])
    @@ ("empty file" :>
        [files |-> ("config.static.yaml" :> Whole(Static))
                   @@ ("config.static.yml" :> Whole(NullTree))
                   @@ ("dtbo.txt" :> GoodOverlays) @@ ("cmdline.txt" :> Words)
                   @@ ("config.dynamic.yaml" :> Whole(Dynamic)),
         volumes |-> <<"folder">>, image |-> 0,
         sysinfo |-> Sysinfo("Board A", "9"), setup |-> FALSE])
    @@ ("no folder" :>
        [files |-> [n \in {} |-> Missing], volumes |-> <<"no folder", "no filesystem">>, image |-> 1,
         sysinfo |-> Sysinfo("Board A", "9"), setup |-> TRUE])
    @@ ("numbers" :>
        [files |-> "config.static.yaml" :> Whole(
             M(<<<<"devices", M(<<<<"d1", M(<<<<"name", T("big")>>,
                                   <<"match", A(<<Cond("version", "greater", "9")>>)>>>>)>>,
                                  <<"d2", M(<<<<"name", T("small")>>,
                                   <<"match", A(<<Cond("version", "less", "x"),
                                                  Cond("version", "greater-equals", "9"),
                                                  Cond("version", "older", "10")>>)>>>>)>>,
                                  <<"d3", M(<<<<"name", T("odd")>>,
                                   <<"match", A(<<Cond("vendor", "is", "ACME")>>)>>>>)>>>>)>>,
                 <<"menu", T("x")>>>>)),
         volumes |-> <<"folder">>, image |-> 1,
         sysinfo |-> Sysinfo("Board A", "10"), setup |-> TRUE])
    @@ ("one word" :>
        [files |-> ("config.static.yaml" :> Whole(M(<<<<"menu", T("x")>>, <<"devicetree", T("x")>>>>)))
                   @@ ("config.static.conf" :> Whole(M(<<<<"menu", M(<<<<"bootargs", T("ro")>>>>)>>>>)))
                   @@ ("dtbo.txt" :> GoodOverlays) @@ ("cmdline.txt" :> Words),
         volumes |-> <<"folder">>, image |-> 1,
         sysinfo |-> Sysinfo("Board A", "10"), setup |-> TRUE])
=============================================================================
