---------------------------- MODULE MCLinuxBoot -----------------------------
\* Machines for LinuxBoot: every error policy, three places for the default
\* tree, with and without a tree of the firmware, and entries that share
\* overlays, need a missing one, bring a tree or a kernel type of their own or
\* are on another disk.
EXTENDS LinuxBoot

File(ov, props, app) ==
    [overrides |-> ov, properties |-> props, applies |-> app]
Cell(prop, off) == [property |-> prop, offset |-> off]
Dtb == File(<<>>, <<>>, FALSE)

\* "fan" takes a speed in two cells, the second of which overlaps the end in
\* the copy for the board; "led" applies to nothing.
FanCommon == File([speed |-> <<Cell("reg", 0), Cell("max", 4)>>,
                   mode |-> <<Cell("reg", 0)>>],
                  [reg |-> 4, max |-> 8], TRUE)
FanBoard == File([speed |-> <<Cell("reg", 0), Cell("max", 5)>>],
                 [reg |-> 4, max |-> 8], TRUE)
Disk1 ==
    <<"dtbs", "common.dtb">> :> Dtb @@ <<"dtbs", "soc.dtb">> :> Dtb
    @@ <<"dtbs", "v1">> :> Dtb
    @@ <<"dtbs", "k1">> :> Dtb @@ <<"own.dtb">> :> Dtb
    @@ <<"dtbo", "common", "fan">> :> FanCommon
    @@ <<"dtbo", "board", "fan">> :> FanBoard
    @@ <<"dtbo", "board", "led">> :> File(<<>>, <<>>, FALSE)
    @@ <<"dtbo", "common", "bus">> :> File(<<>>, <<>>, TRUE)
    @@ <<"dtbo", "board", "bus">> :> File(<<>>, <<>>, TRUE)
Disk2 ==
    <<"dtbs", "soc.dtb">> :> Dtb @@ <<"dtbs", "v1">> :> Dtb
    @@ <<"dtbo", "common", "bus">> :> File(<<>>, <<>>, TRUE)

Ovl(name, ps) == [path |-> <<name>>, absolute |-> FALSE, params |-> ps,
                  enabled |-> TRUE, profile |-> None]
Fan == Ovl("fan", <<[name |-> "speed", value |-> 7],
                    [name |-> "speed", value |-> Yes]>>)
FanBad == Ovl("fan", <<[name |-> "speed", value |-> 300],
                       [name |-> "mode", value |-> No]>>)
Bus == Ovl("bus", <<>>)
Led == Ovl("led", <<>>)
BusOff == [Bus EXCEPT !.enabled = FALSE]
FanElsewhere == [Fan EXCEPT !.profile = "other"]
BusAbs == [Bus EXCEPT !.absolute = TRUE, !.path = <<"dtbo", "board", "bus">>]

E(type, version, initrds, args, dt, ovs) ==
    [type |-> type, version |-> version, ktype |-> None, root |-> "boot",
     kernel |-> "Image", initramfs |-> initrds, bootargs |-> args,
     devicetree |-> dt, overlays |-> ovs]
Stub == E("linux-efi", None, <<"i1", "i2">>, <<"quiet">>, None, <<Bus>>)
StubLed == E("linux-efi", None, <<>>, <<>>, None, <<Bus, Led>>)
Uapi == [E("sdboot", "v1", <<"i1">>, <<"rw">>, None, <<>>) EXCEPT !.root = "esp"]
UapiNew == E("sdboot", "v2", <<>>, <<"rw">>, None, <<FanBad, BusAbs>>)
Raw == E("linux", None, <<"i1">>, <<"ro">>, <<"own.dtb">>, <<Fan>>)
RawDefault == [E("linux", None, <<>>, <<"ro">>, None, <<>>) EXCEPT !.ktype = "v1"]
StubOwn == E("linux-efi", None, <<>>, <<>>, <<"own.dtb">>, <<>>)
Lost == E("linux-efi", None, <<>>, <<>>, <<"missing.dtb">>, <<>>)
Shell == [E("efi", None, <<>>, <<>>, None, <<>>) EXCEPT !.kernel = None]

Machine(onError, skip, default, firmware, ovs, entries) ==
    [profiles |-> <<"common", "soc", "board">>,
     dtbId |-> [common |-> "common.dtb", soc |-> "soc.dtb",
                board |-> "board.dtb"],
     defaultDtb |-> default, dtboDir |-> <<"dtbo", "{profile}">>,
     overlays |-> ovs, onError |-> onError, skipOverlaysError |-> skip,
     ktype |-> "k1", menuBootargs |-> <<"console">>,
     bootargs |-> [common |-> <<"a">>, soc |-> <<>>, board |-> <<"b">>],
     firmwareTree |-> firmware, disk |-> [boot |-> Disk1, esp |-> Disk2],
     entries |-> entries]

Policies == {"failure", "ignore", "needone", "revert", "always"}
Defaults == {None, <<"dtbs", "{dtb-id}">>, <<"dtbs", "{version}">>,
             <<"dtbs", "{ktype}">>}

\* The entries and the configured overlays of a machine; the name of an entry
\* is its place.
Menus == <<<<Stub, Uapi>>, <<UapiNew, StubLed>>, <<Stub, Raw>>,
           <<RawDefault, Uapi, StubOwn>>, <<Lost, Shell>>, <<>>>>
Lists == <<<<>>, <<Fan, BusOff, FanElsewhere>>, <<Led>>>>

MCSituations ==
    [x \in (Policies \X BOOLEAN \X Defaults \X BOOLEAN \X (1..3) \X (1..2))
           \cup (Policies \X {FALSE} \X Defaults \X BOOLEAN \X {2} \X (3..6)) |->
        Machine(x[1], x[2], x[3], x[4], Lists[x[5]], Menus[x[6]])]

\* No entry can be booted and the default tree has no variable in its path.
NextLoaderSituations ==
    <<Machine("ignore", TRUE, <<"dtbs", "common.dtb">>, TRUE, <<>>, <<>>)>>

=============================================================================
