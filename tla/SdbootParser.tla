---------------------------- MODULE SdbootParser ----------------------------
(***************************************************************************)
(* The systemd-boot files as values: what sdboot/parser.c and               *)
(* sdboot/types.c make of the lines of loader.conf and of an entry file.    *)
(* A line is blank (or a comment), broken (no value) or a pair of a key and *)
(* a value; "yes" and "no" stand for every text of a Boolean, and a timeout *)
(* is a word or an integer.                                                 *)
(***************************************************************************)
EXTENDS Integers, Sequences, SequencesExt

CONSTANTS
    None,         \* the null pointer
    Text,         \* the texts that files hold, the names of files among them
    INT_MAX,      \* largest int
    CurrentArch   \* sdboot_get_current_arch()

ASSUME IntAssumption == INT_MAX \in Nat \ {0}
ASSUME TextAssumption ==
    None \notin Text /\ {"auto-firmware", "auto-reboot", "auto-poweroff"} \subseteq Text

Blank == [kind |-> "blank"]
Broken == [kind |-> "broken"]
Pair(key, value) == [kind |-> "pair", key |-> key, value |-> value]

\* What a parser returns: whether the line was accepted, and the structure as
\* the call leaves it.
Accept(x) == [ok |-> TRUE, out |-> x]
Reject(x) == [ok |-> FALSE, out |-> x]

\* The lines are applied to x one after the other, and any accepted line is
\* enough.  A line that is refused may have changed x.
ParseLines(Line(_, _), x, lines) ==
    LET after[k \in 0..Len(lines)] ==
          IF k = 0 THEN Reject(x)
          ELSE LET last == after[k - 1]
                   one == Line(last.out, lines[k])
               IN  [ok |-> last.ok \/ one.ok, out |-> one.out]
    IN  after[Len(lines)]

-----------------------------------------------------------------------------
(* loader.conf *)

BoolKey == {"editor", "auto-entries", "auto-firmware", "auto-reboot",
            "auto-poweroff", "beep", "reboot-for-bitlocker"}

\* The words of sdboot_parse_console_mode and sdboot_parse_secureboot_enroll.
ChoiceKey == {"console-mode", "secureboot-enroll"}
Words(key) ==
    IF key = "console-mode" THEN {"0", "1", "2", "auto", "max", "keep"}
                            ELSE {"off", "manual", "if-safe", "force"}

MenuKey == BoolKey \cup ChoiceKey \cup {"default", "timeout", "disabled"}

\* sdboot_boot_menu_init
InitMenu ==
    [k \in MenuKey |->
       CASE k = "default" -> None
         [] k = "timeout" -> 0
         [] k = "console-mode" -> "keep"
         [] k = "secureboot-enroll" -> "if-safe"
         [] OTHER -> k \in {"editor", "auto-entries", "auto-firmware"}]

\* sdboot_parse_timeout_status: an integer is stored first and refused
\* afterwards if it is negative.
ParseTimeout(menu, v) ==
    CASE v.word = "menu-force" -> Accept([menu EXCEPT !["timeout"] = -1])
      [] v.word \in {"menu-hidden", "menu-disabled"} ->
           Accept([menu EXCEPT !["timeout"] = 0])
      [] v.word = "int" /\ v.n \in 0..INT_MAX ->
           Accept([menu EXCEPT !["timeout"] = v.n])
      [] v.word = "int" /\ v.n \in (-INT_MAX - 1)..(-1) ->
           Reject([menu EXCEPT !["timeout"] = v.n])
      [] OTHER -> Reject(menu)

\* sdboot_boot_parse_menu_one; an unknown key is accepted and ignored.
ParseMenuOne(menu, key, v) ==
    IF key = "default" THEN Accept([menu EXCEPT !["default"] = v])
    ELSE IF key = "timeout"
    THEN LET r == ParseTimeout(menu, v)
         IN  IF r.ok
             THEN Accept([r.out EXCEPT !["disabled"] = (v.word = "menu-disabled")])
             ELSE r
    ELSE IF key \in BoolKey
    THEN IF v \in {"yes", "no"} THEN Accept([menu EXCEPT ![key] = (v = "yes")])
                                ELSE Reject(menu)
    ELSE IF key \in ChoiceKey
    THEN IF v \in Words(key) THEN Accept([menu EXCEPT ![key] = v])
                             ELSE Reject(menu)
    ELSE Accept(menu)

\* sdboot_boot_parse_line with a menu.
ParseMenuLine(menu, line) ==
    IF line.kind = "blank" THEN Accept(menu)
    ELSE IF line.kind = "broken" THEN Reject(menu)
    ELSE ParseMenuOne(menu, line.key, line.value)

\* sdboot_boot_parse_content with a menu: the lines are applied to a copy, and
\* the copy replaces the menu if any line was accepted.
ParseMenu(menu, lines) ==
    LET staged == ParseLines(ParseMenuLine, menu, lines)
    IN  IF staged.ok THEN staged ELSE Reject(menu)

-----------------------------------------------------------------------------
(* Entry files *)

StringKey == {"title", "version", "machine-id", "sort-key", "linux", "efi",
              "devicetree"}
ListKey == {"initrd", "options", "devicetree-overlay"}
Archs == {"x64", "aa64", "arm", "ia32", "riscv64", "loongarch64"}

\* sdboot_boot_loader_init; "name" and "root" are filled in by sdboot_boot_load_file.
InitLoader ==
    [k \in StringKey \cup ListKey \cup {"architecture", "name", "root"} |->
       CASE k = "architecture" -> CurrentArch
         [] k \in ListKey -> <<>>
         [] OTHER -> None]

\* sdboot_boot_parse_loader_one: a string is replaced, a list is extended by
\* the words of the value.
ParseLoaderOne(loader, key, v) ==
    IF key \in StringKey THEN Accept([loader EXCEPT ![key] = v])
    ELSE IF key \in ListKey THEN Accept([loader EXCEPT ![key] = @ \o v])
    ELSE IF key = "architecture"
    THEN IF v \in Archs THEN Accept([loader EXCEPT ![key] = v])
                        ELSE Reject(loader)
    ELSE Accept(loader)

\* sdboot_boot_parse_line with a loader.
ParseLoaderLine(loader, line) ==
    IF line.kind = "blank" THEN Accept(loader)
    ELSE IF line.kind = "broken" THEN Reject(loader)
    ELSE ParseLoaderOne(loader, line.key, line.value)

\* sdboot_boot_parse_content with a loader.
ParseLoader(loader, lines) == ParseLines(ParseLoaderLine, loader, lines)

\* sdboot_boot_loader_check
LoaderCheck(loader) ==
    /\ loader["name"] # None
    /\ (loader["linux"] # None) # (loader["efi"] # None)
=============================================================================
