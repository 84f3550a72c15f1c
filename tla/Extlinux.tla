------------------------------ MODULE Extlinux ------------------------------
(***************************************************************************)
(* main/extlinux.c: the boot menu of /extlinux/extlinux.conf.                *)
(*                                                                           *)
(* The file is parsed line by line into a parser structure; only a file      *)
(* without a single bad line is published, its labels as entries of the      *)
(* boot menu and its global options as the menu's settings.  A line is a     *)
(* keyword and a value, None if there is no value.  The lines of the file    *)
(* are chosen while it is read: content is what was read so far.             *)
(*                                                                           *)
(* A label and a name are sequences of the parts between their dashes.       *)
(* Allocations may fail, except for the ones of lookups in the               *)
(* configuration.  efi_main calls embloader_extlinux_load_menu once, so its  *)
(* static loaded is not modelled.                                            *)
(***************************************************************************)
EXTENDS Integers, SequencesExt, MenuOrder

CONSTANTS
    None,         \* the null pointer
    INT_MAX,      \* largest int
    UINT64_MAX,   \* largest unsigned long long
    Part,         \* the parts of names between their dashes
    LowerCase,    \* a function, from the parts that have capitals
    Numeral,      \* "%u", a function from the numbers that names may need
    Inputs        \* what embloader_extlinux_load_menu may find: [lines, maxLines,
                  \* cfg, menu, faults], explained below

ASSUME WidthAssumption == INT_MAX \in Nat /\ UINT64_MAX \in Nat

\* What a line, and the menu of the other sources, can be.  An entry's node is
\* its configuration; that of an entry of another source is at no line.
IsLine(line) ==
    /\ line.key = "LABEL" /\ line.value # None => line.value \in Seq(Part)
    /\ line.key = "TIMEOUT" /\ line.value # None => line.value \in Int
IsMenu(m) ==
    /\ DOMAIN m = {"loaders", "default", "timeout", "disabled", "title"}
    /\ IsSequence(m.loaders)
    /\ \A k \in DOMAIN m.loaders :
          m.loaders[k].priority \in Int /\ m.loaders[k].node.at = 0
    /\ m.timeout \in (-INT_MAX - 1)..INT_MAX /\ m.disabled \in BOOLEAN
ASSUME InputAssumption ==
    \A i \in Inputs :
       /\ i.maxLines \in Nat /\ "SUCCESS" \notin i.faults
       /\ \A line \in i.lines : IsLine(line)
       /\ IsMenu(i.menu)

\* Lower(a) = Lower(b) is strcasecmp(a, b) == 0.
LowerPart(p) == IF p \in DOMAIN LowerCase THEN LowerCase[p] ELSE p
Lower(name) == [i \in DOMAIN name |-> LowerPart(name[i])]

ASSUME NoneAssumption == None \notin Seq(Part) \cup BOOLEAN \cup Nat
ASSUME NumeralAssumption ==
    /\ "extlinux" \in Part
    /\ \A n \in DOMAIN Numeral :
          /\ Numeral[n] \in Part
          /\ \A m \in DOMAIN Numeral : LowerPart(Numeral[m]) = LowerPart(Numeral[n]) => m = n
    /\ \A i \in Inputs : 2..(i.maxLines + Len(i.menu.loaders) + 2) \subseteq DOMAIN Numeral

VARIABLES
    input,        \* the element of Inputs
    menu,         \* g_embloader.menu
    pc, status,   \* control, and the value of status
    path,         \* the element of paths[] that is tried next
    parser,       \* struct extlinux_parser
    content,      \* the lines parsed
    next,         \* the entry of extlinux.entries that is loaded next
    lost          \* history: the lines of the labels that a failed allocation dropped

Lines == input.lines        \* the lines the file may have,
MaxLines == input.maxLines  \* and how many
cfg == input.cfg            \* [ready, enabled, hasDefault, hasTimeout, hasTitle]
menu0 == input.menu         \* g_embloader.menu at the call
Faults == input.faults      \* statuses a firmware call or an allocation may fail with

vars == <<input, menu, pc, status, path, parser, content, next, lost>>

\* current before the first label, and an empty extlinux_parser.  labels also
\* stands for entries: both are extended together, and nothing reads them after a
\* failure in between.
NoLabel == [label |-> None, name |-> None, title |-> None, kernel |-> None,
            fdt |-> None, at |-> 0]
NoParser ==
    [labels |-> <<>>, current |-> NoLabel, default |-> None, ontimeout |-> None,
     fdtDir |-> None, title |-> None, timeout |-> None, prompt |-> None]

InLabel(p) == p.current.at # 0

Init ==
    /\ input \in Inputs
    /\ menu = menu0
    /\ pc = "start" /\ status = "NOT_FOUND"
    /\ path = 1 /\ parser = NoParser /\ content = <<>>
    /\ next = 1 /\ lost = {}

-----------------------------------------------------------------------------
(* Names *)

SameText(a, b) == Lower(a) = Lower(b)

\* embloader_find_loader, 0 for NULL
FindLoader(loaders, name) ==
    SelectInSeq(loaders, LAMBDA l : name # None /\ SameText(l.name, name))

NameExists(p, name) ==
    \/ FindLoader(menu.loaders, name) # 0
    \/ \E k \in DOMAIN p.labels : SameText(p.labels[k].name, name)

\* "extlinux-<label>", or that with the first number from 2 on that makes it new
UniqueName(p, label) ==
    LET base == <<"extlinux">> \o label
        numbered(n) == Append(base, Numeral[n])
        numbers == 2..(Len(p.labels) + Len(menu.loaders) + 2)
        free == {n \in numbers : ~NameExists(p, numbered(n))}
    IN  IF ~NameExists(p, base) THEN base
        ELSE numbered(CHOOSE n \in free : \A m \in free : n <= m)

\* Mutant: a label without a kernel becomes an entry too.
FinishAnyLabel(p) ==
    IF ~InLabel(p) THEN p
    ELSE [p EXCEPT !.current = NoLabel,
                   !.labels = Append(@, [p.current EXCEPT !.name =
                                           UniqueName(p, p.current.label)])]

\* extlinux_finish_label: the label that ends here becomes an entry, if it has a
\* kernel.
FinishLabel(p) ==
    IF ~InLabel(p) THEN p
    ELSE IF p.current.kernel = None THEN [p EXCEPT !.current = NoLabel]
    ELSE [p EXCEPT !.current = NoLabel,
                   !.labels = Append(@, [p.current EXCEPT !.name =
                                           UniqueName(p, p.current.label)])]

-----------------------------------------------------------------------------
(* Lines *)

Accept(p) == [ok |-> TRUE, parser |-> p]
Reject(p) == [ok |-> FALSE, parser |-> p]

\* extlinux_parse_timeout: tenths of a second, rounded up; None if refused.
\* strtoull takes a sign and negates modulo the width.
Seconds(v) ==
    IF v = None \/ v > UINT64_MAX \/ v < -UINT64_MAX THEN None
    ELSE LET tenths == IF v < 0 THEN UINT64_MAX + 1 + v ELSE v
             secs == (tenths + 9) \div 10
         IN  IF tenths > UINT64_MAX - 9 THEN None
             ELSE IF secs > INT_MAX THEN INT_MAX ELSE secs

\* FDT: a relative path is taken below the FDTDIR read last.
JoinPath(dir, p) == IF dir # None /\ p.relative THEN [p EXCEPT !.dir = dir] ELSE p

\* The keywords that need a value; INITRD and FDTOVERLAYS need one with a word in it.
NeedsValue(p) ==
    {"LABEL", "DEFAULT", "ONTIMEOUT", "FDTDIR", "MENU LABEL"}
      \cup IF InLabel(p) THEN {"LINUX", "KERNEL", "INITRD", "FDT", "FDTOVERLAYS"}
           ELSE {}

\* The global keywords of extlinux_parse_line
ParseGlobal(p, key, v) ==
    CASE key = "LABEL" ->
           Accept([FinishLabel(p) EXCEPT !.current =
                     [label |-> v, name |-> None, title |-> v, kernel |-> None,
                      fdt |-> None, at |-> Len(content) + 1]])
      [] key = "MENU HIDDEN" -> Accept([p EXCEPT !.prompt = FALSE])
      [] key = "MENU TITLE" -> Accept([p EXCEPT !.title = v])
      [] key = "DEFAULT" -> Accept([p EXCEPT !.default = v])
      [] key = "ONTIMEOUT" -> Accept([p EXCEPT !.ontimeout = v])
      [] key = "TIMEOUT" -> IF Seconds(v) = None THEN Reject(p)
                            ELSE Accept([p EXCEPT !.timeout = Seconds(v)])
      [] key = "PROMPT" -> IF v \in {"0", "1"} THEN Accept([p EXCEPT !.prompt = (v = "1")])
                           ELSE Reject(p)
      [] key = "FDTDIR" -> Accept([p EXCEPT !.fdtDir = v])

\* The keywords of a label, in a label.  INITRD, APPEND and FDTOVERLAYS fill fields
\* that nothing here depends on; other keywords are ignored with a warning.
ParseInLabel(p, key, v) ==
    CASE key = "MENU LABEL" -> Accept([p EXCEPT !.current.title = v])
      [] key = "MENU DEFAULT" -> Accept([p EXCEPT !.default = p.current.label])
      [] key \in {"LINUX", "KERNEL"} -> Accept([p EXCEPT !.current.kernel = v])
      [] key = "FDT" -> Accept([p EXCEPT !.current.fdt = JoinPath(p.fdtDir, v)])
      [] OTHER -> Accept(p)

Global == {"LABEL", "MENU HIDDEN", "MENU TITLE", "DEFAULT", "ONTIMEOUT", "TIMEOUT",
           "PROMPT", "FDTDIR"}

\* extlinux_parse_line
ParseLine(p, line) ==
    IF line.key \in NeedsValue(p) /\ line.value = None THEN Reject(p)
    ELSE IF line.key \in Global THEN ParseGlobal(p, line.key, line.value)
    ELSE IF InLabel(p) THEN ParseInLabel(p, line.key, line.value)
    ELSE IF line.key \in {"MENU LABEL", "MENU DEFAULT"} THEN Reject(p)
    ELSE Accept(p)

-----------------------------------------------------------------------------
(* embloader_extlinux_load_menu *)

Return(s) == pc' = "done" /\ status' = s
Goto(l) == pc' = l /\ UNCHANGED status

Start ==
    /\ pc = "start"
    /\ \/ ~cfg.ready /\ Return("NOT_READY")
       \/ cfg.ready /\ ~cfg.enabled /\ Return("UNSUPPORTED")
       \/ cfg.ready /\ cfg.enabled /\ Goto("open")
       \/ /\ cfg.ready /\ cfg.enabled /\ "OUT_OF_RESOURCES" \in Faults
          /\ Return("OUT_OF_RESOURCES")
    /\ UNCHANGED <<input, menu, path, parser, content, next, lost>>

Paths == 1..2

\* paths[path] is missing, or exists and cannot be read; an earlier error stays.
SkipPath ==
    /\ pc = "open" /\ path \in Paths
    /\ path' = path + 1
    /\ status' \in {status} \cup Faults \cup {"BAD_BUFFER_SIZE"}
    /\ UNCHANGED <<input, menu, pc, parser, content, next, lost>>

OpenPath ==
    /\ pc = "open" /\ path \in Paths
    /\ pc' = "parse" /\ status' = "SUCCESS"
    /\ UNCHANGED <<input, menu, path, parser, content, next, lost>>

NoPath ==
    /\ pc = "open" /\ path \notin Paths
    /\ Return(status)
    /\ UNCHANGED <<input, menu, path, parser, content, next, lost>>

\* extlinux_finish_label takes a kernel that it has no memory to copy for none: the
\* label is dropped without an error.
DropLabel ==
    /\ InLabel(parser) /\ parser.current.kernel # None
    /\ "OUT_OF_RESOURCES" \in Faults
    /\ lost' = lost \cup {parser.current.at}

Unlabelled == [parser EXCEPT !.current = NoLabel]

\* One line of the file.  Other failed allocations end the parse as a bad line does.
ParseNext(line) ==
    /\ pc = "parse" /\ Len(content) < MaxLines
    /\ content' = Append(content, line)
    /\ \/ ParseLine(parser, line).ok /\ Goto("parse")
            /\ parser' = ParseLine(parser, line).parser /\ UNCHANGED lost
       \/ /\ line.key = "LABEL" /\ line.value # None /\ DropLabel
          /\ parser' = ParseLine(Unlabelled, line).parser /\ Goto("parse")
       \/ /\ ~ParseLine(parser, line).ok \/ "OUT_OF_RESOURCES" \in Faults
          /\ Return("LOAD_ERROR") /\ UNCHANGED <<parser, lost>>
    /\ UNCHANGED <<input, menu, path, next>>

\* The end of the file ends the last label.
EndOfFile ==
    /\ pc = "parse"
    /\ \/ /\ content = <<>> \/ "OUT_OF_RESOURCES" \in Faults
          /\ Return("LOAD_ERROR") /\ UNCHANGED <<parser, lost>>
       \/ /\ content # <<>>
          /\ \/ parser' = FinishLabel(parser) /\ UNCHANGED lost
             \/ DropLabel /\ parser' = Unlabelled
          /\ IF parser'.labels = <<>> THEN Return("NOT_FOUND") ELSE Goto("publish")
    /\ UNCHANGED <<input, menu, path, content, next>>

-----------------------------------------------------------------------------
(* extlinux_publish *)

\* Mutant: labels are compared with their case.
FindNameExactly(p, label) ==
    LET k == SelectInSeq(p.labels, LAMBDA l : l.label = label)
    IN  IF k = 0 THEN None ELSE p.labels[k].name

\* extlinux_find_name
FindName(p, label) ==
    LET k == SelectInSeq(p.labels, LAMBDA l : label # None /\ SameText(l.label, label))
    IN  IF k = 0 THEN None ELSE p.labels[k].name

DefaultName ==
    IF FindName(parser, parser.default) # None THEN FindName(parser, parser.default)
    ELSE IF FindName(parser, parser.ontimeout) # None THEN FindName(parser, parser.ontimeout)
    ELSE parser.labels[1].name

\* Mutant: the default is written before the last allocation has succeeded.
PublishEager ==
    /\ pc = "publish"
    /\ \/ "OUT_OF_RESOURCES" \in Faults /\ Return("OUT_OF_RESOURCES")
       \/ Goto("load")
    /\ menu' = IF cfg.hasDefault THEN menu ELSE [menu EXCEPT !.default = DefaultName]
    /\ UNCHANGED <<input, path, parser, content, next, lost>>

\* Everything that may fail comes before the first change.
Publish ==
    /\ pc = "publish"
    /\ \/ "OUT_OF_RESOURCES" \in Faults /\ Return("OUT_OF_RESOURCES")
       \/ Goto("load")
    /\ UNCHANGED <<input, menu, path, parser, content, next, lost>>

\* embloader_load_loader of an entry without a priority; it gives no sign of a
\* failed allocation.
LoadLoader ==
    /\ pc = "load" /\ next <= Len(parser.labels)
    /\ next' = next + 1
    /\ LET l == parser.labels[next]
           item == [name |-> l.name, title |-> l.title, priority |-> Len(menu.loaders) + 1,
                    node |-> l]
       IN  \/ /\ menu' = [menu EXCEPT !.loaders = Append(@, item)]
              /\ UNCHANGED lost
           \/ /\ "OUT_OF_RESOURCES" \in Faults
              /\ lost' = lost \cup {l.at} /\ UNCHANGED menu
    /\ UNCHANGED <<input, pc, status, path, parser, content>>

\* The settings that the configuration does not fix, and the final sort.
\* PROMPT and MENU HIDDEN apply whatever the configuration says.
Finish ==
    /\ pc = "load" /\ next > Len(parser.labels)
    /\ menu' = [loaders |-> SortByPriority(menu.loaders),
                default |-> IF cfg.hasDefault THEN menu.default ELSE DefaultName,
                timeout |-> IF cfg.hasTimeout \/ parser.timeout = None
                            THEN menu.timeout ELSE parser.timeout,
                disabled |-> IF parser.prompt = None THEN menu.disabled ELSE ~parser.prompt,
                title |-> IF cfg.hasTitle \/ parser.title = None
                          THEN menu.title ELSE parser.title]
    /\ Return("SUCCESS")
    /\ UNCHANGED <<input, path, parser, content, next, lost>>

Next ==
    \/ Start \/ SkipPath \/ OpenPath \/ NoPath
    \/ \E line \in Lines : ParseNext(line)
    \/ EndOfFile \/ Publish \/ LoadLoader \/ Finish

Spec == Init /\ [][Next]_vars

-----------------------------------------------------------------------------
(* What the file says, read as a whole *)

\* The line of the last keyword of keys among the lines of S of the content c, 0
\* if there is none
LastLine(c, S, keys) == Max({0} \cup {i \in S : c[i].key \in keys})

ValueAt(c, i) == IF i = 0 THEN None ELSE c[i].value

\* The lines that belong to the label of line i
Block(c, i) == {j \in i..Len(c) : \A k \in (i + 1)..j : c[k].key # "LABEL"}

\* The lines of the labels that have a kernel
KernelKey == {"LINUX", "KERNEL"}
Bootable(c) ==
    {i \in DOMAIN c : c[i].key = "LABEL" /\ LastLine(c, Block(c, i), KernelKey) # 0}

\* The entry that the label of line i asks for
EntryOf(c, i) ==
    LET title == LastLine(c, Block(c, i), {"MENU LABEL"})
        fdt == LastLine(c, Block(c, i), {"FDT"})
        dir == ValueAt(c, LastLine(c, 1..fdt, {"FDTDIR"}))
    IN  [label |-> c[i].value, at |-> i,
         title |-> IF title = 0 THEN c[i].value ELSE c[title].value,
         kernel |-> ValueAt(c, LastLine(c, Block(c, i), KernelKey)),
         fdt |-> IF fdt = 0 THEN None ELSE JoinPath(dir, c[fdt].value)]

\* The place of the first bootable label with the given text, 0 if there is none
PlaceOf(c, text) ==
    SelectInSeq(Ascending(Bootable(c)),
                LAMBDA i : text # None /\ SameText(c[i].value, text))

\* The label that the last DEFAULT or MENU DEFAULT means
DefaultText(c) ==
    LET line == LastLine(c, DOMAIN c, {"DEFAULT", "MENU DEFAULT"})
    IN  IF line # 0 /\ c[line].key = "MENU DEFAULT"
        THEN ValueAt(c, LastLine(c, 1..line, {"LABEL"})) ELSE ValueAt(c, line)

\* The place of the label that is to be booted by default
DefaultPlace(c) ==
    LET later == ValueAt(c, LastLine(c, DOMAIN c, {"ONTIMEOUT"}))
    IN  IF PlaceOf(c, DefaultText(c)) # 0 THEN PlaceOf(c, DefaultText(c))
        ELSE IF PlaceOf(c, later) # 0 THEN PlaceOf(c, later) ELSE 1

-----------------------------------------------------------------------------
(* Properties *)

\* Types: the control state and the cursors stay in their ranges, and the timeout
\* is one that an int holds.
TypeOK ==
    /\ input \in Inputs
    /\ pc \in {"start", "open", "parse", "publish", "load", "done"}
    /\ path \in 1..3
    /\ next \in 1..(Len(parser.labels) + 1)
    /\ Len(content) <= MaxLines
    /\ menu.timeout \in (-INT_MAX - 1)..INT_MAX
    /\ menu.disabled \in BOOLEAN
    /\ DOMAIN parser = DOMAIN NoParser

\* Names stay unique, whatever labels a file repeats or numbers itself: boot
\* entries are found, remembered and made the default by name, without case.
UniqueNames ==
    LET unique(loaders) ==
          \A i, j \in DOMAIN loaders :
             SameText(loaders[i].name, loaders[j].name) => i = j
    IN  unique(menu0.loaders) => unique(menu.loaders)

\* A published file has put its labels with a kernel into the menu, each with its
\* own options and in the order of the file, except for those that an allocation
\* failure dropped, and has left the other entries there.
EntriesMatchFile ==
    pc = "done" /\ status = "SUCCESS" =>
      LET places == Ascending(Bootable(content) \ lost)
          ours(k) == menu.loaders[k].node.at # 0
          mine == Selection(menu.loaders, {k \in DOMAIN menu.loaders : ours(k)})
          others == Selection(menu.loaders, {k \in DOMAIN menu.loaders : ~ours(k)})
      IN  /\ Len(mine) = Len(places)
          /\ \A k \in DOMAIN mine :
               LET want == EntryOf(content, places[k])
               IN  \A f \in DOMAIN want : mine[k].node[f] = want[f]
          /\ others = SortByPriority(menu0.loaders)

\* The default that a published file sets is found in the menu by its name, and is
\* the entry of the first label that the file's last DEFAULT or MENU DEFAULT means,
\* else of the one that ONTIMEOUT means, else of the first.
DefaultFound ==
    pc = "done" /\ status = "SUCCESS" /\ ~cfg.hasDefault /\ lost = {} =>
      LET k == FindLoader(menu.loaders, menu.default)
      IN  /\ k # 0
          /\ menu.loaders[k].node.at = Ascending(Bootable(content))[DefaultPlace(content)]

\* The menu is changed by a file as a whole or not at all: a file with a bad line,
\* a read error or an allocation failure before the first entry is loaded leaves
\* the menu of the other sources.
AllOrNothing ==
    /\ pc \notin {"load", "done"} => menu = menu0
    /\ pc = "done" /\ status # "SUCCESS" => menu = menu0

\* A published file decides the settings that the configuration leaves open, its
\* last line on each: the menu waits at least the tenths of a second of TIMEOUT,
\* less than one second longer, and as long as an int can say if it cannot.
SettingsFollowFile ==
    pc = "done" /\ status = "SUCCESS" =>
      LET tenths == LastLine(content, DOMAIN content, {"TIMEOUT"})
          prompt == LastLine(content, DOMAIN content, {"PROMPT", "MENU HIDDEN"})
          title == ValueAt(content, LastLine(content, DOMAIN content, {"MENU TITLE"}))
      IN  /\ IF tenths = 0 \/ cfg.hasTimeout THEN menu.timeout = menu0.timeout
             ELSE content[tenths].value >= 0 =>
                    /\ \/ 10 * menu.timeout >= content[tenths].value
                       \/ menu.timeout = INT_MAX
                    /\ 10 * (menu.timeout - 1) < content[tenths].value
          /\ menu.disabled = IF prompt = 0 THEN menu0.disabled
                             ELSE ~(content[prompt].key = "PROMPT" /\ content[prompt].value = "1")
          /\ menu.title = IF title = None \/ cfg.hasTitle THEN menu0.title ELSE title
          /\ cfg.hasDefault => menu.default = menu0.default

\* What a published file says is in the menu, entries and settings
\* (extlinux_publish and the settings after it).
MenuMatchesFile == TypeOK /\ EntriesMatchFile /\ SettingsFollowFile

\* The default names one entry, the right one: it is handed on by name, and no
\* two entries have the same (extlinux_finish_label, extlinux_find_name).
DefaultBoots == UniqueNames /\ DefaultFound

=============================================================================
