---------------------------- MODULE SdbootOrder -----------------------------
(***************************************************************************)
(* The order of the systemd-boot entries in the menu: sdboot_compare_entries *)
(* and the priorities that sdboot_items_prepare derives from it by counting. *)
(* Texts are abstract; strcmp and vercmp compare them.                       *)
(***************************************************************************)
EXTENDS SdbootParser, FiniteSets, FiniteSetsExt

CONSTANTS
    INT64_MAX,     \* where priorities saturate
    strcmp(_, _),
    vercmp(_, _)

ASSUME Int64Assumption == INT64_MAX \in Nat

\* Both compare any two texts, and the other way round with the other sign.
ASSUME CompareAssumption ==
    \A a, b \in Text :
       /\ strcmp(a, b) \in Int /\ (strcmp(a, b) < 0 <=> strcmp(b, a) > 0)
       /\ vercmp(a, b) \in Int /\ (vercmp(a, b) < 0 <=> vercmp(b, a) > 0)

IfTied(cmp, next) == IF cmp # 0 THEN cmp ELSE next

\* sdboot_compare_entries: an entry with a sort-key comes before one without;
\* machine ids and versions count only if both entries have one, and newer
\* versions and higher names come first.
Compare(a, b) ==
    LET has(e) == e["sort-key"] # None
        both(k) == a[k] # None /\ b[k] # None
        byKey == IfTied(strcmp(a["sort-key"], b["sort-key"]),
                 IfTied(IF both("machine-id")
                        THEN strcmp(a["machine-id"], b["machine-id"]) ELSE 0,
                        IF both("version")
                        THEN vercmp(b["version"], a["version"]) ELSE 0))
    IN  IF has(a) # has(b) THEN IF has(a) THEN -1 ELSE 1
        ELSE IfTied(IF has(a) THEN byKey ELSE 0, vercmp(b["name"], a["name"]))

\* sdboot_items_prepare: the priority of entry i counts the entries that come
\* before it, from an offset of the configuration.
Saturated(n) == IF n < INT64_MAX THEN n ELSE INT64_MAX

\* Mutant: only the entries further down the list are compared.
BeforeLater(entries, i) ==
    {j \in DOMAIN entries : j > i /\ Compare(entries[i], entries[j]) > 0}

\* The entries that come before entry i
Before(entries, i) ==
    {j \in DOMAIN entries : j # i /\ Compare(entries[i], entries[j]) > 0}
Priority(entries, offset, i) == Saturated(offset + Cardinality(Before(entries, i)))

\* The first priority after those of all entries, at least 0.
AutoOffset(entries, offset) ==
    LET above == {Priority(entries, offset, i) + 1 : i \in DOMAIN entries}
    IN  Saturated(Max({0} \cup above))
=============================================================================
