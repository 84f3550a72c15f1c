----------------------------- MODULE ConfigSpec -----------------------------
(***************************************************************************)
(* What the configuration tree promises, on trees as plain values: no      *)
(* pointers, no allocation.  ConfigTree (the structures of                 *)
(* src/configfile) is checked against these definitions, and the modules   *)
(* that use the configuration are written with them.                       *)
(***************************************************************************)
EXTENDS Integers, Sequences, SequencesExt

CONSTANTS
    Keys,        \* keys of maps
    Strings,     \* strings a leaf may hold
    Levels,      \* bound: nodes on the way from a root to a leaf
    IntMin,      \* the least value of an int64_t
    Numerals,    \* string -> the number strtoll reads from the whole of it
    TrueWords,   \* strings string_is_true knows
    FalseWords   \* strings string_is_false knows

ASSUME ConfigSpecAssumption ==
    /\ Levels \in Nat /\ IntMin \in Int /\ IntMin < 0
    /\ TrueWords \cap FalseWords = {}

NullTree == [type |-> "null"]
ValueTree(v) == [type |-> "value", value |-> v]
ArrayTree(items) == [type |-> "array", items |-> items]

\* A map is a sequence of [key, node] pairs in the order they were added.
MapTree(items) == [type |-> "map", items |-> items]
Entry(key, node) == [key |-> key, node |-> node]

\* A path is a sequence of steps; a malformed step makes the path malformed.
KeyStep(key) == [key |-> key]
IndexStep(index) == [index |-> index]
Malformed == [malformed |-> TRUE]
IsKey(step) == "key" \in DOMAIN step

\* The position of a key in a map, 0 when it is not there.
PositionOf(tree, key) ==
    SelectInSeq(tree.items, LAMBDA entry : entry.key = key)

(***************************************************************************)
(* The node a path names, or NullTree's stand-in Absent.                   *)
(***************************************************************************)
Absent == [type |-> "absent"]

Child(tree, step) ==
    IF IsKey(step)
    THEN IF tree.type = "map" /\ PositionOf(tree, step.key) # 0
         THEN tree.items[PositionOf(tree, step.key)].node
         ELSE Absent
    ELSE IF tree.type = "array" /\ step.index < Len(tree.items)
         THEN tree.items[step.index + 1]
         ELSE Absent

Lookup(tree, path) ==
    LET node[i \in 0..Len(path)] ==
            IF i = 0 THEN tree ELSE Child(node[i - 1], path[i])
    IN  node[Len(path)]

LookupKey(tree, key) == Child(tree, KeyStep(key))

\* The map with its entry for a key replaced, or added at the end.
WithKey(tree, key, node) ==
    IF PositionOf(tree, key) = 0
    THEN MapTree(Append(tree.items, Entry(key, node)))
    ELSE MapTree([tree.items EXCEPT ![PositionOf(tree, key)].node = node])

(***************************************************************************)
(* The trees: a leaf is null or a number, a word or a text; the keys of a  *)
(* map are distinct.  A float counts halves.                               *)
(***************************************************************************)
InRange(i) == i \in IntMin..(-IntMin - 1)

LeafValue ==
    [kind : {"int"}, i : IntMin..(-IntMin - 1)] \cup [kind : {"bool"}, b : BOOLEAN]
    \cup [kind : {"string"}, s : Strings]
    \cup [kind : {"float"}, f : Int, finite : BOOLEAN]

DistinctKeys(items) == \A i, j \in DOMAIN items : items[i].key = items[j].key => i = j

\* The trees whose children are in Nodes
TreesOver(Nodes) ==
    [type : {"null"}] \cup [type : {"value"}, value : LeafValue]
    \cup [type : {"array"}, items : Seq(Nodes)]
    \cup [type : {"map"},
          items : {items \in Seq([key : Keys, node : Nodes]) : DistinctKeys(items)}]

\* The trees of at most n levels
Trees[n \in 0..Levels] == IF n = 0 THEN {} ELSE TreesOver(Trees[n - 1])

(***************************************************************************)
(* Merging: maps key by key, arrays end to end, anything else replaces.    *)
(***************************************************************************)
\* The entries of a map put into another one by one; merge gives what becomes
\* of a node under a key that both have.
MergeEntries(merge, tree, new) ==
    LET entry(i) == new.items[i]
        merged[i \in 0..Len(new.items)] ==
            IF i = 0 THEN tree
            ELSE LET t == merged[i - 1] IN
                 WithKey(t, entry(i).key,
                         IF PositionOf(t, entry(i).key) = 0 THEN entry(i).node
                         ELSE merge[<<LookupKey(t, entry(i).key), entry(i).node>>])
    IN  merged[Len(new.items)]

\* Merging trees of at most n levels
Merging[n \in 0..Levels] ==
    [pair \in Trees[n] \X Trees[n] |->
        LET tree == pair[1]
            new == pair[2]
        IN  IF tree.type # new.type \/ tree.type \notin {"map", "array"} THEN new
            ELSE IF tree.type = "array" THEN ArrayTree(tree.items \o new.items)
            ELSE MergeEntries(Merging[n - 1], tree, new)]

TreeMerge(tree, new) == Merging[Levels][<<tree, new>>]

(***************************************************************************)
(* The values of a tree with the paths that read them.                     *)
(***************************************************************************)
Steps(tree) ==
    IF tree.type = "map" THEN {KeyStep(tree.items[i].key) : i \in DOMAIN tree.items}
    ELSE IF tree.type = "array" THEN {IndexStep(i - 1) : i \in DOMAIN tree.items}
    ELSE {}

ReadingsOf[n \in 0..Levels] ==
    [tree \in Trees[n] |->
        IF tree.type = "value" THEN {<<<<>>, tree.value>>}
        ELSE UNION {{<<<<step>> \o r[1], r[2]>> : r \in ReadingsOf[n - 1][Child(tree, step)]} :
                       step \in Steps(tree)}]

Readings(tree) == ReadingsOf[Levels][tree]

\* Two paths that cannot both read a value: one continues the other, or they
\* part where one wants a map and the other an array.
Exclusive(p, q) ==
    LET common == Len(LongestCommonPrefix({p, q})) IN
    \/ common = Len(p) \/ common = Len(q)
    \/ IsKey(p[common + 1]) # IsKey(q[common + 1])

(***************************************************************************)
(* Reading a leaf as another type.  A reading is [ok, v]; a failed one     *)
(* gives the caller's default.                                             *)
(***************************************************************************)
Ok(v) == [ok |-> TRUE, v |-> v]
Def(v) == [ok |-> FALSE, v |-> v]

\* The cast of a float to an integer drops the fraction.
Truncated(f) == IF f >= 0 THEN f \div 2 ELSE -((-f) \div 2)

FitsInteger(v) == v.finite /\ v.f >= 2 * IntMin /\ v.f < -2 * IntMin

\* confignode_value_get_int
GetInt(tree, def) ==
    IF tree.type # "value" THEN Def(def)
    ELSE LET v == tree.value IN
         CASE v.kind = "int" -> Ok(v.i)
           [] v.kind = "bool" -> Ok(IF v.b THEN 1 ELSE 0)
           [] v.kind = "string" /\ v.s \in DOMAIN Numerals /\ InRange(Numerals[v.s]) ->
                Ok(Numerals[v.s])
           [] v.kind = "float" /\ FitsInteger(v) -> Ok(Truncated(v.f))
           [] OTHER -> Def(def)

\* confignode_value_get_bool
GetBool(tree, def) ==
    IF tree.type # "value" THEN Def(def)
    ELSE LET v == tree.value IN
         CASE v.kind = "bool" -> Ok(v.b)
           [] v.kind = "string" /\ v.s \in TrueWords \cup FalseWords -> Ok(v.s \in TrueWords)
           [] v.kind = "int" -> Ok(v.i # 0)
           [] v.kind = "float" -> Ok(~v.finite \/ v.f # 0)
           [] OTHER -> Def(def)

\* confignode_value_get_string: numbers are printed
GetString(tree, def) ==
    IF tree.type # "value" THEN Def(def)
    ELSE LET v == tree.value IN
         CASE v.kind = "string" -> Ok(v.s)
           [] v.kind = "int" -> Ok(ToString(v.i))
           [] v.kind = "bool" -> Ok(IF v.b THEN "true" ELSE "false")
           [] v.kind = "float" /\ v.finite ->
                Ok(ToString(Truncated(v.f)) \o (IF v.f % 2 = 0 THEN ".000000" ELSE ".500000"))
           [] OTHER -> Ok("inf")

\* confignode_value_get_string_or_list_to_list: the leaves of a container,
\* what is not a leaf is passed over
StringList(tree) ==
    IF tree.type = "value" THEN Ok(<<GetString(tree, "").v>>)
    ELSE IF tree.type \notin {"array", "map"} THEN Def(<<>>)
    ELSE LET Node(item) == IF tree.type = "map" THEN item.node ELSE item
             leaves == SelectSeq(tree.items, LAMBDA item : Node(item).type = "value")
         IN  Ok([i \in DOMAIN leaves |-> GetString(Node(leaves[i]), "").v])
=============================================================================
