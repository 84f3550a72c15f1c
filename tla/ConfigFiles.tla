---------------------------- MODULE ConfigFiles ----------------------------
(***************************************************************************)
(* The trees of ConfigTree as the values of ConfigSpec, and the .conf      *)
(* files they are saved to and loaded from.                                *)
(***************************************************************************)
EXTENDS ConfigTree

CONSTANTS
    UnwritableKeys,     \* keys with a '.', '=', '[' or line break in them
    UnwritableStrings   \* strings with a line break in them

\* The tree below a node, as a value of ConfigSpec.
RECURSIVE TreeAt(_, _)
TreeAt(h, n) ==
    LET node == h[n] IN
    CASE node.type = "value" -> ValueTree(node.value)
      [] node.type = "array" -> ArrayTree([i \in DOMAIN node.items |-> TreeAt(h, node.items[i])])
      [] node.type = "map" ->
            MapTree([i \in DOMAIN node.items |->
                        Entry(h[node.items[i]].key, TreeAt(h, node.items[i]))])
      [] OTHER -> NullTree

\* confignode_path_get: keys and indexes from the root down to a node
RECURSIVE PathGet(_, _)
PathGet(h, n) ==
    LET parent == h[n].parent IN
    IF parent = NULL THEN <<>>
    ELSE PathGet(h, parent) \o
         (IF h[parent].type = "map" THEN <<KeyStep(h[n].key)>>
          ELSE IF h[parent].type = "array" THEN <<IndexStep(h[n].index)>>
          ELSE <<>>)

(***************************************************************************)
(* A .conf file is written and read line by line.                          *)
(***************************************************************************)
\* Mutant: a whole number is written without its decimal point.
FloatAsPrinted(value) ==
    IF value.kind = "float" /\ value.finite /\ value.f % 2 = 0 THEN [form |-> "digits", i |-> value.f \div 2]
    ELSE IF value.kind = "float" THEN [form |-> "real", f |-> value.f, finite |-> value.finite]
    ELSE IF value.kind = "int" THEN [form |-> "digits", i |-> value.i]
    ELSE IF value.kind = "bool" THEN [form |-> "word", s |-> IF value.b THEN "true" ELSE "false"]
    ELSE [form |-> "quoted", s |-> value.s]

\* How a .conf file writes a value (a float counts halves): a string between
\* quotes, a float always with a point.
ValueText(value) ==
    CASE value.kind = "string" -> [form |-> "quoted", s |-> value.s]
      [] value.kind = "int" -> [form |-> "digits", i |-> value.i]
      [] value.kind = "float" -> [form |-> "real", f |-> value.f, finite |-> value.finite]
      [] value.kind = "bool" -> [form |-> "word", s |-> IF value.b THEN "true" ELSE "false"]

\* conf_parse_value, and the quotes conf_parse_line strips
ParseValue(text) ==
    CASE text.form = "quoted" -> [kind |-> "string", s |-> text.s]
      [] text.form = "digits" -> [kind |-> "int", i |-> text.i]
      [] text.form = "real" -> [kind |-> "float", f |-> text.f, finite |-> text.finite]
      [] text.form = "word" /\ text.s \in {"true", "false"} ->
            [kind |-> "bool", b |-> text.s = "true"]
      [] OTHER -> [kind |-> "string", s |-> text.s]

Refused == [refused |-> TRUE]

\* conf_save_node_recursive: one line for each value; Refused when the tree
\* holds something a .conf file cannot say.
RECURSIVE ConfLines(_, _)
ConfLines(tree, prefix) ==
    LET Lines(done, step) ==
            LET more == ConfLines(Child(tree, step), Append(prefix, step)) IN
            IF done = Refused \/ more = Refused THEN Refused
            ELSE [refused |-> FALSE, lines |-> done.lines \o more.lines]
        steps == IF tree.type = "map"
                 THEN [i \in DOMAIN tree.items |-> KeyStep(tree.items[i].key)]
                 ELSE [i \in DOMAIN tree.items |-> IndexStep(i - 1)]
        none == [refused |-> FALSE, lines |-> <<>>]
    IN  IF tree.type = "value"
        THEN IF tree.value.kind = "string" /\ tree.value.s \in UnwritableStrings
             THEN Refused
             ELSE [refused |-> FALSE,
                   lines |-> <<[path |-> prefix, text |-> ValueText(tree.value)]>>]
        ELSE IF tree.type = "null" THEN Refused
        ELSE IF tree.items = <<>>
        THEN IF tree.type = "map" /\ prefix = <<>> THEN none ELSE Refused
        ELSE IF tree.type = "map" /\ \E i \in DOMAIN tree.items :
                                        tree.items[i].key \in UnwritableKeys
        THEN Refused
        ELSE FoldLeft(Lines, none, steps)

\* configfile_conf_load_string
ConfLoad(s, lines) ==
    LET ReadAll(root) ==
            FoldLeft(LAMBDA t, line :
                        IF t.r = NULL THEN t
                        ELSE OrDrop(PathSetValue(t, root.r, line.path, ParseValue(line.text)),
                                    root.r, root.r, NULL),
                     root, lines)
    IN  ReadAll(New(s, Blank("map", NoValue)))

(***************************************************************************)
(* Properties.                                                             *)
(***************************************************************************)
\* What the end s of a call that merges `new` into n may be
MergedOrNot(s, n, new) ==
    /\ TreeAt(s.heap, n) = IF s.r THEN TreeMerge(TreeAt(heap, n), TreeAt(heap, new))
                           ELSE TreeAt(heap, n)
    /\ \A m \in held : n \notin Subtree(heap, m) => TreeAt(s.heap, m) = TreeAt(heap, m)
    /\ [s.heap[n] EXCEPT !.type = "", !.items = <<>>, !.value = NoValue]
         = [heap[n] EXCEPT !.type = "", !.items = <<>>, !.value = NoValue]
    /\ ~s.r => Live(s.heap) = Live(heap)

\* A merge is all or nothing: when it reports success the target is the two
\* trees merged, in its old place; when it fails nothing changed; the merged
\* tree and every other tree stay as they were in both cases.
MergeWhole ==
    \A new \in Detached, b \in Budgets :
        \A n \in Elsewhere(new) : MergedOrNot(Merge(Store(heap, b), n, new), n, new)

\* What is read in the tree `after` that the write of v to path made of the
\* one in memory
ReadAsBefore(after, path, written, v) ==
    /\ \A r \in Readings(TreeAt(heap, Main)) : Exclusive(r[1], path) \/ r \in after
    /\ written => <<path, v>> \in after

\* The end s of a call that sets the value at a path
WrittenOrNot(s, path, v) ==
    /\ ReadAsBefore(Readings(TreeAt(s.heap, Main)), path, s.r, v)
    /\ Malformed \in ToSet(path) => s.heap = heap

\* Setting a value through a path disturbs only what lies on the path: after
\* it, successful or not, every value that can be read beside the new one
\* reads as before; a success reads back; a malformed path changes nothing.
WritesStayOnPath ==
    \A path \in Paths, v \in Values, b \in Budgets :
        WrittenOrNot(PathSetValue(Store(heap, b), Main, path, v), path, v)

\* An integer read from a leaf of any type fits its 64 bits and is the number
\* that is there without its fraction: a number that is too large or not a
\* number gives the default instead of a wrapped or undefined value.
IntegersInRange ==
    \A n \in {n \in Live(heap) : heap[n].type = "value"} :
        LET v == heap[n].value
            read == GetInt(TreeAt(heap, n), 0)
        IN
        /\ InRange(read.v)
        /\ (read.ok /\ v.kind = "float") =>
              (IF v.f >= 0 THEN v.f - 2 * read.v ELSE 2 * read.v - v.f) \in 0..1

\* The path confignode_path_get writes for a node leads back to the node.
PathLeadsBack ==
    \A n \in Subtree(heap, Main) :
        PathLookup(Store(heap, 99), Main, PathGet(heap, n), FALSE).r = n

\* The end s of the reading of a file made of a tree
Holds(s, tree) == s.r # NULL /\ TreeAt(s.heap, s.r) = tree

\* A tree that a .conf file can hold is read back from it as it was.
ConfReadsBack ==
    LET tree == TreeAt(heap, Main)
        saved == ConfLines(tree, <<>>)
        empty == [n \in Ids |-> FreeNode]
    IN  (tree.type = "map" /\ saved # Refused) =>
            Holds(ConfLoad(Store(empty, 99), saved.lines), tree)

\* What is read from a tree is what is in it: through a path, as an integer, and
\* from the .conf file it is written to.
ReadsBack == PathLeadsBack /\ IntegersInRange /\ ConfReadsBack

=============================================================================
