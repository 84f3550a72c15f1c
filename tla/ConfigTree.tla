----------------------------- MODULE ConfigTree -----------------------------
(***************************************************************************)
(* The configuration tree of src/configfile as it lies in memory: nodes    *)
(* with a parent pointer, a list of children, a key or an index.  Every    *)
(* call of the library is one action.  Memory may run out at any           *)
(* allocation of a call: a call takes a store s = [heap, left], `left`     *)
(* allocations still succeed, and returns the store with a result `r`: a   *)
(* node (NULL when there is none) or a success flag.                       *)
(***************************************************************************)
EXTENDS ConfigSpec, FiniteSets, FiniteSetsExt

CONSTANTS
    MaxNodes,    \* nodes that fit into memory
    MaxLive,     \* bound: nodes a client leaves alive between its calls
    MaxCalls,    \* bound: calls of the library
    Values,      \* values clients set
    Paths,       \* paths clients pass
    Documents,   \* documents a JSON or YAML reader is given
    Budgets      \* allocations that succeed within one call

NULL == 0
Ids == 1..MaxNodes
NoKey == "no key"
NoValue == [kind |-> "none"]
FreeNode == [type |-> "free"]

\* What a JSON or YAML reader is given: trees of at most n levels whose maps
\* may repeat a key.
DocumentsOver(Nodes) ==
    [type : {"null"}] \cup [type : {"value"}, value : LeafValue]
    \cup [type : {"array"}, items : Seq(Nodes)]
    \cup [type : {"map"}, items : Seq([key : Keys, node : Nodes])]

Document[n \in 0..Levels] == IF n = 0 THEN {} ELSE DocumentsOver(Document[n - 1])

ASSUME ConfigAssumption ==
    /\ MaxNodes \in Nat /\ MaxLive \in 1..MaxNodes /\ MaxCalls \in Nat
    /\ Budgets \subseteq Nat
    /\ Values \subseteq LeafValue /\ Documents \subseteq Document[Levels]
    /\ Paths \subseteq Seq([key : Keys] \cup [index : Nat] \cup {Malformed})
    /\ NoKey \notin Keys

Node == [type : {"null", "value", "array", "map"}, value : LeafValue \cup {NoValue},
         key : Keys \cup {NoKey}, index : -1..MaxNodes,
         parent : Ids \cup {NULL}, items : Seq(Ids)]

\* What memory may hold
Heaps == [Ids -> Node \cup {FreeNode}]

VARIABLES
    heap,     \* node id -> node or FreeNode
    held,     \* roots the clients of the library hold
    calls     \* calls made so far

treeVars == <<heap, held, calls>>

Blank(type, value) ==
    [type |-> type, value |-> value, key |-> NoKey, index |-> -1,
     parent |-> NULL, items |-> <<>>]

Live(h) == {n \in Ids : h[n].type # "free"}

Store(h, left) == [heap |-> h, left |-> left, r |-> NULL]
Return(s, h, r) == [heap |-> h, left |-> s.left, r |-> r]
Yields(s, r) == [s EXCEPT !.r = r]

\* One more allocation of this call; a string or a list cell.
Spent(s, n) == [s EXCEPT !.left = @ - n]
CanTake(s, n) == s.left >= n

(***************************************************************************)
(* Nodes.                                                                  *)
(***************************************************************************)
\* confignode_new, confignode_new_map, confignode_new_array
New(s, node) ==
    LET spare == Ids \ Live(s.heap) IN
    IF ~CanTake(s, 1) \/ spare = {} THEN Yields(s, NULL)
    ELSE Return(Spent(s, 1), [s.heap EXCEPT ![Min(spare)] = node], Min(spare))

\* configfile_array_fixup
Fixup(h, n) ==
    IF h[n].type # "array" THEN h
    ELSE [m \in Ids |->
            IF h[m].type # "free" /\ h[m].parent = n /\ Contains(h[n].items, m)
            THEN [h[m] EXCEPT !.index = SelectInSeq(h[n].items, LAMBDA c : c = m) - 1]
            ELSE h[m]]

Offspring(h, n) == {c \in ToSet(h[n].items) : h[c].parent = n}

\* A node and everything below it: MaxNodes steps reach all of it.
Subtree(h, n) ==
    LET reach[k \in 0..MaxNodes] ==
            IF k = 0 THEN {n}
            ELSE LET above == reach[k - 1]
                 IN  above \cup UNION {Offspring(h, m) : m \in above}
    IN  reach[MaxNodes]

\* Mutant: the indexes of the remaining siblings are not renumbered.
DetachOnly(h, n) ==
    IF h[n].parent = NULL THEN h
    ELSE [h EXCEPT ![h[n].parent].items = RemoveFirst(@, n)]

Detach(h, n) ==
    IF h[n].parent = NULL THEN h
    ELSE Fixup([h EXCEPT ![h[n].parent].items = RemoveFirst(@, n)],
               h[n].parent)

\* confignode_clean
Clean(h, n) ==
    LET d == Detach(h, n)
        gone == Subtree(d, n)
    IN  [m \in Ids |-> IF m \in gone THEN FreeNode ELSE d[m]]

CleanIn(s, n, r) == Return(s, Clean(s.heap, n), r)

\* The result of a call that puts a new node somewhere: a node that cannot be
\* put there is freed.
OrDrop(put, made, good, bad) ==
    IF put.r THEN Yields(put, good) ELSE CleanIn(put, made, bad)

\* confignode_new_value: the string of a string value is an allocation too.
NewValue(s, value) ==
    LET made == New(s, Blank("value", value)) IN
    IF made.r = NULL \/ value.kind # "string" THEN made
    ELSE IF CanTake(made, 1) THEN Spent(made, 1)
    ELSE CleanIn(made, made.r, NULL)

\* confignode_value_set
ValueSet(s, n, value) ==
    IF s.heap[n].type # "value" \/ (value.kind = "string" /\ ~CanTake(s, 1))
    THEN Yields(s, FALSE)
    ELSE Return(IF value.kind = "string" THEN Spent(s, 1) ELSE s,
                [s.heap EXCEPT ![n].value = value], TRUE)

(***************************************************************************)
(* Maps and arrays.                                                        *)
(***************************************************************************)
MapGet(h, n, key) ==
    IF h[n].type # "map" THEN NULL
    ELSE LET i == SelectInSeq(h[n].items, LAMBDA c : h[c].parent = n /\ h[c].key = key)
         IN  IF i = 0 THEN NULL ELSE h[n].items[i]

ArrayGet(h, n, index) ==
    IF h[n].type # "array" THEN NULL
    ELSE LET i == SelectInSeq(h[n].items, LAMBDA c : h[c].parent = n /\ h[c].index = index)
         IN  IF i = 0 THEN NULL ELSE h[n].items[i]

\* The child `new` takes the place of `old` in its parent; `old` is freed.
TakePlace(h, old, new) ==
    LET parent == h[old].parent
        swapped == [h EXCEPT ![parent].items = ReplaceAll(@, old, new),
                             ![new].parent = parent,
                             ![old].parent = NULL]
    IN  Clean(swapped, old)

\* confignode_map_set
MapSet(s, n, key, sub) ==
    LET old == MapGet(s.heap, n, key)
        named == [s.heap EXCEPT ![sub].key = key]
    IN  IF s.heap[sub].parent # NULL \/ s.heap[n].type # "map" \/ ~CanTake(s, 1)
        THEN Yields(s, FALSE)
        ELSE IF old # NULL
        THEN Return(Spent(s, 1), TakePlace(named, old, sub), TRUE)
        ELSE IF ~CanTake(s, 2) THEN Yields(Spent(s, 1), FALSE)
        ELSE Return(Spent(s, 2),
                    [named EXCEPT ![n].items = Append(@, sub), ![sub].parent = n],
                    TRUE)

\* list_obj_add_new or list_insert_new at a position, then the renumbering
AttachAt(s, n, position, sub) ==
    IF s.heap[sub].parent # NULL \/ s.heap[n].type # "array" \/ ~CanTake(s, 1)
    THEN Yields(s, FALSE)
    ELSE Return(Spent(s, 1),
                Fixup([s.heap EXCEPT ![n].items = InsertAt(@, position, sub),
                                     ![sub].parent = n], n),
                TRUE)

ArrayAppend(s, n, sub) == AttachAt(s, n, Len(s.heap[n].items) + 1, sub)

\* confignode_array_insert: only in front of an element, or at the front
ArrayInsert(s, n, index, sub) ==
    IF s.heap[n].type # "array" \/ (index # 0 /\ ArrayGet(s.heap, n, index) = NULL)
    THEN Yields(s, FALSE)
    ELSE AttachAt(s, n, index + 1, sub)

\* One more element, a NULL
Lengthened(t, n) ==
    LET made == New(t, Blank("null", NoValue)) IN
    IF made.r = NULL THEN Yields(made, FALSE)
    ELSE OrDrop(ArrayAppend(made, n, made.r), made.r, TRUE, FALSE)

\* One step of the loop that makes an array longer
LengthenTo(t, n, length) ==
    IF ~t.r \/ Len(t.heap[n].items) >= length THEN t ELSE Lengthened(t, n)

\* confignode_array_extend: NULL elements up to a length
ArrayExtend(s, n, length) ==
    LET grown[k \in 0..length] ==
            IF k = 0 THEN Yields(s, TRUE) ELSE LengthenTo(grown[k - 1], n, length)
        end == grown[length]
    IN  IF s.heap[n].type # "array" THEN Yields(s, FALSE)
        ELSE IF end.r THEN Return(end, Fixup(end.heap, n), TRUE)
        ELSE end

(***************************************************************************)
(* confignode_replace.                                                     *)
(***************************************************************************)
Replace(s, old, new) ==
    LET h == s.heap
        parent == h[old].parent
        inMap == h[parent].type = "map"
    IN  IF parent = NULL \/ h[new].parent # NULL THEN Yields(s, FALSE)
        ELSE IF inMap /\ (h[old].key = NoKey \/ ~CanTake(s, 1)) THEN Yields(s, FALSE)
        ELSE Return(IF inMap THEN Spent(s, 1) ELSE s,
                    TakePlace([h EXCEPT
                                 ![new].key = IF inMap THEN h[old].key ELSE NoKey,
                                 ![new].index = IF inMap THEN -1 ELSE h[old].index],
                              old, new),
                    TRUE)

\* confignode_array_set
ArraySet(s, n, index, sub) ==
    LET grown == ArrayExtend(s, n, index + 1) IN
    IF s.heap[sub].parent # NULL \/ s.heap[n].type # "array" THEN Yields(s, FALSE)
    ELSE IF ~grown.r THEN grown
    ELSE Replace(grown, ArrayGet(grown.heap, n, index), sub)

(***************************************************************************)
(* Copy and merge.                                                         *)
(***************************************************************************)
\* A child just made joins the container t.r of a type; a child that could not
\* be made, or cannot join it, ends the making of the container.
AddChild(t, type, key, child) ==
    LET put == IF type = "array" THEN ArrayAppend(child, t.r, child.r)
               ELSE MapSet(child, t.r, key, child.r)
    IN  IF t.r = NULL THEN t
        ELSE IF child.r = NULL THEN CleanIn(child, t.r, NULL)
        ELSE IF put.r THEN Yields(put, t.r)
        ELSE CleanIn(CleanIn(put, child.r, FALSE), t.r, NULL)

\* Copying trees of fewer than k levels; copying gives the copies of the
\* trees one level lower.
CopyNode(copying, s, n) ==
    LET node == s.heap[n]
        CopyChild(t, c) ==
            AddChild(t, node.type, s.heap[c].key, copying[<<t.heap, t.left, c>>])
        copied[i \in 0..Len(node.items)] ==
            IF i = 0 THEN New(s, Blank(node.type, NoValue))
            ELSE CopyChild(copied[i - 1], node.items[i])
    IN  IF node.type = "value" THEN NewValue(s, node.value)
        ELSE copied[Len(node.items)]

Copying[k \in 0..MaxNodes] ==
    [call \in Heaps \X Nat \X Ids |->
        LET s == Store(call[1], call[2]) IN
        IF k = 0 THEN s ELSE CopyNode(Copying[k - 1], s, call[3])]

Copy(s, n) == Copying[MaxNodes][<<s.heap, s.left, n>>]

\* confignode_replace_contents: the two nodes swap what they hold, not their
\* place; the old contents are freed with the node that carries them.
ReplaceContents(s, n, replacement) ==
    LET h == s.heap
        Adopt(c) == IF Contains(h[replacement].items, c) THEN n
                    ELSE IF Contains(h[n].items, c) THEN replacement
                    ELSE h[c].parent
        swapped == [m \in Ids |->
            IF m = n
            THEN [h[replacement] EXCEPT !.key = h[n].key, !.index = h[n].index,
                                        !.parent = h[n].parent]
            ELSE IF m = replacement
            THEN [h[n] EXCEPT !.key = h[replacement].key, !.index = -1, !.parent = NULL]
            ELSE IF h[m].type = "free" THEN h[m]
            ELSE [h[m] EXCEPT !.parent = Adopt(m)]]
    IN  CleanIn([s EXCEPT !.heap = swapped], replacement, TRUE)

\* The copied contents take the place of a node's own.
Overwrite(n, copied) ==
    IF copied.r = NULL THEN Yields(copied, FALSE)
    ELSE ReplaceContents(copied, n, copied.r)

\* A copied child joins a map or an array.
AttachCopy(n, key, copy) ==
    IF copy.r = NULL THEN Yields(copy, FALSE)
    ELSE OrDrop(IF copy.heap[n].type = "array" THEN ArrayAppend(copy, n, copy.r)
                ELSE MapSet(copy, n, key, copy.r),
                copy.r, TRUE, FALSE)

\* One child c of a map or array is merged into n: under a key both have, or
\* as a copy.
MergeChild(merging, t, n, type, c, key) ==
    LET target == MapGet(t.heap, n, key) IN
    IF ~t.r THEN t
    ELSE IF type = "map" /\ target # NULL THEN merging[<<t.heap, t.left, target, c>>]
    ELSE AttachCopy(n, key, Copy(t, c))

MergeNode(merging, s, n, new) ==
    LET h == s.heap
        merged[i \in 0..Len(h[new].items)] ==
            IF i = 0 THEN Yields(s, TRUE)
            ELSE MergeChild(merging, merged[i - 1], n, h[n].type, h[new].items[i],
                            h[h[new].items[i]].key)
    IN  IF n = new THEN Yields(s, TRUE)
        ELSE IF h[n].type # h[new].type \/ h[n].type \notin {"map", "array"}
        THEN Overwrite(n, Copy(s, new))
        ELSE merged[Len(h[new].items)]

MergingInPlace[k \in 0..MaxNodes] ==
    [call \in Heaps \X Nat \X Ids \X Ids |->
        LET s == Store(call[1], call[2]) IN
        IF k = 0 THEN Yields(s, FALSE)
        ELSE MergeNode(MergingInPlace[k - 1], s, call[3], call[4])]

MergeInPlace(s, n, new) == MergingInPlace[MaxNodes][<<s.heap, s.left, n, new>>]

\* Mutant: the target itself is merged into, no working copy is made.
MergeDirectly(s, n, new) == MergeInPlace(s, n, new)

\* confignode_merge: on a working copy, put in place when it is complete
Merge(s, n, new) ==
    LET PutInPlace(working, merged) ==
            IF merged.r THEN ReplaceContents(merged, n, working)
            ELSE CleanIn(merged, working, FALSE)
        MergeCopy(working) ==
            IF working.r = NULL THEN Yields(working, FALSE)
            ELSE PutInPlace(working.r, MergeInPlace(working, working.r, new))
    IN  IF n = new THEN Yields(s, TRUE) ELSE MergeCopy(Copy(s, n))

(***************************************************************************)
(* Paths.                                                                  *)
(***************************************************************************)
\* Mutant: a path is walked before the whole of it was looked at.
FirstStepValid(path) == path = <<>> \/ path[1] # Malformed

\* confignode_path_validate
Valid(path) == \A i \in DOMAIN path : path[i] # Malformed

\* confignode_path_require_type: what is in the way is replaced by an empty
\* container, unless it is the root.
RequireType(s, n, type, create) ==
    LET Instead(made) ==
            IF made.r = NULL THEN made
            ELSE OrDrop(Replace(made, n, made.r), made.r, made.r, NULL)
    IN  IF s.heap[n].type = type THEN Yields(s, n)
        ELSE IF ~create \/ s.heap[n].parent = NULL THEN Yields(s, NULL)
        ELSE Instead(New(s, Blank(type, NoValue)))

\* The element at an index, made when it is missing.
IndexChild(s, n, index, create) ==
    LET Found(grown) ==
            Yields(grown, IF grown.r THEN ArrayGet(grown.heap, n, index) ELSE NULL)
    IN  IF ArrayGet(s.heap, n, index) # NULL \/ ~create
        THEN Yields(s, ArrayGet(s.heap, n, index))
        ELSE Found(ArrayExtend(s, n, index + 1))

\* The entry of a key, made when it is missing.
KeyChild(s, n, key, create) ==
    LET Added(made) ==
            IF made.r = NULL THEN made
            ELSE OrDrop(MapSet(made, n, key, made.r), made.r, made.r, NULL)
    IN  IF MapGet(s.heap, n, key) # NULL \/ ~create
        THEN Yields(s, MapGet(s.heap, n, key))
        ELSE Added(New(s, Blank("null", NoValue)))

\* One step of confignode_path_lookup from node s.r: the key of a step is
\* copied before it is used.
LookupStep(s, step, create) ==
    LET Enter(inside) ==
            IF inside.r = NULL THEN inside
            ELSE IF IsKey(step) THEN KeyChild(inside, inside.r, step.key, create)
            ELSE IndexChild(inside, inside.r, step.index, create)
    IN  IF step = Malformed THEN Yields(s, NULL)
        ELSE IF ~IsKey(step) THEN Enter(RequireType(s, s.r, "array", create))
        ELSE IF ~CanTake(s, 1) THEN Yields(s, NULL)
        ELSE Enter(RequireType(Spent(s, 1), s.r, "map", create))

\* confignode_path_lookup
PathLookup(s, n, path, create) ==
    LET walked[i \in 0..Len(path)] ==
            IF i = 0 THEN Yields(s, n)
            ELSE LET t == walked[i - 1]
                 IN  IF t.r = NULL THEN t ELSE LookupStep(t, path[i], create)
    IN  IF ~Valid(path) THEN Yields(s, NULL) ELSE walked[Len(path)]

\* confignode_path_set_value and its typed wrappers: a value is changed where
\* it is, anything else is replaced by a new one.
PathSetValue(s, n, path, value) ==
    LET Put(made, old) ==
            IF made.r = NULL THEN Yields(made, FALSE)
            ELSE OrDrop(Replace(made, old, made.r), made.r, TRUE, FALSE)
        Set(found) ==
            IF found.r = NULL THEN Yields(found, FALSE)
            ELSE IF found.heap[found.r].type = "value"
            THEN ValueSet(found, found.r, value)
            ELSE Put(NewValue(found, value), found.r)
    IN  Set(PathLookup(s, n, path, TRUE))

\* confignode_path_map_set
PathMapSet(s, n, path, sub) ==
    LET Put(found) == IF found.r = NULL THEN Yields(found, FALSE)
                      ELSE Replace(found, found.r, sub)
    IN  IF s.heap[sub].parent # NULL THEN Yields(s, FALSE)
        ELSE Put(PathLookup(s, n, path, TRUE))

\* The array a path names: what is there is replaced when it is not an array.
PathArray(s, n, path) ==
    LET AsArray(found) == IF found.r = NULL THEN found
                          ELSE RequireType(found, found.r, "array", TRUE)
    IN  AsArray(PathLookup(s, n, path, TRUE))

PathArrayAppend(s, n, path, sub) ==
    LET Put(array) == IF array.r = NULL THEN Yields(array, FALSE)
                      ELSE ArrayAppend(array, array.r, sub)
    IN  Put(PathArray(s, n, path))

PathArraySet(s, n, path, index, sub) ==
    LET Put(array) == IF array.r = NULL THEN Yields(array, FALSE)
                      ELSE ArraySet(array, array.r, index, sub)
    IN  Put(PathArray(s, n, path))

PathArrayInsert(s, n, path, index, sub) ==
    LET Put(array) == IF array.r = NULL THEN Yields(array, FALSE)
                      ELSE ArrayInsert(array, array.r, index, sub)
    IN  Put(PathArray(s, n, path))

(***************************************************************************)
(* A JSON or YAML document is built bottom up.                             *)
(***************************************************************************)
\* Building documents of at most k levels: confignode_from_json, parse_yaml_node
BuildNode(building, s, doc) ==
    LET BuildChild(t, item) ==
            IF doc.type = "map"
            THEN AddChild(t, "map", item.key, building[<<t.heap, t.left, item.node>>])
            ELSE AddChild(t, "array", NoKey, building[<<t.heap, t.left, item>>])
        built[i \in 0..Len(doc.items)] ==
            IF i = 0 THEN New(s, Blank(doc.type, NoValue))
            ELSE BuildChild(built[i - 1], doc.items[i])
    IN  IF doc.type = "value" THEN NewValue(s, doc.value)
        ELSE IF doc.type = "null" THEN New(s, Blank("null", NoValue))
        ELSE built[Len(doc.items)]

Building[k \in 0..Levels] ==
    [call \in Heaps \X Nat \X Document[k] |->
        BuildNode(Building[k - 1], Store(call[1], call[2]), call[3])]

Build(s, doc) == Building[Levels][<<s.heap, s.left, doc>>]

(***************************************************************************)
(* The clients of the library: one holds the configuration (node 1), the   *)
(* others build trees and hand them over.                                  *)
(***************************************************************************)
Main == 1

TreeInit ==
    /\ heap = [n \in Ids |-> IF n = Main THEN Blank("map", NoValue) ELSE FreeNode]
    /\ held = {Main}
    /\ calls = 0

\* A call ends with store s; `gone` are the trees its success took over.
Ends(s, gone, made) ==
    /\ calls < MaxCalls
    /\ Cardinality(Live(s.heap)) <= MaxLive
    /\ calls' = calls + 1
    /\ heap' = s.heap
    /\ held' = (held \ gone) \cup made

Gives(s, sub) == Ends(s, IF s.r THEN {sub} ELSE {}, {})
Makes(s) == Ends(s, {}, {s.r} \ {NULL})

\* Nodes a detached tree may be put into: those of the other trees.
Elsewhere(sub) == Live(heap) \ Subtree(heap, sub)
Detached == held \ {Main}

CallNew(b) ==
    \E node \in {Blank(type, NoValue) : type \in {"null", "map", "array"}} :
        Makes(New(Store(heap, b), node))

CallNewValue(b) == \E v \in Values : Makes(NewValue(Store(heap, b), v))

CallMapSet(b) ==
    \E sub \in Detached, key \in Keys :
        \E n \in Elsewhere(sub) : Gives(MapSet(Store(heap, b), n, key, sub), sub)

CallArrayAppend(b) ==
    \E sub \in Detached :
        \E n \in Elsewhere(sub) : Gives(ArrayAppend(Store(heap, b), n, sub), sub)

CallArrayInsert(b) ==
    \E sub \in Detached, index \in 0..1 :
        \E n \in Elsewhere(sub) : Gives(ArrayInsert(Store(heap, b), n, index, sub), sub)

CallArraySet(b) ==
    \E sub \in Detached, index \in 0..1 :
        \E n \in Elsewhere(sub) : Gives(ArraySet(Store(heap, b), n, index, sub), sub)

CallReplace(b) ==
    \E sub \in Detached :
        \E n \in Elsewhere(sub) : Gives(Replace(Store(heap, b), n, sub), sub)

CallPathSet(b) ==
    \E path \in Paths, v \in Values :
        Ends(PathSetValue(Store(heap, b), Main, path, v), {}, {})

CallPathMapSet(b) ==
    \E sub \in Detached, path \in Paths :
        Gives(PathMapSet(Store(heap, b), Main, path, sub), sub)

CallPathArray(b) ==
    \E sub \in Detached, path \in Paths :
        \/ Gives(PathArrayAppend(Store(heap, b), Main, path, sub), sub)
        \/ Gives(PathArraySet(Store(heap, b), Main, path, 1, sub), sub)
        \/ Gives(PathArrayInsert(Store(heap, b), Main, path, 0, sub), sub)

CallCopy(b) == \E n \in Live(heap) : Makes(Copy(Store(heap, b), n))

CallMerge(b) ==
    \E new \in Detached :
        \E n \in Elsewhere(new) : Ends(Merge(Store(heap, b), n, new), {}, {})

CallClean ==
    \E n \in Live(heap) \ {Main} :
        Ends(Return(Store(heap, 0), Clean(heap, n), TRUE), {n}, {})

CallLoad(b) == \E doc \in Documents : Makes(Build(Store(heap, b), doc))

TreeNext ==
    \/ CallClean
    \/ \E b \in Budgets :
          \/ CallNew(b) \/ CallNewValue(b) \/ CallMapSet(b) \/ CallArrayAppend(b)
          \/ CallArrayInsert(b) \/ CallArraySet(b) \/ CallReplace(b)
          \/ CallPathSet(b) \/ CallPathMapSet(b) \/ CallPathArray(b)
          \/ CallCopy(b) \/ CallMerge(b) \/ CallLoad(b)

TreeSpec == TreeInit /\ [][TreeNext]_treeVars

(***************************************************************************)
(* Properties.                                                             *)
(***************************************************************************)
\* Every slot of memory is free or a node, and the clients hold live nodes.
TreeTypeOK ==
    /\ heap \in Heaps
    /\ held \subseteq Live(heap)
    /\ calls \in 0..MaxCalls

\* The pointers of the tree agree whatever calls were made and wherever
\* memory ran out: a child is listed once, by its parent; the elements of an
\* array are numbered by their position; the keys of a map are distinct.
Linked(h) ==
    \A n \in Live(h) :
        LET items == h[n].items IN
        /\ \A i \in DOMAIN items : h[items[i]].type # "free" /\ h[items[i]].parent = n
        /\ \A i, j \in DOMAIN items : i # j => items[i] # items[j]
        /\ h[n].parent # NULL =>
              h[h[n].parent].type # "free" /\ Contains(h[h[n].parent].items, n)
        /\ h[n].type = "array" => \A i \in DOMAIN items : h[items[i]].index = i - 1
        /\ h[n].type = "map" =>
              /\ \A i \in DOMAIN items : h[items[i]].key # NoKey
              /\ \A i, j \in DOMAIN items : i # j => h[items[i]].key # h[items[j]].key

\* No call leaks a node or frees one that is still in a tree, on its failure
\* paths either: the live nodes are those of the trees the clients hold.
NothingLost ==
    /\ \A n \in held : heap[n].parent = NULL
    /\ Live(heap) = UNION {Subtree(heap, n) : n \in held}

\* After any calls, failed ones included, memory holds well-formed trees and
\* nothing else (confignode_new, _free, _map_set, _array_append and the rest).
WellFormed == TreeTypeOK /\ Linked(heap) /\ NothingLost

=============================================================================
