----------------------------- MODULE LinkedList -----------------------------
(***************************************************************************)
(* lib/list.c: doubly linked lists.  A list is known by a pointer to any of  *)
(* its items: after list_sort, list_reverse or list_insert_new the caller's  *)
(* pointer need not be the first one, and every operation walks to the end   *)
(* it needs.                                                                 *)
(*                                                                           *)
(* The heap has the allocated items only, so that following a pointer to a   *)
(* freed item is an error of the evaluation.  list_sort is cut at each       *)
(* comparison; the other operations are single steps.                        *)
(***************************************************************************)
EXTENDS Naturals, FiniteSets, SequencesExt

CONSTANTS
    Node,     \* addresses malloc may return
    NULL,
    Data,     \* what the sorter compares
    List      \* the callers' list pointers, such as menu->loaders

ASSUME NullAssumption == NULL \notin Node \cup List
ASSUME DataAssumption == Data \subseteq Nat

Ptr == Node \cup {NULL}

VARIABLES
    heap,     \* the items: [prev, next, data]
    lst,      \* lst[l]: what the list pointer of l points to
    sort,     \* where list_sort is: [list, f, changed], or Idle
    before    \* history: the items of the list as list_sort found them

vars == <<heap, lst, sort, before>>

Idle == [list |-> NULL, f |-> NULL, changed |-> FALSE]

Init ==
    /\ heap = <<>>
    /\ lst = [l \in List |-> NULL]
    /\ sort = Idle /\ before = <<>>

-----------------------------------------------------------------------------
(* Walks *)

\* The item k steps from p along prev or next, NULL past the end
Walk(h, p, way) ==
    LET at[k \in 0..Cardinality(DOMAIN h)] ==
            IF k = 0 THEN p ELSE IF at[k - 1] = NULL THEN NULL ELSE h[at[k - 1]][way]
    IN  at

\* The last item of the walk; NULL with ELOOP if it comes back to p
End(h, p, way) ==
    LET at == Walk(h, p, way)
        met == {at[k] : k \in DOMAIN at} \ {NULL}
    IN  IF \E k \in DOMAIN at \ {0} : at[k] = p THEN NULL
        ELSE CHOOSE n \in met : h[n][way] = NULL

ListFirst(h, p) == End(h, p, "prev")
ListLast(h, p) == End(h, p, "next")

\* What a loop from list_first along next visits
Items(h, p) ==
    IF p = NULL THEN <<>>
    ELSE LET at == Walk(h, ListFirst(h, p), "next")
             met == {k \in DOMAIN at : at[k] # NULL}
         IN  [i \in 1..Cardinality(met) |-> at[i - 1]]

-----------------------------------------------------------------------------
(* Operations on the heap *)

ListNew(h, n, d) ==
    [m \in DOMAIN h \cup {n} |->
        IF m = n THEN [prev |-> NULL, next |-> NULL, data |-> d] ELSE h[m]]

\* "if (p) p->fld = v"
Link(h, p, fld, v) == IF p = NULL THEN h ELSE [h EXCEPT ![p][fld] = v]

\* Mutant: new goes right behind point, wherever that is in its list.
ListPushHere(h, point, new) ==
    LET g == Link(h, h[point].next, "prev", new)
    IN  [g EXCEPT ![point].next = new, ![new].prev = point, ![new].next = h[point].next]

\* list_push: new, the first item of its list, goes after the last of point's.
ListPush(h, point, new) ==
    LET l == ListLast(h, point) IN [h EXCEPT ![l].next = new, ![new].prev = l]

\* Mutant: the item before point keeps its next pointer.
ListInsertHalf(h, point, new) ==
    IF h[point].prev = NULL
    THEN [h EXCEPT ![point].prev = new, ![new].next = point]
    ELSE [h EXCEPT ![new].prev = h[point].prev, ![point].prev = new, ![new].next = point]

\* The item new goes before point.
ListInsert(h, point, new) ==
    IF h[point].prev = NULL
    THEN [h EXCEPT ![point].prev = new, ![new].next = point]
    ELSE [h EXCEPT ![h[point].prev].next = new, ![new].prev = h[point].prev,
                   ![point].prev = new, ![new].next = point]

ListSwapNeighbor(h, p1, p2) ==
    LET g == Link(Link(h, h[p1].prev, "next", p2), h[p2].next, "prev", p1)
    IN  [g EXCEPT ![p1].next = g[p2].next, ![p2].prev = g[p1].prev,
                  ![p1].prev = p2, ![p2].next = p1]

ListRemove(h, p) ==
    LET g == Link(Link(h, h[p].prev, "next", h[p].next), h[p].next, "prev", h[p].prev)
    IN  [g EXCEPT ![p].prev = NULL, ![p].next = NULL]

Free(h, gone) == [n \in DOMAIN h \ gone |-> h[n]]

-----------------------------------------------------------------------------
(* Operations on list pointers.  A failed malloc leaves everything alone. *)

\* No list_sort is running: the program has one thread.
Calm == sort = Idle /\ UNCHANGED <<sort, before>>

ObjAddNew(l, n, d) ==
    /\ Calm
    /\ n \notin DOMAIN heap
    /\ LET h == ListNew(heap, n, d)
       IN  IF lst[l] = NULL
           THEN heap' = h /\ lst' = [lst EXCEPT ![l] = n]
           ELSE heap' = ListPush(h, lst[l], n) /\ UNCHANGED lst

\* list_obj_insert_new moves the pointer to the first item.
ObjInsertNew(l, n, d) ==
    /\ Calm
    /\ n \notin DOMAIN heap
    /\ LET h == ListNew(heap, n, d)
       IN  heap' = IF lst[l] = NULL THEN h ELSE ListInsert(h, ListFirst(h, lst[l]), n)
    /\ lst' = [lst EXCEPT ![l] = n]

\* list_insert_new before an item that was found by a walk
InsertNew(p, n, d) ==
    /\ Calm
    /\ n \notin DOMAIN heap
    /\ heap' = ListInsert(ListNew(heap, n, d), p, n)
    /\ UNCHANGED lst

\* list_obj_add of a whole list.  It takes the pointer for the first item.  Its callers
\* (linux/bootinfo.c:81, linux/bootargs.c:14 and 51, linux/dtbo.c:284, sdboot/file.c:250,
\* sdboot/types.c:274) have just built the list with list_obj_add_new or
\* list_duplicate_chars, neither of which moves the pointer off its first item.
ObjAdd(l, m) ==
    /\ Calm
    /\ l # m /\ lst[m] # NULL
    /\ heap[lst[m]].prev = NULL
    /\ IF lst[l] = NULL
       THEN lst' = [lst EXCEPT ![l] = lst[m], ![m] = NULL] /\ UNCHANGED heap
       ELSE lst' = [lst EXCEPT ![m] = NULL] /\ heap' = ListPush(heap, lst[l], lst[m])

\* Mutant: only the pointer to an item that is alone is moved.
StripToNull(l, p) ==
    IF heap[p].next = NULL /\ heap[p].prev = NULL THEN NULL ELSE lst[l]

\* Where list_obj_strip leaves the pointer of l when item p goes
StripTo(l, p) ==
    IF lst[l] # p THEN lst[l]
    ELSE IF heap[p].next # NULL THEN heap[p].next ELSE heap[p].prev

\* list_obj_del, list_obj_del_data: strip, then list_free_item
ObjDel(l, p) ==
    /\ Calm
    /\ lst' = [lst EXCEPT ![l] = StripTo(l, p)]
    /\ heap' = Free(ListRemove(heap, p), {p})

FreeAll(l) ==
    /\ Calm
    /\ lst[l] # NULL
    /\ heap' = Free(heap, Range(Items(heap, lst[l])))
    /\ lst' = [lst EXCEPT ![l] = NULL]

ListReverse(l) ==
    /\ Calm
    /\ lst[l] # NULL
    /\ heap' = [n \in DOMAIN heap |->
                   IF n \in Range(Items(heap, lst[l]))
                   THEN [heap[n] EXCEPT !.prev = heap[n].next, !.next = heap[n].prev]
                   ELSE heap[n]]
    /\ UNCHANGED lst

-----------------------------------------------------------------------------
(* list_sort: passes over the list until one changes nothing.  After a swap    *)
(* the cursor is past the pair it swapped, so the next pair is not compared.   *)

SortStart(l) ==
    /\ sort = Idle
    /\ lst[l] # NULL
    /\ sort' = [list |-> l, f |-> ListFirst(heap, lst[l]), changed |-> FALSE]
    /\ before' = Items(heap, lst[l])
    /\ UNCHANGED <<heap, lst>>

\* Mutant: equal items are swapped too.
SorterEqual(p, q) == heap[p].data >= heap[q].data

\* loaders_sorter: equal items stay as they are
Sorter(p, q) == heap[p].data > heap[q].data

\* Mutant: only the last comparison of a pass counts as a change.
SortStepLast ==
    /\ sort.f # NULL
    /\ LET f == sort.f
           n == heap[f].next
           swap == n # NULL /\ Sorter(f, n)
           h == IF swap THEN ListSwapNeighbor(heap, f, n) ELSE heap
       IN  /\ heap' = h
           /\ sort' = [sort EXCEPT !.f = h[f].next, !.changed = swap]
    /\ UNCHANGED <<lst, before>>

SortStep ==
    /\ sort.f # NULL
    /\ LET f == sort.f
           n == heap[f].next
           swap == n # NULL /\ Sorter(f, n)
           h == IF swap THEN ListSwapNeighbor(heap, f, n) ELSE heap
       IN  /\ heap' = h
           /\ sort' = [sort EXCEPT !.f = h[f].next, !.changed = @ \/ swap]
    /\ UNCHANGED <<lst, before>>

\* The end of a pass, and of the sort if it changed nothing
SortPass ==
    /\ sort # Idle /\ sort.f = NULL
    /\ IF sort.changed
       THEN /\ sort' = [sort EXCEPT !.f = ListFirst(heap, lst[sort.list]), !.changed = FALSE]
            /\ UNCHANGED before
       ELSE sort' = Idle /\ before' = <<>>
    /\ UNCHANGED <<heap, lst>>

Next ==
    \/ \E l \in List, n \in Node, d \in Data :
          \/ ObjAddNew(l, n, d)
          \/ ObjInsertNew(l, n, d)
    \/ \E p \in DOMAIN heap, n \in Node, d \in Data : InsertNew(p, n, d)
    \/ \E l, m \in List : ObjAdd(l, m)
    \/ \E l \in List : \E p \in Range(Items(heap, lst[l])) : ObjDel(l, p)
    \/ \E l \in List : FreeAll(l)
    \/ \E l \in List : ListReverse(l)
    \/ \E l \in List : SortStart(l)
    \/ SortStep
    \/ SortPass

Spec == Init /\ [][Next]_vars

\* list_sort runs on once it is called: nothing else runs on the CPU.
FairSpec == Spec /\ WF_vars(SortStep) /\ WF_vars(SortPass)
-----------------------------------------------------------------------------
(* Properties *)

\* Every pointer, of an item, of a caller or of a running sort, is NULL or points
\* to an allocated item: nothing that was freed is reached again.
TypeOK ==
    LET Live == DOMAIN heap \cup {NULL}
    IN  /\ DOMAIN heap \subseteq Node
        /\ heap \in [DOMAIN heap -> [prev : Live, next : Live, data : Data]]
        /\ lst \in [List -> Live]
        /\ sort \in [list : List \cup {NULL}, f : Live, changed : BOOLEAN]

\* Both directions of a list agree between any two calls and inside list_sort: the
\* item after p has p before it, and the other way round.  A walk that starts in
\* the middle therefore sees the same list as one that starts at an end.
WellLinked ==
    \A p \in DOMAIN heap :
        /\ heap[p].next # NULL => heap[heap[p].next].prev = p
        /\ heap[p].prev # NULL => heap[heap[p].prev].next = p

\* When list_sort returns, the list holds the items it held when list_sort was
\* called, by data, and items with equal data are still in the order they were
\* in: entries of equal priority keep the order of the configuration.  This is
\* in spite of the pairs that the cursor skips after a swap.
SortStable ==
    [][(sort # Idle /\ sort' = Idle) =>
          LET after == Items(heap, lst[sort.list])
          IN  /\ Range(after) = Range(before) /\ Len(after) = Len(before)
              /\ \A i, j \in 1..Len(before) : i < j =>
                    LET p == after[i]
                        q == after[j]
                    IN  \/ heap[p].data < heap[q].data
                        \/ /\ heap[p].data = heap[q].data
                           /\ \E a, b \in 1..Len(before) :
                                 a < b /\ before[a] = p /\ before[b] = q]_vars

\* list_sort returns: the menu comes up however many entries it has.
SortEnds == (sort # Idle) ~> (sort = Idle)

Abstract == INSTANCE ListSpec WITH
    val <- [l \in List |-> Items(heap, lst[l])],
    key <- [n \in DOMAIN heap |-> heap[n].data]

\* A call of a function is a call of the same function of ListSpec with the same
\* arguments, and a step of list_sort changes the order of its own list or nothing.
SameCall ==
    /\ \A l \in List, n \in Node, d \in Data :
          /\ ObjAddNew(l, n, d) => Abstract!ObjAddNew(l, n, d)
          /\ ObjInsertNew(l, n, d) => Abstract!ObjInsertNew(l, n, d)
    /\ \A p \in DOMAIN heap, n \in Node, d \in Data :
          InsertNew(p, n, d) => Abstract!InsertNew(p, n, d)
    /\ \A l, m \in List : ObjAdd(l, m) => Abstract!ObjAdd(l, m)
    /\ \A l \in List : \A p \in Range(Items(heap, lst[l])) :
          ObjDel(l, p) => Abstract!ObjDel(l, p)
    /\ \A l \in List :
          /\ FreeAll(l) => Abstract!FreeAll(l)
          /\ ListReverse(l) => Abstract!ListReverse(l)
    /\ sort # Idle => UNCHANGED Abstract!specVars \/ Abstract!Settle(sort.list)

\* The lists are sequences, and every function does to the sequence of the list it
\* is called for what list.h says and leaves the other lists alone, from wherever in
\* the list the caller's pointer points: list_obj_add_new puts its item behind all
\* others, list_obj_del takes out the very item it was given.
Implements == Abstract!Spec /\ [][SameCall]_vars
=============================================================================
