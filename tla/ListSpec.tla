------------------------------ MODULE ListSpec ------------------------------
(***************************************************************************)
(* What the callers of lib/list.c rely on: a list is a sequence of items,    *)
(* each in one list at a time, and each function does to the sequence of the *)
(* list it is called for what its name and list.h say, and nothing to any    *)
(* other.                                                                    *)
(***************************************************************************)
EXTENDS Naturals, SequencesExt

CONSTANTS
    Node,     \* items
    Data,     \* what a sorter compares, natural numbers
    List      \* lists

VARIABLES
    val,      \* val[l]: the items of list l, in order
    key       \* key[n]: the data of item n, for the items in some list

specVars == <<val, key>>

Init == val = [l \in List |-> <<>>] /\ key = <<>>

\* The new item n has data d.
Create(n, d) ==
    /\ n \notin DOMAIN key
    /\ key' = [m \in DOMAIN key \cup {n} |-> IF m = n THEN d ELSE key[m]]

\* The items in gone are freed.
Drop(gone) == key' = [n \in DOMAIN key \ gone |-> key[n]]

\* Where item p is in a list
Positions(s, p) == {i \in 1..Len(s) : s[i] = p}

\* Where two neighbours of a list are out of order, and the list without that
Descents(s) == {i \in 1..(Len(s) - 1) : key[s[i]] > key[s[i + 1]]}
Exchanged(s, i) == [s EXCEPT ![i] = s[i + 1], ![i + 1] = s[i]]

\* "new and add item to list end": behind all items of list l.
ObjAddNew(l, n, d) ==
    /\ Create(n, d)
    /\ val' = [val EXCEPT ![l] = Append(@, n)]

\* "new and add item to list head": before all items of list l.
ObjInsertNew(l, n, d) ==
    /\ Create(n, d)
    /\ val' = [val EXCEPT ![l] = InsertAt(@, 1, n)]

\* "new and add new before point": in the list that has item p, before it.
InsertNew(p, n, d) ==
    /\ Create(n, d)
    /\ \E l \in List : \E i \in Positions(val[l], p) :
          val' = [val EXCEPT ![l] = InsertAt(@, i, n)]

\* "add item to list end": all of list m, which is list l from now on.
ObjAdd(l, m) ==
    /\ l # m
    /\ UNCHANGED key
    /\ val' = [val EXCEPT ![l] = @ \o val[m], ![m] = <<>>]

\* "delete item from a list": item p of list l.
ObjDel(l, p) ==
    /\ Drop({p})
    /\ \E i \in Positions(val[l], p) : val' = [val EXCEPT ![l] = RemoveAt(@, i)]

\* "free all items in list"
FreeAll(l) ==
    /\ Drop(Range(val[l]))
    /\ val' = [val EXCEPT ![l] = <<>>]

\* "reverse a list"
ListReverse(l) ==
    /\ UNCHANGED key
    /\ val' = [val EXCEPT ![l] = Reverse(@)]

\* "sort a list", step by step: two neighbours of list l that are out of order change
\* places.
Settle(l) ==
    /\ UNCHANGED key
    /\ \E i \in Descents(val[l]) : val' = [val EXCEPT ![l] = Exchanged(@, i)]

Next ==
    \/ \E l \in List, n \in Node, d \in Data : ObjAddNew(l, n, d) \/ ObjInsertNew(l, n, d)
    \/ \E p \in DOMAIN key, n \in Node, d \in Data : InsertNew(p, n, d)
    \/ \E l, m \in List : ObjAdd(l, m)
    \/ \E l \in List, p \in DOMAIN key : ObjDel(l, p)
    \/ \E l \in List : FreeAll(l) \/ ListReverse(l) \/ Settle(l)

Spec == Init /\ [][Next]_specVars
=============================================================================
