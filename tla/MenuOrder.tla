------------------------------ MODULE MenuOrder ------------------------------
(***************************************************************************)
(* embloader_sort_menu_loaders, called after every source of entries, and    *)
(* what is selected from a list without changing the order.                  *)
(***************************************************************************)
EXTENDS Naturals, FiniteSets, Sequences

\* A sequence of any elements
IsSequence(s) == Len(s) \in Nat /\ s = [k \in 1..Len(s) |-> s[k]]

\* Ascending, and entries of equal priority stay as they are: what list_sort
\* does, see SortStable of LinkedList.
SortByPriority(loaders) ==
    LET before(i, j) == \/ loaders[i].priority < loaders[j].priority
                        \/ loaders[i].priority = loaders[j].priority /\ i < j
        rank(j) == Cardinality({i \in DOMAIN loaders : before(i, j)}) + 1
    IN  [k \in DOMAIN loaders |->
           loaders[CHOOSE j \in DOMAIN loaders : rank(j) = k]]

\* The members of a finite set of numbers, ascending
Ascending(S) ==
    [k \in 1..Cardinality(S) |->
       CHOOSE i \in S : Cardinality({j \in S : j < i}) + 1 = k]

\* The elements of a sequence at the places of S, in their order
Selection(s, S) == LET at == Ascending(S) IN [k \in DOMAIN at |-> s[at[k]]]
=============================================================================
