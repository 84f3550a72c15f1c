--------------------------- MODULE LibraryProofs ----------------------------
(***************************************************************************)
(* Theorems about two parts of the program that stand on their own: the     *)
(* linked list (LinkedList) and the log (Log).                              *)
(***************************************************************************)
EXTENDS LinkedList, Log, Recursion, FiniteSetTheorems, TLAPS

-----------------------------------------------------------------------------
(***************************************************************************)
(* lib/list.c, for lists of any length and any number of them: the pointers   *)
(* implement sequences, and list_sort is a stable sort.                      *)
(*                                                                           *)
(* The invariant says which sequences the lists are (Core): every allocated   *)
(* item is in exactly one of them, and the pointer of a list is NULL or some   *)
(* item of it.  During list_sort it says too that the list is a stable        *)
(* rearrangement of what list_sort found, and that the pairs the cursor has   *)
(* passed in a pass without a swap are in order (SortInv).                    *)
(***************************************************************************)

\* The pointers of a heap are NULL or allocated.
HeapOK(h) ==
    h \in [DOMAIN h -> [prev : DOMAIN h \cup {NULL}, next : DOMAIN h \cup {NULL},
                        data : Data]]

\* A heap of finitely many items, none of them at NULL
HeapTyped(h) == HeapOK(h) /\ IsFiniteSet(DOMAIN h) /\ NULL \notin DOMAIN h

\* The items of s, and no others, are one list, in this order.
IsList(h, s) ==
    /\ s \in Seq(DOMAIN h)
    /\ \A i, j \in 1..Len(s) : s[i] = s[j] => i = j
    /\ \A i \in 1..Len(s) :
         /\ h[s[i]].prev = IF i = 1 THEN NULL ELSE s[i - 1]
         /\ h[s[i]].next = IF i = Len(s) THEN NULL ELSE s[i + 1]

-----------------------------------------------------------------------------
(* Walks *)

\* What a walk meets, step by step
IsWalk(at, h, p, way) ==
    /\ DOMAIN at = 0..Cardinality(DOMAIN h)
    /\ at[0] = p
    /\ \A k \in 1..Cardinality(DOMAIN h) :
         at[k] = IF at[k - 1] = NULL THEN NULL ELSE h[at[k - 1]][way]

\* A walk over the heap is defined, and goes from each item to the next on its way.
LEMMA WalkSteps ==
    ASSUME NEW h, HeapTyped(h), NEW p \in DOMAIN h, NEW way \in {"prev", "next"}
    PROVE  IsWalk(Walk(h, p, way), h, p, way)
  <1> DEFINE n == Cardinality(DOMAIN h)
             X == DOMAIN h \cup {NULL}
             St(x) == IF x = NULL THEN NULL ELSE h[x][way]
             Body(f) == [k \in 0..n |-> IF k = 0 THEN p ELSE
                           IF f[k - 1] = NULL THEN NULL ELSE h[f[k - 1]][way]]
             r == CHOOSE f : f = Body(f)
             step == [q \in X \X (1..n) |-> St(q[1])]
  <1>1. \A x \in X : St(x) \in X
    BY DEF HeapTyped, HeapOK
  <1>2. Walk(h, p, way) = r
    BY Zenon DEF Walk
  <1>3. p \in X
    OBVIOUS
  <1>n. n \in Nat
    BY FS_CardinalityType DEF HeapTyped
  <1> HIDE DEF n, X
  <1>4. IsStep(step, X, n)
    <2> HIDE DEF St
    <2> QED BY <1>1 DEF IsStep
  <1>5. \A x \in X, k \in 1..n : step[<<x, k>>] = St(x)
    <2> HIDE DEF St
    <2> QED OBVIOUS
  <1> HIDE DEF step
  <1>6. PICK g : Iterates(g, X, n, p, step)
    BY <1>n, <1>3, <1>4, Iteration, Zenon
  <1>7. g = Body(g)
    <2>1. g \in [0..n -> X] /\ g[0] = p
      BY <1>6 DEF Iterates
    <2>2. ASSUME NEW k \in 0..n, k # 0 PROVE g[k] = St(g[k - 1])
      <3>1. k \in 1..n /\ k - 1 \in 0..n
        BY <1>n, <2>2
      <3> HIDE DEF St
      <3> QED BY <1>5, <1>6, <2>1, <3>1 DEF Iterates
    <2> QED BY <2>1, <2>2
  <1>8. r = Body(r)
    <2> HIDE DEF Body
    <2> QED BY <1>7, Zenon
  <1> HIDE DEF r
  <1>9. /\ DOMAIN r = 0..n
        /\ r[0] = p
        /\ \A k \in 1..n : r[k] = St(r[k - 1])
    <2> DEFINE B == Body(r)
    <2>1. /\ DOMAIN B = 0..n
          /\ B[0] = p
          /\ \A k \in 1..n : B[k] = St(r[k - 1])
      BY <1>n
    <2> HIDE DEF B
    <2> QED BY <1>8, <2>1 DEF B
  <1> QED BY <1>2, <1>9 DEF n, IsWalk

\* A list has no more items than there are.
LEMMA ListLength ==
    ASSUME NEW h, HeapTyped(h), NEW s, IsList(h, s)
    PROVE  Len(s) \in Nat /\ Cardinality(DOMAIN h) \in Nat /\ Len(s) <= Cardinality(DOMAIN h)
  <1> DEFINE n == Len(s)
             D == DOMAIN h
  <1>1. n \in Nat /\ s \in [1..n -> D] /\ IsFiniteSet(D)
    BY DEF IsList, HeapTyped
  <1>2. \A i, j \in 1..n : s[i] = s[j] => i = j
    BY DEF IsList
  <1> HIDE DEF n, D
  <1>3. s \in Injection(1..n, D)
    BY <1>1, <1>2 DEF Injection, IsInjective
  <1>4. Cardinality(1..n) <= Cardinality(D)
    BY <1>1, <1>3, FS_Injection
  <1>5. Cardinality(1..n) = n
    BY <1>1, FS_Interval
  <1>6. Cardinality(D) \in Nat
    BY <1>1, FS_CardinalityType
  <1> QED BY <1>1, <1>4, <1>5, <1>6 DEF n, D

\* From the item at position i a walk along prev meets the items before it.
LEMMA WalkBack ==
    ASSUME NEW h, HeapTyped(h), NEW s, IsList(h, s), NEW i \in 1..Len(s)
    PROVE  \A k \in 0..Cardinality(DOMAIN h) :
             Walk(h, s[i], "prev")[k] = IF k < i THEN s[i - k] ELSE NULL
  <1> DEFINE n == Cardinality(DOMAIN h)
             at == Walk(h, s[i], "prev")
             S == {k \in 0..n : at[k] = IF k < i THEN s[i - k] ELSE NULL}
  <1>1. n \in Nat /\ Len(s) \in Nat /\ i \in Nat
    BY ListLength
  <1>2. \A j \in 1..Len(s) : s[j] \in DOMAIN h /\ s[j] # NULL
    BY DEF IsList, HeapTyped
  <1>3. /\ at[0] = s[i]
        /\ \A k \in 1..n : at[k] = IF at[k - 1] = NULL THEN NULL ELSE h[at[k - 1]].prev
    BY <1>2, WalkSteps DEF IsWalk
  <1> HIDE DEF at, n
  <1>4. 0 \in S
    BY <1>1, <1>3
  <1>5. ASSUME NEW k \in 0..(n - 1), k \in S PROVE k + 1 \in S
    <2>1. k + 1 \in 1..n /\ (k + 1) - 1 = k /\ k + 1 \in 0..n
      BY <1>1
    <2>2. at[k + 1] = IF at[k] = NULL THEN NULL ELSE h[at[k]].prev
      BY <1>3, <2>1
    <2>3. CASE k >= i
      BY <1>1, <1>5, <2>1, <2>2, <2>3
    <2>4. CASE k < i
      <3>1. at[k] = s[i - k] /\ i - k \in 1..Len(s)
        BY <1>1, <1>5, <2>4
      <3>2. h[s[i - k]].prev = IF i - k = 1 THEN NULL ELSE s[(i - k) - 1]
        BY <3>1 DEF IsList
      <3>3. at[k + 1] = IF i - k = 1 THEN NULL ELSE s[(i - k) - 1]
        BY <1>2, <2>2, <3>1, <3>2
      <3>4. (k + 1 < i) = ~(i - k = 1)
        BY <1>1, <2>4
      <3>5. i - (k + 1) = (i - k) - 1
        BY <1>1
      <3> QED BY <2>1, <3>3, <3>4, <3>5
    <2> QED BY <1>1, <2>3, <2>4
  <1>6. \A k \in 0..n : k \in S
    <2> HIDE DEF S
    <2> QED BY <1>1, <1>4, <1>5, SetInduction
  <1> QED BY <1>6 DEF at, n

\* From the item at position i a walk along next meets the items after it.
LEMMA WalkForward ==
    ASSUME NEW h, HeapTyped(h), NEW s, IsList(h, s), NEW i \in 1..Len(s)
    PROVE  \A k \in 0..Cardinality(DOMAIN h) :
             Walk(h, s[i], "next")[k] = IF i + k <= Len(s) THEN s[i + k] ELSE NULL
  <1> DEFINE n == Cardinality(DOMAIN h)
             at == Walk(h, s[i], "next")
             S == {k \in 0..n : at[k] = IF i + k <= Len(s) THEN s[i + k] ELSE NULL}
  <1>1. n \in Nat /\ Len(s) \in Nat /\ i \in Nat /\ i <= Len(s)
    BY ListLength
  <1>2. \A j \in 1..Len(s) : s[j] \in DOMAIN h /\ s[j] # NULL
    BY DEF IsList, HeapTyped
  <1>3. /\ at[0] = s[i]
        /\ \A k \in 1..n : at[k] = IF at[k - 1] = NULL THEN NULL ELSE h[at[k - 1]].next
    BY <1>2, WalkSteps DEF IsWalk
  <1> HIDE DEF at, n
  <1>4. 0 \in S
    BY <1>1, <1>3
  <1>5. ASSUME NEW k \in 0..(n - 1), k \in S PROVE k + 1 \in S
    <2>1. k + 1 \in 1..n /\ (k + 1) - 1 = k /\ k + 1 \in 0..n
      BY <1>1
    <2>2. at[k + 1] = IF at[k] = NULL THEN NULL ELSE h[at[k]].next
      BY <1>3, <2>1
    <2>3. CASE i + k > Len(s)
      BY <1>1, <1>5, <2>1, <2>2, <2>3
    <2>4. CASE i + k <= Len(s)
      <3>1. at[k] = s[i + k] /\ i + k \in 1..Len(s)
        BY <1>1, <1>5, <2>4
      <3>2. h[s[i + k]].next = IF i + k = Len(s) THEN NULL ELSE s[(i + k) + 1]
        BY <3>1 DEF IsList
      <3>3. at[k + 1] = IF i + k = Len(s) THEN NULL ELSE s[(i + k) + 1]
        BY <1>2, <2>2, <3>1, <3>2
      <3>4. (i + (k + 1) <= Len(s)) = ~(i + k = Len(s))
        BY <1>1, <2>4
      <3>5. i + (k + 1) = (i + k) + 1
        BY <1>1
      <3> QED BY <2>1, <3>3, <3>4, <3>5
    <2> QED BY <1>1, <2>3, <2>4
  <1>6. \A k \in 0..n : k \in S
    <2> HIDE DEF S
    <2> QED BY <1>1, <1>4, <1>5, SetInduction
  <1> QED BY <1>6 DEF at, n

\* list_first and list_last find the ends from any item of the list.
LEMMA FirstIs ==
    ASSUME NEW h, HeapTyped(h), NEW s, IsList(h, s), NEW i \in 1..Len(s)
    PROVE  ListFirst(h, s[i]) = s[1]
  <1> DEFINE n == Cardinality(DOMAIN h)
             p == s[i]
             at == Walk(h, p, "prev")
             met == {at[k] : k \in DOMAIN at} \ {NULL}
  <1>1. n \in Nat /\ Len(s) \in Nat /\ Len(s) <= n /\ i \in Nat /\ i <= Len(s)
    BY ListLength
  <1>2. \A j \in 1..Len(s) : s[j] \in DOMAIN h /\ s[j] # NULL
    BY DEF IsList, HeapTyped
  <1>3. DOMAIN at = 0..n
    BY <1>2, WalkSteps DEF IsWalk
  <1>4. \A k \in 0..n : at[k] = IF k < i THEN s[i - k] ELSE NULL
    BY WalkBack
  <1> HIDE DEF at, n
  <1>5. \A k \in DOMAIN at \ {0} : at[k] # p
    <2> SUFFICES ASSUME NEW k \in 1..n, at[k] = s[i] PROVE FALSE
      BY <1>1, <1>3
    <2>1. CASE k < i
      <3>1. i - k \in 1..Len(s) /\ i - k # i /\ s[i - k] = s[i]
        BY <1>1, <1>4, <2>1
      <3> QED BY <3>1 DEF IsList
    <2>2. CASE ~(k < i)
      BY <1>1, <1>2, <1>4, <2>2
    <2> QED BY <2>1, <2>2
  <1>6. ASSUME NEW m \in met PROVE \E j \in 1..i : m = s[j]
    <2>1. PICK k \in 0..n : m = at[k] /\ m # NULL
      BY <1>3
    <2>2. k < i /\ m = s[i - k] /\ i - k \in 1..i
      BY <1>1, <1>4, <2>1
    <2> QED BY <2>2
  <1>7. s[1] \in met /\ h[s[1]].prev = NULL
    <2>1. i - 1 \in 0..n /\ i - 1 < i /\ i - (i - 1) = 1 /\ 1 \in 1..Len(s)
      BY <1>1
    <2>2. at[i - 1] = s[1]
      BY <1>4, <2>1
    <2>3. h[s[1]].prev = NULL
      BY <2>1 DEF IsList
    <2> QED BY <1>2, <1>3, <2>1, <2>2, <2>3
  <1>8. ASSUME NEW m \in met, h[m].prev = NULL PROVE m = s[1]
    <2>1. PICK j \in 1..i : m = s[j]
      BY <1>6
    <2>2. j \in 1..Len(s)
      BY <1>1
    <2>3. h[s[j]].prev = IF j = 1 THEN NULL ELSE s[j - 1]
      BY <2>2 DEF IsList
    <2>4. j # 1 => j - 1 \in 1..Len(s)
      BY <1>1, <2>2
    <2> QED BY <1>2, <1>8, <2>1, <2>3, <2>4
  <1> HIDE DEF met
  <1>9. (CHOOSE m \in met : h[m].prev = NULL) = s[1]
    BY <1>7, <1>8
  <1> QED BY <1>5, <1>9 DEF ListFirst, End, at, met

\* list_last finds the last item of a list from any of them.
LEMMA LastIs ==
    ASSUME NEW h, HeapTyped(h), NEW s, IsList(h, s), NEW i \in 1..Len(s)
    PROVE  ListLast(h, s[i]) = s[Len(s)]
  <1> DEFINE n == Cardinality(DOMAIN h)
             p == s[i]
             at == Walk(h, p, "next")
             met == {at[k] : k \in DOMAIN at} \ {NULL}
  <1>1. n \in Nat /\ Len(s) \in Nat /\ Len(s) <= n /\ i \in Nat /\ i <= Len(s) /\ 1 <= i
    BY ListLength
  <1>2. \A j \in 1..Len(s) : s[j] \in DOMAIN h /\ s[j] # NULL
    BY DEF IsList, HeapTyped
  <1>3. DOMAIN at = 0..n
    BY <1>2, WalkSteps DEF IsWalk
  <1>4. \A k \in 0..n : at[k] = IF i + k <= Len(s) THEN s[i + k] ELSE NULL
    BY WalkForward
  <1> HIDE DEF at, n
  <1>5. \A k \in DOMAIN at \ {0} : at[k] # p
    <2> SUFFICES ASSUME NEW k \in 1..n, at[k] = s[i] PROVE FALSE
      BY <1>1, <1>3
    <2>1. CASE i + k <= Len(s)
      <3>1. i + k \in 1..Len(s) /\ i + k # i /\ s[i + k] = s[i]
        BY <1>1, <1>4, <2>1
      <3> QED BY <3>1 DEF IsList
    <2>2. CASE ~(i + k <= Len(s))
      BY <1>1, <1>2, <1>4, <2>2
    <2> QED BY <2>1, <2>2
  <1>6. ASSUME NEW m \in met PROVE \E j \in 1..Len(s) : m = s[j]
    <2>1. PICK k \in 0..n : m = at[k] /\ m # NULL
      BY <1>3
    <2>2. m = s[i + k] /\ i + k \in 1..Len(s)
      BY <1>1, <1>4, <2>1
    <2> QED BY <2>2
  <1>7. s[Len(s)] \in met /\ h[s[Len(s)]].next = NULL
    <2>1. Len(s) - i \in 0..n /\ i + (Len(s) - i) = Len(s) /\ Len(s) \in 1..Len(s)
      BY <1>1
    <2>2. at[Len(s) - i] = s[Len(s)]
      <3>1. PICK k \in 0..n : k = Len(s) - i
        BY <2>1
      <3>2. i + k = Len(s) /\ i + k <= Len(s)
        BY <1>1, <3>1
      <3>3. at[k] = s[i + k]
        BY <1>4, <3>2
      <3>4. at[Len(s) - i] = at[k] /\ s[i + k] = s[Len(s)]
        BY <3>1, <3>2, Zenon
      <3> QED BY <3>3, <3>4, Zenon
    <2>3. h[s[Len(s)]].next = NULL
      BY <2>1 DEF IsList
    <2> QED BY <1>2, <1>3, <2>1, <2>2, <2>3
  <1>8. ASSUME NEW m \in met, h[m].next = NULL PROVE m = s[Len(s)]
    <2>1. PICK j \in 1..Len(s) : m = s[j]
      BY <1>6
    <2>3. h[s[j]].next = IF j = Len(s) THEN NULL ELSE s[j + 1]
      BY DEF IsList
    <2>4. j # Len(s) => j + 1 \in 1..Len(s)
      BY <1>1
    <2> QED BY <1>2, <1>8, <2>1, <2>3, <2>4
  <1> HIDE DEF met
  <1>9. (CHOOSE m \in met : h[m].next = NULL) = s[Len(s)]
    BY <1>7, <1>8
  <1> QED BY <1>5, <1>9 DEF ListLast, End, at, met

\* A loop over the list sees its items, from wherever in the list it starts.
LEMMA ItemsAre ==
    ASSUME NEW h, HeapTyped(h), NEW s, IsList(h, s), NEW i \in 1..Len(s)
    PROVE  Items(h, s[i]) = s
  <1> DEFINE n == Cardinality(DOMAIN h)
             at == Walk(h, s[1], "next")
             met == {k \in DOMAIN at : at[k] # NULL}
  <1>1. n \in Nat /\ Len(s) \in Nat /\ Len(s) <= n /\ 1 \in 1..Len(s)
    BY ListLength
  <1>2. \A j \in 1..Len(s) : s[j] \in DOMAIN h /\ s[j] # NULL
    BY DEF IsList, HeapTyped
  <1>3. DOMAIN at = 0..n
    BY <1>1, <1>2, WalkSteps DEF IsWalk
  <1>4. \A k \in 0..n : at[k] = IF 1 + k <= Len(s) THEN s[1 + k] ELSE NULL
    BY <1>1, WalkForward
  <1>5. Items(h, s[i]) = [j \in 1..Cardinality(met) |-> at[j - 1]]
    BY <1>2, FirstIs DEF Items
  <1> HIDE DEF at, n
  <1>6. met = 0..(Len(s) - 1)
    <2>1. ASSUME NEW k \in met PROVE k \in 0..(Len(s) - 1)
      BY <1>1, <1>3, <1>4
    <2>2. ASSUME NEW k \in 0..(Len(s) - 1) PROVE k \in met
      <3>1. k \in 0..n /\ 1 + k \in 1..Len(s) /\ 1 + k <= Len(s)
        BY <1>1
      <3> QED BY <1>2, <1>3, <1>4, <3>1
    <2> HIDE DEF met
    <2> QED BY <2>1, <2>2
  <1>7. Cardinality(met) = Len(s)
    <2>1. Cardinality(0..(Len(s) - 1)) = (Len(s) - 1) - 0 + 1
      <3>1. 0 \in Int /\ Len(s) - 1 \in Int /\ ~(0 > Len(s) - 1)
        BY <1>1
      <3> QED BY <3>1, FS_Interval
    <2> QED BY <1>1, <1>6, <2>1
  <1>8. \A j \in 1..Len(s) : at[j - 1] = s[j]
    <2> TAKE j \in 1..Len(s)
    <2>1. j - 1 \in 0..n /\ 1 + (j - 1) = j /\ j <= Len(s)
      BY <1>1
    <2> QED BY <1>4, <2>1
  <1>9. s = [j \in 1..Len(s) |-> s[j]]
    BY DEF IsList
  <1> HIDE DEF met
  <1> QED BY <1>5, <1>7, <1>8, <1>9

-----------------------------------------------------------------------------
(* The lists of a heap *)

\* The pointer of a list is NULL, or points to one of its items.
Names(p, s) == (p = NULL /\ s = <<>>) \/ \E i \in 1..Len(s) : p = s[i]

\* v has the items of every list: the lists share no item, and every allocated
\* item is in a list, so that nothing leaks.
Holds(h, p, v) ==
    /\ DOMAIN v = List
    /\ \A l \in List : IsList(h, v[l]) /\ Names(p[l], v[l])
    /\ \A l, m \in List : \A i \in 1..Len(v[l]), j \in 1..Len(v[m]) :
          v[l][i] = v[m][j] => l = m
    /\ \A x \in DOMAIN h : \E l \in List : \E i \in 1..Len(v[l]) : x = v[l][i]

Val(h, p) == [l \in List |-> Items(h, p[l])]

\* The lists that a heap holds are the ones that a loop over them sees.
LEMMA ValIs ==
    ASSUME NEW h, HeapTyped(h), NEW p, NEW v, Holds(h, p, v), 
           v = [l \in DOMAIN v |-> v[l]]
    PROVE  Val(h, p) = v
  <1>1. ASSUME NEW l \in List PROVE Items(h, p[l]) = v[l]
    <2>1. IsList(h, v[l]) /\ Names(p[l], v[l])
      BY DEF Holds
    <2>2. CASE p[l] = NULL /\ v[l] = <<>>
      BY <2>2 DEF Items
    <2>3. CASE \E i \in 1..Len(v[l]) : p[l] = v[l][i]
      BY <2>1, <2>3, ItemsAre
    <2> QED BY <2>1, <2>2, <2>3 DEF Names
  <1>2. DOMAIN v = List
    BY DEF Holds
  <1> QED BY <1>1, <1>2 DEF Val

\* Both directions of the lists agree.
LEMMA HoldsLinked ==
    ASSUME NEW h, NULL \notin DOMAIN h, NEW p, NEW v, Holds(h, p, v), NEW x \in DOMAIN h
    PROVE  /\ h[x].next # NULL => h[h[x].next].prev = x
           /\ h[x].prev # NULL => h[h[x].prev].next = x
  <1>1. PICK l \in List : \E i \in 1..Len(v[l]) : x = v[l][i]
    BY DEF Holds
  <1> DEFINE s == v[l]
  <1>2. IsList(h, s)
    BY DEF Holds
  <1>3. PICK i \in 1..Len(s) : x = s[i]
    BY <1>1
  <1> HIDE DEF s
  <1>4. Len(s) \in Nat
    BY <1>2 DEF IsList
  <1>5. /\ h[x].prev = IF i = 1 THEN NULL ELSE s[i - 1]
        /\ h[x].next = IF i = Len(s) THEN NULL ELSE s[i + 1]
    BY <1>2, <1>3 DEF IsList
  <1>6. ASSUME i # Len(s) PROVE h[h[x].next].prev = x
    <2>1. i + 1 \in 1..Len(s) /\ i + 1 # 1 /\ (i + 1) - 1 = i
      BY <1>4, <1>6
    <2>2. h[s[i + 1]].prev = s[i]
      BY <1>2, <2>1 DEF IsList
    <2> QED BY <1>3, <1>5, <1>6, <2>2
  <1>7. ASSUME i # 1 PROVE h[h[x].prev].next = x
    <2>1. i - 1 \in 1..Len(s) /\ i - 1 # Len(s) /\ (i - 1) + 1 = i
      BY <1>4, <1>7
    <2>2. h[s[i - 1]].next = s[i]
      BY <1>2, <2>1 DEF IsList
    <2> QED BY <1>3, <1>5, <1>7, <2>2
  <1> QED BY <1>5, <1>6, <1>7

\* A list that no step touches stays a list.
LEMMA FrameList ==
    ASSUME NEW h, NEW g, NEW s, IsList(h, s),
           \A i \in 1..Len(s) : /\ s[i] \in DOMAIN g
                                /\ g[s[i]].prev = h[s[i]].prev
                                /\ g[s[i]].next = h[s[i]].next
    PROVE  IsList(g, s)
  <1>1. s \in Seq(DOMAIN g)
    <2>1. Len(s) \in Nat /\ s = [i \in 1..Len(s) |-> s[i]]
      BY DEF IsList
    <2> QED BY <2>1
  <1> QED BY <1>1 DEF IsList

-----------------------------------------------------------------------------
(* Sequences *)

\* What \o of two sequences is, item by item
LEMMA ConcatIs ==
    ASSUME NEW T, NEW a \in Seq(T), NEW b \in Seq(T)
    PROVE  /\ a \o b \in Seq(T)
           /\ Len(a \o b) = Len(a) + Len(b)
           /\ \A j \in 1..Len(a) : (a \o b)[j] = a[j]
           /\ \A j \in (Len(a) + 1)..(Len(a) + Len(b)) : (a \o b)[j] = b[j - Len(a)]
  <1>1. a \o b \in Seq(T) /\ Len(a) \in Nat /\ Len(b) \in Nat
    OBVIOUS
  <1>2. /\ Len(a \o b) = Len(a) + Len(b)
        /\ \A j \in 1..Len(a) : (a \o b)[j] = a[j]
    OBVIOUS
  <1>3. ASSUME NEW j \in (Len(a) + 1)..(Len(a) + Len(b))
        PROVE  (a \o b)[j] = b[j - Len(a)]
    <2>1. j \in 1..(Len(a) + Len(b)) /\ ~(j <= Len(a))
      BY <1>1
    <2> QED BY <1>1, <2>1
  <1> QED BY <1>1, <1>2, <1>3

\* What InsertAt is, item by item
LEMMA InsertAtIs ==
    ASSUME NEW T, NEW s \in Seq(T), NEW i \in 1..(Len(s) + 1), NEW n \in T
    PROVE  /\ InsertAt(s, i, n) \in Seq(T)
           /\ Len(InsertAt(s, i, n)) = Len(s) + 1
           /\ \A j \in 1..(Len(s) + 1) :
                InsertAt(s, i, n)[j] = IF j < i THEN s[j] ELSE IF j = i THEN n ELSE s[j - 1]
  <1> DEFINE a == SubSeq(s, 1, i - 1)
             b == SubSeq(s, i, Len(s))
             c == a \o <<n>>
  <1>0. Len(s) \in Nat /\ i \in Nat /\ 1 <= i /\ i <= Len(s) + 1
    OBVIOUS
  <1>1. /\ a \in Seq(T) /\ Len(a) = i - 1
        /\ \A j \in 1..(i - 1) : a[j] = s[j]
    BY <1>0
  <1>2. /\ b \in Seq(T) /\ Len(b) = Len(s) - i + 1
        /\ \A j \in 1..(Len(s) - i + 1) : b[j] = s[i + j - 1]
    BY <1>0
  <1>3. InsertAt(s, i, n) = c \o b
    BY DEF InsertAt
  <1> HIDE DEF a, b
  <1>4. /\ c \in Seq(T) /\ Len(c) = i
        /\ \A j \in 1..i : c[j] = IF j < i THEN s[j] ELSE n
    BY <1>0, <1>1
  <1> HIDE DEF c
  <1>5. /\ c \o b \in Seq(T) /\ Len(c \o b) = Len(c) + Len(b)
        /\ \A j \in 1..Len(c) : (c \o b)[j] = c[j]
        /\ \A j \in (Len(c) + 1)..(Len(c) + Len(b)) : (c \o b)[j] = b[j - Len(c)]
    BY <1>2, <1>4, ConcatIs
  <1>6. ASSUME NEW j \in 1..(Len(s) + 1)
        PROVE  (c \o b)[j] = IF j < i THEN s[j] ELSE IF j = i THEN n ELSE s[j - 1]
    <2>1. CASE j <= i
      <3>1. j \in 1..Len(c) /\ j \in 1..i
        BY <1>0, <1>4, <2>1
      <3>2. (c \o b)[j] = IF j < i THEN s[j] ELSE n
        BY <1>4, <1>5, <3>1
      <3>3. ~(j < i) => j = i
        BY <1>0, <2>1
      <3> QED BY <3>2, <3>3
    <2>2. CASE j > i
      <3>1. /\ j \in (Len(c) + 1)..(Len(c) + Len(b))
            /\ j - Len(c) \in 1..(Len(s) - i + 1)
            /\ i + (j - Len(c)) - 1 = j - 1
            /\ ~(j < i) /\ j # i
        BY <1>0, <1>2, <1>4, <2>2
      <3>2. (c \o b)[j] = b[j - Len(c)]
        BY <1>5, <3>1
      <3>3. b[j - Len(c)] = s[i + (j - Len(c)) - 1]
        BY <1>2, <3>1
      <3> QED BY <3>1, <3>2, <3>3
    <2>3. j <= i \/ j > i
      BY <1>0
    <2> QED BY <2>1, <2>2, <2>3
  <1>7. Len(c \o b) = Len(s) + 1
    BY <1>0, <1>2, <1>4, <1>5
  <1> QED BY <1>3, <1>5, <1>6, <1>7

\* What RemoveAt is, item by item
LEMMA RemoveAtIs ==
    ASSUME NEW T, NEW s \in Seq(T), NEW i \in 1..Len(s)
    PROVE  /\ RemoveAt(s, i) \in Seq(T)
           /\ Len(RemoveAt(s, i)) = Len(s) - 1
           /\ \A j \in 1..(Len(s) - 1) :
                RemoveAt(s, i)[j] = IF j < i THEN s[j] ELSE s[j + 1]
  <1> DEFINE a == SubSeq(s, 1, i - 1)
             b == SubSeq(s, i + 1, Len(s))
  <1>0. Len(s) \in Nat /\ i \in Nat /\ 1 <= i /\ i <= Len(s)
    OBVIOUS
  <1>1. /\ a \in Seq(T) /\ Len(a) = i - 1
        /\ \A j \in 1..(i - 1) : a[j] = s[j]
    BY <1>0
  <1>2. /\ b \in Seq(T) /\ Len(b) = Len(s) - i
        /\ \A j \in 1..(Len(s) - i) : b[j] = s[i + j]
    BY <1>0
  <1>3. RemoveAt(s, i) = a \o b
    BY DEF RemoveAt
  <1> HIDE DEF a, b
  <1>4. /\ a \o b \in Seq(T) /\ Len(a \o b) = Len(a) + Len(b)
        /\ \A j \in 1..Len(a) : (a \o b)[j] = a[j]
        /\ \A j \in (Len(a) + 1)..(Len(a) + Len(b)) : (a \o b)[j] = b[j - Len(a)]
    <2>1. a \in Seq(T) /\ b \in Seq(T)
      BY <1>1, <1>2
    <2> QED BY ONLY <2>1, ConcatIs
  <1>5. ASSUME NEW j \in 1..(Len(s) - 1)
        PROVE  (a \o b)[j] = IF j < i THEN s[j] ELSE s[j + 1]
    <2>1. CASE j < i
      <3>1. j \in 1..Len(a) /\ j \in 1..(i - 1)
        BY <1>0, <1>1, <2>1
      <3> QED BY <1>1, <1>4, <2>1, <3>1
    <2>2. CASE ~(j < i)
      <3>1. /\ j \in (Len(a) + 1)..(Len(a) + Len(b))
            /\ j - Len(a) \in 1..(Len(s) - i)
            /\ i + (j - Len(a)) = j + 1
        BY <1>0, <1>1, <1>2, <2>2
      <3>2. (a \o b)[j] = b[j - Len(a)]
        BY <1>4, <3>1
      <3>3. b[j - Len(a)] = s[i + (j - Len(a))]
        BY <1>2, <3>1
      <3> QED BY <2>2, <3>1, <3>2, <3>3
    <2> QED BY <2>1, <2>2
  <1>6. Len(a \o b) = Len(s) - 1
    BY <1>0, <1>1, <1>2, <1>4
  <1> QED BY <1>3, <1>4, <1>5, <1>6

-----------------------------------------------------------------------------
(* A new item *)

\* g is h with item n put before position i of the list s.
Inserted(h, g, s, i, n, d) ==
    /\ DOMAIN g = DOMAIN h \cup {n}
    /\ HeapOK(g)
    /\ g[n].data = d
    /\ g[n].prev = IF i = 1 THEN NULL ELSE s[i - 1]
    /\ g[n].next = IF i = Len(s) + 1 THEN NULL ELSE s[i]
    /\ \A x \in DOMAIN h :
         /\ g[x].data = h[x].data
         /\ g[x].next = IF i # 1 /\ x = s[i - 1] THEN n ELSE h[x].next
         /\ g[x].prev = IF i # Len(s) + 1 /\ x = s[i] THEN n ELSE h[x].prev

\* The list that an item was put into is the sequence with the item in it.
LEMMA InsertedList ==
    ASSUME NEW h, NEW g, NEW s, IsList(h, s), NEW i \in 1..(Len(s) + 1),
           NEW n, n \notin DOMAIN h, NEW d, Inserted(h, g, s, i, n, d)
    PROVE  IsList(g, InsertAt(s, i, n))
  <1> DEFINE t == InsertAt(s, i, n)
  <1>0. /\ s \in Seq(DOMAIN h) /\ Len(s) \in Nat /\ i \in Nat /\ 1 <= i /\ i <= Len(s) + 1
        /\ \A j \in 1..Len(s) : s[j] \in DOMAIN h
    BY DEF IsList
  <1>1. s \in Seq(DOMAIN g) /\ n \in DOMAIN g
    BY <1>0 DEF Inserted
  <1>2. /\ t \in Seq(DOMAIN g)
        /\ Len(t) = Len(s) + 1
        /\ \A j \in 1..(Len(s) + 1) :
             t[j] = IF j < i THEN s[j] ELSE IF j = i THEN n ELSE s[j - 1]
    BY <1>1, InsertAtIs
  <1> HIDE DEF t
  <1>3. \A j, k \in 1..Len(s) : s[j] = s[k] => j = k
    BY DEF IsList
  <1>4. \A j \in 1..Len(s) : s[j] # n
    BY <1>0
  <1>5. ASSUME NEW j \in 1..Len(t), NEW k \in 1..Len(t), t[j] = t[k] PROVE j = k
    <2>1. \A x \in 1..Len(t) :
             /\ x < i => x \in 1..Len(s) /\ t[x] = s[x]
             /\ x = i => t[x] = n
             /\ x > i => x - 1 \in 1..Len(s) /\ t[x] = s[x - 1]
      BY <1>0, <1>2
    <2>2. i \in Int /\ j \in Int /\ k \in Int
      BY <1>0
    <2>3. CASE j < i
      <3>1. CASE k < i
        BY <1>3, <1>5, <2>1, <2>3, <3>1
      <3>2. CASE k = i
        BY <1>4, <1>5, <2>1, <2>3, <3>2
      <3>3. CASE k > i
        <4>1. j = k - 1
          BY <1>3, <1>5, <2>1, <2>3, <3>3
        <4> QED BY <2>2, <2>3, <3>3, <4>1
      <3> QED BY <2>2, <3>1, <3>2, <3>3
    <2>4. CASE j = i
      BY <1>4, <1>5, <2>1, <2>2, <2>4
    <2>5. CASE j > i
      <3>1. CASE k < i
        <4>1. j - 1 = k
          BY <1>3, <1>5, <2>1, <2>5, <3>1
        <4> QED BY <2>2, <2>5, <3>1, <4>1
      <3>2. CASE k = i
        BY <1>4, <1>5, <2>1, <2>5, <3>2
      <3>3. CASE k > i
        <4>1. j - 1 = k - 1
          BY <1>3, <1>5, <2>1, <2>5, <3>3
        <4> QED BY <2>2, <4>1
      <3> QED BY <2>2, <3>1, <3>2, <3>3
    <2> QED BY <2>2, <2>3, <2>4, <2>5
  <1>6. ASSUME NEW j \in 1..Len(t)
        PROVE  /\ g[t[j]].prev = IF j = 1 THEN NULL ELSE t[j - 1]
               /\ g[t[j]].next = IF j = Len(t) THEN NULL ELSE t[j + 1]
    <2>1. /\ j # 1 => j - 1 \in 1..(Len(s) + 1)
          /\ j # Len(t) => j + 1 \in 1..(Len(s) + 1)
          /\ j \in 1..(Len(s) + 1)
      BY <1>0, <1>2
    <2>2. CASE j < i
      <3>1. t[j] = s[j] /\ j \in 1..Len(s) /\ s[j] \in DOMAIN h
        BY <1>0, <1>2, <2>1, <2>2
      <3>2. /\ h[s[j]].prev = IF j = 1 THEN NULL ELSE s[j - 1]
            /\ h[s[j]].next = IF j = Len(s) THEN NULL ELSE s[j + 1]
        BY <3>1 DEF IsList
      <3>3. j # 1 => t[j - 1] = s[j - 1]
        BY <1>0, <1>2, <2>1, <2>2
      <3>4. i # Len(s) + 1 => s[j] # s[i]
        BY <1>0, <1>3, <2>2, <3>1
      <3>5. g[s[j]].prev = h[s[j]].prev
        BY <3>1, <3>4 DEF Inserted
      <3>6. CASE j = i - 1
        <4>1. t[j + 1] = n /\ j # Len(t) /\ i # 1 /\ s[i - 1] = s[j]
          BY <1>0, <1>2, <2>1, <3>6
        <4>2. g[s[j]].next = n
          BY <3>1, <4>1 DEF Inserted
        <4> QED BY <3>1, <3>2, <3>3, <3>5, <4>1, <4>2
      <3>7. CASE j # i - 1
        <4>1. j + 1 < i /\ j # Len(t) /\ j # Len(s) /\ i - 1 # j
          BY <1>0, <1>2, <2>2, <3>7
        <4>2. t[j + 1] = s[j + 1]
          BY <1>2, <2>1, <4>1
        <4>3. i # 1 => s[j] # s[i - 1]
          BY <1>0, <1>3, <3>1, <4>1
        <4>4. g[s[j]].next = h[s[j]].next
          BY <3>1, <4>3 DEF Inserted
        <4> QED BY <3>1, <3>2, <3>3, <3>5, <4>1, <4>2, <4>4
      <3> QED BY <3>6, <3>7
    <2>3. CASE j = i
      <3>1. t[j] = n
        BY <1>0, <1>2, <2>1, <2>3
      <3>2. j # 1 => t[j - 1] = s[i - 1]
        BY <1>0, <1>2, <2>1, <2>3
      <3>3. j # Len(t) => t[j + 1] = s[i]
        BY <1>0, <1>2, <2>1, <2>3
      <3> QED BY <1>2, <2>3, <3>1, <3>2, <3>3 DEF Inserted
    <2>4. CASE j > i
      <3>1. t[j] = s[j - 1] /\ j - 1 \in 1..Len(s) /\ s[j - 1] \in DOMAIN h /\ j # 1
        BY <1>0, <1>2, <2>1, <2>4
      <3>2. /\ h[s[j - 1]].prev = IF j - 1 = 1 THEN NULL ELSE s[(j - 1) - 1]
            /\ h[s[j - 1]].next = IF j - 1 = Len(s) THEN NULL ELSE s[(j - 1) + 1]
        BY <3>1 DEF IsList
      <3>3. /\ (j - 1 = Len(s)) = (j = Len(t))
            /\ (j - 1) + 1 = j
            /\ (j + 1) - 1 = j
        BY <1>0, <1>2
      <3>4. j # Len(t) => t[j + 1] = s[j]
        BY <1>0, <1>2, <2>1, <2>4
      <3>5. i # 1 => s[j - 1] # s[i - 1]
        BY <1>0, <1>3, <2>4, <3>1
      <3>6. g[s[j - 1]].next = h[s[j - 1]].next
        BY <3>1, <3>5 DEF Inserted
      <3>7. CASE j = i + 1
        <4>1. j - 1 = i /\ t[j - 1] = n /\ i # Len(s) + 1
          BY <1>0, <1>2, <2>1, <3>7
        <4>2. g[s[j - 1]].prev = n
          BY <3>1, <4>1 DEF Inserted
        <4> QED BY <3>1, <3>2, <3>3, <3>4, <3>6, <4>1, <4>2
      <3>8. CASE j # i + 1
        <4>1. j - 1 > i /\ j - 1 # 1 /\ j - 1 # i
          BY <1>0, <1>2, <2>4, <3>8
        <4>2. t[j - 1] = s[(j - 1) - 1]
          BY <1>0, <1>2, <2>1, <3>1, <4>1
        <4>3. i # Len(s) + 1 => s[j - 1] # s[i]
          BY <1>0, <1>3, <3>1, <4>1
        <4>4. g[s[j - 1]].prev = h[s[j - 1]].prev
          BY <3>1, <4>3 DEF Inserted
        <4> QED BY <3>1, <3>2, <3>3, <3>4, <3>6, <4>1, <4>2, <4>4
      <3> QED BY <3>7, <3>8
    <2>5. j < i \/ j = i \/ j > i
      BY <1>0, <1>2
    <2> QED BY <2>2, <2>3, <2>4, <2>5
  <1> QED BY <1>2, <1>5, <1>6 DEF IsList, t

\* The other lists are as they were, and the item is in its list only.
LEMMA InsertedHolds ==
    ASSUME NEW h, NULL \notin DOMAIN h, NEW g, NEW p, NEW q, NEW v, Holds(h, p, v),
           NEW l \in List, NEW i \in 1..(Len(v[l]) + 1),
           NEW n, n \notin DOMAIN h, NEW d, Inserted(h, g, v[l], i, n, d),
           \A m \in List \ {l} : q[m] = p[m],
           Names(q[l], InsertAt(v[l], i, n))
    PROVE  Holds(g, q, [v EXCEPT ![l] = InsertAt(v[l], i, n)])
  <1> DEFINE s == v[l]
             t == InsertAt(s, i, n)
             w == [v EXCEPT ![l] = t]
  <1>1. DOMAIN v = List /\ IsList(h, s) /\ \A m \in List : IsList(h, v[m]) /\ Names(p[m], v[m])
    BY DEF Holds
  <1>2. DOMAIN w = List /\ w[l] = t /\ \A m \in List \ {l} : w[m] = v[m]
    BY <1>1
  <1>3. IsList(g, t)
    BY <1>1, InsertedList
  <1>4. /\ Len(s) \in Nat /\ Len(t) = Len(s) + 1
        /\ \A j \in 1..(Len(s) + 1) :
             t[j] = IF j < i THEN s[j] ELSE IF j = i THEN n ELSE s[j - 1]
    <2>1. s \in Seq(DOMAIN g) /\ n \in DOMAIN g
      BY <1>1 DEF IsList, Inserted
    <2> HIDE DEF s
    <2>2. Len(s) \in Nat
      BY <2>1
    <2>3. i \in 1..(Len(s) + 1)
      BY DEF s
    <2>4. /\ Len(InsertAt(s, i, n)) = Len(s) + 1
          /\ \A j \in 1..(Len(s) + 1) :
               InsertAt(s, i, n)[j] = IF j < i THEN s[j] ELSE IF j = i THEN n ELSE s[j - 1]
      BY ONLY <2>1, <2>3, InsertAtIs, SMTT(60)
    <2> QED BY <2>2, <2>4, Zenon DEF t
  <1>d. \A m \in List : \A j \in 1..Len(v[m]) : v[m][j] \in DOMAIN h
    BY <1>1 DEF IsList
  <1>u. \A a, b \in List : \A j \in 1..Len(v[a]), k \in 1..Len(v[b]) :
          v[a][j] = v[b][k] => a = b
    BY DEF Holds
  <1>c. \A x \in DOMAIN h : \E m \in List : \E j \in 1..Len(v[m]) : x = v[m][j]
    BY DEF Holds
  <1>nm. Names(q[l], t)
    OBVIOUS
  <1> HIDE DEF w, t
  \* The positions of the new sequence
  <1>5. \A j \in 1..Len(t) : t[j] = n \/ \E k \in 1..Len(s) : t[j] = s[k]
    <2> TAKE j \in 1..Len(t)
    <2>1. t[j] = IF j < i THEN s[j] ELSE IF j = i THEN n ELSE s[j - 1]
      BY <1>4
    <2>2. /\ j < i => j \in 1..Len(s)
          /\ ~(j < i) /\ j # i => j - 1 \in 1..Len(s)
      BY <1>4
    <2> QED BY <2>1, <2>2
  <1>6. \A k \in 1..Len(s) : \E j \in 1..Len(t) : t[j] = s[k]
    <2> TAKE k \in 1..Len(s)
    <2>1. CASE k < i
      <3>1. k \in 1..Len(t) /\ t[k] = s[k]
        BY <1>4, <2>1
      <3> QED BY <3>1
    <2>2. CASE ~(k < i)
      <3>1. k + 1 \in 1..(Len(s) + 1) /\ ~(k + 1 < i) /\ k + 1 # i /\ (k + 1) - 1 = k
        BY <1>4, <2>2
      <3>2. t[k + 1] = s[k]
        BY <1>4, <3>1
      <3> QED BY <1>4, <3>1, <3>2
    <2> QED BY <2>1, <2>2
  <1>7. \E j \in 1..Len(t) : t[j] = n
    <2>1. i \in 1..Len(t) /\ ~(i < i)
      BY <1>4
    <2>2. t[i] = n
      BY <1>4, <2>1
    <2> QED BY <2>1, <2>2
  \* The lists
  <1>8. ASSUME NEW m \in List PROVE IsList(g, w[m]) /\ Names(q[m], w[m])
    <2>1. CASE m = l
      BY <1>2, <1>3, <1>nm, <2>1
    <2>2. CASE m # l
      <3>1. w[m] = v[m] /\ q[m] = p[m]
        BY <1>2, <2>2
      <3>2. ASSUME NEW j \in 1..Len(v[m])
            PROVE  /\ v[m][j] \in DOMAIN g
                   /\ g[v[m][j]].prev = h[v[m][j]].prev
                   /\ g[v[m][j]].next = h[v[m][j]].next
        <4>1. v[m][j] \in DOMAIN h
          BY <1>d
        <4>2. \A k \in 1..Len(s) : v[m][j] # s[k]
          BY <1>u, <2>2
        <4>3. /\ i # 1 => i - 1 \in 1..Len(s)
              /\ i # Len(s) + 1 => i \in 1..Len(s)
          BY <1>4
        <4>4. /\ ~(i # 1 /\ v[m][j] = s[i - 1])
              /\ ~(i # Len(s) + 1 /\ v[m][j] = s[i])
          BY <4>2, <4>3
        <4> QED BY <4>1, <4>4 DEF Inserted
      <3>3. IsList(g, v[m])
        BY <1>1, <3>2, FrameList
      <3> QED BY <1>1, <3>1, <3>3
    <2> QED BY <2>1, <2>2
  <1>9. ASSUME NEW a \in List, NEW b \in List, NEW j \in 1..Len(w[a]), NEW k \in 1..Len(w[b]),
               w[a][j] = w[b][k], a # b
        PROVE  FALSE
    <2>1. ASSUME NEW m \in List, m # l, NEW x \in 1..Len(w[m]), NEW y \in 1..Len(t),
                 w[m][x] = t[y]
          PROVE  FALSE
      <3>1. w[m] = v[m] /\ v[m][x] \in DOMAIN h
        BY <1>2, <1>d, <2>1
      <3>2. t[y] # n
        BY <2>1, <3>1
      <3>3. PICK z \in 1..Len(s) : t[y] = s[z]
        BY <1>5, <3>2
      <3>4. v[m][x] = v[l][z]
        BY <2>1, <3>1, <3>3
      <3> QED BY <1>u, <2>1, <3>1, <3>4
    <2>2. CASE a = l
      BY <1>2, <1>9, <2>1, <2>2
    <2>3. CASE b = l
      BY <1>2, <1>9, <2>1, <2>3
    <2>4. CASE a # l /\ b # l
      BY <1>2, <1>u, <1>9, <2>4
    <2> QED BY <2>2, <2>3, <2>4
  <1>10. ASSUME NEW x \in DOMAIN g PROVE \E m \in List : \E j \in 1..Len(w[m]) : x = w[m][j]
    <2>1. CASE x = n
      BY <1>2, <1>7, <2>1
    <2>2. CASE x # n
      <3>1. x \in DOMAIN h
        BY <2>2 DEF Inserted
      <3>2. PICK m \in List : \E j \in 1..Len(v[m]) : x = v[m][j]
        BY <1>c, <3>1
      <3>3. CASE m = l
        BY <1>2, <1>6, <3>2, <3>3
      <3>4. CASE m # l
        BY <1>2, <3>2, <3>4
      <3> QED BY <3>3, <3>4
    <2> QED BY <2>1, <2>2
  <1>11. Holds(g, q, w)
    BY <1>2, <1>8, <1>9, <1>10 DEF Holds
  <1> QED BY <1>11 DEF w, t

\* g is h with an item n that is in no list.
Allocated(h, g, n, d) ==
    /\ DOMAIN g = DOMAIN h \cup {n}
    /\ HeapTyped(g)
    /\ g[n].prev = NULL /\ g[n].next = NULL /\ g[n].data = d
    /\ \A x \in DOMAIN h : g[x] = h[x]

\* list_new: the new item is alone.
LEMMA NewPointers ==
    ASSUME NEW h, HeapTyped(h), NEW n, n \notin DOMAIN h, n # NULL, NEW d \in Data
    PROVE  Allocated(h, ListNew(h, n, d), n, d)
  <1> DEFINE g == ListNew(h, n, d)
  <1>1. /\ DOMAIN g = DOMAIN h \cup {n}
        /\ g[n] = [prev |-> NULL, next |-> NULL, data |-> d]
        /\ \A x \in DOMAIN h : g[x] = h[x]
    BY DEF ListNew
  <1>2. HeapOK(g)
    BY <1>1 DEF HeapTyped, HeapOK, ListNew
  <1>3. IsFiniteSet(DOMAIN h \cup {n})
    BY FS_AddElement DEF HeapTyped
  <1> HIDE DEF g
  <1>4. HeapTyped(g)
    BY <1>1, <1>2, <1>3 DEF HeapTyped
  <1>5. g[n].prev = NULL /\ g[n].next = NULL /\ g[n].data = d
    BY <1>1
  <1> QED BY <1>1, <1>4, <1>5 DEF g, Allocated

\* list_insert: where the pointers of each item go
LEMMA InsertPointers ==
    ASSUME NEW h, HeapOK(h), NULL \notin DOMAIN h,
           NEW p \in DOMAIN h, NEW n \in DOMAIN h, p # n, h[p].prev # n
    PROVE  LET g == ListInsert(h, p, n)
               a == h[p].prev
           IN  /\ DOMAIN g = DOMAIN h
               /\ HeapOK(g)
               /\ \A x \in DOMAIN h :
                     /\ g[x].next = IF x = n THEN p ELSE IF x = a THEN n ELSE h[x].next
                     /\ g[x].prev = IF x = p THEN n
                                    ELSE IF x = n /\ a # NULL THEN a ELSE h[x].prev
                     /\ g[x].data = h[x].data
  <1> DEFINE a == h[p].prev
             e1 == IF a = NULL THEN h ELSE [h EXCEPT ![a].next = n]
             e2 == IF a = NULL THEN h ELSE [e1 EXCEPT ![n].prev = a]
             e3 == [e2 EXCEPT ![p].prev = n]
             e4 == [e3 EXCEPT ![n].next = p]
  <1>1. ListInsert(h, p, n) = e4
    BY DEF ListInsert
  <1>2. a \in DOMAIN h \cup {NULL}
    BY DEF HeapOK
  <1>3. /\ DOMAIN e1 = DOMAIN h /\ HeapOK(e1)
        /\ \A x \in DOMAIN h :
              /\ e1[x].next = IF x = a THEN n ELSE h[x].next
              /\ e1[x].prev = h[x].prev
              /\ e1[x].data = h[x].data
    BY <1>2 DEF HeapOK
  <1> HIDE DEF e1
  <1>4. /\ DOMAIN e2 = DOMAIN h /\ HeapOK(e2)
        /\ \A x \in DOMAIN h :
              /\ e2[x].next = IF x = a THEN n ELSE h[x].next
              /\ e2[x].prev = IF x = n /\ a # NULL THEN a ELSE h[x].prev
              /\ e2[x].data = h[x].data
    BY <1>2, <1>3 DEF HeapOK
  <1> HIDE DEF e2
  <1>5. /\ DOMAIN e3 = DOMAIN h /\ HeapOK(e3)
        /\ \A x \in DOMAIN h :
              /\ e3[x].next = e2[x].next
              /\ e3[x].prev = IF x = p THEN n ELSE e2[x].prev
              /\ e3[x].data = h[x].data
    BY <1>4 DEF HeapOK
  <1> HIDE DEF e3
  <1>6. /\ DOMAIN e4 = DOMAIN h /\ HeapOK(e4)
        /\ \A x \in DOMAIN h :
              /\ e4[x].next = IF x = n THEN p ELSE e3[x].next
              /\ e4[x].prev = e3[x].prev
              /\ e4[x].data = h[x].data
    BY <1>5 DEF HeapOK
  <1> HIDE DEF e4
  <1> QED
    BY <1>1, <1>4, <1>5, <1>6

\* list_push: the end e of one list and the start n of another are linked.
LEMMA PushPointers ==
    ASSUME NEW h, HeapOK(h), NEW p, NEW e \in DOMAIN h, NEW n \in DOMAIN h,
           ListLast(h, p) = e
    PROVE  LET g == ListPush(h, p, n)
           IN  /\ DOMAIN g = DOMAIN h
               /\ HeapOK(g)
               /\ \A x \in DOMAIN h :
                     /\ g[x].next = IF x = e THEN n ELSE h[x].next
                     /\ g[x].prev = IF x = n THEN e ELSE h[x].prev
                     /\ g[x].data = h[x].data
  <1> DEFINE e1 == [h EXCEPT ![e].next = n]
             e2 == [e1 EXCEPT ![n].prev = e]
  <1>1. ListPush(h, p, n) = e2
    BY DEF ListPush
  <1>2. /\ DOMAIN e1 = DOMAIN h /\ HeapOK(e1)
        /\ \A x \in DOMAIN h :
              /\ e1[x].next = IF x = e THEN n ELSE h[x].next
              /\ e1[x].prev = h[x].prev
              /\ e1[x].data = h[x].data
    BY DEF HeapOK
  <1> HIDE DEF e1
  <1>3. /\ DOMAIN e2 = DOMAIN h /\ HeapOK(e2)
        /\ \A x \in DOMAIN h :
              /\ e2[x].next = e1[x].next
              /\ e2[x].prev = IF x = n THEN e ELSE e1[x].prev
              /\ e2[x].data = h[x].data
    BY <1>2 DEF HeapOK
  <1> HIDE DEF e2
  <1> QED BY <1>1, <1>2, <1>3

\* What a new item leaves of a list, until it is linked
LEMMA NewFrame ==
    ASSUME NEW h, HeapTyped(h), NEW n, n \notin DOMAIN h, n # NULL, NEW d \in Data,
           NEW s, IsList(h, s)
    PROVE  IsList(ListNew(h, n, d), s)
  <1> DEFINE g == ListNew(h, n, d)
  <1>0. Allocated(h, g, n, d)
    BY NewPointers
  <1> HIDE DEF g
  <1>1. DOMAIN g = DOMAIN h \cup {n} /\ \A x \in DOMAIN h : g[x] = h[x]
    BY <1>0 DEF Allocated
  <1> HIDE DEF g
  <1>2. \A i \in 1..Len(s) : s[i] \in DOMAIN h
    BY DEF IsList
  <1>3. IsList(g, s)
    BY <1>1, <1>2, FrameList
  <1> QED BY <1>3 DEF g

\* The first item of a list
LEMMA NewAlone ==
    ASSUME NEW h, HeapTyped(h), NEW n, n \notin DOMAIN h, n # NULL, NEW d \in Data,
           NEW s, s = <<>>
    PROVE  Inserted(h, ListNew(h, n, d), s, 1, n, d)
  <1> DEFINE g == ListNew(h, n, d)
  <1>0. Allocated(h, g, n, d)
    BY NewPointers
  <1> HIDE DEF g
  <1>1. /\ DOMAIN g = DOMAIN h \cup {n} /\ HeapOK(g)
        /\ g[n].prev = NULL /\ g[n].next = NULL /\ g[n].data = d
        /\ \A x \in DOMAIN h : g[x] = h[x]
    BY <1>0 DEF Allocated, HeapTyped
  <1> HIDE DEF g
  <1>2. Len(s) + 1 = 1
    OBVIOUS
  <1>3. Inserted(h, g, s, 1, n, d)
    BY <1>1, <1>2 DEF Inserted
  <1> QED BY <1>3 DEF g

\* list_obj_add_new: the new item comes last.
LEMMA PushInserts ==
    ASSUME NEW h, HeapTyped(h), NEW n, n \notin DOMAIN h, n # NULL, NEW d \in Data,
           NEW s, IsList(h, s), NEW k \in 1..Len(s)
    PROVE  Inserted(h, ListPush(ListNew(h, n, d), s[k], n), s, Len(s) + 1, n, d)
  <1> DEFINE b == ListNew(h, n, d)
             e == s[Len(s)]
             p == s[k]
             g == ListPush(b, p, n)
  <1>0. Allocated(h, b, n, d)
    BY NewPointers
  <1> HIDE DEF b
  <1>1. /\ DOMAIN b = DOMAIN h \cup {n} /\ HeapTyped(b)
        /\ b[n].prev = NULL /\ b[n].next = NULL /\ b[n].data = d
        /\ \A x \in DOMAIN h : b[x] = h[x]
    BY <1>0 DEF Allocated
  <1>2. IsList(b, s)
    BY NewFrame DEF b
  <1>3. Len(s) \in 1..Len(s) /\ Len(s) \in Nat /\ e \in DOMAIN h
    BY DEF IsList
  <1> HIDE DEF b
  <1>4. ListLast(b, p) = e
    BY <1>1, <1>2, LastIs
  <1> HIDE DEF e, p
  <1>5. /\ DOMAIN g = DOMAIN b /\ HeapOK(g)
        /\ \A x \in DOMAIN b :
              /\ g[x].next = IF x = e THEN n ELSE b[x].next
              /\ g[x].prev = IF x = n THEN e ELSE b[x].prev
              /\ g[x].data = b[x].data
    <2>1. HeapOK(b) /\ e \in DOMAIN b /\ n \in DOMAIN b
      BY <1>1, <1>3 DEF HeapTyped
    <2> QED BY <1>4, <2>1, PushPointers
  <1> HIDE DEF g
  <1>6. /\ Len(s) + 1 # 1 /\ (Len(s) + 1) - 1 = Len(s)
    BY <1>3
  <1>7. e # n /\ s[(Len(s) + 1) - 1] = e
    BY <1>3, <1>6 DEF e
  <1>8. \A x \in DOMAIN h :
          /\ g[x].data = h[x].data
          /\ g[x].next = IF x = e THEN n ELSE h[x].next
          /\ g[x].prev = h[x].prev
    BY <1>1, <1>5
  <1>9. g[n].data = d /\ g[n].prev = e /\ g[n].next = NULL
    BY <1>1, <1>5, <1>7
  <1>10. Inserted(h, g, s, Len(s) + 1, n, d)
    BY <1>1, <1>5, <1>6, <1>7, <1>8, <1>9 DEF Inserted
  <1> QED BY <1>10 DEF g, b, p

\* list_insert_new: the new item comes before the item at position i.
LEMMA InsertInserts ==
    ASSUME NEW h, HeapTyped(h), NEW n, n \notin DOMAIN h, n # NULL, NEW d \in Data,
           NEW s, IsList(h, s), NEW i \in 1..Len(s)
    PROVE  Inserted(h, ListInsert(ListNew(h, n, d), s[i], n), s, i, n, d)
  <1> DEFINE b == ListNew(h, n, d)
             p == s[i]
             a == b[p].prev
             g == ListInsert(b, p, n)
  <1>0. Allocated(h, b, n, d)
    BY NewPointers
  <1> HIDE DEF b
  <1>1. /\ DOMAIN b = DOMAIN h \cup {n} /\ HeapTyped(b)
        /\ b[n].prev = NULL /\ b[n].next = NULL /\ b[n].data = d
        /\ \A x \in DOMAIN h : b[x] = h[x]
    BY <1>0 DEF Allocated
  <1>2. p \in DOMAIN h /\ Len(s) \in Nat /\ h[p].prev = IF i = 1 THEN NULL ELSE s[i - 1]
    BY DEF IsList
  <1>3. i # 1 => i - 1 \in 1..Len(s) /\ s[i - 1] \in DOMAIN h /\ s[i - 1] # NULL
    BY <1>2 DEF IsList, HeapTyped
  <1>l. i # Len(s) + 1
    BY <1>2
  <1> HIDE DEF b, p
  <1>4. a = IF i = 1 THEN NULL ELSE s[i - 1]
    BY <1>1, <1>2
  <1>5. p # n /\ a # n
    BY <1>2, <1>3, <1>4
  <1>6. /\ DOMAIN g = DOMAIN b /\ HeapOK(g)
        /\ \A x \in DOMAIN b :
              /\ g[x].next = IF x = n THEN p ELSE IF x = a THEN n ELSE b[x].next
              /\ g[x].prev = IF x = p THEN n
                             ELSE IF x = n /\ a # NULL THEN a ELSE b[x].prev
              /\ g[x].data = b[x].data
    <2>1. HeapOK(b) /\ p \in DOMAIN b /\ n \in DOMAIN b /\ NULL \notin DOMAIN b
      BY <1>1, <1>2 DEF HeapTyped
    <2> QED BY <1>5, <2>1, InsertPointers
  <1> HIDE DEF a, g
  <1>7. ASSUME NEW x \in DOMAIN h
        PROVE  /\ g[x].data = h[x].data
               /\ g[x].next = IF i # 1 /\ x = s[i - 1] THEN n ELSE h[x].next
               /\ g[x].prev = IF x = p THEN n ELSE h[x].prev
    <2>1. x # n /\ x # NULL /\ x \in DOMAIN b /\ b[x] = h[x]
      BY <1>1 DEF HeapTyped
    <2>2. (i # 1 /\ x = s[i - 1]) <=> x = a
      BY <1>4, <2>1
    <2> QED BY <1>6, <2>1, <2>2
  <1>8. g[n].data = d /\ g[n].prev = a /\ g[n].next = p
    BY <1>1, <1>5, <1>6
  <1>9. Inserted(h, g, s, i, n, d)
    BY <1>1, <1>4, <1>6, <1>7, <1>8, <1>l DEF Inserted, p
  <1> QED BY <1>9 DEF g, b, p

-----------------------------------------------------------------------------
(* The items of one list change places or go *)

In(s) == {s[i] : i \in 1..Len(s)}

\* g is h without the items in gone, which were in list s, and with other pointers
\* in the items of s only.
Touches(h, g, s, gone) ==
    /\ gone \subseteq In(s)
    /\ DOMAIN g = DOMAIN h \ gone
    /\ \A x \in DOMAIN g : g[x].data = h[x].data
    /\ \A x \in DOMAIN h \ In(s) : g[x].prev = h[x].prev /\ g[x].next = h[x].next

\* A step that only touches the items of list l keeps every other list.
LEMMA TouchesHolds ==
    ASSUME NEW h, NEW g, NEW p, NEW q, NEW v, Holds(h, p, v), NEW l \in List,
           NEW gone, Touches(h, g, v[l], gone),
           NEW t, IsList(g, t), In(t) = In(v[l]) \ gone,
           \A m \in List \ {l} : q[m] = p[m], Names(q[l], t)
    PROVE  Holds(g, q, [v EXCEPT ![l] = t])
  <1> DEFINE s == v[l]
             w == [v EXCEPT ![l] = t]
  <1>1. DOMAIN v = List /\ IsList(h, s) /\ \A m \in List : IsList(h, v[m]) /\ Names(p[m], v[m])
    BY DEF Holds
  <1>2. DOMAIN w = List /\ w[l] = t /\ \A m \in List \ {l} : w[m] = v[m]
    BY <1>1
  <1>d. \A m \in List : \A j \in 1..Len(v[m]) : v[m][j] \in DOMAIN h
    BY <1>1 DEF IsList
  <1>u. \A a, b \in List : \A j \in 1..Len(v[a]), k \in 1..Len(v[b]) :
          v[a][j] = v[b][k] => a = b
    BY DEF Holds
  <1>c. \A x \in DOMAIN h : \E m \in List : \E j \in 1..Len(v[m]) : x = v[m][j]
    BY DEF Holds
  <1> HIDE DEF w
  <1>3. ASSUME NEW m \in List, m # l, NEW j \in 1..Len(v[m]) PROVE v[m][j] \notin In(s)
    BY <1>u, <1>3 DEF In
  <1>4. \A j \in 1..Len(t) : \E k \in 1..Len(s) : t[j] = s[k]
    <2>1. \A j \in 1..Len(t) : t[j] \in In(s)
      BY DEF In
    <2> QED BY <2>1 DEF In
  <1>5. ASSUME NEW m \in List PROVE IsList(g, w[m]) /\ Names(q[m], w[m])
    <2>1. CASE m = l
      BY <1>2, <2>1
    <2>2. CASE m # l
      <3>1. w[m] = v[m] /\ q[m] = p[m]
        BY <1>2, <2>2
      <3>2. ASSUME NEW j \in 1..Len(v[m])
            PROVE  /\ v[m][j] \in DOMAIN g
                   /\ g[v[m][j]].prev = h[v[m][j]].prev
                   /\ g[v[m][j]].next = h[v[m][j]].next
        <4>1. v[m][j] \in DOMAIN h /\ v[m][j] \notin In(s)
          BY <1>d, <1>3, <2>2
        <4> QED BY <4>1 DEF Touches
      <3>3. IsList(g, v[m])
        BY <1>1, <3>2, FrameList
      <3> QED BY <1>1, <3>1, <3>3
    <2> QED BY <2>1, <2>2
  <1>6. ASSUME NEW a \in List, NEW b \in List, NEW j \in 1..Len(w[a]), NEW k \in 1..Len(w[b]),
               w[a][j] = w[b][k], a # b
        PROVE  FALSE
    <2>1. CASE a = l
      <3>1. b # l /\ w[a] = t /\ w[b] = v[b]
        BY <1>2, <1>6, <2>1
      <3>2. PICK i \in 1..Len(s) : t[j] = s[i]
        BY <1>4, <3>1
      <3>3. v[l][i] = v[b][k] /\ k \in 1..Len(v[b])
        BY <1>6, <3>1, <3>2
      <3> QED BY ONLY <1>u, <3>1, <3>3, l \in List, b \in List, i \in 1..Len(v[l])
    <2>2. CASE b = l
      <3>1. a # l /\ w[b] = t /\ w[a] = v[a]
        BY <1>2, <1>6, <2>2
      <3>2. PICK i \in 1..Len(s) : t[k] = s[i]
        BY <1>4, <3>1
      <3>3. v[a][j] = v[l][i] /\ j \in 1..Len(v[a])
        BY <1>6, <3>1, <3>2
      <3> QED BY ONLY <1>u, <3>1, <3>3, l \in List, a \in List, i \in 1..Len(v[l])
    <2>3. CASE a # l /\ b # l
      BY <1>2, <1>u, <1>6, <2>3
    <2> QED BY <2>1, <2>2, <2>3
  <1>7. ASSUME NEW x \in DOMAIN g PROVE \E m \in List : \E j \in 1..Len(w[m]) : x = w[m][j]
    <2>1. x \in DOMAIN h /\ x \notin gone
      BY DEF Touches
    <2>2. PICK m \in List : \E j \in 1..Len(v[m]) : x = v[m][j]
      BY <1>c, <2>1
    <2>3. CASE m = l
      <3>1. x \in In(t)
        BY <2>1, <2>2, <2>3 DEF In
      <3> QED BY <1>2, <3>1 DEF In
    <2>4. CASE m # l
      BY <1>2, <2>2, <2>4
    <2> QED BY <2>3, <2>4
  <1>8. Holds(g, q, w)
    BY <1>2, <1>5, <1>6, <1>7 DEF Holds
  <1> QED BY <1>8 DEF w

-----------------------------------------------------------------------------
(* list_reverse *)

\* The items in S have their pointers exchanged.
Turned(h, S) ==
    [n \in DOMAIN h |->
        IF n \in S THEN [h[n] EXCEPT !.prev = h[n].next, !.next = h[n].prev] ELSE h[n]]

\* list_reverse turns the sequence round.
LEMMA ReversedList ==
    ASSUME NEW h, HeapTyped(h), NEW s, IsList(h, s), NEW g, g = Turned(h, In(s))
    PROVE  /\ HeapTyped(g)
           /\ Touches(h, g, s, {})
           /\ IsList(g, Reverse(s))
           /\ In(Reverse(s)) = In(s)
           /\ Len(Reverse(s)) = Len(s)
  <1> DEFINE t == Reverse(s)
             n == Len(s)
  <1>1. /\ DOMAIN g = DOMAIN h
        /\ \A x \in DOMAIN h :
             /\ g[x].prev = IF x \in In(s) THEN h[x].next ELSE h[x].prev
             /\ g[x].next = IF x \in In(s) THEN h[x].prev ELSE h[x].next
             /\ g[x].data = h[x].data
    BY DEF HeapTyped, HeapOK, Turned
  <1>2. HeapOK(g)
    BY DEF HeapTyped, HeapOK, Turned
  <1>3. HeapTyped(g)
    BY <1>1, <1>2 DEF HeapTyped
  <1>4. Touches(h, g, s, {})
    BY <1>1 DEF Touches
  <1>5. n \in Nat /\ s \in Seq(DOMAIN h) /\ \A i \in 1..n : s[i] \in DOMAIN h /\ s[i] \in In(s)
    BY DEF IsList, In
  <1>6. \A i \in 1..n : n - i + 1 \in 1..n /\ n - (n - i + 1) + 1 = i
    BY <1>5
  <1>7. t \in Seq(DOMAIN h) /\ Len(t) = n /\ \A i \in 1..n : t[i] = s[n - i + 1]
    BY <1>5, <1>6 DEF Reverse
  <1> HIDE DEF t
  <1>8. In(t) = In(s)
    <2>1. ASSUME NEW x \in In(t) PROVE x \in In(s)
      BY <1>6, <1>7, <2>1 DEF In
    <2>2. ASSUME NEW x \in In(s) PROVE x \in In(t)
      <3>1. PICK i \in 1..n : x = s[i]
        BY <2>2 DEF In
      <3>2. n - i + 1 \in 1..n /\ t[n - i + 1] = s[i]
        BY <1>6, <1>7
      <3> QED BY <1>7, <3>1, <3>2 DEF In
    <2> QED BY <2>1, <2>2
  <1>9. ASSUME NEW i \in 1..n, NEW j \in 1..n, t[i] = t[j] PROVE i = j
    <2>1. n - i + 1 = n - j + 1
      BY <1>6, <1>7, <1>9 DEF IsList
    <2> QED BY <1>5, <2>1
  <1>10. ASSUME NEW i \in 1..n
         PROVE  /\ g[t[i]].prev = IF i = 1 THEN NULL ELSE t[i - 1]
                /\ g[t[i]].next = IF i = n THEN NULL ELSE t[i + 1]
    <2> DEFINE k == n - i + 1
    <2>1. k \in 1..n /\ t[i] = s[k]
      BY <1>6, <1>7
    <2>2. g[s[k]].prev = h[s[k]].next /\ g[s[k]].next = h[s[k]].prev
      BY <1>1, <1>5, <2>1
    <2>3. /\ h[s[k]].prev = IF k = 1 THEN NULL ELSE s[k - 1]
          /\ h[s[k]].next = IF k = n THEN NULL ELSE s[k + 1]
      BY <2>1 DEF IsList
    <2>4. (k = 1) = (i = n) /\ (k = n) = (i = 1)
      BY <1>5
    <2>5. i # 1 => t[i - 1] = s[k + 1]
      <3>1. i # 1 => i - 1 \in 1..n /\ n - (i - 1) + 1 = k + 1
        BY <1>5
      <3> HIDE DEF k
      <3> QED BY <1>7, <3>1
    <2>6. i # n => t[i + 1] = s[k - 1]
      <3>1. i # n => i + 1 \in 1..n /\ n - (i + 1) + 1 = k - 1
        BY <1>5
      <3> HIDE DEF k
      <3> QED BY <1>7, <3>1
    <2> HIDE DEF k
    <2> QED BY <2>1, <2>2, <2>3, <2>4, <2>5, <2>6
  <1>11. IsList(g, t)
    BY <1>1, <1>7, <1>9, <1>10 DEF IsList
  <1> QED BY <1>3, <1>4, <1>7, <1>8, <1>11 DEF t

-----------------------------------------------------------------------------
(* Items that go *)

\* WellLinked of a given heap
Linked(h) ==
    \A p \in DOMAIN h :
        /\ h[p].next # NULL => h[h[p].next].prev = p
        /\ h[p].prev # NULL => h[h[p].prev].next = p

\* list_free_all: nothing points to the items of a list but the list.
LEMMA ClearedList ==
    ASSUME NEW h, HeapTyped(h), Linked(h), NEW s, IsList(h, s)
    PROVE  /\ HeapTyped(Free(h, In(s)))
           /\ Touches(h, Free(h, In(s)), s, In(s))
           /\ IsList(Free(h, In(s)), <<>>)
           /\ In(<<>>) = In(s) \ In(s)
  <1> DEFINE g == Free(h, In(s))
  <1>1. /\ DOMAIN g = DOMAIN h \ In(s)
        /\ \A x \in DOMAIN g : g[x] = h[x]
        /\ g = [x \in DOMAIN g |-> g[x]]
    BY DEF Free
  <1> HIDE DEF g
  <1>2. Len(s) \in Nat /\ \A i \in 1..Len(s) : s[i] \in DOMAIN h
    BY DEF IsList
  <1>3. \A i \in 1..Len(s) : /\ h[s[i]].prev \in In(s) \cup {NULL}
                             /\ h[s[i]].next \in In(s) \cup {NULL}
    <2> TAKE i \in 1..Len(s)
    <2>1. /\ h[s[i]].prev = IF i = 1 THEN NULL ELSE s[i - 1]
          /\ h[s[i]].next = IF i = Len(s) THEN NULL ELSE s[i + 1]
      BY DEF IsList
    <2>2. /\ i # 1 => i - 1 \in 1..Len(s)
          /\ i # Len(s) => i + 1 \in 1..Len(s)
      BY <1>2
    <2> QED BY <2>1, <2>2 DEF In
  <1>4. ASSUME NEW x \in DOMAIN g
        PROVE  g[x].prev \in DOMAIN g \cup {NULL} /\ g[x].next \in DOMAIN g \cup {NULL}
    <2>1. /\ x \in DOMAIN h /\ x \notin In(s) /\ x # NULL /\ g[x] = h[x]
          /\ h[x].prev \in DOMAIN h \cup {NULL} /\ h[x].next \in DOMAIN h \cup {NULL}
      BY <1>1 DEF HeapTyped, HeapOK
    <2>2. h[x].prev \notin In(s)
      <3> SUFFICES ASSUME h[x].prev \in In(s) PROVE FALSE
        OBVIOUS
      <3>1. PICK i \in 1..Len(s) : h[x].prev = s[i]
        BY DEF In
      <3>2. h[s[i]].next = x
        BY <1>2, <2>1, <3>1 DEF Linked, HeapTyped
      <3> QED BY <1>3, <2>1, <3>2
    <2>3. h[x].next \notin In(s)
      <3> SUFFICES ASSUME h[x].next \in In(s) PROVE FALSE
        OBVIOUS
      <3>1. PICK i \in 1..Len(s) : h[x].next = s[i]
        BY DEF In
      <3>2. h[s[i]].prev = x
        BY <1>2, <2>1, <3>1 DEF Linked, HeapTyped
      <3> QED BY <1>3, <2>1, <3>2
    <2> QED BY <1>1, <2>1, <2>2, <2>3
  <1>5. HeapOK(g)
    <2>1. ASSUME NEW x \in DOMAIN g
          PROVE  g[x] \in [prev : DOMAIN g \cup {NULL}, next : DOMAIN g \cup {NULL}, data : Data]
      <3>1. g[x] \in [prev : DOMAIN h \cup {NULL}, next : DOMAIN h \cup {NULL}, data : Data]
        BY <1>1 DEF HeapTyped, HeapOK
      <3> QED BY <3>1, <1>4
    <2> QED BY <1>1, <2>1 DEF HeapOK
  <1>6. IsFiniteSet(DOMAIN g)
    <2>1. DOMAIN g \in SUBSET (DOMAIN h)
      BY <1>1
    <2> QED BY <2>1, FS_Subset DEF HeapTyped
  <1>7. HeapTyped(g)
    BY <1>1, <1>5, <1>6 DEF HeapTyped
  <1>8. Touches(h, g, s, In(s))
    BY <1>1 DEF Touches
  <1>9. IsList(g, <<>>) /\ In(<<>>) = In(s) \ In(s)
    BY DEF IsList, In
  <1> QED BY <1>7, <1>8, <1>9 DEF g

\* g is h without item p, and its neighbours a and b are linked.
Removed(h, g, p, a, b) ==
    /\ DOMAIN g = DOMAIN h \ {p}
    /\ HeapTyped(g)
    /\ \A x \in DOMAIN g :
          /\ g[x].next = IF x = a THEN b ELSE h[x].next
          /\ g[x].prev = IF x = b THEN a ELSE h[x].prev
          /\ g[x].data = h[x].data

\* list_remove and list_free_item
LEMMA RemovePointers ==
    ASSUME NEW h, HeapTyped(h), Linked(h), NEW p \in DOMAIN h
    PROVE  Removed(h, Free(ListRemove(h, p), {p}), p, h[p].prev, h[p].next)
  <1> DEFINE a == h[p].prev
             b == h[p].next
             e1 == Link(h, a, "next", b)
             e2 == Link(e1, b, "prev", a)
             e3 == [e2 EXCEPT ![p].prev = NULL]
             e4 == [e3 EXCEPT ![p].next = NULL]
             g == Free(ListRemove(h, p), {p})
  <1>h. HeapOK(h) /\ NULL \notin DOMAIN h /\ IsFiniteSet(DOMAIN h)
    BY DEF HeapTyped
  <1>1. /\ a \in DOMAIN h \cup {NULL} /\ b \in DOMAIN h \cup {NULL}
        /\ \A x \in DOMAIN h : /\ h[x].next \in DOMAIN h \cup {NULL}
                               /\ h[x].prev \in DOMAIN h \cup {NULL}
    BY <1>h DEF HeapOK
  <1>2. ListRemove(h, p) = e4
    BY DEF ListRemove
  <1>3. /\ DOMAIN e1 = DOMAIN h /\ HeapOK(e1)
        /\ \A x \in DOMAIN h : /\ e1[x].next = IF x = a THEN b ELSE h[x].next
                               /\ e1[x].prev = h[x].prev
                               /\ e1[x].data = h[x].data
    BY <1>h, <1>1 DEF HeapOK, Link
  <1> HIDE DEF e1
  <1>e. DOMAIN e1 = DOMAIN h /\ HeapOK(e1)
    BY <1>3
  <1>4. DOMAIN e2 = DOMAIN h /\ HeapOK(e2)
    BY <1>1, <1>e DEF HeapOK, Link
  <1>f. \A x \in DOMAIN h : e2[x].next = e1[x].next /\ e2[x].data = e1[x].data
    BY <1>1, <1>e DEF HeapOK, Link
  <1>g. \A x \in DOMAIN h : e2[x].prev = IF x = b THEN a ELSE e1[x].prev
    BY <1>h, <1>1, <1>e DEF HeapOK, Link
  <1> HIDE DEF e2
  <1>5. /\ DOMAIN e4 = DOMAIN h
        /\ \A x \in DOMAIN h : x # p => e4[x] = e2[x]
    BY <1>4 DEF HeapOK
  <1> HIDE DEF e4
  <1>6. /\ DOMAIN g = DOMAIN h \ {p}
        /\ \A x \in DOMAIN g : g[x] = e2[x]
    BY <1>2, <1>5 DEF Free
  <1>7. g = [x \in DOMAIN g |-> g[x]]
    BY DEF Free
  <1> HIDE DEF g
  <1>8. \A x \in DOMAIN g :
           /\ g[x].next = IF x = a THEN b ELSE h[x].next
           /\ g[x].prev = IF x = b THEN a ELSE h[x].prev
           /\ g[x].data = h[x].data
           /\ g[x].next \in DOMAIN g \cup {NULL}
           /\ g[x].prev \in DOMAIN g \cup {NULL}
    <2> SUFFICES ASSUME NEW x \in DOMAIN g
                 PROVE  /\ g[x].next = IF x = a THEN b ELSE h[x].next
                        /\ g[x].prev = IF x = b THEN a ELSE h[x].prev
                        /\ g[x].data = h[x].data
                        /\ g[x].next \in DOMAIN g \cup {NULL}
                        /\ g[x].prev \in DOMAIN g \cup {NULL}
      OBVIOUS
    <2>1. /\ g[x].next = IF x = a THEN b ELSE h[x].next
          /\ g[x].prev = IF x = b THEN a ELSE h[x].prev
          /\ g[x].data = h[x].data
      BY <1>3, <1>6, <1>f, <1>g
    <2>2. h[x].next = p => x = a
      BY <1>h, <1>1, <1>6 DEF Linked
    <2>3. h[x].prev = p => x = b
      BY <1>h, <1>1, <1>6 DEF Linked
    <2>4. (x = a => b # p) /\ (x = b => a # p)
      BY <1>h, <1>1, <1>6 DEF Linked
    <2> QED
      BY <2>1, <2>2, <2>3, <2>4, <1>1, <1>6
  <1>9. HeapOK(g)
    <2>1. \A x \in DOMAIN g :
             g[x] \in [prev : DOMAIN g \cup {NULL}, next : DOMAIN g \cup {NULL}, data : Data]
      <3> SUFFICES ASSUME NEW x \in DOMAIN g
                   PROVE  g[x] \in [prev : DOMAIN g \cup {NULL},
                                    next : DOMAIN g \cup {NULL}, data : Data]
        OBVIOUS
      <3>1. g[x] \in [prev : DOMAIN h \cup {NULL}, next : DOMAIN h \cup {NULL}, data : Data]
        BY <1>4, <1>6 DEF HeapOK
      <3> QED
        BY <3>1, <1>8
    <2> QED
      BY <2>1, <1>7 DEF HeapOK
  <1>10. IsFiniteSet(DOMAIN h \ {p})
    BY <1>h, FS_RemoveElement
  <1>11. HeapTyped(g)
    BY <1>h, <1>6, <1>9, <1>10 DEF HeapTyped
  <1> QED
    BY <1>6, <1>8, <1>11 DEF g, Removed

\* list_obj_del: the item at position i goes.
LEMMA RemovedList ==
    ASSUME NEW h, HeapTyped(h), Linked(h), NEW s, IsList(h, s), NEW i \in 1..Len(s),
           NEW g, g = Free(ListRemove(h, s[i]), {s[i]})
    PROVE  /\ HeapTyped(g)
           /\ Touches(h, g, s, {s[i]})
           /\ IsList(g, RemoveAt(s, i))
           /\ In(RemoveAt(s, i)) = In(s) \ {s[i]}
  <1> DEFINE t == RemoveAt(s, i)
             n == Len(s)
             p == s[i]
             a == h[p].prev
             b == h[p].next
  <1>0. /\ s \in Seq(DOMAIN h) /\ n \in Nat
        /\ \A j \in 1..n : s[j] \in DOMAIN h /\ s[j] # NULL
        /\ \A j, k \in 1..n : s[j] = s[k] => j = k
    BY DEF IsList, HeapTyped
  <1>1. /\ DOMAIN g = DOMAIN h \ {p} /\ HeapTyped(g)
        /\ \A x \in DOMAIN g :
              /\ g[x].next = IF x = a THEN b ELSE h[x].next
              /\ g[x].prev = IF x = b THEN a ELSE h[x].prev
              /\ g[x].data = h[x].data
    <2>1. p \in DOMAIN h
      BY <1>0
    <2>2. Removed(h, g, p, a, b)
      BY <2>1, RemovePointers
    <2> QED BY <2>2 DEF Removed
  <1>2. /\ a = IF i = 1 THEN NULL ELSE s[i - 1]
        /\ b = IF i = n THEN NULL ELSE s[i + 1]
    BY DEF IsList
  <1>3. t \in Seq(DOMAIN h) /\ Len(t) = n - 1
        /\ \A j \in 1..(n - 1) : t[j] = IF j < i THEN s[j] ELSE s[j + 1]
    BY <1>0, RemoveAtIs
  <1> HIDE DEF t, a, b, n, p
  <1>i. i \in 1..n /\ i \in Nat /\ p = s[i]
    BY DEF n, p
  <1>4. \A j \in 1..(n - 1) :
          /\ j < i => t[j] = s[j] /\ j \in 1..n
          /\ ~(j < i) => t[j] = s[j + 1] /\ j + 1 \in 1..n /\ j + 1 # i
    BY <1>0, <1>3, <1>i
  <1>5. \A j \in 1..(n - 1) : t[j] \in DOMAIN g
    <2> TAKE j \in 1..(n - 1)
    <2>1. CASE j < i
      BY <1>0, <1>1, <1>4, <1>i, <2>1
    <2>2. CASE ~(j < i)
      BY <1>0, <1>1, <1>4, <1>i, <2>2
    <2> QED BY <2>1, <2>2
  <1>6. t \in Seq(DOMAIN g)
    <2>1. Len(t) \in Nat /\ t = [j \in 1..Len(t) |-> t[j]]
      BY <1>3
    <2>2. \A j \in 1..Len(t) : t[j] \in DOMAIN g
      BY <1>3, <1>5
    <2> DEFINE k == Len(t)
               D == DOMAIN g
    <2> HIDE DEF k, D
    <2>3. k \in Nat /\ t = [j \in 1..k |-> t[j]] /\ \A j \in 1..k : t[j] \in D
      BY <2>1, <2>2 DEF k, D
    <2>4. t \in Seq(D)
      BY <2>3
    <2> QED BY <2>4 DEF D
  <1>7. ASSUME NEW j \in 1..(n - 1), NEW k \in 1..(n - 1), t[j] = t[k] PROVE j = k
    <2>1. CASE j < i /\ k < i
      BY <1>0, <1>4, <1>7, <2>1
    <2>2. CASE j < i /\ ~(k < i)
      <3>1. j = k + 1
        BY <1>0, <1>4, <1>7, <2>2
      <3> QED BY <1>0, <1>i, <2>2, <3>1
    <2>3. CASE ~(j < i) /\ k < i
      <3>1. j + 1 = k
        BY <1>0, <1>4, <1>7, <2>3
      <3> QED BY <1>0, <1>i, <2>3, <3>1
    <2>4. CASE ~(j < i) /\ ~(k < i)
      <3>1. j + 1 = k + 1
        BY <1>0, <1>4, <1>7, <2>4
      <3> QED BY <1>0, <3>1
    <2> QED BY <2>1, <2>2, <2>3, <2>4
  <1>8. ASSUME NEW j \in 1..(n - 1)
        PROVE  /\ g[t[j]].prev = IF j = 1 THEN NULL ELSE t[j - 1]
               /\ g[t[j]].next = IF j = n - 1 THEN NULL ELSE t[j + 1]
    <2>0. /\ j # 1 => j - 1 \in 1..(n - 1)
          /\ j # n - 1 => j + 1 \in 1..(n - 1)
          /\ j \in Nat
      BY <1>0
    <2>1. CASE j < i
      <3>1. t[j] = s[j] /\ j \in 1..n /\ s[j] \in DOMAIN g
        BY <1>4, <1>5, <2>1
      <3>2. /\ h[s[j]].prev = IF j = 1 THEN NULL ELSE s[j - 1]
            /\ h[s[j]].next = IF j = n THEN NULL ELSE s[j + 1]
        BY <3>1 DEF IsList, n
      <3>3. j # 1 => t[j - 1] = s[j - 1]
        BY <1>4, <1>i, <2>0, <2>1
      <3>4. s[j] # b
        <4>1. i # n => i + 1 \in 1..n /\ i + 1 # j
          BY <1>0, <1>i, <2>0, <2>1
        <4> QED BY <1>0, <1>2, <3>1, <4>1
      <3>5. g[s[j]].prev = h[s[j]].prev
        BY <1>1, <3>1, <3>4
      <3>6. CASE j = i - 1
        <4>1. i # 1 /\ s[j] = a
          BY <1>2, <1>i, <2>0, <3>6
        <4>2. g[s[j]].next = b
          BY <1>1, <3>1, <4>1
        <4>3. (i = n) <=> (j = n - 1)
          BY <1>0, <1>i, <2>0, <3>6
        <4>4. j # n - 1 => t[j + 1] = s[(j + 1) + 1] /\ (j + 1) + 1 = i + 1
          BY <1>4, <1>i, <2>0, <3>6
        <4> QED BY <1>2, <3>1, <3>2, <3>3, <3>5, <4>2, <4>3, <4>4
      <3>7. CASE j # i - 1
        <4>1. j + 1 < i /\ j # n /\ j # n - 1
          BY <1>0, <1>i, <2>0, <2>1, <3>7
        <4>2. t[j + 1] = s[j + 1]
          BY <1>4, <2>0, <4>1
        <4>3. s[j] # a
          <5>1. i # 1 => i - 1 \in 1..n
            BY <1>0, <1>i
          <5> QED BY <1>0, <1>2, <3>1, <3>7, <5>1
        <4>4. g[s[j]].next = h[s[j]].next
          BY <1>1, <3>1, <4>3
        <4> QED BY <3>1, <3>2, <3>3, <3>5, <4>1, <4>2, <4>4
      <3> QED BY <3>6, <3>7
    <2>2. CASE ~(j < i)
      <3> DEFINE k == j + 1
      <3>1. t[j] = s[k] /\ k \in 1..n /\ s[k] \in DOMAIN g /\ k # 1
        <4>1. t[j] = s[k] /\ k \in 1..n /\ t[j] \in DOMAIN g
          BY <1>4, <1>5, <2>2
        <4>2. k # 1
          BY <2>0
        <4> HIDE DEF k
        <4> QED BY <4>1, <4>2
      <3>2. /\ h[s[k]].prev = s[k - 1]
            /\ h[s[k]].next = IF k = n THEN NULL ELSE s[k + 1]
        BY <3>1 DEF IsList, n
      <3>3. (k = n) <=> (j = n - 1)
        BY <1>0, <2>0
      <3>4. j # n - 1 => t[j + 1] = s[k + 1]
        BY <1>0, <1>4, <1>i, <2>0, <2>2
      <3>5. s[k] # a
        <4>1. i # 1 => i - 1 \in 1..n /\ i - 1 # k
          BY <1>0, <1>i, <2>0, <2>2
        <4> QED BY <1>0, <1>2, <3>1, <4>1
      <3>6. g[s[k]].next = h[s[k]].next
        BY <1>1, <3>1, <3>5
      <3>7. k - 1 = j
        BY <2>0
      <3>8. CASE j = i
        <4>1. i # n /\ s[k] = b
          BY <1>0, <1>2, <1>i, <3>1, <3>8
        <4>2. g[s[k]].prev = a
          BY <1>1, <3>1, <4>1
        <4>3. j # 1 => t[j - 1] = s[i - 1]
          BY <1>4, <1>i, <2>0, <3>8
        <4> HIDE DEF k
        <4> QED BY <1>2, <3>1, <3>2, <3>3, <3>4, <3>6, <3>8, <4>2, <4>3
      <3>9. CASE j # i
        <4>1. ~(j - 1 < i) /\ j # 1 /\ (j - 1) + 1 = j
          BY <1>i, <2>0, <2>2, <3>9
        <4>2. t[j - 1] = s[j]
          BY <1>4, <2>0, <4>1
        <4>3. s[k] # b
          <5>1. i # n => i + 1 \in 1..n /\ i + 1 # k
            BY <1>0, <1>i, <2>0, <3>9
          <5> QED BY <1>0, <1>2, <3>1, <5>1
        <4>4. g[s[k]].prev = h[s[k]].prev
          BY <1>1, <3>1, <4>3
        <4> HIDE DEF k
        <4> QED BY <3>1, <3>2, <3>3, <3>4, <3>6, <3>7, <4>1, <4>2, <4>4
      <3> QED BY <3>8, <3>9
    <2> QED BY <2>1, <2>2
  <1>9. IsList(g, t)
    BY <1>3, <1>6, <1>7, <1>8 DEF IsList
  <1>10. In(t) = In(s) \ {p}
    <2>1. ASSUME NEW x \in In(t) PROVE x \in In(s) /\ x # p
      <3>1. PICK j \in 1..(n - 1) : x = t[j]
        BY <1>3 DEF In
      <3>2. \E k \in 1..n : x = s[k] /\ k # i
        <4>1. CASE j < i
          BY <1>4, <1>i, <3>1, <4>1
        <4>2. CASE ~(j < i)
          BY <1>4, <3>1, <4>2
        <4> QED BY <4>1, <4>2
      <3> QED BY <1>0, <1>i, <3>2 DEF In, n
    <2>2. ASSUME NEW x \in In(s), x # p PROVE x \in In(t)
      <3>1. PICK k \in 1..n : x = s[k]
        BY DEF In, n
      <3>2. k # i
        BY <1>i, <2>2, <3>1
      <3>3. CASE k < i
        <4>1. k \in 1..(n - 1) /\ t[k] = s[k]
          BY <1>0, <1>3, <1>i, <3>3
        <4> QED BY <1>3, <3>1, <4>1 DEF In
      <3>4. CASE k > i
        <4>1. k - 1 \in 1..(n - 1) /\ ~(k - 1 < i) /\ (k - 1) + 1 = k
          BY <1>0, <1>i, <3>4
        <4>2. t[k - 1] = s[k]
          BY <1>4, <4>1
        <4> QED BY <1>3, <3>1, <4>1, <4>2 DEF In
      <3> QED BY <1>0, <1>i, <3>2, <3>3, <3>4
    <2> QED BY <2>1, <2>2
  <1>11. Touches(h, g, s, {p})
    <2>1. {p} \subseteq In(s)
      BY <1>i DEF In, n
    <2>2. ASSUME NEW x \in DOMAIN h \ In(s)
          PROVE  g[x].prev = h[x].prev /\ g[x].next = h[x].next
      <3>1. \A k \in 1..n : x # s[k]
        BY DEF In, n
      <3>2. x \in DOMAIN g /\ x # NULL
        BY <1>1, <1>i, <3>1 DEF HeapTyped
      <3>3. /\ i # 1 => i - 1 \in 1..n
            /\ i # n => i + 1 \in 1..n
        BY <1>0, <1>i
      <3>4. x # a /\ x # b
        BY <1>2, <3>1, <3>2, <3>3
      <3> QED BY <1>1, <3>2, <3>4
    <2> QED BY <1>1, <2>1, <2>2 DEF Touches
  <1> QED BY <1>1, <1>9, <1>10, <1>11 DEF t, p

-----------------------------------------------------------------------------
(* list_swap_neighbor *)

\* g is h with the neighbours p and q exchanged, between a and b.
Swapped(h, g, p, q, a, b) ==
    /\ DOMAIN g = DOMAIN h
    /\ HeapOK(g)
    /\ \A x \in DOMAIN h :
          /\ g[x].next = IF x = p THEN b ELSE IF x = q THEN p
                         ELSE IF x = a THEN q ELSE h[x].next
          /\ g[x].prev = IF x = p THEN q ELSE IF x = q THEN a
                         ELSE IF x = b THEN p ELSE h[x].prev
          /\ g[x].data = h[x].data

\* list_swap_neighbor: where the pointers of each item go
LEMMA SwapPointers ==
    ASSUME NEW h, HeapOK(h), NULL \notin DOMAIN h,
           NEW p \in DOMAIN h, NEW q \in DOMAIN h, p # q, h[p].next = q,
           h[q].prev = p, h[p].prev # q, h[q].next # p,
           h[p].prev # p, h[q].next # q
    PROVE  Swapped(h, ListSwapNeighbor(h, p, q), p, q, h[p].prev, h[q].next)
  <1> DEFINE a == h[p].prev
             b == h[q].next
             h1 == Link(h, a, "next", q)
             h2 == Link(h1, b, "prev", p)
             g == ListSwapNeighbor(h, p, q)
  <1>1. a \in DOMAIN h \cup {NULL} /\ b \in DOMAIN h \cup {NULL}
    BY DEF HeapOK
  <1>2. DOMAIN h1 = DOMAIN h /\ HeapOK(h1)
    BY <1>1 DEF HeapOK, Link
  <1>3. \A x \in DOMAIN h : /\ h1[x].next = IF x = a THEN q ELSE h[x].next
                            /\ h1[x].prev = h[x].prev
                            /\ h1[x].data = h[x].data
    BY <1>1 DEF HeapOK, Link
  <1> HIDE DEF h1
  <1>4. DOMAIN h2 = DOMAIN h /\ HeapOK(h2)
    BY <1>1, <1>2 DEF HeapOK, Link
  <1>5. \A x \in DOMAIN h : /\ h2[x].next = h1[x].next
                            /\ h2[x].prev = IF x = b THEN p ELSE h1[x].prev
                            /\ h2[x].data = h1[x].data
    BY <1>1, <1>2 DEF HeapOK, Link
  <1> DEFINE e1 == [h2 EXCEPT ![p].next = h2[q].next]
             e2 == [e1 EXCEPT ![q].prev = h2[p].prev]
             e3 == [e2 EXCEPT ![p].prev = q]
             e4 == [e3 EXCEPT ![q].next = p]
  <1>6. g = e4
    BY DEF ListSwapNeighbor, h1
  <1> HIDE DEF h2
  <1>7. h2[q].next \in DOMAIN h \cup {NULL} /\ h2[p].prev \in DOMAIN h \cup {NULL}
    BY <1>4 DEF HeapOK
  <1>8. /\ DOMAIN e1 = DOMAIN h /\ HeapOK(e1)
        /\ \A x \in DOMAIN h :
              /\ e1[x].next = IF x = p THEN h2[q].next ELSE h2[x].next
              /\ e1[x].prev = h2[x].prev
              /\ e1[x].data = h2[x].data
    BY <1>4, <1>7 DEF HeapOK
  <1> HIDE DEF e1
  <1>9. /\ DOMAIN e2 = DOMAIN h /\ HeapOK(e2)
        /\ \A x \in DOMAIN h :
              /\ e2[x].next = e1[x].next
              /\ e2[x].prev = IF x = q THEN h2[p].prev ELSE e1[x].prev
              /\ e2[x].data = e1[x].data
    BY <1>7, <1>8 DEF HeapOK
  <1> HIDE DEF e2
  <1>10. /\ DOMAIN e3 = DOMAIN h /\ HeapOK(e3)
         /\ \A x \in DOMAIN h :
              /\ e3[x].next = e2[x].next
              /\ e3[x].prev = IF x = p THEN q ELSE e2[x].prev
              /\ e3[x].data = e2[x].data
    BY <1>9 DEF HeapOK
  <1> HIDE DEF e3
  <1>11. /\ DOMAIN e4 = DOMAIN h /\ HeapOK(e4)
         /\ \A x \in DOMAIN h :
              /\ e4[x].next = IF x = q THEN p ELSE e3[x].next
              /\ e4[x].prev = e3[x].prev
              /\ e4[x].data = e3[x].data
    BY <1>10 DEF HeapOK
  <1> HIDE DEF e4, g
  <1>12. ASSUME NEW x \in DOMAIN h
         PROVE  /\ g[x].next = IF x = p THEN b ELSE IF x = q THEN p
                               ELSE IF x = a THEN q ELSE h[x].next
                /\ g[x].prev = IF x = p THEN q ELSE IF x = q THEN a
                               ELSE IF x = b THEN p ELSE h[x].prev
                /\ g[x].data = h[x].data
    <2>1. /\ g[x].next = IF x = q THEN p ELSE IF x = p THEN h2[q].next ELSE h2[x].next
          /\ g[x].prev = IF x = p THEN q ELSE IF x = q THEN h2[p].prev ELSE h2[x].prev
          /\ g[x].data = h2[x].data
      BY <1>6, <1>8, <1>9, <1>10, <1>11
    <2>2. h2[q].next = b /\ h2[p].prev = a
      BY <1>3, <1>5
    <2>3. h2[x].data = h[x].data /\ h2[x].next = (IF x = a THEN q ELSE h[x].next)
          /\ h2[x].prev = (IF x = b THEN p ELSE h[x].prev)
      BY <1>3, <1>5
    <2> QED BY <2>1, <2>2, <2>3
  <1> QED
    BY <1>6, <1>11, <1>12 DEF Swapped, g

\* The sequence with the items at i and i + 1 exchanged
Exchanged(s, i) == [s EXCEPT ![i] = s[i + 1], ![i + 1] = s[i]]

\* What Exchanged is, item by item
LEMMA ExchangedIs ==
    ASSUME NEW T, NEW s \in Seq(T), NEW i \in 1..(Len(s) - 1)
    PROVE  /\ Exchanged(s, i) \in Seq(T) /\ Len(Exchanged(s, i)) = Len(s)
           /\ \A j \in 1..Len(s) : Exchanged(s, i)[j] =
                IF j = i THEN s[i + 1] ELSE IF j = i + 1 THEN s[i] ELSE s[j]
  <1>1. Len(s) \in Nat /\ i \in 1..Len(s) /\ i + 1 \in 1..Len(s) /\ i # i + 1
    OBVIOUS
  <1>2. s[i] \in T /\ s[i + 1] \in T
    BY <1>1
  <1> DEFINE x == s[i]
             y == s[i + 1]
             a == [s EXCEPT ![i] = y]
             k == i + 1
             b == [a EXCEPT ![k] = x]
  <1>3. Exchanged(s, i) = b
    BY DEF Exchanged
  <1> HIDE DEF x, y, k
  <1>4. a \in Seq(T) /\ Len(a) = Len(s) /\ \A j \in 1..Len(s) : a[j] = IF j = i THEN y ELSE s[j]
    BY <1>1, <1>2 DEF y
  <1> HIDE DEF a
  <1>5. b \in Seq(T) /\ Len(b) = Len(s) /\ \A j \in 1..Len(s) : b[j] = IF j = k THEN x ELSE a[j]
    BY <1>1, <1>2, <1>4 DEF x, k
  <1> HIDE DEF b
  <1>6. \A j \in 1..Len(s) : b[j] = IF j = i THEN y ELSE IF j = k THEN x ELSE s[j]
    BY <1>1, <1>4, <1>5 DEF k
  <1> QED BY <1>3, <1>5, <1>6 DEF x, y, k

\* list_swap_neighbor exchanges two neighbours of the sequence.
LEMMA SwappedList ==
    ASSUME NEW h, HeapTyped(h), NEW s, IsList(h, s), NEW i \in 1..(Len(s) - 1),
           NEW g, g = ListSwapNeighbor(h, s[i], s[i + 1])
    PROVE  /\ HeapTyped(g)
           /\ Touches(h, g, s, {})
           /\ IsList(g, Exchanged(s, i))
           /\ In(Exchanged(s, i)) = In(s)
           /\ Len(Exchanged(s, i)) = Len(s)
  <1> DEFINE t == Exchanged(s, i)
             n == Len(s)
             k == i + 1
             p == s[i]
             q == s[i + 1]
             a == h[p].prev
             b == h[q].next
  <1>0. /\ s \in Seq(DOMAIN h) /\ n \in Nat
        /\ \A j \in 1..n : s[j] \in DOMAIN h /\ s[j] # NULL
        /\ \A j, m \in 1..n : s[j] = s[m] => j = m
    BY DEF IsList, HeapTyped
  <1>i. i \in 1..n /\ k \in 1..n /\ i # k /\ i # n /\ k # 1
    BY <1>0
  <1>1. /\ a = IF i = 1 THEN NULL ELSE s[i - 1]
        /\ h[p].next = q
        /\ h[q].prev = p
        /\ b = IF k = n THEN NULL ELSE s[k + 1]
    <2>1. /\ a = IF i = 1 THEN NULL ELSE s[i - 1]
          /\ h[p].next = q
      BY <1>i DEF IsList
    <2>2. (i + 1) - 1 = i
      BY <1>0
    <2>3. /\ h[s[k]].prev = IF k = 1 THEN NULL ELSE s[k - 1]
          /\ h[s[k]].next = IF k = n THEN NULL ELSE s[k + 1]
      BY <1>i DEF IsList
    <2> QED BY <1>i, <2>1, <2>2, <2>3
  <1>2. t \in Seq(DOMAIN h) /\ Len(t) = n
        /\ \A j \in 1..n : t[j] = IF j = i THEN s[k] ELSE IF j = k THEN s[i] ELSE s[j]
    BY <1>0, ExchangedIs
  <1> HIDE DEF n, t
  <1>j. /\ i # 1 => i - 1 \in 1..n /\ i - 1 # k /\ i - 1 # i
        /\ k # n => k + 1 \in 1..n /\ k + 1 # i /\ k + 1 # k
    BY <1>0, <1>i
  <1>3. a # q /\ b # p /\ a # p /\ b # q
    <2>1. a # q /\ a # p
      BY <1>0, <1>1, <1>i, <1>j
    <2>2. b # q /\ b # p
      BY <1>0, <1>1, <1>i, <1>j
    <2> QED BY <2>1, <2>2
  <1>4. Swapped(h, g, p, q, a, b)
    <2>1. /\ HeapOK(h) /\ NULL \notin DOMAIN h /\ p \in DOMAIN h /\ q \in DOMAIN h /\ p # q
      BY <1>0, <1>i DEF HeapTyped
    <2> QED BY <1>1, <1>3, <2>1, SwapPointers
  <1> HIDE DEF a, b
  <1>k. k = i + 1
    OBVIOUS
  <1> HIDE DEF k
  <1>p. p = s[i] /\ q = s[k]
    BY <1>k
  <1> HIDE DEF p, q
  <1>5. /\ DOMAIN g = DOMAIN h /\ HeapOK(g)
        /\ \A x \in DOMAIN h :
             /\ g[x].next = IF x = p THEN b ELSE IF x = q THEN p
                            ELSE IF x = a THEN q ELSE h[x].next
             /\ g[x].prev = IF x = p THEN q ELSE IF x = q THEN a
                            ELSE IF x = b THEN p ELSE h[x].prev
             /\ g[x].data = h[x].data
    BY <1>4 DEF Swapped
  <1>6. HeapTyped(g)
    BY <1>5 DEF HeapTyped
  <1>7. \A j \in 1..n : /\ j = i => t[j] = q
                        /\ j = k => t[j] = p
                        /\ j # i /\ j # k => t[j] = s[j]
    BY <1>2, <1>i, <1>p
  <1>8. ASSUME NEW j \in 1..n, NEW m \in 1..n, t[j] = t[m] PROVE j = m
    <2>1. CASE j = i
      BY <1>0, <1>7, <1>8, <1>i, <1>p, <2>1
    <2>2. CASE j = k
      BY <1>0, <1>7, <1>8, <1>i, <1>p, <2>2
    <2>3. CASE j # i /\ j # k
      BY <1>0, <1>7, <1>8, <1>i, <1>p, <2>3
    <2> QED BY <2>1, <2>2, <2>3
  <1>9. ASSUME NEW j \in 1..n
        PROVE  /\ g[t[j]].prev = IF j = 1 THEN NULL ELSE t[j - 1]
               /\ g[t[j]].next = IF j = n THEN NULL ELSE t[j + 1]
    <2>0. /\ j # 1 => j - 1 \in 1..n
          /\ j # n => j + 1 \in 1..n
      BY <1>0
    <2>p. p \in DOMAIN h /\ q \in DOMAIN h /\ p # q
      BY <1>0, <1>i, <1>p
    <2>1. CASE j = i
      <3>1. t[j] = q /\ g[q].prev = a /\ g[q].next = p
        BY <1>5, <1>7, <2>1, <2>p
      <3>2. j # n /\ t[j + 1] = p
        BY <1>7, <1>i, <1>k, <2>1
      <3>3. j # 1 => t[j - 1] = s[i - 1]
        BY <1>7, <1>j, <2>0, <2>1
      <3> QED BY <1>1, <2>1, <3>1, <3>2, <3>3
    <2>2. CASE j = k
      <3>1. t[j] = p /\ g[p].prev = q /\ g[p].next = b
        BY <1>5, <1>7, <2>2, <2>p
      <3>2. j # 1 /\ t[j - 1] = q
        <4>1. k - 1 = i
          BY <1>0, <1>k, <1>i
        <4> QED BY <1>7, <1>i, <2>2, <4>1
      <3>3. j # n => t[j + 1] = s[k + 1]
        BY <1>7, <1>j, <2>0, <2>2
      <3> QED BY <1>1, <2>2, <3>1, <3>2, <3>3
    <2>3. CASE j # i /\ j # k
      <3>1. t[j] = s[j] /\ s[j] \in DOMAIN h /\ s[j] # p /\ s[j] # q /\ s[j] # NULL
        BY <1>0, <1>7, <1>i, <1>p, <2>3
      <3>2. /\ h[s[j]].prev = IF j = 1 THEN NULL ELSE s[j - 1]
            /\ h[s[j]].next = IF j = n THEN NULL ELSE s[j + 1]
        BY DEF IsList, n
      <3>3. g[s[j]].prev = IF j = 1 THEN NULL ELSE t[j - 1]
        <4>1. CASE j = k + 1
          <5>1. j # 1 /\ j - 1 = k /\ k # n
            BY <1>0, <1>i, <4>1
          <5>2. s[j] = b
            BY <1>1, <4>1, <5>1
          <5> QED BY <1>5, <1>7, <1>i, <3>1, <5>1, <5>2
        <4>2. CASE j # k + 1
          <5>1. j # 1 => j - 1 # k /\ j - 1 # i
            BY <1>0, <1>i, <1>k, <2>3, <4>2
          <5>2. s[j] # b
            BY <1>0, <1>1, <1>j, <3>1, <4>2
          <5>3. j # 1 => t[j - 1] = s[j - 1]
            BY <1>7, <2>0, <5>1
          <5> QED BY <1>5, <3>1, <3>2, <5>2, <5>3
        <4> QED BY <4>1, <4>2
      <3>4. g[s[j]].next = IF j = n THEN NULL ELSE t[j + 1]
        <4>1. CASE j = i - 1
          <5>1. j # n /\ j + 1 = i /\ i # 1
            BY <1>0, <1>i, <4>1
          <5>2. s[j] = a
            BY <1>1, <4>1, <5>1
          <5> QED BY <1>5, <1>7, <1>i, <3>1, <5>1, <5>2
        <4>2. CASE j # i - 1
          <5>1. j # n => j + 1 # k /\ j + 1 # i
            BY <1>0, <1>i, <1>k, <2>3, <4>2
          <5>2. s[j] # a
            BY <1>0, <1>1, <1>j, <3>1, <4>2
          <5>3. j # n => t[j + 1] = s[j + 1]
            BY <1>7, <2>0, <5>1
          <5> QED BY <1>5, <3>1, <3>2, <5>2, <5>3
        <4> QED BY <4>1, <4>2
      <3> QED BY <3>1, <3>3, <3>4
    <2> QED BY <2>1, <2>2, <2>3
  <1>10. IsList(g, t)
    BY <1>2, <1>5, <1>8, <1>9 DEF IsList
  <1>11. In(t) = In(s)
    <2>1. ASSUME NEW x \in In(t) PROVE x \in In(s)
      <3>1. PICK j \in 1..n : x = t[j]
        BY <1>2 DEF In
      <3>2. \E m \in 1..n : x = s[m]
        BY <1>7, <1>i, <1>p, <3>1
      <3> QED BY <3>2 DEF In, n
    <2>2. ASSUME NEW x \in In(s) PROVE x \in In(t)
      <3>1. PICK j \in 1..n : x = s[j]
        BY DEF In, n
      <3>2. \E m \in 1..n : x = t[m]
        BY <1>7, <1>i, <1>p, <3>1
      <3> QED BY <1>2, <3>2 DEF In
    <2> QED BY <2>1, <2>2
  <1>12. Touches(h, g, s, {})
    <2>1. ASSUME NEW x \in DOMAIN h \ In(s)
          PROVE  g[x].prev = h[x].prev /\ g[x].next = h[x].next
      <3>1. \A m \in 1..n : x # s[m]
        BY DEF In, n
      <3>2. x # NULL
        BY DEF HeapTyped
      <3>3. x # a /\ x # b /\ x # p /\ x # q
        BY <1>1, <1>i, <1>j, <1>p, <3>1, <3>2
      <3> QED BY <1>5, <3>3
    <2> QED BY <1>5, <2>1 DEF Touches
  <1> QED BY <1>2, <1>6, <1>10, <1>11, <1>12 DEF t, n

-----------------------------------------------------------------------------
(* list_obj_add: one list goes to the end of another *)

\* g is h with the first item n of a list put after the last item e of another.
Joined(h, g, e, n) ==
    /\ DOMAIN g = DOMAIN h
    /\ HeapOK(g)
    /\ \A x \in DOMAIN h :
          /\ g[x].next = IF x = e THEN n ELSE h[x].next
          /\ g[x].prev = IF x = n THEN e ELSE h[x].prev
          /\ g[x].data = h[x].data

\* The list that another was put behind is the two sequences, one after the other.
LEMMA JoinedList ==
    ASSUME NEW h, HeapTyped(h), NEW g, NEW s, NEW t, IsList(h, s), IsList(h, t),
           Len(s) # 0, Len(t) # 0, In(s) \cap In(t) = {},
           Joined(h, g, s[Len(s)], t[1])
    PROVE  IsList(g, s \o t)
  <1> DEFINE a == Len(s)
             b == Len(t)
             u == s \o t
             e == s[a]
             n == t[1]
  <1>0. /\ s \in Seq(DOMAIN h) /\ t \in Seq(DOMAIN h) /\ a \in Nat \ {0} /\ b \in Nat \ {0}
        /\ \A j \in 1..a : s[j] \in DOMAIN h
        /\ \A j \in 1..b : t[j] \in DOMAIN h
        /\ \A j, k \in 1..a : s[j] = s[k] => j = k
        /\ \A j, k \in 1..b : t[j] = t[k] => j = k
    BY DEF IsList
  <1>1. \A j \in 1..a, k \in 1..b : s[j] # t[k]
    <2> SUFFICES ASSUME NEW j \in 1..a, NEW k \in 1..b, s[j] = t[k] PROVE FALSE
      OBVIOUS
    <2>1. s[j] \in In(s) /\ s[j] \in In(t)
      BY DEF In
    <2> QED BY <2>1
  <1>2. /\ DOMAIN g = DOMAIN h
        /\ \A x \in DOMAIN h :
             /\ g[x].next = IF x = e THEN n ELSE h[x].next
             /\ g[x].prev = IF x = n THEN e ELSE h[x].prev
    BY DEF Joined
  <1>3. /\ u \in Seq(DOMAIN h) /\ Len(u) = a + b
        /\ \A j \in 1..a : u[j] = s[j]
        /\ \A j \in (a + 1)..(a + b) : u[j] = t[j - a]
    BY <1>0, ConcatIs
  <1>4. /\ \A j \in 1..a : /\ h[s[j]].prev = IF j = 1 THEN NULL ELSE s[j - 1]
                           /\ h[s[j]].next = IF j = a THEN NULL ELSE s[j + 1]
        /\ \A j \in 1..b : /\ h[t[j]].prev = IF j = 1 THEN NULL ELSE t[j - 1]
                           /\ h[t[j]].next = IF j = b THEN NULL ELSE t[j + 1]
    BY DEF IsList
  <1> HIDE DEF a, b, u, e, n
  <1>e. e = s[a] /\ n = t[1] /\ a \in 1..a /\ 1 \in 1..b
    BY <1>0 DEF e, n
  <1>5. \A j \in 1..(a + b) :
          /\ j <= a => j \in 1..a /\ u[j] = s[j]
          /\ j > a => j - a \in 1..b /\ u[j] = t[j - a]
    BY <1>0, <1>3
  <1>6. ASSUME NEW j \in 1..(a + b), NEW k \in 1..(a + b), u[j] = u[k] PROVE j = k
    <2>0. j \in Int /\ k \in Int /\ a \in Int
      BY <1>0
    <2>1. CASE j <= a /\ k <= a
      BY <1>0, <1>5, <1>6, <2>1
    <2>2. CASE j > a /\ k > a
      <3>1. j - a = k - a
        BY <1>0, <1>5, <1>6, <2>2
      <3> QED BY <2>0, <3>1
    <2>3. CASE j <= a /\ k > a
      BY <1>1, <1>5, <1>6, <2>3
    <2>4. CASE j > a /\ k <= a
      BY <1>1, <1>5, <1>6, <2>4
    <2> QED BY <2>0, <2>1, <2>2, <2>3, <2>4
  <1>7. ASSUME NEW j \in 1..(a + b)
        PROVE  /\ g[u[j]].prev = IF j = 1 THEN NULL ELSE u[j - 1]
               /\ g[u[j]].next = IF j = a + b THEN NULL ELSE u[j + 1]
    <2>0. /\ j # 1 => j - 1 \in 1..(a + b)
          /\ j # a + b => j + 1 \in 1..(a + b)
          /\ j \in Int /\ a \in Int /\ b \in Int
      <3>1. /\ a \in Nat \ {0} /\ b \in Nat \ {0}
            /\ j \in 1..(a + b)
        BY <1>0
      <3> QED BY ONLY <3>1
    <2>1. CASE j <= a
      <3>1. j \in 1..a /\ u[j] = s[j] /\ s[j] \in DOMAIN h /\ s[j] # n
        BY <1>0, <1>1, <1>5, <1>e, <2>1
      <3>2. g[s[j]].prev = h[s[j]].prev
        BY <1>2, <3>1
      <3>3. j # 1 => u[j - 1] = s[j - 1]
        BY <1>5, <2>0, <2>1
      <3>4. j # a + b
        BY <1>0, <2>1
      <3>5. g[s[j]].next = u[j + 1]
        <4>1. CASE j = a
          <5>1. j + 1 > a /\ (j + 1) - a = 1
            BY <2>0, <4>1
          <5>2. u[j + 1] = n
            BY <1>5, <1>e, <2>0, <3>4, <5>1
          <5> QED BY <1>2, <1>e, <3>1, <4>1, <5>2
        <4>2. CASE j # a
          <5>1. j + 1 <= a
            BY <2>0, <2>1, <4>2
          <5>2. u[j + 1] = s[j + 1]
            BY <1>5, <2>0, <3>4, <5>1
          <5>3. s[j] # e
            BY <1>0, <1>e, <3>1, <4>2
          <5> QED BY <1>2, <1>4, <3>1, <4>2, <5>2, <5>3
        <4> QED BY <4>1, <4>2
      <3> QED BY <1>4, <3>1, <3>2, <3>3, <3>4, <3>5
    <2>2. CASE j > a
      <3> DEFINE k == j - a
      <3>1. k \in 1..b /\ u[j] = t[k]
        BY <1>5, <2>2
      <3>2. t[k] \in DOMAIN h /\ t[k] # e
        BY <1>0, <1>1, <1>e, <3>1
      <3>3. g[t[k]].next = h[t[k]].next
        BY <1>2, <3>2
      <3>4. (j = a + b) <=> (k = b)
        BY <2>0
      <3>5. j # a + b => u[j + 1] = t[k + 1]
        <4>1. (j + 1) - a = k + 1 /\ j + 1 > a
          BY <2>0, <2>2
        <4> HIDE DEF k
        <4> QED BY <1>5, <2>0, <4>1
      <3>6. j # 1
        BY <1>0, <2>2
      <3>7. g[t[k]].prev = u[j - 1]
        <4>1. CASE k = 1
          <5>1. j - 1 = a
            BY <2>0, <4>1
          <5>2. u[j - 1] = e
            BY <1>5, <1>e, <2>0, <3>6, <5>1
          <5>3. t[k] = n
            BY <1>e, <4>1
          <5> HIDE DEF k
          <5> QED BY <1>2, <3>2, <5>2, <5>3
        <4>2. CASE k # 1
          <5>1. j - 1 > a /\ (j - 1) - a = k - 1
            BY <2>0, <2>2, <4>2
          <5> HIDE DEF k
          <5>2. u[j - 1] = t[k - 1]
            BY <1>5, <2>0, <3>6, <5>1
          <5>3. t[k] # n
            BY <1>0, <1>e, <3>1, <4>2
          <5> QED BY <1>2, <1>4, <3>1, <3>2, <4>2, <5>2, <5>3
        <4> QED BY <4>1, <4>2
      <3> HIDE DEF k
      <3> QED BY <1>4, <3>1, <3>3, <3>4, <3>5, <3>6, <3>7
    <2> QED BY <2>0, <2>1, <2>2
  <1>8. IsList(g, u)
    BY <1>2, <1>3, <1>6, <1>7 DEF IsList
  <1> QED BY <1>8 DEF u

\* The lists l and m become one: its items are the ones of both.
Joins(h, g, p, q, v, l, m) ==
    /\ l # m
    /\ DOMAIN g = DOMAIN h
    /\ \A x \in DOMAIN h \ (In(v[l]) \cup In(v[m])) :
          g[x].prev = h[x].prev /\ g[x].next = h[x].next
    /\ IsList(g, v[l] \o v[m]) /\ Names(q[l], v[l] \o v[m])
    /\ q[m] = NULL
    /\ \A k \in List \ {l, m} : q[k] = p[k]

\* Putting one list behind another keeps the rest, and the one is empty.
LEMMA JoinedHolds ==
    ASSUME NEW h, NEW g, NEW p, NEW q, NEW v, Holds(h, p, v),
           NEW l \in List, NEW m \in List, Joins(h, g, p, q, v, l, m)
    PROVE  Holds(g, q, [v EXCEPT ![l] = v[l] \o v[m], ![m] = <<>>])
  <1> DEFINE s == v[l]
             t == v[m]
             u == s \o t
             w == [v EXCEPT ![l] = u, ![m] = <<>>]
  <1>j. /\ l # m /\ DOMAIN g = DOMAIN h
        /\ \A x \in DOMAIN h \ (In(v[l]) \cup In(v[m])) :
              g[x].prev = h[x].prev /\ g[x].next = h[x].next
        /\ q[m] = NULL
        /\ \A k \in List \ {l, m} : q[k] = p[k]
    BY DEF Joins
  <1>1. DOMAIN v = List /\ \A k \in List : IsList(h, v[k]) /\ Names(p[k], v[k])
    BY DEF Holds
  <1>2. DOMAIN w = List /\ w[l] = u /\ w[m] = <<>> /\ \A k \in List \ {l, m} : w[k] = v[k]
    BY <1>1, <1>j
  <1>d. \A k \in List : \A j \in 1..Len(v[k]) : v[k][j] \in DOMAIN h
    BY <1>1 DEF IsList
  <1>u. \A a, b \in List : \A j \in 1..Len(v[a]), k \in 1..Len(v[b]) :
          v[a][j] = v[b][k] => a = b
    BY DEF Holds
  <1>c. \A x \in DOMAIN h : \E k \in List : \E j \in 1..Len(v[k]) : x = v[k][j]
    BY DEF Holds
  <1>3. s \in Seq(DOMAIN h) /\ t \in Seq(DOMAIN h) /\ Len(s) \in Nat /\ Len(t) \in Nat
    BY <1>1 DEF IsList
  <1>n. IsList(g, u) /\ Names(q[l], u)
    BY DEF Joins
  <1> HIDE DEF w, s, t
  <1>4. /\ Len(u) = Len(s) + Len(t)
        /\ \A j \in 1..Len(s) : u[j] = s[j]
        /\ \A j \in (Len(s) + 1)..(Len(s) + Len(t)) : u[j] = t[j - Len(s)]
    BY <1>3, ConcatIs
  <1> HIDE DEF u
  <1>5. \A j \in 1..Len(u) : \/ \E k \in 1..Len(s) : u[j] = s[k]
                             \/ \E k \in 1..Len(t) : u[j] = t[k]
    <2> TAKE j \in 1..Len(u)
    <2>1. CASE j <= Len(s)
      <3>1. j \in 1..Len(s) /\ u[j] = s[j]
        BY <1>3, <1>4, <2>1
      <3> QED BY <3>1
    <2>2. CASE ~(j <= Len(s))
      <3>1. j - Len(s) \in 1..Len(t) /\ u[j] = t[j - Len(s)]
        BY <1>3, <1>4, <2>2
      <3> QED BY <3>1
    <2> QED BY <2>1, <2>2
  <1>6. ASSUME NEW k \in 1..Len(s) PROVE \E j \in 1..Len(u) : u[j] = s[k]
    <2>1. k \in 1..Len(u)
      BY <1>3, <1>4
    <2> QED BY <1>4, <2>1
  <1>7. ASSUME NEW k \in 1..Len(t) PROVE \E j \in 1..Len(u) : u[j] = t[k]
    <2>1. /\ Len(s) + k \in 1..Len(u) /\ Len(s) + k \in (Len(s) + 1)..(Len(s) + Len(t))
          /\ (Len(s) + k) - Len(s) = k
      BY <1>3, <1>4
    <2>2. u[Len(s) + k] = t[k]
      BY <1>4, <2>1
    <2> QED BY <2>1, <2>2
  <1>8. ASSUME NEW k \in List PROVE IsList(g, w[k]) /\ Names(q[k], w[k])
    <2>1. CASE k = l
      BY <1>2, <1>n, <2>1
    <2>2. CASE k = m
      BY <1>2, <1>j, <2>2 DEF IsList, Names
    <2>3. CASE k # l /\ k # m
      <3>1. w[k] = v[k] /\ q[k] = p[k]
        BY <1>2, <1>j, <2>3
      <3>2. ASSUME NEW j \in 1..Len(v[k])
            PROVE  /\ v[k][j] \in DOMAIN g
                   /\ g[v[k][j]].prev = h[v[k][j]].prev
                   /\ g[v[k][j]].next = h[v[k][j]].next
        <4>1. v[k][j] \in DOMAIN h /\ v[k][j] \notin In(v[l]) /\ v[k][j] \notin In(v[m])
          BY <1>d, <1>u, <2>3 DEF In
        <4> QED BY <1>j, <4>1
      <3>3. IsList(g, v[k])
        BY <1>1, <3>2, FrameList
      <3> QED BY <1>1, <3>1, <3>3
    <2> QED BY <2>1, <2>2, <2>3
  <1>9. ASSUME NEW a \in List, NEW b \in List, NEW j \in 1..Len(w[a]), NEW k \in 1..Len(w[b]),
               w[a][j] = w[b][k], a # b
        PROVE  FALSE
    <2>1. ASSUME NEW z \in List, z # l, NEW x \in 1..Len(w[z]), NEW y \in 1..Len(u),
                 w[z][x] = u[y]
          PROVE  FALSE
      <3>1. z # m
        BY <1>2, <2>1
      <3>2. w[z] = v[z]
        BY <1>2, <2>1, <3>1
      <3> QED BY <1>5, <1>u, <2>1, <3>1, <3>2 DEF s, t
    <2>2. CASE a = l
      BY <1>2, <1>9, <2>1, <2>2
    <2>3. CASE b = l
      BY <1>2, <1>9, <2>1, <2>3
    <2>4. CASE a # l /\ b # l
      <3>1. a # m /\ b # m
        BY <1>2, <1>9
      <3> QED BY <1>2, <1>u, <1>9, <2>4, <3>1
    <2> QED BY <2>2, <2>3, <2>4
  <1>10. ASSUME NEW x \in DOMAIN g PROVE \E k \in List : \E j \in 1..Len(w[k]) : x = w[k][j]
    <2>1. PICK k \in List : \E j \in 1..Len(v[k]) : x = v[k][j]
      BY <1>c, <1>j
    <2>2. CASE k = l
      BY <1>2, <1>6, <2>1, <2>2 DEF s
    <2>3. CASE k = m
      BY <1>2, <1>7, <2>1, <2>3 DEF t
    <2>4. CASE k # l /\ k # m
      BY <1>2, <2>1, <2>4
    <2> QED BY <2>2, <2>3, <2>4
  <1>11. Holds(g, q, w)
    BY <1>2, <1>8, <1>9, <1>10 DEF Holds
  <1> QED BY <1>11 DEF w, u, s, t

-----------------------------------------------------------------------------
(* The lists as the program keeps them *)

\* The callers' pointers p into heap h: every allocated item is in the list of
\* exactly one of them.
Core(h, p) ==
    /\ HeapTyped(h)
    /\ DOMAIN h \subseteq Node
    /\ p \in [List -> DOMAIN h \cup {NULL}]
    /\ Holds(h, p, Val(h, p))

KeyOf(h) == [n \in DOMAIN h |-> h[n].data]
KeyWith(h, n, d) == [m \in DOMAIN h \cup {n} |-> IF m = n THEN d ELSE h[m].data]

\* After a step: g and q are in order, with the lists v and the data k.
Done(g, q, v, k) == Core(g, q) /\ Val(g, q) = v /\ KeyOf(g) = k

\* Lists that hold the sequences v are in order, and v is what the callers see.
LEMMA CoreFrom ==
    ASSUME NEW g, HeapTyped(g), DOMAIN g \subseteq Node,
           NEW q, q = [l \in List |-> q[l]],
           NEW v, v = [l \in DOMAIN v |-> v[l]], Holds(g, q, v)
    PROVE  Core(g, q) /\ Val(g, q) = v
  <1>1. Val(g, q) = v
    BY ValIs
  <1>2. ASSUME NEW l \in List PROVE q[l] \in DOMAIN g \cup {NULL}
    <2>1. IsList(g, v[l]) /\ Names(q[l], v[l])
      BY DEF Holds
    <2> QED BY <2>1 DEF IsList, Names
  <1>3. q \in [List -> DOMAIN g \cup {NULL}]
    BY <1>2
  <1> QED BY <1>1, <1>3 DEF Core

\* The lists of a heap in order
LEMMA CoreLists ==
    ASSUME NEW h, NEW p, Core(h, p), NEW l \in List
    PROVE  /\ Val(h, p)[l] = Items(h, p[l])
           /\ IsList(h, Val(h, p)[l])
           /\ Names(p[l], Val(h, p)[l])
           /\ p[l] = NULL => Val(h, p)[l] = <<>>
           /\ p[l] # NULL => \E i \in 1..Len(Val(h, p)[l]) : p[l] = Val(h, p)[l][i]
  <1> DEFINE s == Val(h, p)[l]
  <1>1. s = Items(h, p[l])
    BY DEF Val
  <1>2. IsList(h, s) /\ Names(p[l], s) /\ NULL \notin DOMAIN h
    BY DEF Core, Holds, HeapTyped
  <1> HIDE DEF s
  <1>3. \A i \in 1..Len(s) : s[i] # NULL
    BY <1>2 DEF IsList
  <1>4. /\ p[l] = NULL => s = <<>>
        /\ p[l] # NULL => \E i \in 1..Len(s) : p[l] = s[i]
    BY <1>2, <1>3 DEF Names
  <1> QED BY <1>1, <1>2, <1>4 DEF s

\* In a heap in order both directions agree.
LEMMA CoreLinked ==
    ASSUME NEW h, NEW p, Core(h, p)
    PROVE  Linked(h)
  <1>1. NULL \notin DOMAIN h /\ Holds(h, p, Val(h, p))
    BY DEF Core, HeapTyped
  <1> QED BY <1>1, HoldsLinked DEF Linked

\* Item n is put before position i of list s, which is list l.
Inserting(h, p, g, q, l, s, i, n, d) ==
    /\ s = Val(h, p)[l]
    /\ q = [m \in List |-> q[m]]
    /\ i \in 1..(Len(s) + 1)
    /\ n \notin DOMAIN h
    /\ Inserted(h, g, s, i, n, d)
    /\ \A m \in List \ {l} : q[m] = p[m]
    /\ Names(q[l], InsertAt(s, i, n))

\* Putting an item into a list keeps the heap in order.
LEMMA InsertDone ==
    ASSUME NEW h, NEW p, Core(h, p), NEW g, NEW q, NEW l \in List, NEW s, NEW i,
           NEW n \in Node, NEW d, Inserting(h, p, g, q, l, s, i, n, d)
    PROVE  Done(g, q, [Val(h, p) EXCEPT ![l] = InsertAt(s, i, n)],
                KeyWith(h, n, d))
  <1> DEFINE v == Val(h, p)
             w == [v EXCEPT ![l] = InsertAt(s, i, n)]
  <1>1. HeapTyped(h) /\ DOMAIN h \subseteq Node /\ Holds(h, p, v) /\ NULL \notin DOMAIN h
    BY DEF Core, HeapTyped
  <1>2. v = [m \in DOMAIN v |-> v[m]]
    BY DEF Val
  <1> HIDE DEF v
  <1>3. /\ q = [m \in List |-> q[m]] /\ n \notin DOMAIN h
        /\ Inserted(h, g, v[l], i, n, d) /\ i \in 1..(Len(v[l]) + 1)
        /\ \A m \in List \ {l} : q[m] = p[m]
        /\ Names(q[l], InsertAt(v[l], i, n))
    BY DEF v, Inserting
  <1>4. Holds(g, q, w)
    <2>1. s = v[l]
      BY DEF v, Inserting
    <2>2. Holds(g, q, [v EXCEPT ![l] = InsertAt(v[l], i, n)])
      BY <1>1, <1>3, InsertedHolds
    <2> QED BY <2>1, <2>2
  <1>5. w = [m \in DOMAIN w |-> w[m]]
    BY <1>2
  <1> HIDE DEF w
  <1>6. HeapTyped(g) /\ DOMAIN g \subseteq Node
    <2>1. DOMAIN g = DOMAIN h \cup {n} /\ HeapOK(g)
      BY <1>3 DEF Inserted
    <2>2. IsFiniteSet(DOMAIN h \cup {n})
      BY <1>1, FS_AddElement DEF HeapTyped
    <2>3. n # NULL
      BY NullAssumption
    <2> QED BY <1>1, <2>1, <2>2, <2>3 DEF HeapTyped
  <1>7. Core(g, q) /\ Val(g, q) = w
    BY <1>3, <1>4, <1>5, <1>6, CoreFrom
  <1>8. KeyOf(g) = KeyWith(h, n, d)
    <2>1. /\ DOMAIN g = DOMAIN h \cup {n} /\ g[n].data = d
          /\ \A x \in DOMAIN h : g[x].data = h[x].data
      BY <1>3 DEF Inserted
    <2> QED BY <2>1 DEF KeyOf, KeyWith
  <1> QED BY <1>7, <1>8 DEF Done, w, v

\* The items in gone are freed, and the list s, which is list l, becomes t.
Touching(h, p, g, q, l, s, t, gone) ==
    /\ s = Val(h, p)[l]
    /\ q = [m \in List |-> q[m]]
    /\ HeapTyped(g)
    /\ Touches(h, g, s, gone)
    /\ IsList(g, t)
    /\ In(t) = In(s) \ gone
    /\ \A m \in List \ {l} : q[m] = p[m]
    /\ Names(q[l], t)

\* Rearranging or shortening a list keeps the heap in order.
LEMMA TouchDone ==
    ASSUME NEW h, NEW p, Core(h, p), NEW g, NEW q, NEW l \in List, NEW s, NEW t,
           NEW gone, Touching(h, p, g, q, l, s, t, gone)
    PROVE  Done(g, q, [Val(h, p) EXCEPT ![l] = t], [x \in DOMAIN h \ gone |-> h[x].data])
  <1> DEFINE v == Val(h, p)
             w == [v EXCEPT ![l] = t]
  <1>1. DOMAIN h \subseteq Node /\ Holds(h, p, v)
    BY DEF Core
  <1>2. v = [m \in DOMAIN v |-> v[m]]
    BY DEF Val
  <1> HIDE DEF v
  <1>3. /\ q = [m \in List |-> q[m]] /\ HeapTyped(g)
        /\ Touches(h, g, v[l], gone) /\ IsList(g, t) /\ In(t) = In(v[l]) \ gone
        /\ \A m \in List \ {l} : q[m] = p[m]
        /\ Names(q[l], t)
    BY DEF v, Touching
  <1>4. Holds(g, q, w)
    <2>1. Holds(h, p, v) /\ Touches(h, g, v[l], gone) /\ IsList(g, t)
      BY <1>1, <1>3
    <2>2. In(t) = In(v[l]) \ gone
      BY <1>3
    <2>3. \A m \in List \ {l} : q[m] = p[m]
      BY <1>3
    <2>4. Names(q[l], t)
      BY <1>3
    <2> QED BY ONLY <2>1, <2>2, <2>3, <2>4, l \in List, TouchesHolds, Zenon
  <1>5. w = [m \in DOMAIN w |-> w[m]]
    BY <1>2
  <1> HIDE DEF w
  <1>6. DOMAIN g = DOMAIN h \ gone /\ \A x \in DOMAIN g : g[x].data = h[x].data
    BY <1>3 DEF Touches
  <1>7. Core(g, q) /\ Val(g, q) = w
    BY <1>1, <1>3, <1>4, <1>5, <1>6, CoreFrom
  <1>8. KeyOf(g) = [x \in DOMAIN h \ gone |-> h[x].data]
    BY <1>6 DEF KeyOf
  <1> QED BY <1>7, <1>8 DEF Done, w, v

-----------------------------------------------------------------------------
(* The operations *)

\* An item is put into a list, or a list is rearranged or shortened
DidInsert(l, s, i, n, d) ==
    Done(heap', lst', [Val(heap, lst) EXCEPT ![l] = InsertAt(s, i, n)],
         KeyWith(heap, n, d))

DidTouch(l, t, gone) ==
    Done(heap', lst', [Val(heap, lst) EXCEPT ![l] = t],
         [x \in DOMAIN heap \ gone |-> heap[x].data])

\* InsertDone for a step of the specification
LEMMA InsertStep ==
    ASSUME Core(heap, lst), NEW l \in List, NEW s, NEW i, NEW n \in Node, NEW d,
           Inserting(heap, lst, heap', lst', l, s, i, n, d)
    PROVE  DidInsert(l, s, i, n, d)
  <1>1. Done(heap', lst', [Val(heap, lst) EXCEPT ![l] = InsertAt(s, i, n)],
             KeyWith(heap, n, d))
    BY InsertDone, Zenon
  <1> QED BY <1>1, Zenon DEF DidInsert

\* TouchDone for a step of the specification
LEMMA TouchStep ==
    ASSUME Core(heap, lst), NEW l \in List, NEW s, NEW t, NEW gone,
           Touching(heap, lst, heap', lst', l, s, t, gone)
    PROVE  DidTouch(l, t, gone)
  <1>1. Done(heap', lst', [Val(heap, lst) EXCEPT ![l] = t],
             [x \in DOMAIN heap \ gone |-> heap[x].data])
    BY TouchDone, Zenon
  <1> QED BY <1>1, Zenon DEF DidTouch

\* list_obj_add_new puts the item last.
LEMMA AddNewDone ==
    ASSUME Core(heap, lst), NEW l \in List, NEW n \in Node, NEW d \in Data,
           ObjAddNew(l, n, d)
    PROVE  DidInsert(l, Val(heap, lst)[l], Len(Val(heap, lst)[l]) + 1, n, d)
  <1> DEFINE s == Val(heap, lst)[l]
             i == Len(s) + 1
  <1> SUFFICES Inserting(heap, lst, heap', lst', l, s, i, n, d)
    BY InsertStep
  <1>s. s = Val(heap, lst)[l]
    OBVIOUS
  <1>0. n \notin DOMAIN heap /\ n # NULL
    BY NullAssumption DEF ObjAddNew
  <1>1. HeapTyped(heap) /\ lst \in [List -> DOMAIN heap \cup {NULL}]
    BY DEF Core
  <1>2. /\ IsList(heap, s)
        /\ lst[l] = NULL => s = <<>>
        /\ lst[l] # NULL => \E k \in 1..Len(s) : lst[l] = s[k]
    BY CoreLists
  <1> HIDE DEF s
  <1>3. Len(s) \in Nat /\ i \in 1..(Len(s) + 1)
    BY <1>2 DEF IsList
  <1>4. /\ InsertAt(s, i, n) \in Seq(Node) /\ Len(InsertAt(s, i, n)) = Len(s) + 1
        /\ \A j \in 1..(Len(s) + 1) : InsertAt(s, i, n)[j] =
              IF j < i THEN s[j] ELSE IF j = i THEN n ELSE s[j - 1]
    <2>1. s \in Seq(Node)
      BY <1>2 DEF IsList, Core
    <2> HIDE DEF i
    <2> QED BY <1>3, <2>1, InsertAtIs
  <1>5. CASE lst[l] = NULL
    <2>1. heap' = ListNew(heap, n, d) /\ lst' = [lst EXCEPT ![l] = n]
      BY <1>5 DEF ObjAddNew
    <2>2. s = <<>> /\ i = 1 /\ Len(s) = 0
      BY <1>2, <1>5
    <2>3. Inserted(heap, heap', s, i, n, d)
      BY <1>0, <1>1, <2>1, <2>2, NewAlone
    <2>4. /\ lst' = [m \in List |-> lst'[m]] /\ lst'[l] = n
          /\ \A m \in List \ {l} : lst'[m] = lst[m]
      BY <1>1, <2>1
    <2>5. Names(lst'[l], InsertAt(s, i, n))
      <3>1. 1 \in 1..Len(InsertAt(s, i, n)) /\ InsertAt(s, i, n)[1] = n
        BY <1>4, <2>2
      <3> QED BY <2>4, <3>1 DEF Names
    <2> HIDE DEF i
    <2> QED BY <1>0, <1>3, <2>3, <2>4, <2>5, <1>s DEF Inserting
  <1>6. CASE lst[l] # NULL
    <2>1. heap' = ListPush(ListNew(heap, n, d), lst[l], n) /\ lst' = lst
      BY <1>6 DEF ObjAddNew
    <2>2. PICK k \in 1..Len(s) : lst[l] = s[k]
      BY <1>2, <1>6
    <2>3. Inserted(heap, heap', s, i, n, d)
      BY <1>0, <1>1, <1>2, <2>1, <2>2, PushInserts
    <2>4. /\ lst' = [m \in List |-> lst'[m]] /\ lst'[l] = s[k]
          /\ \A m \in List \ {l} : lst'[m] = lst[m]
      BY <1>1, <2>1, <2>2
    <2>5. Names(lst'[l], InsertAt(s, i, n))
      <3>1. k \in 1..(Len(s) + 1) /\ k < i
        BY <1>3
      <3> HIDE DEF i
      <3>2. k \in 1..Len(InsertAt(s, i, n)) /\ InsertAt(s, i, n)[k] = s[k]
        BY <1>4, <3>1
      <3> QED BY <2>4, <3>2 DEF Names
    <2> HIDE DEF i
    <2> QED BY <1>0, <1>3, <2>3, <2>4, <2>5, <1>s DEF Inserting
  <1> QED BY <1>5, <1>6

\* The items of a sequence
LEMMA RangeIsIn ==
    ASSUME NEW T, NEW s \in Seq(T)
    PROVE  Range(s) = In(s)
  BY DEF Range, In

\* The positions of a sequence with one more item
LEMMA InsertAtNode ==
    ASSUME Core(heap, lst), NEW s, IsList(heap, s), NEW i \in 1..(Len(s) + 1),
           NEW n \in Node
    PROVE  /\ Len(s) \in Nat /\ Len(InsertAt(s, i, n)) = Len(s) + 1
           /\ \A j \in 1..(Len(s) + 1) : InsertAt(s, i, n)[j] =
                 IF j < i THEN s[j] ELSE IF j = i THEN n ELSE s[j - 1]
  <1>1. s \in Seq(Node) /\ Len(s) \in Nat
    BY DEF IsList, Core
  <1> QED BY <1>1, InsertAtIs

\* list_obj_insert_new puts the item first, and the pointer to it.
LEMMA InsertFirstDone ==
    ASSUME Core(heap, lst), NEW l \in List, NEW n \in Node, NEW d \in Data,
           ObjInsertNew(l, n, d)
    PROVE  DidInsert(l, Val(heap, lst)[l], 1, n, d)
  <1> DEFINE s == Val(heap, lst)[l]
  <1> SUFFICES Inserting(heap, lst, heap', lst', l, s, 1, n, d)
    BY InsertStep
  <1>s. s = Val(heap, lst)[l]
    OBVIOUS
  <1>0. n \notin DOMAIN heap /\ n # NULL
    BY NullAssumption DEF ObjInsertNew
  <1>1. HeapTyped(heap) /\ lst \in [List -> DOMAIN heap \cup {NULL}]
    BY DEF Core
  <1>2. /\ IsList(heap, s)
        /\ lst[l] = NULL => s = <<>>
        /\ lst[l] # NULL => \E k \in 1..Len(s) : lst[l] = s[k]
    BY CoreLists
  <1> HIDE DEF s
  <1>3. 1 \in 1..(Len(s) + 1)
    BY <1>2 DEF IsList
  <1>4. 1 \in 1..Len(InsertAt(s, 1, n)) /\ InsertAt(s, 1, n)[1] = n
    <2>1. /\ Len(InsertAt(s, 1, n)) = Len(s) + 1
          /\ \A j \in 1..(Len(s) + 1) : InsertAt(s, 1, n)[j] =
               IF j < 1 THEN s[j] ELSE IF j = 1 THEN n ELSE s[j - 1]
      BY <1>2, <1>3, InsertAtNode
    <2> QED BY <1>3, <2>1
  <1>5. /\ lst' = [m \in List |-> lst'[m]] /\ lst'[l] = n
        /\ \A m \in List \ {l} : lst'[m] = lst[m]
    BY <1>1 DEF ObjInsertNew
  <1>6. Names(lst'[l], InsertAt(s, 1, n))
    BY <1>4, <1>5 DEF Names
  <1>7. Inserted(heap, heap', s, 1, n, d)
    <2>1. CASE lst[l] = NULL
      <3>1. heap' = ListNew(heap, n, d) /\ s = <<>>
        BY <1>2, <2>1 DEF ObjInsertNew
      <3> QED BY <1>0, <1>1, <3>1, NewAlone
    <2>2. CASE lst[l] # NULL
      <3> DEFINE b == ListNew(heap, n, d)
      <3>1. heap' = ListInsert(b, ListFirst(b, lst[l]), n)
        BY <2>2 DEF ObjInsertNew
      <3>2. PICK k \in 1..Len(s) : lst[l] = s[k]
        BY <1>2, <2>2
      <3>3. Allocated(heap, b, n, d) /\ IsList(b, s)
        BY <1>0, <1>1, <1>2, NewPointers, NewFrame
      <3> HIDE DEF b
      <3>4. ListFirst(b, lst[l]) = s[1]
        BY <3>2, <3>3, FirstIs DEF Allocated
      <3>5. 1 \in 1..Len(s)
        BY <1>2, <3>2 DEF IsList
      <3>6. Inserted(heap, ListInsert(b, s[1], n), s, 1, n, d)
        BY <1>0, <1>1, <1>2, <3>5, InsertInserts DEF b
      <3> QED BY <3>1, <3>4, <3>6
    <2> QED BY <2>1, <2>2
  <1> QED BY <1>s, <1>0, <1>3, <1>5, <1>6, <1>7 DEF Inserting

\* list_insert_new puts the item before another one.
LEMMA InsertBeforeDone ==
    ASSUME Core(heap, lst), NEW p \in DOMAIN heap, NEW n \in Node, NEW d \in Data,
           InsertNew(p, n, d)
    PROVE  \E l \in List : \E i \in 1..Len(Val(heap, lst)[l]) :
              Val(heap, lst)[l][i] = p /\ DidInsert(l, Val(heap, lst)[l], i, n, d)
  <1>0. n \notin DOMAIN heap /\ n # NULL
    BY NullAssumption DEF InsertNew
  <1>1. /\ HeapTyped(heap) /\ lst \in [List -> DOMAIN heap \cup {NULL}]
        /\ Holds(heap, lst, Val(heap, lst))
    BY DEF Core
  <1>2. PICK l \in List : \E i \in 1..Len(Val(heap, lst)[l]) : p = Val(heap, lst)[l][i]
    BY <1>1 DEF Holds
  <1> DEFINE s == Val(heap, lst)[l]
  <1>3. PICK i \in 1..Len(s) : p = s[i]
    BY <1>2
  <1> SUFFICES Inserting(heap, lst, heap', lst', l, s, i, n, d)
    BY <1>3, InsertStep
  <1>s. s = Val(heap, lst)[l]
    OBVIOUS
  <1>4. IsList(heap, s) /\ Names(lst[l], s)
    BY CoreLists
  <1> HIDE DEF s
  <1>5. i \in 1..(Len(s) + 1) /\ Len(s) \in Nat
    BY <1>4 DEF IsList
  <1>6. Inserted(heap, heap', s, i, n, d)
    <2>1. heap' = ListInsert(ListNew(heap, n, d), s[i], n)
      BY <1>3 DEF InsertNew
    <2> QED BY <1>0, <1>1, <1>4, <2>1, InsertInserts
  <1>7. lst' = lst /\ lst' = [m \in List |-> lst'[m]]
    BY <1>1 DEF InsertNew
  <1>8. Names(lst[l], InsertAt(s, i, n))
    <2>1. PICK k \in 1..Len(s) : lst[l] = s[k]
      <3>1. s # <<>>
        BY <1>5
      <3> QED BY <1>4, <3>1 DEF Names
    <2>2. /\ Len(InsertAt(s, i, n)) = Len(s) + 1
          /\ \A j \in 1..(Len(s) + 1) : InsertAt(s, i, n)[j] =
               IF j < i THEN s[j] ELSE IF j = i THEN n ELSE s[j - 1]
      BY <1>4, <1>5, InsertAtNode
    <2>3. CASE k < i
      <3>1. k \in 1..(Len(s) + 1)
        BY <1>5
      <3> QED BY <2>1, <2>2, <2>3, <3>1 DEF Names
    <2>4. CASE ~(k < i)
      <3>1. k + 1 \in 1..(Len(s) + 1) /\ ~(k + 1 < i) /\ k + 1 # i /\ (k + 1) - 1 = k
        BY <1>5, <2>4
      <3>2. InsertAt(s, i, n)[k + 1] = s[k]
        BY <2>2, <3>1
      <3> QED BY <2>1, <2>2, <3>1, <3>2 DEF Names
    <2> QED BY <2>3, <2>4
  <1> QED BY <1>s, <1>0, <1>5, <1>6, <1>7, <1>8 DEF Inserting

\* list_obj_del, with the pointer that list_obj_strip leaves
LEMMA DelDone ==
    ASSUME Core(heap, lst), NEW l \in List, NEW p \in Range(Items(heap, lst[l])),
           ObjDel(l, p)
    PROVE  \E i \in 1..Len(Val(heap, lst)[l]) :
              /\ Val(heap, lst)[l][i] = p
              /\ DidTouch(l, RemoveAt(Val(heap, lst)[l], i), {p})
  <1> DEFINE s == Val(heap, lst)[l]
  <1>1. HeapTyped(heap) /\ lst \in [List -> DOMAIN heap \cup {NULL}]
    BY DEF Core
  <1>2. IsList(heap, s) /\ Names(lst[l], s) /\ s = Items(heap, lst[l])
    BY CoreLists
  <1>3. PICK i \in 1..Len(s) : p = s[i]
    <2>1. s \in Seq(DOMAIN heap)
      BY <1>2 DEF IsList
    <2>2. p \in In(s)
      BY <1>2, <2>1, RangeIsIn
    <2> HIDE DEF s
    <2> QED BY <2>2 DEF In
  <1> DEFINE t == RemoveAt(s, i)
  <1> SUFFICES Touching(heap, lst, heap', lst', l, s, t, {s[i]})
    BY <1>3, TouchStep
  <1>s. s = Val(heap, lst)[l]
    OBVIOUS
  <1> HIDE DEF s
  <1>4. heap' = Free(ListRemove(heap, s[i]), {s[i]}) /\ lst' = [lst EXCEPT ![l] = StripTo(l, p)]
    BY <1>3 DEF ObjDel
  <1>5. /\ HeapTyped(heap') /\ Touches(heap, heap', s, {s[i]})
        /\ IsList(heap', t) /\ In(t) = In(s) \ {s[i]}
    <2>1. Linked(heap)
      BY CoreLinked
    <2> QED BY <1>1, <1>2, <1>4, <2>1, RemovedList
  <1>6. /\ lst' = [m \in List |-> lst'[m]] /\ lst'[l] = StripTo(l, p)
        /\ \A m \in List \ {l} : lst'[m] = lst[m]
    BY <1>1, <1>4
  <1>7. Names(StripTo(l, p), t)
    <2>n. Len(s) \in Nat /\ \A j \in 1..Len(s) : s[j] # NULL /\ s[j] \in In(s)
      BY <1>1, <1>2 DEF IsList, HeapTyped, In
    <2>i. \A j, k \in 1..Len(s) : s[j] = s[k] => j = k
      BY <1>2 DEF IsList
    <2>0. ASSUME NEW x \in In(s), x # p PROVE Names(x, t)
      <3>1. x \in In(t)
        BY <1>3, <1>5, <2>0
      <3> QED BY <3>1 DEF In, Names
    <2>1. /\ heap[p].prev = IF i = 1 THEN NULL ELSE s[i - 1]
          /\ heap[p].next = IF i = Len(s) THEN NULL ELSE s[i + 1]
      BY <1>2, <1>3 DEF IsList
    <2>2. CASE lst[l] # p
      <3>1. s # <<>>
        BY <1>3
      <3>2. lst[l] \in In(s)
        BY <1>2, <3>1 DEF Names, In
      <3> QED BY <2>0, <2>2, <3>2 DEF StripTo
    <2>3. CASE lst[l] = p /\ i # Len(s)
      <3>1. i + 1 \in 1..Len(s) /\ i + 1 # i
        BY <2>n, <2>3
      <3>2. s[i + 1] # NULL /\ s[i + 1] \in In(s) /\ s[i + 1] # p
        BY <1>3, <2>n, <2>i, <3>1
      <3>3. StripTo(l, p) = s[i + 1]
        BY <2>1, <2>3, <3>2 DEF StripTo
      <3> QED BY <2>0, <3>2, <3>3
    <2>4. CASE lst[l] = p /\ i = Len(s) /\ i # 1
      <3>1. i - 1 \in 1..Len(s) /\ i - 1 # i
        BY <2>n, <2>4
      <3>2. s[i - 1] # NULL /\ s[i - 1] \in In(s) /\ s[i - 1] # p
        BY <1>3, <2>n, <2>i, <3>1
      <3>3. StripTo(l, p) = s[i - 1]
        BY <2>1, <2>4, <3>2 DEF StripTo
      <3> QED BY <2>0, <3>2, <3>3
    <2>5. CASE lst[l] = p /\ i = Len(s) /\ i = 1
      <3>1. StripTo(l, p) = NULL
        BY <2>1, <2>5 DEF StripTo
      <3>2. t \in Seq(DOMAIN heap) /\ Len(t) = Len(s) - 1
        BY <1>2, RemoveAtIs DEF IsList
      <3>3. t = <<>>
        BY <2>5, <3>2
      <3> QED BY <3>1, <3>3 DEF Names
    <2> QED BY <2>2, <2>3, <2>4, <2>5
  <1> QED BY <1>s, <1>5, <1>6, <1>7 DEF Touching

\* list_free_all
LEMMA FreeAllDone ==
    ASSUME Core(heap, lst), NEW l \in List, FreeAll(l)
    PROVE  DidTouch(l, <<>>, In(Val(heap, lst)[l]))
  <1> DEFINE s == Val(heap, lst)[l]
             e == <<>>
  <1> SUFFICES Touching(heap, lst, heap', lst', l, s, e, In(s))
    BY TouchStep
  <1>s. s = Val(heap, lst)[l]
    OBVIOUS
  <1>1. HeapTyped(heap) /\ lst \in [List -> DOMAIN heap \cup {NULL}]
    BY DEF Core
  <1>2. IsList(heap, s) /\ s = Items(heap, lst[l])
    BY CoreLists
  <1> HIDE DEF s
  <1>3. heap' = Free(heap, In(s)) /\ lst' = [lst EXCEPT ![l] = NULL]
    BY <1>2, RangeIsIn DEF FreeAll, IsList
  <1>4. /\ HeapTyped(heap') /\ Touches(heap, heap', s, In(s))
        /\ IsList(heap', <<>>) /\ In(<<>>) = In(s) \ In(s)
    <2>1. Linked(heap)
      BY CoreLinked
    <2> QED BY <1>1, <1>2, <1>3, <2>1, ClearedList
  <1>5. /\ lst' = [m \in List |-> lst'[m]] /\ Names(lst'[l], <<>>)
        /\ \A m \in List \ {l} : lst'[m] = lst[m]
    BY <1>1, <1>3 DEF Names
  <1> QED BY <1>s, <1>4, <1>5 DEF Touching

\* list_reverse: the pointer still points to the item it pointed to.
LEMMA ReverseDone ==
    ASSUME Core(heap, lst), NEW l \in List, ListReverse(l)
    PROVE  DidTouch(l, Reverse(Val(heap, lst)[l]), {})
  <1> DEFINE s == Val(heap, lst)[l]
             t == Reverse(s)
  <1> SUFFICES Touching(heap, lst, heap', lst', l, s, t, {})
    BY TouchStep
  <1>s. s = Val(heap, lst)[l]
    OBVIOUS
  <1>1. HeapTyped(heap) /\ lst \in [List -> DOMAIN heap \cup {NULL}]
    BY DEF Core
  <1>2. IsList(heap, s) /\ s = Items(heap, lst[l]) /\ Names(lst[l], s)
    BY CoreLists
  <1>n. lst[l] # NULL
    BY DEF ListReverse
  <1> HIDE DEF s
  <1>3. heap' = Turned(heap, In(s)) /\ lst' = lst
    <2>1. Range(Items(heap, lst[l])) = In(s)
      BY <1>2, RangeIsIn DEF IsList
    <2> QED BY <2>1 DEF ListReverse, Turned
  <1>4. /\ HeapTyped(heap') /\ Touches(heap, heap', s, {})
        /\ IsList(heap', t) /\ In(t) = In(s)
    BY <1>1, <1>2, <1>3, ReversedList
  <1> HIDE DEF t
  <1>5. Names(lst[l], t)
    <2>1. lst[l] \in In(s)
      BY <1>2, <1>n DEF Names, In
    <2> QED BY <1>4, <2>1 DEF Names, In
  <1>6. lst' = [m \in List |-> lst'[m]]
    BY <1>1, <1>3
  <1> QED BY <1>s, <1>3, <1>4, <1>5, <1>6 DEF Touching

DidJoin(l, m) ==
    Done(heap', lst', [Val(heap, lst) EXCEPT ![l] = Val(heap, lst)[l] \o Val(heap, lst)[m],
                                             ![m] = <<>>],
         KeyOf(heap))

\* list_obj_add: the list that is handed over is known by its first item, so that
\* all of it goes to the end of the other.
LEMMA JoinDone ==
    ASSUME Core(heap, lst), NEW l \in List, NEW m \in List, ObjAdd(l, m)
    PROVE  DidJoin(l, m)
  <1> DEFINE v == Val(heap, lst)
             s == v[l]
             t == v[m]
             u == s \o t
             w == [v EXCEPT ![l] = u, ![m] = <<>>]
  <1>0. l # m /\ lst[m] # NULL /\ heap[lst[m]].prev = NULL
    BY DEF ObjAdd
  <1>1. /\ HeapTyped(heap) /\ lst \in [List -> DOMAIN heap \cup {NULL}]
        /\ DOMAIN heap \subseteq Node /\ Holds(heap, lst, v)
    BY DEF Core
  <1>2. /\ IsList(heap, s)
        /\ lst[l] = NULL => s = <<>>
        /\ lst[l] # NULL => \E k \in 1..Len(s) : lst[l] = s[k]
    BY CoreLists
  <1>3. /\ IsList(heap, t)
        /\ lst[m] # NULL => \E k \in 1..Len(t) : lst[m] = t[k]
    BY CoreLists
  <1>v. v = [k \in DOMAIN v |-> v[k]]
    BY DEF Val
  <1> HIDE DEF v
  <1>w. w = [k \in DOMAIN w |-> w[k]]
    BY <1>v
  <1>4. lst[m] = t[1] /\ 1 \in 1..Len(t)
    <2>1. PICK k \in 1..Len(t) : lst[m] = t[k]
      BY <1>0, <1>3
    <2> HIDE DEF t
    <2>2. Len(t) \in Nat
      BY <1>3 DEF IsList
    <2>3. heap[t[k]].prev = IF k = 1 THEN NULL ELSE t[k - 1]
      BY <1>3 DEF IsList
    <2>4. k # 1 => k - 1 \in 1..Len(t) /\ t[k - 1] # NULL
      BY <1>1, <1>3, <2>2 DEF IsList, HeapTyped
    <2> QED BY <1>0, <2>1, <2>2, <2>3, <2>4
  <1>5. In(s) \cap In(t) = {}
    BY <1>0, <1>1 DEF Holds, In
  <1>6. /\ HeapTyped(heap') /\ DOMAIN heap' = DOMAIN heap
        /\ \A x \in DOMAIN heap : heap'[x].data = heap[x].data
        /\ \A x \in DOMAIN heap \ (In(v[l]) \cup In(v[m])) :
              heap'[x].prev = heap[x].prev /\ heap'[x].next = heap[x].next
        /\ IsList(heap', u)
        /\ lst' = [k \in List |-> lst'[k]]
        /\ Names(lst'[l], u) /\ lst'[m] = NULL
        /\ \A k \in List \ {l, m} : lst'[k] = lst[k]
    <2>1. CASE lst[l] = NULL
      <3>1. heap' = heap /\ lst' = [lst EXCEPT ![l] = lst[m], ![m] = NULL]
        BY <2>1 DEF ObjAdd
      <3>2. u = t
        <4>1. s = <<>> /\ t \in Seq(DOMAIN heap)
          BY <1>2, <1>3, <2>1 DEF IsList
        <4> HIDE DEF s, t
        <4> QED BY <4>1
      <3> HIDE DEF s, t, u
      <3>3. /\ lst' = [k \in List |-> lst'[k]] /\ lst'[l] = t[1] /\ lst'[m] = NULL
            /\ \A k \in List \ {l, m} : lst'[k] = lst[k]
        BY <1>0, <1>1, <1>4, <3>1
      <3>4. Names(lst'[l], u)
        BY <1>4, <3>2, <3>3 DEF Names
      <3> QED BY <1>1, <1>3, <3>1, <3>2, <3>3, <3>4
    <2>2. CASE lst[l] # NULL
      <3>1. heap' = ListPush(heap, lst[l], t[1]) /\ lst' = [lst EXCEPT ![m] = NULL]
        BY <1>4, <2>2 DEF ObjAdd
      <3>2. PICK k \in 1..Len(s) : lst[l] = s[k]
        BY <1>2, <2>2
      <3> DEFINE e == s[Len(s)]
                 n == t[1]
      <3>l. v[l] = s /\ v[m] = t
        OBVIOUS
      <3> HIDE DEF s, t
      <3>3. ListLast(heap, lst[l]) = e
        BY <1>1, <1>2, <3>2, LastIs
      <3>4. Len(s) \in 1..Len(s) /\ e \in DOMAIN heap /\ n \in DOMAIN heap
            /\ Len(s) # 0 /\ Len(t) # 0 /\ Len(s) \in Nat /\ Len(t) \in Nat
        <4>1. Len(s) \in Nat /\ Len(t) \in Nat /\ Len(s) \in 1..Len(s)
          BY <1>2, <1>3, <3>2 DEF IsList
        <4>2. e \in DOMAIN heap /\ n \in DOMAIN heap
          BY <1>2, <1>3, <1>4, <4>1 DEF IsList
        <4> QED BY <1>4, <3>2, <4>1, <4>2
      <3>5. Joined(heap, heap', e, n)
        <4>1. HeapOK(heap)
          BY <1>1 DEF HeapTyped
        <4> HIDE DEF e, n
        <4> DEFINE p == lst[l]
                   g == ListPush(heap, p, n)
        <4>2. /\ DOMAIN g = DOMAIN heap
              /\ HeapOK(g)
              /\ \A x \in DOMAIN heap :
                    /\ g[x].next = IF x = e THEN n ELSE heap[x].next
                    /\ g[x].prev = IF x = n THEN e ELSE heap[x].prev
                    /\ g[x].data = heap[x].data
          BY <3>3, <3>4, <4>1, PushPointers
        <4>3. heap' = g
          BY <3>1 DEF n
        <4> HIDE DEF g
        <4> QED BY <4>2, <4>3 DEF Joined
      <3>6. IsList(heap', u)
        BY <1>1, <1>2, <1>3, <1>5, <3>4, <3>5, JoinedList
      <3>7. e \in In(s) /\ n \in In(t)
        BY <1>4, <3>4 DEF In
      <3> HIDE DEF e, n
      <3>8. /\ DOMAIN heap' = DOMAIN heap /\ HeapTyped(heap')
            /\ \A x \in DOMAIN heap : heap'[x].data = heap[x].data
            /\ \A x \in DOMAIN heap \ (In(s) \cup In(t)) :
                  heap'[x].prev = heap[x].prev /\ heap'[x].next = heap[x].next
        BY <1>1, <3>5, <3>7 DEF Joined, HeapTyped
      <3>9. /\ lst' = [i \in List |-> lst'[i]] /\ lst'[l] = s[k] /\ lst'[m] = NULL
            /\ \A i \in List \ {l, m} : lst'[i] = lst[i]
        BY <1>0, <1>1, <3>1, <3>2
      <3>10. Names(lst'[l], u)
        <4>1. s \in Seq(DOMAIN heap) /\ t \in Seq(DOMAIN heap)
          BY <1>2, <1>3 DEF IsList
        <4>2. Len(u) = Len(s) + Len(t) /\ u[k] = s[k]
          BY <4>1, ConcatIs
        <4>3. k \in 1..Len(u)
          BY <3>4, <4>2
        <4> HIDE DEF u
        <4> QED BY <3>9, <4>2, <4>3 DEF Names
      <3> HIDE DEF u
      <3> QED BY <3>6, <3>8, <3>9, <3>10, <3>l
    <2> QED BY <2>1, <2>2
  <1> HIDE DEF w
  <1>7. Holds(heap', lst', w)
    <2>1. Joins(heap, heap', lst, lst', v, l, m)
      BY <1>0, <1>6 DEF Joins
    <2> QED BY <1>1, <2>1, JoinedHolds DEF w
  <1>8. Core(heap', lst') /\ Val(heap', lst') = w
    BY <1>1, <1>6, <1>7, <1>w, CoreFrom
  <1>9. KeyOf(heap') = KeyOf(heap)
    BY <1>6 DEF KeyOf
  <1> QED BY <1>8, <1>9 DEF Done, DidJoin, w, v

\* list_swap_neighbor: the pointers of the callers still point into their lists.
LEMMA SwapDone ==
    ASSUME Core(heap, lst), NEW l \in List, NEW i \in 1..(Len(Val(heap, lst)[l]) - 1),
           heap' = ListSwapNeighbor(heap, Val(heap, lst)[l][i], Val(heap, lst)[l][i + 1]),
           lst' = lst
    PROVE  DidTouch(l, Exchanged(Val(heap, lst)[l], i), {})
  <1> DEFINE s == Val(heap, lst)[l]
             t == Exchanged(s, i)
  <1> SUFFICES Touching(heap, lst, heap', lst', l, s, t, {})
    BY TouchStep
  <1>s. s = Val(heap, lst)[l]
    OBVIOUS
  <1>1. HeapTyped(heap) /\ lst \in [List -> DOMAIN heap \cup {NULL}]
    BY DEF Core
  <1>2. IsList(heap, s) /\ Names(lst[l], s)
    BY CoreLists
  <1>3. heap' = ListSwapNeighbor(heap, s[i], s[i + 1]) /\ i \in 1..(Len(s) - 1)
    OBVIOUS
  <1> HIDE DEF s
  <1>4. /\ HeapTyped(heap') /\ Touches(heap, heap', s, {})
        /\ IsList(heap', t) /\ In(t) = In(s)
    BY <1>1, <1>2, <1>3, SwappedList
  <1> HIDE DEF t
  <1>5. Names(lst[l], t)
    <2>0. s # <<>>
      BY <1>2, <1>3 DEF IsList
    <2>1. lst[l] \in In(s)
      BY <1>2, <2>0 DEF Names, In
    <2> QED BY <1>4, <2>1 DEF Names, In
  <1>6. lst' = [m \in List |-> lst'[m]]
    BY <1>1
  <1> QED BY <1>s, <1>4, <1>5, <1>6 DEF Touching

-----------------------------------------------------------------------------
(* list_sort *)

\* x comes before y in b.
InOrder(b, x, y) == \E i, j \in 1..Len(b) : i < j /\ b[i] = x /\ b[j] = y

\* Two items of s whose order no sort may change are as they were in b.
Stable(h, s, b) ==
    \A i, j \in 1..Len(s) :
        i < j /\ h[s[i]].data >= h[s[j]].data => InOrder(b, s[i], s[j])

\* The cursor f is at position c, past the end at Len(s) + 1, and a pass that
\* changed nothing so far leaves ordered neighbours behind it.
Cursor(h, s, f, changed) ==
    \E c \in 1..(Len(s) + 1) :
        /\ f = IF c = Len(s) + 1 THEN NULL ELSE s[c]
        /\ ~changed => \A i \in 1..(Len(s) - 1) : i < c => h[s[i]].data <= h[s[i + 1]].data

\* A sort of list s, which was b when the sort was called
Sorting(h, s, b, f, changed) ==
    /\ b \in Seq(Node) /\ Len(b) = Len(s) /\ In(b) = In(s)
    /\ Stable(h, s, b)
    /\ Cursor(h, s, f, changed)

SortInv ==
    \/ sort = Idle /\ before = <<>>
    \/ /\ sort \in [list : List, f : DOMAIN heap \cup {NULL}, changed : BOOLEAN]
       /\ lst[sort.list] # NULL
       /\ Sorting(heap, Val(heap, lst)[sort.list], before, sort.f, sort.changed)

\* What the sorter compares are numbers.
LEMMA DataIsNat ==
    ASSUME NEW h, HeapTyped(h), NEW x \in DOMAIN h
    PROVE  h[x].data \in Nat
  BY DataAssumption DEF HeapTyped, HeapOK

\* A swap of neighbours that are out of order
LEMMA SwapStable ==
    ASSUME NEW h, HeapTyped(h), NEW s, IsList(h, s), NEW c \in 1..(Len(s) - 1),
           h[s[c]].data > h[s[c + 1]].data, NEW b, Stable(h, s, b), NEW g,
           \A x \in DOMAIN h : g[x].data = h[x].data
    PROVE  Stable(g, Exchanged(s, c), b)
  <1> DEFINE t == Exchanged(s, c)
             n == Len(s)
             k == c + 1
  <1>1. /\ s \in Seq(DOMAIN h) /\ n \in Nat /\ \A j \in 1..n : s[j] \in DOMAIN h
    BY DEF IsList
  <1>2. /\ Len(t) = n
        /\ \A j \in 1..n : t[j] = IF j = c THEN s[k] ELSE IF j = k THEN s[c] ELSE s[j]
    BY <1>1, ExchangedIs
  <1>3. c \in 1..n /\ k \in 1..n /\ k = c + 1 /\ c \in Int /\ k \in Int /\ c < k
    BY <1>1
  <1>o. h[s[c]].data > h[s[k]].data
    OBVIOUS
  <1> HIDE DEF t, n, k
  <1>4. \A j \in 1..n : h[s[j]].data \in Nat
    BY <1>1, DataIsNat
  <1>5. \A i, j \in 1..n : i < j /\ h[s[i]].data >= h[s[j]].data => InOrder(b, s[i], s[j])
    BY DEF Stable, n
  <1>6. ASSUME NEW i \in 1..n, NEW j \in 1..n, i < j, g[t[i]].data >= g[t[j]].data
        PROVE  InOrder(b, t[i], t[j])
    <2> DEFINE x == IF i = c THEN k ELSE IF i = k THEN c ELSE i
               y == IF j = c THEN k ELSE IF j = k THEN c ELSE j
    <2>1. /\ x \in 1..n /\ y \in 1..n /\ t[i] = s[x] /\ t[j] = s[y]
      BY <1>2, <1>3
    <2>2. ~(i = c /\ j = k)
      <3> SUFFICES ASSUME i = c, j = k PROVE FALSE
        OBVIOUS
      <3>1. t[i] = s[k] /\ t[j] = s[c]
        BY <1>2, <1>3
      <3>2. h[s[k]].data >= h[s[c]].data
        BY <1>1, <1>3, <1>6, <3>1
      <3> QED BY <1>3, <1>4, <1>o, <3>2
    <2>3. x < y
      BY <1>1, <1>3, <1>6, <2>2
    <2> HIDE DEF x, y
    <2>4. h[s[x]].data >= h[s[y]].data
      BY <1>1, <1>6, <2>1
    <2> QED BY <1>5, <2>1, <2>3, <2>4
  <1> QED BY <1>2, <1>6 DEF Stable, t

\* Neighbours in order are enough.
LEMMA NeighboursSorted ==
    ASSUME NEW h, HeapTyped(h), NEW s, IsList(h, s),
           \A i \in 1..(Len(s) - 1) : h[s[i]].data <= h[s[i + 1]].data,
           NEW i \in 1..Len(s), NEW j \in 1..Len(s), i < j
    PROVE  h[s[i]].data <= h[s[j]].data
  <1> DEFINE n == Len(s)
             m == n - i
             D(k) == h[s[k]].data
             S == {k \in 0..m : D(i) <= D(i + k)}
  <1>1. n \in Nat /\ i \in Nat /\ j \in Nat /\ i <= n /\ m \in Nat /\ 1 <= i /\ j <= n
    BY DEF IsList
  <1>2. \A k \in 1..n : D(k) \in Nat
    BY DataIsNat DEF IsList
  <1>3. \A k \in 1..(n - 1) : D(k) <= D(k + 1)
    OBVIOUS
  <1> HIDE DEF D, m, n
  <1>m. m = n - i /\ i \in 1..n
    BY DEF m, n
  <1>4. 0 \in S
    <2>1. i + 0 = i /\ 0 \in 0..m /\ D(i) \in Nat
      BY <1>1, <1>2, <1>m
    <2> QED BY <2>1
  <1>5. ASSUME NEW k \in 0..(m - 1), k \in S PROVE k + 1 \in S
    <2>1. k + 1 \in 0..m /\ i + k \in 1..(n - 1) /\ i + (k + 1) = (i + k) + 1
          /\ i + k \in 1..n /\ (i + k) + 1 \in 1..n
      BY <1>1, <1>m
    <2>2. D(i) <= D(i + k) /\ D(i + k) <= D((i + k) + 1)
      BY <1>3, <1>5, <2>1
    <2>3. D(i) <= D((i + k) + 1)
      BY <1>2, <1>m, <2>1, <2>2
    <2> QED BY <2>1, <2>3
  <1>6. \A k \in 0..m : k \in S
    <2> HIDE DEF S
    <2> QED BY <1>1, <1>4, <1>5, SetInduction
  <1>7. j - i \in 0..m /\ i + (j - i) = j
    BY <1>1, <1>m
  <1>8. D(i) <= D(i + (j - i))
    BY <1>6, <1>7
  <1> QED BY <1>7, <1>8 DEF D

\* What a comparison of list_sort does to the lists: nothing, or two neighbours
\* that are out of order change places
Settles(l, i) ==
    /\ heap[Val(heap, lst)[l][i]].data > heap[Val(heap, lst)[l][i + 1]].data
    /\ DidTouch(l, Exchanged(Val(heap, lst)[l], i), {})

SortStepIs(l) ==
    \/ UNCHANGED <<heap, lst>>
    \/ \E i \in 1..(Len(Val(heap, lst)[l]) - 1) : Settles(l, i)

\* A comparison of list_sort: two neighbours that are out of order are exchanged, or
\* nothing is; the list stays a stable rearrangement of what list_sort found.
LEMMA SortStepDone ==
    ASSUME Core(heap, lst), SortInv, SortStep
    PROVE  /\ Core(heap, lst)' /\ SortInv'
           /\ sort # Idle /\ sort' # Idle
           /\ sort.list \in List /\ SortStepIs(sort.list)
  <1>1. /\ sort \in [list : List, f : DOMAIN heap \cup {NULL}, changed : BOOLEAN]
        /\ lst[sort.list] # NULL
        /\ Sorting(heap, Val(heap, lst)[sort.list], before, sort.f, sort.changed)
    BY DEF SortInv, SortStep, Idle
  <1> DEFINE l == sort.list
             f == sort.f
             v == Val(heap, lst)
             s == v[l]
             n == heap[f].next
             swap == n # NULL /\ Sorter(f, n)
             h == IF swap THEN ListSwapNeighbor(heap, f, n) ELSE heap
  <1>2. l \in List /\ f # NULL /\ lst' = lst /\ before' = before
    BY <1>1 DEF SortStep
  <1>3. heap' = h /\ sort' = [sort EXCEPT !.f = h[f].next, !.changed = @ \/ swap]
    BY DEF SortStep
  <1>4. HeapTyped(heap) /\ IsList(heap, s) /\ s \in Seq(DOMAIN heap) /\ Len(s) \in Nat
    <2>1. HeapTyped(heap)
      BY DEF Core
    <2>2. IsList(heap, s)
      BY <1>2, CoreLists, Zenon
    <2> HIDE DEF s
    <2>3. s \in Seq(DOMAIN heap)
      BY <2>2 DEF IsList
    <2> QED BY <2>1, <2>2, <2>3
  <1>5. PICK c \in 1..(Len(s) + 1) :
          /\ f = IF c = Len(s) + 1 THEN NULL ELSE s[c]
          /\ ~sort.changed => \A i \in 1..(Len(s) - 1) :
                                i < c => heap[s[i]].data <= heap[s[i + 1]].data
    BY <1>1 DEF Sorting, Cursor
  <1>6. c # Len(s) + 1 /\ f = s[c]
    BY <1>2, <1>5
  <1>7. c \in 1..Len(s)
    BY <1>4, <1>6
  <1>8. n = IF c = Len(s) THEN NULL ELSE s[c + 1]
    BY <1>4, <1>6, <1>7 DEF IsList
  <1>9. \A j \in 1..Len(s) : s[j] \in DOMAIN heap /\ s[j] # NULL /\ heap[s[j]].data \in Nat
    BY <1>4, DataIsNat DEF HeapTyped
  <1>b. /\ before \in Seq(Node) /\ Len(before) = Len(s) /\ In(before) = In(s)
        /\ Stable(heap, s, before)
    BY <1>1 DEF Sorting
  <1>i. sort # Idle
    BY <1>2, NullAssumption DEF Idle
  <1>t. ASSUME sort'.list = l PROVE sort' # Idle
    BY <1>2, <1>t, NullAssumption DEF Idle
  <1>l. sort.list \in List
    BY <1>1
  <1> HIDE DEF n
  <1>10. CASE ~swap
    <2>1. heap' = heap
      BY <1>3, <1>10
    <2>2. sort' = [sort EXCEPT !.f = n, !.changed = @ \/ swap]
      BY <1>3, <1>10 DEF n
    <2> HIDE DEF swap, h
    <2>3. sort'.list = l /\ sort'.f = n /\ sort'.changed = sort.changed
          /\ sort' \in [list : List, f : DOMAIN heap \cup {NULL}, changed : BOOLEAN]
      <3>1. n \in DOMAIN heap \cup {NULL}
        <4>1. c # Len(s) => c + 1 \in 1..Len(s)
          BY <1>4, <1>7
        <4> QED BY <1>8, <1>9, <4>1
      <3>2. (sort.changed \/ swap) = sort.changed
        BY <1>1, <1>10
      <3> QED BY <1>1, <2>2, <3>1, <3>2
    <2>4. Cursor(heap, s, n, sort.changed)
      <3>1. c + 1 \in 1..(Len(s) + 1)
        BY <1>4, <1>7
      <3>2. n = IF c + 1 = Len(s) + 1 THEN NULL ELSE s[c + 1]
        BY <1>4, <1>7, <1>8
      <3>3. ASSUME ~sort.changed, NEW i \in 1..(Len(s) - 1), i < c + 1
            PROVE  heap[s[i]].data <= heap[s[i + 1]].data
        <4>1. CASE i < c
          BY <1>5, <3>3, <4>1
        <4>2. CASE ~(i < c)
          <5>1. i = c /\ c # Len(s) /\ c + 1 \in 1..Len(s)
            BY <1>4, <1>7, <3>3, <4>2
          <5>2. n = s[c + 1] /\ n # NULL
            BY <1>8, <1>9, <5>1
          <5>3. ~(heap[f].data > heap[n].data)
            BY <1>10, <5>2 DEF swap, Sorter
          <5>4. heap[s[c]].data \in Nat /\ heap[s[c + 1]].data \in Nat
            BY <1>7, <1>9, <5>1
          <5> QED BY <1>6, <5>1, <5>2, <5>3, <5>4
        <4> QED BY <4>1, <4>2
      <3> QED BY <3>1, <3>2, <3>3 DEF Cursor
    <2> HIDE DEF l, f, s
    <2>5. /\ lst'[sort'.list] # NULL
          /\ Val(heap', lst')[sort'.list] = s
      BY <1>1, <1>2, <2>1, <2>3 DEF l, s
    <2>6. Sorting(heap', Val(heap', lst')[sort'.list], before', sort'.f, sort'.changed)
      BY <1>2, <1>b, <2>1, <2>3, <2>4, <2>5 DEF Sorting
    <2>7. SortInv'
      BY <2>1, <2>3, <2>5, <2>6 DEF SortInv
    <2>8. Core(heap, lst)'
      BY <1>2, <2>1
    <2>9. SortStepIs(sort.list)
      BY <1>2, <2>1 DEF SortStepIs
    <2>10. sort' # Idle
      BY <1>t, <2>3
    <2> QED BY <1>i, <1>l, <2>7, <2>8, <2>9, <2>10
  <1>11. CASE swap
    <2>1. c \in 1..(Len(s) - 1) /\ n = s[c + 1] /\ c + 1 \in 1..Len(s)
      BY <1>4, <1>7, <1>8, <1>11
    <2>2. heap[s[c]].data > heap[s[c + 1]].data
      BY <1>6, <1>11, <2>1 DEF Sorter
    <2>3. heap' = ListSwapNeighbor(heap, s[c], s[c + 1])
      BY <1>3, <1>6, <1>11, <2>1
    <2> DEFINE t == Exchanged(s, c)
    <2>4. DidTouch(l, t, {})
      BY <1>2, <2>1, <2>3, SwapDone
    <2>5. Settles(l, c)
      BY <2>2, <2>4 DEF Settles
    <2>6. /\ Core(heap', lst') /\ Val(heap', lst') = [v EXCEPT ![l] = t]
      BY <2>4 DEF DidTouch, Done
    <2>7. Val(heap', lst')[l] = t
      BY <1>2, <2>6 DEF Val
    <2>8. /\ HeapTyped(heap') /\ Touches(heap, heap', s, {}) /\ IsList(heap', t)
          /\ In(t) = In(s) /\ Len(t) = Len(s)
      BY <1>4, <2>1, <2>3, SwappedList
    <2>9. DOMAIN heap' = DOMAIN heap /\ \A x \in DOMAIN heap : heap'[x].data = heap[x].data
      BY <2>8 DEF Touches
    <2>10. Stable(heap', t, before)
      BY <1>4, <1>b, <2>1, <2>2, <2>9, SwapStable
    <2>11. t[c + 1] = s[c]
      <3>1. \A j \in 1..Len(s) : t[j] =
              IF j = c THEN s[c + 1] ELSE IF j = c + 1 THEN s[c] ELSE s[j]
        BY <1>4, <2>1, ExchangedIs
      <3>2. c + 1 # c
        BY <1>7
      <3> HIDE DEF t
      <3> QED BY <2>1, <3>1, <3>2
    <2>12. heap'[f].next = IF c + 1 = Len(s) THEN NULL ELSE t[(c + 1) + 1]
      <3> HIDE DEF t
      <3> QED BY <1>6, <2>1, <2>8, <2>11 DEF IsList
    <2>13. sort' = [sort EXCEPT !.f = heap'[f].next, !.changed = @ \/ swap]
      BY <1>3
    <2>14. /\ sort'.list = l /\ sort'.f = heap'[f].next /\ sort'.changed = TRUE
           /\ sort' \in [list : List, f : DOMAIN heap' \cup {NULL}, changed : BOOLEAN]
      <3>1. heap'[f].next \in DOMAIN heap' \cup {NULL}
        BY <1>6, <1>7, <1>9, <2>8, <2>9 DEF HeapTyped, HeapOK
      <3>2. (sort.changed \/ swap) = TRUE
        BY <1>11
      <3> HIDE DEF swap
      <3> QED BY <1>1, <2>9, <2>13, <3>1, <3>2
    <2> HIDE DEF t
    <2>15. Cursor(heap', t, sort'.f, sort'.changed)
      <3>1. (c + 1) + 1 \in 1..(Len(t) + 1)
        BY <1>4, <2>1, <2>8
      <3>2. sort'.f = IF (c + 1) + 1 = Len(t) + 1 THEN NULL ELSE t[(c + 1) + 1]
        BY <1>4, <2>1, <2>8, <2>12, <2>14
      <3> QED BY <2>14, <3>1, <3>2 DEF Cursor
    <2>16. Sorting(heap', t, before', sort'.f, sort'.changed)
      BY <1>2, <1>b, <2>8, <2>10, <2>15 DEF Sorting
    <2>17. Sorting(heap', Val(heap', lst')[sort'.list], before', sort'.f, sort'.changed)
      BY <2>7, <2>14, <2>16
    <2>18. lst'[sort'.list] # NULL
      BY <1>1, <1>2, <2>14
    <2>19. SortInv'
      BY <2>14, <2>17, <2>18 DEF SortInv
    <2>20. SortStepIs(l)
      <3>1. \E i \in 1..(Len(Val(heap, lst)[l]) - 1) : Settles(l, i)
        BY <2>1, <2>5
      <3> HIDE DEF l, s
      <3> QED BY <3>1 DEF SortStepIs
    <2>21. SortStepIs(sort.list)
      BY <2>20
    <2>22. sort' # Idle
      BY <1>t, <2>14
    <2>23. Core(heap, lst)'
      BY <2>6
    <2> QED BY <1>i, <1>l, <2>19, <2>21, <2>22, <2>23
  <1> QED BY <1>10, <1>11

\* The inductive invariant
ListInv == Core(heap, lst) /\ SortInv

\* list_sort starts with the cursor on the first item.
LEMMA SortStartDone ==
    ASSUME Core(heap, lst), NEW l \in List, SortStart(l)
    PROVE  SortInv'
  <1> DEFINE s == Val(heap, lst)[l]
             f == ListFirst(heap, lst[l])
  <1>1. /\ sort' = [list |-> l, f |-> f, changed |-> FALSE]
        /\ before' = s /\ heap' = heap /\ lst' = lst /\ lst[l] # NULL
    BY CoreLists DEF SortStart
  <1>2. HeapTyped(heap) /\ DOMAIN heap \subseteq Node
    BY DEF Core
  <1>3. IsList(heap, s)
    BY CoreLists
  <1>4. \E i \in 1..Len(s) : lst[l] = s[i]
    BY <1>1, CoreLists
  <1> HIDE DEF s
  <1>5. s \in Seq(DOMAIN heap) /\ Len(s) \in Nat /\ 1 \in 1..Len(s) /\ 1 # Len(s) + 1
    BY <1>3, <1>4 DEF IsList
  <1>6. f = s[1] /\ s[1] \in DOMAIN heap
    BY <1>2, <1>3, <1>4, <1>5, FirstIs
  <1> HIDE DEF f
  <1>7. sort' \in [list : List, f : DOMAIN heap \cup {NULL}, changed : BOOLEAN]
        /\ sort'.list = l /\ sort'.f = s[1] /\ sort'.changed = FALSE
    BY <1>1, <1>6
  <1>8. Cursor(heap, s, s[1], FALSE)
    BY <1>5 DEF Cursor
  <1>9. Stable(heap, s, s)
    BY DEF Stable, InOrder
  <1>10. s \in Seq(Node)
    BY <1>2, <1>5
  <1>11. Sorting(heap, s, s, s[1], FALSE)
    BY <1>8, <1>9, <1>10 DEF Sorting
  <1>12. Val(heap', lst')[sort'.list] = s
    BY <1>1, <1>7 DEF s
  <1>13. Sorting(heap', Val(heap', lst')[sort'.list], before', sort'.f, sort'.changed)
    BY <1>1, <1>7, <1>11, <1>12
  <1> QED BY <1>1, <1>7, <1>13 DEF SortInv

\* A pass that changed something is followed by another from the first item.
LEMMA SortPassDone ==
    ASSUME Core(heap, lst), SortInv, SortPass
    PROVE  SortInv'
  <1>1. /\ sort \in [list : List, f : DOMAIN heap \cup {NULL}, changed : BOOLEAN]
        /\ lst[sort.list] # NULL
        /\ Sorting(heap, Val(heap, lst)[sort.list], before, sort.f, sort.changed)
    BY DEF SortInv, SortPass
  <1>2. heap' = heap /\ lst' = lst
    BY DEF SortPass
  <1>3. CASE ~sort.changed
    BY <1>3 DEF SortPass, SortInv
  <1>4. CASE sort.changed
    <2> DEFINE l == sort.list
               s == Val(heap, lst)[l]
               f == ListFirst(heap, lst[l])
    <2>1. sort' = [sort EXCEPT !.f = f, !.changed = FALSE] /\ before' = before
      BY <1>4 DEF SortPass
    <2>l. l \in List
      BY <1>1
    <2>2. HeapTyped(heap)
      BY DEF Core
    <2>3. IsList(heap, s) /\ \E i \in 1..Len(s) : lst[l] = s[i]
      BY <1>1, <2>l, CoreLists
    <2>4. Sorting(heap, s, before, sort.f, sort.changed)
      BY <1>1
    <2> HIDE DEF s
    <2>5. s \in Seq(DOMAIN heap) /\ Len(s) \in Nat /\ 1 \in 1..Len(s) /\ 1 # Len(s) + 1
      BY <2>3 DEF IsList
    <2>6. f = s[1] /\ s[1] \in DOMAIN heap
      BY <2>2, <2>3, <2>5, FirstIs
    <2> HIDE DEF f
    <2>7. /\ sort' \in [list : List, f : DOMAIN heap \cup {NULL}, changed : BOOLEAN]
          /\ sort'.list = l /\ sort'.f = s[1] /\ sort'.changed = FALSE
      BY <1>1, <2>1, <2>6
    <2>8. Cursor(heap, s, s[1], FALSE)
      BY <2>5 DEF Cursor
    <2>9. Sorting(heap, s, before, s[1], FALSE)
      BY <2>4, <2>8 DEF Sorting
    <2> HIDE DEF l
    <2>10. Val(heap', lst')[sort'.list] = s /\ lst'[sort'.list] # NULL
      BY <1>1, <1>2, <2>7 DEF s, l
    <2>11. Sorting(heap', Val(heap', lst')[sort'.list], before', sort'.f, sort'.changed)
      BY <1>2, <2>1, <2>7, <2>9, <2>10
    <2> QED BY <1>2, <2>7, <2>10, <2>11 DEF SortInv
  <1> QED BY <1>3, <1>4

\* The invariant holds before the first call.
LEMMA InitInv ==
    ASSUME Init
    PROVE  ListInv
  <1> DEFINE e == <<>>
             v == [l \in List |-> e]
  <1>1. DOMAIN heap = {} /\ heap = [x \in {} |-> x]
    BY DEF Init
  <1>2. HeapTyped(heap)
    BY <1>1, FS_EmptySet DEF HeapTyped, HeapOK
  <1>3. IsList(heap, <<>>)
    BY DEF IsList
  <1>4. lst = [l \in List |-> NULL]
    BY DEF Init
  <1>5. Holds(heap, lst, v)
    <2>1. \A l \in List : Names(lst[l], <<>>)
      BY <1>4 DEF Names
    <2>2. Len(e) = 0 /\ 1..0 = {}
      OBVIOUS
    <2> HIDE DEF e
    <2>3. DOMAIN v = List /\ \A l \in List : v[l] = e
      OBVIOUS
    <2> HIDE DEF v
    <2>4. \A l \in List : IsList(heap, v[l]) /\ Names(lst[l], v[l])
      BY <1>3, <2>1, <2>3 DEF e
    <2>5. \A l \in List : 1..Len(v[l]) = {}
      BY <2>2, <2>3
    <2> QED BY <1>1, <2>3, <2>4, <2>5 DEF Holds
  <1>6. lst = [l \in List |-> lst[l]]
    BY <1>4
  <1>7. v = [l \in DOMAIN v |-> v[l]]
    OBVIOUS
  <1> HIDE DEF v
  <1>8. Core(heap, lst)
    BY <1>1, <1>2, <1>5, <1>6, <1>7, CoreFrom
  <1>9. SortInv
    BY DEF Init, SortInv
  <1> QED BY <1>8, <1>9 DEF ListInv

\* An operation that no sort is running beside
LEMMA CalmInv ==
    ASSUME SortInv, Calm
    PROVE  SortInv'
  BY NullAssumption DEF Calm, SortInv, Idle

\* Every operation keeps the invariant.
LEMMA NextInv ==
    ASSUME ListInv, [Next]_vars
    PROVE  ListInv'
  <1>0. Core(heap, lst) /\ SortInv
    BY DEF ListInv
  <1>i. ASSUME NEW l, NEW s, NEW i, NEW n, NEW d, DidInsert(l, s, i, n, d) PROVE Core(heap, lst)'
    BY <1>i DEF DidInsert, Done
  <1>t. ASSUME NEW l, NEW t, NEW gone, DidTouch(l, t, gone) PROVE Core(heap, lst)'
    BY <1>t DEF DidTouch, Done
  <1>1. ASSUME NEW l \in List, NEW n \in Node, NEW d \in Data, ObjAddNew(l, n, d)
        PROVE  ListInv'
    BY <1>0, <1>i, <1>1, AddNewDone, CalmInv DEF ListInv, ObjAddNew
  <1>2. ASSUME NEW l \in List, NEW n \in Node, NEW d \in Data, ObjInsertNew(l, n, d)
        PROVE  ListInv'
    BY <1>0, <1>i, <1>2, InsertFirstDone, CalmInv DEF ListInv, ObjInsertNew
  <1>3. ASSUME NEW p \in DOMAIN heap, NEW n \in Node, NEW d \in Data, InsertNew(p, n, d)
        PROVE  ListInv'
    BY <1>0, <1>i, <1>3, InsertBeforeDone, CalmInv DEF ListInv, InsertNew
  <1>4. ASSUME NEW l \in List, NEW m \in List, ObjAdd(l, m)
        PROVE  ListInv'
    BY <1>0, <1>4, JoinDone, CalmInv DEF ListInv, ObjAdd, DidJoin, Done
  <1>5. ASSUME NEW l \in List, NEW p \in Range(Items(heap, lst[l])), ObjDel(l, p)
        PROVE  ListInv'
    BY <1>0, <1>t, <1>5, DelDone, CalmInv DEF ListInv, ObjDel
  <1>6. ASSUME NEW l \in List, FreeAll(l) PROVE ListInv'
    BY <1>0, <1>t, <1>6, FreeAllDone, CalmInv DEF ListInv, FreeAll
  <1>7. ASSUME NEW l \in List, ListReverse(l) PROVE ListInv'
    BY <1>0, <1>t, <1>7, ReverseDone, CalmInv DEF ListInv, ListReverse
  <1>8. ASSUME NEW l \in List, SortStart(l) PROVE ListInv'
    BY <1>0, <1>8, SortStartDone DEF ListInv, SortStart
  <1>9. ASSUME SortStep PROVE ListInv'
    BY <1>0, <1>9, SortStepDone DEF ListInv
  <1>10. ASSUME SortPass PROVE ListInv'
    BY <1>0, <1>10, SortPassDone DEF ListInv, SortPass
  <1>11. ASSUME UNCHANGED vars PROVE ListInv'
    BY <1>0, <1>11 DEF ListInv, vars, SortInv
  <1> QED
    BY <1>1, <1>2, <1>3, <1>4, <1>5, <1>6, <1>7, <1>8, <1>9, <1>10, <1>11 DEF Next

\* The invariant holds throughout.
LEMMA InvHolds == Spec => []ListInv
  BY InitInv, NextInv, PTL DEF Spec

\* What the invariant says of the pointers
LEMMA InvTyped ==
    ASSUME ListInv
    PROVE  TypeOK /\ WellLinked
  <1>1. Core(heap, lst) /\ SortInv
    BY DEF ListInv
  <1>2. WellLinked
    BY <1>1, CoreLinked DEF Linked, WellLinked
  <1>3. /\ DOMAIN heap \subseteq Node
        /\ heap \in [DOMAIN heap -> [prev : DOMAIN heap \cup {NULL},
                                     next : DOMAIN heap \cup {NULL}, data : Data]]
        /\ lst \in [List -> DOMAIN heap \cup {NULL}]
    BY <1>1 DEF Core, HeapTyped, HeapOK
  <1>4. sort \in [list : List \cup {NULL}, f : DOMAIN heap \cup {NULL}, changed : BOOLEAN]
    <2>1. CASE sort = Idle
      BY <2>1, Zenon DEF Idle
    <2>2. CASE sort # Idle
      <3>1. sort \in [list : List, f : DOMAIN heap \cup {NULL}, changed : BOOLEAN]
        BY <1>1, <2>2 DEF SortInv
      <3> QED BY <3>1
    <2> QED BY <2>1, <2>2
  <1> QED BY <1>2, <1>3, <1>4 DEF TypeOK

\* However long the lists are and wherever in them the callers' pointers point: no
\* pointer of an item, of a caller or of a running list_sort is left on an item
\* that was freed.
THEOREM PointersLive == Spec => []TypeOK
  <1>1. ListInv => TypeOK
    BY InvTyped
  <1> QED BY <1>1, InvHolds, PTL

\* Both directions of every list agree after every operation and between the
\* comparisons of list_sort.
THEOREM LinksAgree == Spec => []WellLinked
  <1>1. ListInv => WellLinked
    BY InvTyped
  <1> QED BY <1>1, InvHolds, PTL

\* The end of list_sort
LEMMA SortEndsStable ==
    ASSUME ListInv, SortPass, sort' = Idle
    PROVE  LET after == Items(heap, lst[sort.list])
           IN  /\ Range(after) = Range(before) /\ Len(after) = Len(before)
               /\ \A i, j \in 1..Len(before) : i < j =>
                     LET p == after[i]
                         q == after[j]
                     IN  \/ heap[p].data < heap[q].data
                         \/ /\ heap[p].data = heap[q].data
                            /\ \E a, b \in 1..Len(before) :
                                  a < b /\ before[a] = p /\ before[b] = q
  <1> DEFINE l == sort.list
             s == Val(heap, lst)[l]
             after == Items(heap, lst[l])
  <1>0. Core(heap, lst) /\ SortInv
    BY DEF ListInv
  <1>1. /\ sort \in [list : List, f : DOMAIN heap \cup {NULL}, changed : BOOLEAN]
        /\ Sorting(heap, s, before, sort.f, sort.changed) /\ sort.f = NULL
    BY <1>0 DEF SortInv, SortPass
  <1>2. ~sort.changed
    <2> SUFFICES ASSUME sort.changed PROVE FALSE
      OBVIOUS
    <2>1. sort'.list = l
      BY <1>1 DEF SortPass
    <2> QED BY <1>1, <2>1, NullAssumption DEF Idle
  <1>3. l \in List
    BY <1>1
  <1>4. HeapTyped(heap) /\ IsList(heap, s) /\ after = s
    BY <1>0, <1>3, CoreLists DEF Core
  <1> HIDE DEF s, after, l
  <1>5. /\ before \in Seq(Node) /\ Len(before) = Len(s) /\ In(before) = In(s)
        /\ Stable(heap, s, before) /\ Cursor(heap, s, NULL, FALSE)
    BY <1>1, <1>2 DEF Sorting
  <1>6. /\ s \in Seq(DOMAIN heap) /\ Len(s) \in Nat
        /\ \A i \in 1..Len(s) : s[i] # NULL /\ heap[s[i]].data \in Nat
    BY <1>4, DataIsNat DEF IsList, HeapTyped
  <1>7. \A i \in 1..(Len(s) - 1) : heap[s[i]].data <= heap[s[i + 1]].data
    <2>1. PICK c \in 1..(Len(s) + 1) :
            /\ NULL = IF c = Len(s) + 1 THEN NULL ELSE s[c]
            /\ \A i \in 1..(Len(s) - 1) : i < c => heap[s[i]].data <= heap[s[i + 1]].data
      BY <1>5 DEF Cursor
    <2>2. c = Len(s) + 1
      <3> SUFFICES ASSUME c # Len(s) + 1 PROVE FALSE
        OBVIOUS
      <3>1. c \in 1..Len(s)
        BY <1>6
      <3> QED BY <1>6, <2>1, <3>1
    <2>3. \A i \in 1..(Len(s) - 1) : i < c
      BY <1>6, <2>2
    <2> QED BY <2>1, <2>3
  <1>8. Range(s) = In(s) /\ Range(before) = In(before)
    BY <1>5, <1>6, RangeIsIn
  <1>9. ASSUME NEW i \in 1..Len(s), NEW j \in 1..Len(s), i < j
        PROVE  \/ heap[s[i]].data < heap[s[j]].data
               \/ /\ heap[s[i]].data = heap[s[j]].data
                  /\ \E a, b \in 1..Len(before) :
                        a < b /\ before[a] = s[i] /\ before[b] = s[j]
    <2>1. heap[s[i]].data <= heap[s[j]].data
      BY <1>4, <1>7, <1>9, NeighboursSorted
    <2>2. heap[s[i]].data \in Nat /\ heap[s[j]].data \in Nat
      BY <1>6
    <2>3. CASE heap[s[i]].data < heap[s[j]].data
      BY <2>3
    <2>4. CASE heap[s[i]].data = heap[s[j]].data
      <3>1. heap[s[i]].data >= heap[s[j]].data
        BY <2>2, <2>4
      <3>2. InOrder(before, s[i], s[j])
        BY <1>5, <1>9, <3>1 DEF Stable
      <3> QED BY <2>4, <3>2 DEF InOrder
    <2> QED BY <2>1, <2>2, <2>3, <2>4
  <1>10. after = Items(heap, lst[sort.list])
    BY DEF after, l
  <1> QED BY <1>4, <1>5, <1>8, <1>9, <1>10

\* list_sort, on a list of any length: it is a permutation that sorts by data and
\* keeps the order of items with equal data, although the cursor skips a pair
\* after each swap.
THEOREM SortsStably == Spec => SortStable
  <1> DEFINE Good ==
        LET after == Items(heap, lst[sort.list])
        IN  /\ Range(after) = Range(before) /\ Len(after) = Len(before)
            /\ \A i, j \in 1..Len(before) : i < j =>
                  LET p == after[i]
                      q == after[j]
                  IN  \/ heap[p].data < heap[q].data
                      \/ /\ heap[p].data = heap[q].data
                         /\ \E a, b \in 1..Len(before) :
                               a < b /\ before[a] = p /\ before[b] = q
             Step == (sort # Idle /\ sort' = Idle) => Good
  <1>1. ASSUME ListInv, [Next]_vars PROVE [Step]_vars
    <2> SUFFICES ASSUME Next, sort # Idle, sort' = Idle PROVE Good
      BY <1>1
    <2>1. \/ SortStep
          \/ SortPass
      BY DEF Next, ObjAddNew, ObjInsertNew, InsertNew, ObjAdd, ObjDel, FreeAll, ListReverse,
             SortStart, Calm
    <2>2. ~SortStep
      BY <1>1, SortStepDone DEF ListInv
    <2> QED BY <1>1, <2>1, <2>2, SortEndsStable
  <1> HIDE DEF Step
  <1>2. Spec => [][Step]_vars
    BY <1>1, InvHolds, PTL DEF Spec
  <1> QED BY <1>2 DEF SortStable, Step

-----------------------------------------------------------------------------
(* The refinement of ListSpec *)

\* ListSpec has the operators on sequences of this module.
LEMMA SameOperators ==
    /\ \A s, i, n : Abstract!InsertAt(s, i, n) = InsertAt(s, i, n)
    /\ \A s, i : Abstract!RemoveAt(s, i) = RemoveAt(s, i)
    /\ \A s : Abstract!Reverse(s) = Reverse(s)
    /\ \A s : Abstract!Range(s) = Range(s)
  <1>1. \A s, i, n : Abstract!InsertAt(s, i, n) = InsertAt(s, i, n)
    BY Zenon DEF Abstract!InsertAt, InsertAt
  <1>2. \A s, i : Abstract!RemoveAt(s, i) = RemoveAt(s, i)
    BY Zenon DEF Abstract!RemoveAt, RemoveAt
  <1>3. \A s : Abstract!Reverse(s) = Reverse(s)
    BY Zenon DEF Abstract!Reverse, Reverse
  <1>4. \A s : Abstract!Range(s) = Range(s)
    BY Zenon DEF Abstract!Range, Range
  <1> QED BY <1>1, <1>2, <1>3, <1>4

\* The new item and its data
LEMMA CreateRefines ==
    ASSUME NEW l \in List, NEW s, NEW i, NEW n, NEW d, n \notin DOMAIN heap,
           DidInsert(l, s, i, n, d)
    PROVE  /\ Val(heap', lst') = [Val(heap, lst) EXCEPT ![l] = InsertAt(s, i, n)]
           /\ Abstract!Create(n, d)
  <1>1. Val(heap', lst') = [Val(heap, lst) EXCEPT ![l] = InsertAt(s, i, n)]
    BY Zenon DEF DidInsert, Done
  <1>2. KeyOf(heap') = [m \in DOMAIN KeyOf(heap) \cup {n} |->
                           IF m = n THEN d ELSE KeyOf(heap)[m]]
    <2>1. KeyOf(heap') = KeyWith(heap, n, d)
      BY DEF DidInsert, Done
    <2>2. DOMAIN KeyOf(heap) = DOMAIN heap /\ \A m \in DOMAIN heap : KeyOf(heap)[m] = heap[m].data
      BY DEF KeyOf
    <2> QED BY <2>1, <2>2 DEF KeyWith
  <1>3. n \notin DOMAIN KeyOf(heap)
    BY DEF KeyOf
  <1> QED BY <1>1, <1>2, <1>3, Zenon DEF Abstract!Create, KeyOf

\* The item of list_obj_add_new comes last.
LEMMA AddNewRefines ==
    ASSUME ListInv, NEW l \in List, NEW n \in Node, NEW d \in Data, ObjAddNew(l, n, d)
    PROVE  Abstract!ObjAddNew(l, n, d)
  <1> DEFINE s == Val(heap, lst)[l]
  <1>0. Core(heap, lst)
    BY DEF ListInv
  <1>1. DidInsert(l, s, Len(s) + 1, n, d) /\ n \notin DOMAIN heap
    BY <1>0, AddNewDone DEF ObjAddNew
  <1>2. /\ Val(heap', lst') = [Val(heap, lst) EXCEPT ![l] = InsertAt(s, Len(s) + 1, n)]
        /\ Abstract!Create(n, d)
    BY <1>1, CreateRefines
  <1>3. InsertAt(s, Len(s) + 1, n) = Append(s, n)
    <2>1. IsList(heap, s)
      BY <1>0, CoreLists
    <2>2. s \in Seq(Node) /\ Len(s) \in Nat
      BY <1>0, <2>1 DEF IsList, Core
    <2> HIDE DEF s
    <2> DEFINE t == InsertAt(s, Len(s) + 1, n)
    <2>3. /\ t \in Seq(Node) /\ Len(t) = Len(s) + 1
          /\ \A j \in 1..(Len(s) + 1) : t[j] =
                IF j < Len(s) + 1 THEN s[j] ELSE IF j = Len(s) + 1 THEN n ELSE s[j - 1]
      <3>1. Len(s) + 1 \in 1..(Len(s) + 1)
        BY <2>2
      <3> QED BY <2>2, <3>1, InsertAtIs, SMTT(30)
    <2> HIDE DEF t
    <2>4. \A j \in 1..Len(t) : t[j] = Append(s, n)[j]
      BY <2>2, <2>3
    <2>5. Append(s, n) \in Seq(Node) /\ Len(Append(s, n)) = Len(t)
      BY <2>2, <2>3
    <2>6. t = Append(s, n)
      BY <2>3, <2>4, <2>5
    <2> QED BY <2>6 DEF t
  <1>4. Val(heap', lst') = [Val(heap, lst) EXCEPT ![l] = Append(@, n)]
    BY <1>2, <1>3
  <1> QED BY <1>2, <1>4, Zenon DEF Abstract!ObjAddNew, Val

\* The item of list_obj_insert_new comes first.
LEMMA InsertFirstRefines ==
    ASSUME ListInv, NEW l \in List, NEW n \in Node, NEW d \in Data, ObjInsertNew(l, n, d)
    PROVE  Abstract!ObjInsertNew(l, n, d)
  <1> DEFINE s == Val(heap, lst)[l]
  <1>0. Core(heap, lst)
    BY DEF ListInv
  <1>1. DidInsert(l, s, 1, n, d) /\ n \notin DOMAIN heap
    BY <1>0, InsertFirstDone DEF ObjInsertNew
  <1>2. /\ Val(heap', lst') = [Val(heap, lst) EXCEPT ![l] = InsertAt(s, 1, n)]
        /\ Abstract!Create(n, d)
    BY <1>1, CreateRefines
  <1>3. Abstract!InsertAt(s, 1, n) = InsertAt(s, 1, n)
    BY SameOperators
  <1> QED BY <1>2, <1>3, Zenon DEF Abstract!ObjInsertNew, Val

\* The item of list_insert_new comes right before the one it was given.
LEMMA InsertBeforeRefines ==
    ASSUME ListInv, NEW p \in DOMAIN heap, NEW n \in Node, NEW d \in Data, InsertNew(p, n, d)
    PROVE  Abstract!InsertNew(p, n, d)
  <1> DEFINE v == Val(heap, lst)
  <1>0. Core(heap, lst) /\ n \notin DOMAIN heap
    BY DEF ListInv, InsertNew
  <1>1. PICK l \in List : \E i \in 1..Len(v[l]) : v[l][i] = p /\ DidInsert(l, v[l], i, n, d)
    BY <1>0, InsertBeforeDone
  <1>2. PICK i \in 1..Len(v[l]) : v[l][i] = p /\ DidInsert(l, v[l], i, n, d)
    BY <1>1
  <1>3. /\ Val(heap', lst') = [v EXCEPT ![l] = InsertAt(v[l], i, n)]
        /\ Abstract!Create(n, d)
    BY <1>0, <1>2, CreateRefines
  <1>4. Abstract!InsertAt(v[l], i, n) = InsertAt(v[l], i, n)
    BY SameOperators
  <1>5. i \in Abstract!Positions(v[l], p)
    BY <1>2 DEF Abstract!Positions
  <1>6. Val(heap', lst') = [v EXCEPT ![l] = Abstract!InsertAt(@, i, n)]
    BY <1>3, <1>4
  <1> QED BY <1>3, <1>5, <1>6, Zenon DEF Abstract!InsertNew, Val

\* The data of the items that are left
LEMMA DropRefines ==
    ASSUME NEW l, NEW t, NEW gone, DidTouch(l, t, gone)
    PROVE  /\ Val(heap', lst') = [Val(heap, lst) EXCEPT ![l] = t]
           /\ KeyOf(heap') = [x \in DOMAIN KeyOf(heap) \ gone |-> KeyOf(heap)[x]]
           /\ gone = {} => KeyOf(heap') = KeyOf(heap)
  <1>1. /\ Val(heap', lst') = [Val(heap, lst) EXCEPT ![l] = t]
        /\ KeyOf(heap') = [x \in DOMAIN heap \ gone |-> heap[x].data]
    BY Zenon DEF DidTouch, Done
  <1>2. KeyOf(heap') = [x \in DOMAIN KeyOf(heap) \ gone |-> KeyOf(heap)[x]]
    BY <1>1 DEF KeyOf
  <1>3. gone = {} => KeyOf(heap') = KeyOf(heap)
    BY <1>1 DEF KeyOf
  <1> QED BY <1>1, <1>2, <1>3

\* list_obj_del takes out the item it was given.
LEMMA DelRefines ==
    ASSUME ListInv, NEW l \in List, NEW p \in Range(Items(heap, lst[l])), ObjDel(l, p)
    PROVE  Abstract!ObjDel(l, p)
  <1> DEFINE v == Val(heap, lst)
  <1>0. Core(heap, lst)
    BY DEF ListInv
  <1>1. PICK i \in 1..Len(v[l]) : v[l][i] = p /\ DidTouch(l, RemoveAt(v[l], i), {p})
    BY <1>0, DelDone
  <1>2. /\ Val(heap', lst') = [v EXCEPT ![l] = RemoveAt(v[l], i)]
        /\ KeyOf(heap') = [x \in DOMAIN KeyOf(heap) \ {p} |-> KeyOf(heap)[x]]
    BY <1>1, DropRefines, Zenon
  <1>3. Abstract!RemoveAt(v[l], i) = RemoveAt(v[l], i)
    BY SameOperators
  <1>4. i \in Abstract!Positions(v[l], p)
    BY <1>1 DEF Abstract!Positions
  <1>5. Val(heap', lst') = [v EXCEPT ![l] = Abstract!RemoveAt(@, i)]
    BY <1>2, <1>3
  <1> QED BY <1>2, <1>4, <1>5, Zenon DEF Abstract!ObjDel, Abstract!Drop, KeyOf, Val

\* list_free_all frees all items of its list and no others.
LEMMA FreeAllRefines ==
    ASSUME ListInv, NEW l \in List, FreeAll(l)
    PROVE  Abstract!FreeAll(l)
  <1>0. Core(heap, lst)
    BY DEF ListInv
  <1>1. /\ Val(heap', lst') = [Val(heap, lst) EXCEPT ![l] = <<>>]
        /\ KeyOf(heap') = [x \in DOMAIN KeyOf(heap) \ In(Val(heap, lst)[l]) |-> KeyOf(heap)[x]]
    BY <1>0, FreeAllDone, DropRefines, Zenon
  <1>2. Abstract!Range(Val(heap, lst)[l]) = In(Val(heap, lst)[l])
    <2>1. IsList(heap, Val(heap, lst)[l])
      BY <1>0, CoreLists
    <2>2. Val(heap, lst)[l] \in Seq(DOMAIN heap)
      BY <2>1 DEF IsList
    <2>3. Range(Val(heap, lst)[l]) = In(Val(heap, lst)[l])
      BY <2>2, RangeIsIn
    <2>4. Abstract!Range(Val(heap, lst)[l]) = Range(Val(heap, lst)[l])
      BY SameOperators
    <2> QED BY <2>3, <2>4
  <1> QED BY <1>1, <1>2, Zenon DEF Abstract!FreeAll, Abstract!Drop, KeyOf, Val

\* list_reverse turns its list round.
LEMMA ReverseRefines ==
    ASSUME ListInv, NEW l \in List, ListReverse(l)
    PROVE  Abstract!ListReverse(l)
  <1>0. Core(heap, lst)
    BY DEF ListInv
  <1>1. /\ Val(heap', lst') = [Val(heap, lst) EXCEPT ![l] = Reverse(@)]
        /\ KeyOf(heap') = KeyOf(heap)
    BY <1>0, ReverseDone, DropRefines, Zenon
  <1>2. Abstract!Reverse(Val(heap, lst)[l]) = Reverse(Val(heap, lst)[l])
    BY SameOperators
  <1> QED BY <1>1, <1>2, Zenon DEF Abstract!ListReverse, Val, KeyOf

\* list_obj_add puts the whole of a list behind another.
LEMMA ObjAddRefines ==
    ASSUME ListInv, NEW l \in List, NEW m \in List, ObjAdd(l, m)
    PROVE  Abstract!ObjAdd(l, m)
  <1>0. Core(heap, lst) /\ l # m
    BY DEF ListInv, ObjAdd
  <1>1. DidJoin(l, m)
    BY <1>0, JoinDone
  <1>2. /\ Val(heap', lst') = [Val(heap, lst) EXCEPT ![l] = @ \o Val(heap, lst)[m], ![m] = <<>>]
        /\ KeyOf(heap') = KeyOf(heap)
    BY <1>1, Zenon DEF DidJoin, Done
  <1> QED BY <1>0, <1>2, Zenon DEF Abstract!ObjAdd, Val, KeyOf

\* A swap of list_sort exchanges two neighbours of the list that is sorted.
LEMMA SettleRefines ==
    ASSUME Core(heap, lst), NEW l \in List, NEW i \in 1..(Len(Val(heap, lst)[l]) - 1),
           Settles(l, i)
    PROVE  Abstract!Settle(l)
  <1> DEFINE v == Val(heap, lst)
             s == v[l]
  <1>1. /\ Val(heap', lst') = [v EXCEPT ![l] = Exchanged(s, i)]
        /\ KeyOf(heap') = KeyOf(heap)
    BY DropRefines, Zenon DEF Settles
  <1>2. IsList(heap, s) /\ DOMAIN v = List
    BY CoreLists DEF Val
  <1>3. KeyOf(heap)[s[i]] > KeyOf(heap)[s[i + 1]]
    <2>1. s[i] \in DOMAIN heap /\ s[i + 1] \in DOMAIN heap
      BY <1>2 DEF IsList
    <2>2. heap[s[i]].data > heap[s[i + 1]].data
      BY DEF Settles
    <2> HIDE DEF s
    <2> QED BY <2>1, <2>2 DEF KeyOf
  <1>4. i \in Abstract!Descents(s)
    <2> HIDE DEF s
    <2> QED BY <1>3 DEF s, Abstract!Descents, KeyOf
  <1>5. Abstract!Exchanged(s, i) = Exchanged(s, i)
    BY Zenon DEF Abstract!Exchanged, Exchanged
  <1>6. Val(heap', lst') = [v EXCEPT ![l] = Abstract!Exchanged(@, i)]
    BY <1>1, <1>5
  <1> QED BY <1>1, <1>4, <1>6, Zenon DEF Abstract!Settle, Val, KeyOf

\* A step of list_sort changes the order of its own list or nothing.
LEMMA SortRefines ==
    ASSUME ListInv, SortStep \/ SortPass \/ UNCHANGED vars
    PROVE  \/ UNCHANGED Abstract!specVars
           \/ sort.list \in List /\ Abstract!Settle(sort.list)
  <1>0. Core(heap, lst) /\ SortInv
    BY DEF ListInv
  <1>u. ASSUME UNCHANGED <<heap, lst>> PROVE UNCHANGED Abstract!specVars
    BY <1>u DEF Abstract!specVars
  <1>1. CASE SortStep
    <2>1. sort.list \in List /\ SortStepIs(sort.list)
      BY <1>0, <1>1, SortStepDone
    <2>2. CASE UNCHANGED <<heap, lst>>
      BY <2>2, <1>u
    <2>3. ASSUME NEW i \in 1..(Len(Val(heap, lst)[sort.list]) - 1), Settles(sort.list, i)
          PROVE  Abstract!Settle(sort.list)
      BY <1>0, <2>1, <2>3, SettleRefines
    <2> QED BY <2>1, <2>2, <2>3 DEF SortStepIs
  <1>2. CASE SortPass
    BY <1>2, <1>u DEF SortPass
  <1>3. CASE UNCHANGED vars
    BY <1>3, <1>u DEF vars
  <1> QED BY <1>1, <1>2, <1>3

\* Every step of the pointers is the step of ListSpec that has its name.
LEMMA CallRefines ==
    ASSUME ListInv, [Next]_vars
    PROVE  SameCall
  <1>1. ASSUME sort # Idle
        PROVE  UNCHANGED Abstract!specVars \/ Abstract!Settle(sort.list)
    <2>1. SortStep \/ SortPass \/ UNCHANGED vars
      BY <1>1, Zenon DEF Next, ObjAddNew, ObjInsertNew, InsertNew, ObjAdd, ObjDel, FreeAll,
                         ListReverse, SortStart, Calm
    <2> QED BY <2>1, SortRefines
  <1>2. \A l \in List, n \in Node, d \in Data :
          /\ ObjAddNew(l, n, d) => Abstract!ObjAddNew(l, n, d)
          /\ ObjInsertNew(l, n, d) => Abstract!ObjInsertNew(l, n, d)
    BY AddNewRefines, InsertFirstRefines
  <1>3. \A p \in DOMAIN heap, n \in Node, d \in Data :
          InsertNew(p, n, d) => Abstract!InsertNew(p, n, d)
    BY InsertBeforeRefines
  <1>4. \A l, m \in List : ObjAdd(l, m) => Abstract!ObjAdd(l, m)
    BY ObjAddRefines
  <1>5. \A l \in List : \A p \in Range(Items(heap, lst[l])) :
          ObjDel(l, p) => Abstract!ObjDel(l, p)
    BY DelRefines
  <1>6. \A l \in List : /\ FreeAll(l) => Abstract!FreeAll(l)
                        /\ ListReverse(l) => Abstract!ListReverse(l)
    BY FreeAllRefines, ReverseRefines
  <1> QED BY <1>1, <1>2, <1>3, <1>4, <1>5, <1>6, Zenon DEF SameCall

\* Every step of the pointers is a step of the sequences, or leaves them alone.
LEMMA StepRefines ==
    ASSUME ListInv, [Next]_vars
    PROVE  [Abstract!Next]_(Abstract!specVars)
  <1>1. ASSUME NEW l \in List, NEW n \in Node, NEW d \in Data,
               ObjAddNew(l, n, d) \/ ObjInsertNew(l, n, d)
        PROVE  Abstract!Next
    <2>1. Abstract!ObjAddNew(l, n, d) \/ Abstract!ObjInsertNew(l, n, d)
      BY <1>1, AddNewRefines, InsertFirstRefines
    <2> QED BY <2>1, Zenon DEF Abstract!Next
  <1>2. ASSUME NEW p \in DOMAIN heap, NEW n \in Node, NEW d \in Data, InsertNew(p, n, d)
        PROVE  Abstract!Next
    <2>1. Abstract!InsertNew(p, n, d)
      BY <1>2, InsertBeforeRefines
    <2> QED BY <2>1, Zenon DEF Abstract!Next
  <1>3. ASSUME NEW l \in List, NEW m \in List, ObjAdd(l, m) PROVE Abstract!Next
    <2>1. Abstract!ObjAdd(l, m)
      BY <1>3, ObjAddRefines
    <2> QED BY <2>1, Zenon DEF Abstract!Next
  <1>4. ASSUME NEW l \in List, NEW p \in Range(Items(heap, lst[l])), ObjDel(l, p)
        PROVE  Abstract!Next
    <2>1. Abstract!ObjDel(l, p)
      BY <1>4, DelRefines
    <2>2. p \in DOMAIN heap
      <3>1. Core(heap, lst)
        BY DEF ListInv
      <3>2. IsList(heap, Items(heap, lst[l]))
        BY <3>1, CoreLists DEF Val
      <3> QED BY <3>2 DEF IsList, Range
    <2> QED BY <2>1, <2>2, Zenon DEF Abstract!Next
  <1>5. ASSUME NEW l \in List, FreeAll(l) \/ ListReverse(l) PROVE Abstract!Next
    <2>1. Abstract!FreeAll(l) \/ Abstract!ListReverse(l)
      BY <1>5, FreeAllRefines, ReverseRefines
    <2> QED BY <2>1, Zenon DEF Abstract!Next
  <1>6. ASSUME NEW l \in List, SortStart(l) PROVE UNCHANGED Abstract!specVars
    BY <1>6 DEF SortStart, Abstract!specVars
  <1>7. ASSUME SortStep \/ SortPass \/ UNCHANGED vars
        PROVE  [Abstract!Next]_(Abstract!specVars)
    BY <1>7, SortRefines, Zenon DEF Abstract!Next
  <1> QED BY <1>1, <1>2, <1>3, <1>4, <1>5, <1>6, <1>7, Zenon DEF Next

\* With no items, every list is the empty sequence.
LEMMA InitRefines ==
    ASSUME Init
    PROVE  Abstract!Init
  <1>1. heap = <<>> /\ lst = [l \in List |-> NULL]
    BY DEF Init
  <1>2. \A l \in List : Items(heap, lst[l]) = <<>>
    BY <1>1 DEF Items
  <1>3. [l \in List |-> Items(heap, lst[l])] = [l \in List |-> <<>>]
    BY <1>2
  <1>4. [n \in DOMAIN heap |-> heap[n].data] = <<>>
    BY <1>1
  <1> QED BY <1>3, <1>4 DEF Abstract!Init

\* The lists are sequences, of any length and any number: whichever item the caller's
\* pointer points to, each function of lib/list.c is the one of ListSpec with its name
\* and its arguments, which says the place in the sequence and leaves the other
\* lists alone; and nothing else happens to the sequences.
THEOREM ListsAreSequences == Spec => Implements
  <1>1. Init => Abstract!Init
    BY InitRefines
  <1>2. ListInv /\ [Next]_vars => [Abstract!Next]_(Abstract!specVars)
    BY StepRefines
  <1>3. Spec => Abstract!Spec
    BY <1>1, <1>2, InvHolds, PTL DEF Spec, Abstract!Spec
  <1>4. ListInv /\ [Next]_vars => [SameCall]_vars
    BY CallRefines
  <1>5. Spec => [][SameCall]_vars
    BY <1>4, InvHolds, PTL DEF Spec
  <1> QED BY <1>3, <1>5 DEF Implements

-----------------------------------------------------------------------------
(***************************************************************************)
(* The log, for any number of messages, backends and failures: the store is *)
(* true and bounded (StoreIsTrue), every backend gets the messages in order   *)
(* (OrderIsKept), and after a message was kept every backend that works has   *)
(* all of them (EveryoneCatchesUp).                                          *)
(*                                                                           *)
(* The invariant (Store) is what those do not say by themselves: messages    *)
(* are numbered in the order of the list; the marks of a backend are exactly  *)
(* the messages it acknowledged; a retained message without its mark is       *)
(* behind everything that went out to that backend; a message whose flushed   *)
(* flag is set has the marks of all backends.  log_flush_fast starts at the   *)
(* last flag, so without the last two a message could be passed over or sent  *)
(* twice.  The loops of the log are recursive functions; each is shown to be  *)
(* the iteration of its step (module Recursion) and the invariant is carried   *)
(* along it.                                                                *)
(***************************************************************************)

-----------------------------------------------------------------------------
(* Sizes *)

\* The tags that messages have
Tag == {m.tag : m \in Messages} \cup {"log"}

\* A message in the store
Item == [id : Nat, level : 0..3, tag : Tag, size : Nat \ {0}, chunks : Nat \ {0},
         good : Nat]

\* The size of a message
LEMMA ItemSize == \A x \in Item : x.size \in Nat /\ x.id \in Nat
  BY DEF Item

\* The sizes of the first messages, added up one by one
IsSum(sum, s) ==
    /\ sum \in [0..Len(s) -> Nat]
    /\ sum[0] = 0
    /\ \A k \in 1..Len(s) : sum[k] = sum[k - 1] + s[k].size

\* TotalSize adds up the sizes.
LEMMA TotalIs ==
    ASSUME NEW s \in Seq(Item)
    PROVE  \E sum : IsSum(sum, s) /\ TotalSize(s) = sum[Len(s)]
  <1> DEFINE n == Len(s)
             Body(f) == [k \in 0..n |-> IF k = 0 THEN 0 ELSE f[k - 1] + s[k].size]
             r == CHOOSE f : f = Body(f)
             step == [q \in Nat \X (1..n) |-> q[1] + s[q[2]].size]
  <1>n. n \in Nat /\ \A k \in 1..n : s[k].size \in Nat
    BY ItemSize
  <1>2. TotalSize(s) = r[n]
    BY Zenon DEF TotalSize
  <1> HIDE DEF n
  <1>4. IsStep(step, Nat, n)
    BY <1>n DEF IsStep
  <1>5. \A x \in Nat, k \in 1..n : step[<<x, k>>] = x + s[k].size
    OBVIOUS
  <1> HIDE DEF step
  <1>6. PICK g : Iterates(g, Nat, n, 0, step)
    BY <1>n, <1>4, Iteration
  <1>7. g = Body(g)
    <2>1. g \in [0..n -> Nat] /\ g[0] = 0
      BY <1>6 DEF Iterates
    <2>2. ASSUME NEW k \in 0..n, k # 0 PROVE g[k] = g[k - 1] + s[k].size
      <3>1. k \in 1..n /\ k - 1 \in 0..n
        BY <1>n, <2>2
      <3> QED BY <1>5, <1>6, <2>1, <3>1 DEF Iterates
    <2> QED BY <2>1, <2>2
  <1>8. r = Body(r)
    <2> HIDE DEF Body
    <2> QED BY <1>7, Zenon
  <1> HIDE DEF r
  <1>9. /\ r = [k \in 0..n |-> r[k]]
        /\ r[0] = 0
        /\ \A k \in 1..n : r[k] = r[k - 1] + s[k].size
    <2> DEFINE B == Body(r)
    <2>1. /\ B = [k \in 0..n |-> B[k]]
          /\ B[0] = 0
          /\ \A k \in 1..n : B[k] = r[k - 1] + s[k].size
      BY <1>n
    <2> HIDE DEF B
    <2> QED BY <1>8, <2>1 DEF B
  <1>10. \A k \in 0..n : r[k] \in Nat
    <2> DEFINE S == {k \in 0..n : r[k] \in Nat}
    <2>1. 0 \in S
      BY <1>n, <1>9
    <2>2. ASSUME NEW k \in 0..(n - 1), k \in S PROVE k + 1 \in S
      <3>1. k + 1 \in 1..n /\ k + 1 \in 0..n /\ (k + 1) - 1 = k
        BY <1>n
      <3>2. r[k + 1] = r[k] + s[k + 1].size
        BY <1>9, <3>1
      <3> QED BY <1>n, <2>2, <3>1, <3>2
    <2> HIDE DEF S
    <2>3. \A k \in 0..n : k \in S
      BY <1>n, <2>1, <2>2, SetInduction
    <2> QED BY <2>3 DEF S
  <1>11. IsSum(r, s)
    BY <1>9, <1>10 DEF IsSum, n
  <1> QED BY <1>2, <1>11 DEF n

\* The sums of a sequence are all alike.
LEMMA SumUnique ==
    ASSUME NEW s \in Seq(Item), NEW t \in Seq(Item), NEW f, NEW g,
           IsSum(f, s), IsSum(g, t), NEW d \in Nat,
           d + Len(t) <= Len(s),
           \A k \in 1..Len(t) : t[k] = s[d + k]
    PROVE  g[Len(t)] + f[d] = f[d + Len(t)]
  <1> DEFINE n == Len(t)
             S == {k \in 0..n : g[k] + f[d] = f[d + k]}
  <1>n. n \in Nat /\ Len(s) \in Nat /\ \A k \in 1..n : t[k].size \in Nat
    BY ItemSize
  <1>1. 0 \in S
    BY <1>n DEF IsSum
  <1>2. ASSUME NEW k \in 0..(n - 1), k \in S PROVE k + 1 \in S
    <2>1. /\ k + 1 \in 1..n /\ k + 1 \in 0..n /\ (k + 1) - 1 = k /\ k \in 0..n
          /\ d + k + 1 \in 1..Len(s) /\ d + (k + 1) = d + k + 1 /\ (d + k + 1) - 1 = d + k
          /\ d \in 0..Len(s) /\ d + k \in 0..Len(s)
      BY <1>n
    <2>2. g[k + 1] = g[k] + t[k + 1].size /\ g[k] \in Nat
      BY <2>1 DEF IsSum
    <2>3. f[d + k + 1] = f[d + k] + s[d + k + 1].size /\ f[d] \in Nat /\ f[d + k] \in Nat
      BY <2>1 DEF IsSum
    <2>4. t[k + 1] = s[d + k + 1] /\ t[k + 1].size \in Nat
      <3>1. t[k + 1] = s[d + (k + 1)]
        BY <2>1
      <3>2. t[k + 1].size \in Nat
        BY <1>n, <2>1
      <3> QED BY <2>1, <3>1, <3>2
    <2>5. g[k] + f[d] = f[d + k]
      BY <1>2
    <2>6. g[k + 1] + f[d] = f[d + (k + 1)]
      <3>1. g[k + 1] + f[d] = (g[k] + f[d]) + t[k + 1].size
        <4> DEFINE p == g[k]
                   q == f[d]
                   z == t[k + 1].size
        <4>1. p \in Nat /\ q \in Nat /\ z \in Nat /\ g[k + 1] = p + z
          BY <2>2, <2>3, <2>4
        <4> HIDE DEF p, q, z
        <4>2. (p + z) + q = (p + q) + z
          BY ONLY <4>1
        <4> QED BY <4>1, <4>2, Zenon DEF p, q, z
      <3>2. f[d + k + 1] = f[d + k] + t[k + 1].size
        BY ONLY <2>3, <2>4
      <3> QED BY ONLY <2>1, <2>5, <3>1, <3>2
    <2> QED BY <2>1, <2>6
  <1> HIDE DEF S
  <1>3. \A k \in 0..n : k \in S
    BY <1>n, <1>1, <1>2, SetInduction
  <1> QED BY <1>n, <1>3 DEF S

\* What a sequence is cut into adds up to it.
LEMMA TotalSplit ==
    ASSUME NEW s \in Seq(Item), NEW i \in 1..(Len(s) + 1)
    PROVE  /\ SubSeq(s, 1, i - 1) \in Seq(Item) /\ SubSeq(s, i, Len(s)) \in Seq(Item)
           /\ TotalSize(s) \in Nat /\ TotalSize(SubSeq(s, 1, i - 1)) \in Nat
           /\ TotalSize(SubSeq(s, i, Len(s))) = TotalSize(s) - TotalSize(SubSeq(s, 1, i - 1))
  <1> DEFINE a == SubSeq(s, 1, i - 1)
             b == SubSeq(s, i, Len(s))
  <1>0. Len(s) \in Nat /\ i \in Nat /\ i - 1 \in Nat /\ i <= Len(s) + 1
    OBVIOUS
  <1>1. a \in Seq(Item) /\ Len(a) = i - 1 /\ \A k \in 1..Len(a) : a[k] = s[k]
    BY <1>0
  <1>2. /\ b \in Seq(Item) /\ Len(b) = Len(s) - (i - 1)
        /\ \A k \in 1..Len(b) : b[k] = s[(i - 1) + k]
    BY <1>0
  <1> HIDE DEF a, b
  <1>3. PICK f : IsSum(f, s) /\ TotalSize(s) = f[Len(s)]
    BY TotalIs
  <1>4. PICK g : IsSum(g, a) /\ TotalSize(a) = g[Len(a)]
    BY <1>1, TotalIs
  <1>5. PICK h : IsSum(h, b) /\ TotalSize(b) = h[Len(b)]
    BY <1>2, TotalIs
  <1>6. f[0] = 0 /\ f[i - 1] \in Nat /\ f[Len(s)] \in Nat /\ g[Len(a)] \in Nat
        /\ h[Len(b)] \in Nat
    <2>1. i - 1 \in 0..Len(s) /\ Len(s) \in 0..Len(s)
      BY <1>0
    <2>2. f[0] = 0 /\ f[i - 1] \in Nat /\ f[Len(s)] \in Nat
      BY <1>3, <2>1 DEF IsSum
    <2>3. g[Len(a)] \in Nat
      BY <1>1, <1>4 DEF IsSum
    <2>4. h[Len(b)] \in Nat
      BY <1>2, <1>5 DEF IsSum
    <2> QED BY <2>2, <2>3, <2>4
  <1>7. g[Len(a)] = f[i - 1]
    <2>1. g[Len(a)] + f[0] = f[0 + Len(a)]
      <3>1. 0 + Len(a) <= Len(s) /\ \A k \in 1..Len(a) : a[k] = s[0 + k]
        BY <1>0, <1>1
      <3>2. a \in Seq(Item) /\ IsSum(f, s) /\ IsSum(g, a) /\ 0 \in Nat
        BY <1>1, <1>3, <1>4
      <3> QED BY ONLY s \in Seq(Item), <3>1, <3>2, SumUnique
    <2> QED BY <1>0, <1>1, <1>6, <2>1
  <1>8. h[Len(b)] + f[i - 1] = f[Len(s)]
    <2>1. h[Len(b)] + f[i - 1] = f[(i - 1) + Len(b)]
      <3>1. (i - 1) + Len(b) <= Len(s)
        BY <1>0, <1>2
      <3>2. b \in Seq(Item) /\ IsSum(f, s) /\ IsSum(h, b) /\ i - 1 \in Nat
            /\ \A k \in 1..Len(b) : b[k] = s[(i - 1) + k]
        BY <1>0, <1>2, <1>3, <1>5
      <3> QED BY ONLY s \in Seq(Item), <3>1, <3>2, SumUnique
    <2>2. (i - 1) + Len(b) = Len(s)
      <3>1. Len(b) = Len(s) - (i - 1)
        BY <1>2
      <3> QED BY ONLY <1>0, <3>1
    <2> QED BY <2>1, <2>2
  <1>9. TotalSize(b) = TotalSize(s) - TotalSize(a)
    BY <1>3, <1>4, <1>5, <1>6, <1>7, <1>8
  <1>10. TotalSize(s) \in Nat /\ TotalSize(a) \in Nat
    BY <1>3, <1>4, <1>6
  <1> QED BY <1>1, <1>2, <1>9, <1>10 DEF a, b

\* The sizes of no messages, and of one more
LEMMA TotalEnds ==
    /\ TotalSize(<<>>) = 0
    /\ \A s \in Seq(Item), x \in Item : TotalSize(Append(s, x)) = TotalSize(s) + x.size
  <1>1. TotalSize(<<>>) = 0
    <2>1. <<>> \in Seq(Item) /\ Len(<<>>) = 0
      OBVIOUS
    <2> QED BY <2>1, TotalIs DEF IsSum
  <1>2. ASSUME NEW s \in Seq(Item), NEW x \in Item
        PROVE  TotalSize(Append(s, x)) = TotalSize(s) + x.size
    <2> DEFINE t == Append(s, x)
    <2>1. /\ t \in Seq(Item) /\ Len(t) = Len(s) + 1 /\ Len(s) \in Nat
          /\ t[Len(s) + 1] = x /\ \A k \in 1..Len(s) : s[k] = t[0 + k]
      OBVIOUS
    <2> HIDE DEF t
    <2>2. PICK f : IsSum(f, t) /\ TotalSize(t) = f[Len(t)]
      BY <2>1, TotalIs
    <2>3. PICK g : IsSum(g, s) /\ TotalSize(s) = g[Len(s)]
      BY TotalIs
    <2>4. g[Len(s)] + f[0] = f[0 + Len(s)]
      <3>1. 0 + Len(s) <= Len(t)
        BY <2>1
      <3> QED BY <2>1, <2>2, <2>3, <3>1, SumUnique
    <2>5. f[0] = 0 /\ g[Len(s)] \in Nat /\ f[Len(s)] \in Nat
          /\ f[Len(s) + 1] = f[Len(s)] + x.size
      <3>1. Len(s) + 1 \in 1..Len(t) /\ (Len(s) + 1) - 1 = Len(s)
        BY <2>1
      <3> QED BY <2>1, <2>2, <2>3, <3>1 DEF IsSum
    <2>6. x.size \in Nat
      BY DEF Item
    <2> QED BY <2>1, <2>2, <2>3, <2>4, <2>5, <2>6 DEF t
  <1> QED BY <1>1, <1>2

-----------------------------------------------------------------------------
(* One backend and the messages it has had *)

\* What went out to a backend: a message, whole or only a part of it
Sent == [id : Nat, whole : BOOLEAN]

\* The messages are numbered as they were logged.
Numbered(items, count) ==
    \A k \in 1..Len(items) :
        /\ items[k].id <= count
        /\ \A j \in 1..(k - 1) : items[j].id < items[k].id

\* The marks in to are the acknowledged messages, which came in order; a message
\* without a mark is behind them.
Acks(items, count, to, acked) ==
    /\ to = {acked[n] : n \in 1..Len(acked)}
    /\ \A n \in 1..Len(acked) : acked[n] <= count
    /\ \A n \in 1..Len(acked) : \A j \in 1..(n - 1) : acked[j] < acked[n]
    /\ \A k \in 1..Len(items) : items[k].id \notin to =>
          \A n \in 1..Len(acked) : acked[n] < items[k].id

\* What went out was in order, and a message without a mark is not before it.
Sends(items, count, to, sent) ==
    /\ \A n \in 1..Len(sent) : sent[n].id <= count
    /\ \A n \in 1..(Len(sent) - 1) : sent[n].id <= sent[n + 1].id
    /\ \A k \in 1..Len(items) : items[k].id \notin to =>
          \A n \in 1..Len(sent) : sent[n].id <= items[k].id

\* A mark says that the message went out, if b is to have it.
Told(items, to, sent, b) ==
    \A k \in 1..Len(items) :
        items[k].id \in to /\ CheckFilter(items[k], Entry(b)) =>
            \E n \in 1..Len(sent) : sent[n] = [id |-> items[k].id, whole |-> TRUE]

\* What a backend has had
FedBy(items, count, to, acked, sent, b) ==
    /\ Acks(items, count, to, acked)
    /\ Sends(items, count, to, sent)
    /\ Told(items, to, sent, b)

\* The message at k is the first without a mark.
First(items, to, k) ==
    items[k].id \notin to /\ \A j \in 1..(k - 1) : items[j].id \in to

\* Messages behind the first one without a mark
LEMMA BehindFirst ==
    ASSUME NEW items \in Seq(Item), NEW count \in Nat, Numbered(items, count),
           NEW to, NEW k \in 1..Len(items), First(items, to, k),
           NEW j \in 1..Len(items), items[j].id \notin to
    PROVE  /\ j # k => items[k].id < items[j].id
           /\ items[k].id <= items[j].id
           /\ items[k].id \in Nat /\ items[j].id \in Nat /\ items[k].id <= count
  <1>1. items[k].id \in Nat /\ items[j].id \in Nat
    BY ItemSize
  <1>2. ~(j < k)
    BY DEF First
  <1>3. j # k => items[k].id < items[j].id
    BY <1>2 DEF Numbered
  <1> QED BY <1>1, <1>3 DEF Numbered

\* The first message without a mark goes out, whole or not.
LEMMA SendsOn ==
    ASSUME NEW items \in Seq(Item), NEW count \in Nat, Numbered(items, count),
           NEW to, NEW k \in 1..Len(items), First(items, to, k),
           NEW sent \in Seq(Sent), Sends(items, count, to, sent),
           NEW y \in BOOLEAN
    PROVE  Sends(items, count, to, Append(sent, [id |-> items[k].id, whole |-> y]))
  <1> DEFINE x == [id |-> items[k].id, whole |-> y]
             t == Append(sent, x)
  <1>1. x.id = items[k].id /\ x \in Sent
    BY ItemSize DEF Sent
  <1>2. items[k].id \notin to
    BY DEF First
  <1> HIDE DEF x
  <1>3. /\ Len(sent) \in Nat /\ Len(t) = Len(sent) + 1 /\ t[Len(sent) + 1] = x
        /\ \A n \in 1..Len(sent) : t[n] = sent[n]
    BY <1>1
  <1> HIDE DEF t
  <1>4. ASSUME NEW n \in 1..Len(t) PROVE t[n].id <= count
    <2>1. x.id <= count
      BY <1>1 DEF Numbered
    <2>2. n \in 1..Len(sent) \/ n = Len(sent) + 1
      BY <1>3
    <2> QED BY <1>3, <2>1, <2>2 DEF Sends
  <1>5. ASSUME NEW n \in 1..(Len(t) - 1) PROVE t[n].id <= t[n + 1].id
    <2>1. n \in 1..Len(sent)
      BY <1>3
    <2>2. CASE n = Len(sent)
      <3>1. sent[n].id <= x.id
        BY <1>1, <1>2, <2>1 DEF Sends
      <3> QED BY <1>3, <2>1, <2>2, <3>1
    <2>3. CASE n # Len(sent)
      <3>1. n \in 1..(Len(sent) - 1) /\ n + 1 \in 1..Len(sent)
        BY <1>3, <2>1, <2>3
      <3> QED BY <1>3, <2>1, <3>1 DEF Sends
    <2> QED BY <2>2, <2>3
  <1>6. ASSUME NEW j \in 1..Len(items), items[j].id \notin to, NEW n \in 1..Len(t)
        PROVE  t[n].id <= items[j].id
    <2>1. x.id <= items[j].id
      BY <1>1, <1>6, BehindFirst
    <2>2. n \in 1..Len(sent) \/ n = Len(sent) + 1
      BY <1>3
    <2> QED BY <1>3, <1>6, <2>1, <2>2 DEF Sends
  <1>7. Sends(items, count, to, t)
    BY <1>4, <1>5, <1>6 DEF Sends
  <1> QED BY <1>7 DEF t, x

\* A mark more asks less of what went out.
LEMMA SendsMore ==
    ASSUME NEW items, NEW count, NEW to, NEW more, NEW sent, Sends(items, count, to, sent)
    PROVE  Sends(items, count, to \cup more, sent)
  BY DEF Sends

\* The first message without a mark gets one.
LEMMA AcksOn ==
    ASSUME NEW items \in Seq(Item), NEW count \in Nat, Numbered(items, count),
           NEW to, NEW k \in 1..Len(items), First(items, to, k),
           NEW acked \in Seq(Nat), Acks(items, count, to, acked)
    PROVE  Acks(items, count, to \cup {items[k].id}, Append(acked, items[k].id))
  <1> DEFINE x == items[k].id
             t == Append(acked, x)
  <1>1. x \in Nat /\ x <= count /\ x \notin to
    BY ItemSize DEF First, Numbered
  <1>x. x = items[k].id
    OBVIOUS
  <1> HIDE DEF x
  <1>3. /\ Len(acked) \in Nat /\ Len(t) = Len(acked) + 1 /\ t[Len(acked) + 1] = x
        /\ \A n \in 1..Len(acked) : t[n] = acked[n] /\ acked[n] \in Nat
        /\ 1..Len(t) = 1..Len(acked) \cup {Len(acked) + 1}
    BY <1>1
  <1> HIDE DEF t
  <1>2. \A n \in 1..Len(acked) : acked[n] < x
    BY <1>1, <1>x DEF Acks
  <1>4. to \cup {x} = {t[n] : n \in 1..Len(t)}
    <2> DEFINE A == {acked[n] : n \in 1..Len(acked)}
               T == {t[n] : n \in 1..Len(t)}
    <2>1. to = A
      BY DEF Acks
    <2>2. ASSUME NEW y \in A PROVE y \in T
      <3>1. PICK n \in 1..Len(acked) : y = acked[n]
        OBVIOUS
      <3>2. n \in 1..Len(t) /\ t[n] = y
        BY <1>3, <3>1
      <3> QED BY <3>2
    <2>3. x \in T
      <3>1. Len(acked) + 1 \in 1..Len(t)
        BY <1>3
      <3> QED BY <1>3, <3>1
    <2>4. ASSUME NEW y \in T, y # x PROVE y \in A
      <3>1. PICK n \in 1..Len(t) : y = t[n]
        OBVIOUS
      <3>2. n \in 1..Len(acked) /\ acked[n] = y
        BY <1>3, <2>4, <3>1
      <3> QED BY <3>2
    <2> HIDE DEF A, T
    <2>5. to \cup {x} = T
      BY <2>1, <2>2, <2>3, <2>4
    <2> QED BY <2>5 DEF T
  <1>5. \A n \in 1..Len(t) : t[n] <= count
    BY <1>1, <1>3 DEF Acks
  <1>6. ASSUME NEW n \in 1..Len(t), NEW j \in 1..(n - 1) PROVE t[j] < t[n]
    <2>1. CASE n = Len(acked) + 1
      <3>1. j \in 1..Len(acked)
        BY <1>3, <2>1
      <3> QED BY <1>2, <1>3, <2>1, <3>1
    <2>2. CASE n # Len(acked) + 1
      <3>1. n \in 1..Len(acked) /\ j \in 1..Len(acked)
        BY <1>3, <2>2
      <3> QED BY <1>3, <3>1 DEF Acks
    <2> QED BY <2>1, <2>2
  <1>7. ASSUME NEW j \in 1..Len(items), items[j].id \notin to \cup {x}, NEW n \in 1..Len(t)
        PROVE  t[n] < items[j].id
    <2>1. j # k /\ items[j].id \notin to
      BY <1>7, <1>x
    <2>2. x < items[j].id
      BY <2>1, <1>x, BehindFirst
    <2>3. n \in 1..Len(acked) \/ n = Len(acked) + 1
      BY <1>3
    <2> QED BY <1>3, <2>1, <2>2, <2>3 DEF Acks
  <1>8. Acks(items, count, to \cup {x}, t)
    BY <1>4, <1>5, <1>6, <1>7 DEF Acks
  <1> QED BY <1>8 DEF t, x

\* More that went out
LEMMA ToldMore ==
    ASSUME NEW items, NEW to, NEW sent \in Seq(Sent), NEW b, Told(items, to, sent, b),
           NEW x \in Sent
    PROVE  Told(items, to, Append(sent, x), b)
  <1> DEFINE t == Append(sent, x)
  <1>1. \A n \in 1..Len(sent) : n \in 1..Len(t) /\ t[n] = sent[n]
    OBVIOUS
  <1> HIDE DEF t
  <1>2. Told(items, to, t, b)
    BY <1>1 DEF Told
  <1> QED BY <1>2 DEF t

\* A mark for a message that went out, or that b is not to have
LEMMA ToldOn ==
    ASSUME NEW items \in Seq(Item), NEW count \in Nat, Numbered(items, count),
           NEW to, NEW k \in 1..Len(items), NEW sent, NEW b, Told(items, to, sent, b),
           CheckFilter(items[k], Entry(b)) =>
              \E n \in 1..Len(sent) : sent[n] = [id |-> items[k].id, whole |-> TRUE]
    PROVE  Told(items, to \cup {items[k].id}, sent, b)
  <1> SUFFICES ASSUME NEW j \in 1..Len(items), items[j].id \in to \cup {items[k].id},
                      CheckFilter(items[j], Entry(b))
               PROVE  \E n \in 1..Len(sent) : sent[n] = [id |-> items[j].id, whole |-> TRUE]
    BY DEF Told
  <1>1. CASE items[j].id \in to
    BY <1>1 DEF Told
  <1>2. CASE items[j].id = items[k].id
    <2>1. items[j].id \in Nat /\ items[k].id \in Nat
      BY ItemSize
    <2>2. ~(j < k) /\ ~(k < j)
      BY <1>2, <2>1 DEF Numbered
    <2>3. j = k
      BY <2>2
    <2> QED BY <2>3
  <1> QED BY <1>1, <1>2

-----------------------------------------------------------------------------
(* One message to one backend *)

\* A state of the log
State ==
    [items : Seq(Item), flushed : SUBSET Nat, to : [Known -> SUBSET Nat],
     size : Int, limit : Nat, backends : Seq(Known), count : Nat,
     room : [Known -> 0..MaxRoom], acked : [Known -> Seq(Nat)],
     sent : [Known -> Seq(Sent)]]

\* The store is as it was
SameStore(L, M) ==
    /\ M.items = L.items /\ M.flushed = L.flushed /\ M.size = L.size
    /\ M.limit = L.limit /\ M.backends = L.backends /\ M.count = L.count

\* The other backends are as they were
SameElse(L, M, b) ==
    \A c \in Known \ {b} :
        /\ M.to[c] = L.to[c] /\ M.room[c] = L.room[c]
        /\ M.acked[c] = L.acked[c] /\ M.sent[c] = L.sent[c]

\* The fields of a state of the log
LEMMA StateFields ==
    ASSUME NEW L \in State
    PROVE  /\ L.items \in Seq(Item) /\ L.flushed \in SUBSET Nat
           /\ L.to \in [Known -> SUBSET Nat] /\ L.size \in Int /\ L.limit \in Nat
           /\ L.backends \in Seq(Known) /\ L.count \in Nat
           /\ L.room \in [Known -> 0..MaxRoom] /\ L.acked \in [Known -> Seq(Nat)]
           /\ L.sent \in [Known -> Seq(Sent)]
  BY DEF State

\* A backend's room and what went out to it
RoomPut(L, b, r, s) == [L EXCEPT !.room[b] = r, !.sent[b] = s]

\* Only that changes.
LEMMA PutRoom ==
    ASSUME NEW L \in State, NEW b \in Known, NEW r \in 0..MaxRoom,
           NEW s \in Seq(Sent), NEW M, M = RoomPut(L, b, r, s)
    PROVE  /\ M \in State /\ SameStore(L, M) /\ SameElse(L, M, b)
           /\ M.room[b] = r /\ M.sent[b] = s
           /\ M.to = L.to /\ M.acked = L.acked
  <1>1. M \in State
    BY DEF State, RoomPut
  <1>2. SameStore(L, M) /\ M.to = L.to /\ M.acked = L.acked
    BY DEF State, SameStore, RoomPut
  <1>3. M.room = [L.room EXCEPT ![b] = r] /\ M.sent = [L.sent EXCEPT ![b] = s]
    BY DEF State, RoomPut
  <1>4. SameElse(L, M, b)
    BY <1>2, <1>3, StateFields DEF SameElse
  <1> QED BY <1>1, <1>2, <1>3, <1>4, StateFields

\* A backend's mark
MarkPut(L, b, t, a) == [L EXCEPT !.to[b] = t, !.acked[b] = a]

\* Only that changes.
LEMMA PutMark ==
    ASSUME NEW L \in State, NEW b \in Known, NEW t \in SUBSET Nat,
           NEW a \in Seq(Nat), NEW M, M = MarkPut(L, b, t, a)
    PROVE  /\ M \in State /\ SameStore(L, M) /\ SameElse(L, M, b)
           /\ M.to[b] = t /\ M.acked[b] = a
           /\ M.room = L.room /\ M.sent = L.sent
  <1>1. M \in State
    BY DEF State, MarkPut
  <1>2. SameStore(L, M) /\ M.room = L.room /\ M.sent = L.sent
    BY DEF State, SameStore, MarkPut
  <1>3. M.to = [L.to EXCEPT ![b] = t] /\ M.acked = [L.acked EXCEPT ![b] = a]
    BY DEF State, MarkPut
  <1>4. SameElse(L, M, b)
    BY <1>2, <1>3, StateFields DEF SameElse
  <1> QED BY <1>1, <1>2, <1>3, <1>4, StateFields

\* The least of two numbers
LEMMA MinOfTwo ==
    ASSUME NEW x \in Nat, NEW y \in Nat
    PROVE  /\ Min({x, y}) \in Nat /\ Min({x, y}) <= x /\ Min({x, y}) <= y
           /\ Min({x, y}) = x \/ Min({x, y}) = y
  <1> DEFINE P(m) == m \in {x, y} /\ \A k \in {x, y} : m <= k
  <1>1. \E m : P(m)
    <2>1. CASE x <= y
      BY <2>1
    <2>2. CASE ~(x <= y)
      BY <2>2
    <2> QED BY <2>1, <2>2
  <1>2. Min({x, y}) = CHOOSE m : P(m)
    BY DEF Min
  <1>3. P(Min({x, y}))
    <2> HIDE DEF P
    <2> QED BY <1>1, <1>2
  <1> QED BY <1>3

\* What a call of log_backend_write did
Skipped(L, b, x, w) == ~CheckFilter(x, Entry(b)) /\ w.ok /\ w.to = L
Unknown(L, b, x, w) == ~Takes(x, Entry(b)) /\ ~w.ok /\ w.to = L
Broke(L, b, x, w) ==
    /\ ~w.ok
    /\ w.to.room[b] = 0 \/ ~Takes(x, Entry(b))
    /\ \/ w.to.sent[b] = L.sent[b]
       \/ \E y \in BOOLEAN : w.to.sent[b] = Append(L.sent[b], [id |-> x.id, whole |-> y])
Took(L, b, x, w) ==
    w.ok /\ w.to.sent[b] = Append(L.sent[b], [id |-> x.id, whole |-> TRUE])

\* Pieces and calls
LEMMA PiecesCalls ==
    ASSUME NEW x \in Item, NEW e
    PROVE  /\ Pieces(x, e) \in Nat \ {0} /\ Calls(x, e) \in Nat \ {0}
           /\ Pieces(x, e) <= Calls(x, e)
           /\ Reach(x, e) \in Nat
           /\ IF Converts(x, e) THEN Reach(x, e) = Calls(x, e)
                                ELSE Reach(x, e) < Pieces(x, e)
  <1>1. x.chunks \in Nat \ {0} /\ x.good \in Nat
    BY DEF Item
  <1>2. Pieces(x, e) \in Nat \ {0}
    BY <1>1 DEF Pieces
  <1>3. Calls(x, e) \in Nat \ {0} /\ Pieces(x, e) <= Calls(x, e)
    BY <1>2 DEF Calls
  <1>4. CASE Converts(x, e)
    BY <1>2, <1>3, <1>4 DEF Reach
  <1>5. CASE ~Converts(x, e)
    <2>1. e.encode = "utf16" /\ ~(x.good >= x.chunks)
      BY <1>5 DEF Converts
    <2>2. Pieces(x, e) = x.chunks /\ Reach(x, e) = x.good
      BY <1>5, <2>1 DEF Pieces, Reach
    <2>3. Reach(x, e) \in Nat /\ Reach(x, e) < Pieces(x, e)
      BY <1>1, <2>1, <2>2
    <2> QED BY <1>2, <1>3, <1>5, <2>3
  <1> QED BY <1>4, <1>5

\* log_backend_write: the filter, an unknown backend, the first piece that is not
\* converted or not written, or the whole message
LEMMA BackendWriteIs ==
    ASSUME NEW L \in State, NEW b \in Known, NEW x \in Item, NEW w,
           w = BackendWrite(L, b, x)
    PROVE  /\ w.to \in State /\ w.ok \in BOOLEAN /\ SameStore(L, w.to)
           /\ SameElse(L, w.to, b)
           /\ w.to.to = L.to /\ w.to.acked = L.acked
           /\ \/ Skipped(L, b, x, w) \/ Unknown(L, b, x, w)
              \/ Broke(L, b, x, w) \/ Took(L, b, x, w)
  <1> DEFINE e == Entry(b)
             calls == Min({Reach(x, e), L.room[b]})
             whole == calls >= Pieces(x, e)
             new == [id |-> x.id, whole |-> whole]
             s == IF calls = 0 THEN L.sent[b] ELSE Append(L.sent[b], new)
             M == [L EXCEPT !.room[b] = L.room[b] - calls, !.sent[b] = s]
  <1>e. e = Entry(b)
    OBVIOUS
  <1> HIDE DEF e
  <1>1. SameStore(L, L) /\ SameElse(L, L, b)
    BY DEF SameStore, SameElse
  <1>2. CASE ~CheckFilter(x, e)
    <2>1. w = [to |-> L, ok |-> TRUE]
      BY <1>2, Zenon DEF BackendWrite, e
    <2>2. w.to = L /\ w.ok = TRUE
      BY <2>1
    <2>3. Skipped(L, b, x, w)
      BY <1>2, <2>2, Zenon DEF Skipped, e
    <2> QED BY <1>1, <2>2, <2>3
  <1>3. CASE CheckFilter(x, e) /\ NoOutput(e)
    <2>1. w = [to |-> L, ok |-> FALSE]
      BY <1>3, Zenon DEF BackendWrite, e
    <2>2. w.to = L /\ w.ok = FALSE
      BY <2>1
    <2>3. Unknown(L, b, x, w)
      BY <1>3, <2>2, Zenon DEF Unknown, Takes, e
    <2> QED BY <1>1, <2>2, <2>3
  <1>4. CASE CheckFilter(x, e) /\ ~NoOutput(e)
    <2>1. w = [to |-> M, ok |-> calls = Calls(x, e)]
      BY <1>4, Zenon DEF BackendWrite, e
    <2>2. w.to = M /\ w.ok = (calls = Calls(x, e))
      BY <2>1
    <2> DEFINE r == L.room[b]
               n == Calls(x, e)
               p == Pieces(x, e)
               g == Reach(x, e)
    <2>3. r \in 0..MaxRoom /\ r \in Nat /\ L.sent[b] \in Seq(Sent)
      BY StateFields, LogAssumption
    <2>4. /\ n \in Nat \ {0} /\ p \in Nat \ {0} /\ p <= n /\ g \in Nat
          /\ IF Converts(x, e) THEN g = n ELSE g < p
      BY PiecesCalls
    <2>5. calls \in Nat /\ calls <= n /\ calls <= r /\ (calls = g \/ calls = r)
      <3> HIDE DEF n, p, g, r
      <3>1. calls = Min({g, r}) /\ r \in Nat
        BY <2>3 DEF g, r
      <3>2. calls \in Nat /\ calls <= g /\ calls <= r /\ (calls = g \/ calls = r)
        BY <2>4, <3>1, MinOfTwo
      <3> QED BY <2>3, <2>4, <3>2
    <2>6. whole \in BOOLEAN /\ new \in Sent
      BY ItemSize DEF Sent
    <2>m. M = RoomPut(L, b, r - calls, s)
      BY DEF RoomPut
    <2>8. s \in Seq(Sent)
      BY <2>3, <2>6
    <2> HIDE DEF calls, n, p, g, whole, new, s, M
    <2>7. r - calls \in 0..MaxRoom
      <3> HIDE DEF r
      <3>1. MaxRoom \in Nat
        BY LogAssumption
      <3> QED BY <2>3, <2>5, <3>1
    <2>9. /\ M \in State /\ SameStore(L, M) /\ SameElse(L, M, b)
          /\ M.room[b] = r - calls /\ M.sent[b] = s
          /\ M.to = L.to /\ M.acked = L.acked
      <3> HIDE DEF r
      <3> QED BY <2>7, <2>8, <2>m, PutRoom
    <2>10. CASE calls = n
      <3>1. w.ok
        BY <2>2, <2>10, Zenon DEF n
      <3>2. whole = TRUE /\ calls # 0
        BY <2>4, <2>5, <2>10 DEF whole, p
      <3>3. w.to.sent[b] = Append(L.sent[b], [id |-> x.id, whole |-> TRUE])
        BY <2>2, <2>9, <3>2 DEF s, new
      <3>4. Took(L, b, x, w)
        BY <3>1, <3>3 DEF Took
      <3> QED BY <2>2, <2>9, <3>1, <3>4
    <2>11. CASE calls # n
      <3>1. ~w.ok /\ w.ok \in BOOLEAN
        BY <2>2, <2>11, Zenon DEF n
      <3>2. r - calls = 0 \/ ~Takes(x, e)
        <4>1. CASE calls = r
          BY <2>3, <2>5, <4>1
        <4>2. CASE calls = g /\ ~Converts(x, e)
          BY <1>4, <4>2 DEF Takes
        <4>3. CASE Converts(x, e)
          BY <2>3, <2>4, <2>5, <2>11, <4>3
        <4> QED BY <2>5, <4>1, <4>2, <4>3
      <3>3. \/ w.to.sent[b] = L.sent[b]
            \/ \E y \in BOOLEAN : w.to.sent[b] = Append(L.sent[b], [id |-> x.id, whole |-> y])
        BY <2>2, <2>6, <2>9 DEF s, new
      <3>4. Broke(L, b, x, w)
        BY <2>2, <2>9, <3>1, <3>2, <3>3 DEF Broke, e
      <3> QED BY <2>2, <2>9, <3>1, <3>4
    <2> QED BY <2>10, <2>11
  <1> QED BY <1>2, <1>3, <1>4

\* The same in a state of the log
Fed(L, b) == FedBy(L.items, L.count, L.to[b], L.acked[b], L.sent[b], b)

\* The first messages up to the one at k have their marks.
MarkedTo(L, b, k) == \A i \in 1..k : L.items[i].id \in L.to[b]

\* The backend b is out of order, or has had all messages up to one that it
\* can never take.
Out(L, b) ==
    \/ L.room[b] = 0
    \/ \E k \in 1..Len(L.items) : MarkedTo(L, b, k - 1) /\ ~Takes(L.items[k], Entry(b))

\* A write of x to b failed for one of these reasons.
Refused(L, b, x) == L.room[b] = 0 \/ ~Takes(x, Entry(b))

\* What a call of log_item_write_to did
Offered(L, b, x, w) ==
    \/ x.id \in L.to[b] /\ w.ok /\ w.to = L
    \/ /\ x.id \notin L.to[b] /\ ~w.ok /\ Refused(w.to, b, x)
       /\ w.to.to[b] = L.to[b] /\ w.to.acked[b] = L.acked[b]
       /\ \/ w.to.sent[b] = L.sent[b]
          \/ \E y \in BOOLEAN :
               w.to.sent[b] = Append(L.sent[b], [id |-> x.id, whole |-> y])
    \/ /\ x.id \notin L.to[b] /\ w.ok
       /\ w.to.to[b] = L.to[b] \cup {x.id}
       /\ w.to.acked[b] = Append(L.acked[b], x.id)
       /\ \/ ~CheckFilter(x, Entry(b)) /\ w.to.sent[b] = L.sent[b]
          \/ w.to.sent[b] = Append(L.sent[b], [id |-> x.id, whole |-> TRUE])

\* log_item_write_to does nothing to a message with a mark; else the write's
\* success decides on the mark.
LEMMA ItemWriteIs ==
    ASSUME NEW L \in State, NEW b \in Known, NEW x \in Item, NEW w,
           w = ItemWriteTo(L, b, x)
    PROVE  /\ w.to \in State /\ w.ok \in BOOLEAN /\ SameStore(L, w.to)
           /\ SameElse(L, w.to, b)
           /\ Offered(L, b, x, w)
  <1> DEFINE v == BackendWrite(L, b, x)
             t == v.to.to[b] \cup {x.id}
             a == Append(v.to.acked[b], x.id)
             M == [v.to EXCEPT !.to[b] = t, !.acked[b] = a]
  <1>1. /\ v.to \in State /\ v.ok \in BOOLEAN /\ SameStore(L, v.to)
        /\ SameElse(L, v.to, b)
        /\ v.to.to = L.to /\ v.to.acked = L.acked
        /\ \/ Skipped(L, b, x, v) \/ Unknown(L, b, x, v)
           \/ Broke(L, b, x, v) \/ Took(L, b, x, v)
    BY BackendWriteIs
  <1>v. v = BackendWrite(L, b, x)
    OBVIOUS
  <1> HIDE DEF v
  <1>2. CASE x.id \in L.to[b]
    <2>1. w = [to |-> L, ok |-> TRUE]
      BY <1>2, Zenon DEF ItemWriteTo
    <2>2. w.to = L /\ w.ok = TRUE
      BY <2>1
    <2>3. SameStore(L, L) /\ SameElse(L, L, b)
      BY DEF SameStore, SameElse
    <2> QED BY <1>2, <2>2, <2>3 DEF Offered
  <1>3. CASE x.id \notin L.to[b] /\ ~v.ok
    <2>1. w = [to |-> v.to, ok |-> v.ok]
      BY <1>3, <1>v, Zenon DEF ItemWriteTo
    <2>2. w.to = v.to /\ w.ok = v.ok
      BY <2>1
    <2>3. Unknown(L, b, x, v) \/ Broke(L, b, x, v)
      BY <1>1, <1>3 DEF Skipped, Took
    <2>4. /\ Refused(v.to, b, x)
          /\ \/ v.to.sent[b] = L.sent[b]
             \/ \E y \in BOOLEAN :
                   v.to.sent[b] = Append(L.sent[b], [id |-> x.id, whole |-> y])
      BY <2>3 DEF Unknown, Broke, Refused
    <2> QED BY <1>1, <1>3, <2>2, <2>4 DEF Offered
  <1>4. CASE x.id \notin L.to[b] /\ v.ok
    <2>1. w = [to |-> M, ok |-> v.ok]
      BY <1>4, <1>v, Zenon DEF ItemWriteTo
    <2>2. w.to = M /\ w.ok = v.ok
      BY <2>1
    <2>3. t \in SUBSET Nat /\ a \in Seq(Nat)
      <3>1. v.to.to[b] \in SUBSET Nat /\ v.to.acked[b] \in Seq(Nat) /\ x.id \in Nat
        BY <1>1, StateFields, ItemSize
      <3> QED BY <3>1
    <2>4. t = L.to[b] \cup {x.id} /\ a = Append(L.acked[b], x.id)
      BY <1>1
    <2>m. M = MarkPut(v.to, b, t, a)
      BY DEF MarkPut
    <2> HIDE DEF t, a, M
    <2>5. /\ M \in State /\ SameStore(v.to, M) /\ SameElse(v.to, M, b)
          /\ M.to[b] = t /\ M.acked[b] = a
          /\ M.room = v.to.room /\ M.sent = v.to.sent
      BY <1>1, <2>3, <2>m, PutMark
    <2>6. SameStore(L, M) /\ SameElse(L, M, b)
      BY <1>1, <2>5 DEF SameStore, SameElse
    <2>7. Skipped(L, b, x, v) \/ Took(L, b, x, v)
      BY <1>1, <1>4 DEF Unknown, Broke
    <2>8. \/ ~CheckFilter(x, Entry(b)) /\ v.to.sent[b] = L.sent[b]
          \/ v.to.sent[b] = Append(L.sent[b], [id |-> x.id, whole |-> TRUE])
      BY <2>7 DEF Skipped, Took
    <2> QED BY <1>1, <1>4, <2>2, <2>4, <2>5, <2>6, <2>8 DEF Offered
  <1> QED BY <1>1, <1>2, <1>3, <1>4

\* L became M by messages to b: nothing else changed, no mark was lost, and b
\* is fed as before.
Served(L, M, b) ==
    /\ M \in State /\ SameStore(L, M) /\ SameElse(L, M, b)
    /\ L.to[b] \subseteq M.to[b]
    /\ Fed(M, b)

\* The next message to b, when those before it have their marks
LEMMA WriteServes ==
    ASSUME NEW L \in State, NEW b \in Known, Fed(L, b),
           Numbered(L.items, L.count),
           NEW k \in 1..Len(L.items), MarkedTo(L, b, k - 1),
           NEW w, w = ItemWriteTo(L, b, L.items[k])
    PROVE  /\ Served(L, w.to, b) /\ w.ok \in BOOLEAN
           /\ IF w.ok THEN MarkedTo(w.to, b, k) ELSE Out(w.to, b)
  <1> DEFINE x == L.items[k]
             items == L.items
             count == L.count
             M == w.to
  <1>0. items \in Seq(Item) /\ count \in Nat /\ x \in Item /\ x = items[k]
    BY StateFields
  <1>1. /\ M \in State /\ w.ok \in BOOLEAN /\ SameStore(L, M) /\ SameElse(L, M, b)
        /\ \/ x.id \in L.to[b] /\ w.ok /\ M = L
           \/ /\ x.id \notin L.to[b] /\ ~w.ok /\ Refused(M, b, x)
              /\ M.to[b] = L.to[b] /\ M.acked[b] = L.acked[b]
              /\ \/ M.sent[b] = L.sent[b]
                 \/ \E y \in BOOLEAN :
                      M.sent[b] = Append(L.sent[b], [id |-> x.id, whole |-> y])
           \/ /\ x.id \notin L.to[b] /\ w.ok
              /\ M.to[b] = L.to[b] \cup {x.id}
              /\ M.acked[b] = Append(L.acked[b], x.id)
              /\ \/ ~CheckFilter(x, Entry(b)) /\ M.sent[b] = L.sent[b]
                 \/ M.sent[b] = Append(L.sent[b], [id |-> x.id, whole |-> TRUE])
    <2>1. w = ItemWriteTo(L, b, x)
      OBVIOUS
    <2> HIDE DEF x, M
    <2>2. x \in Item
      BY <1>0
    <2>3. /\ w.to \in State /\ w.ok \in BOOLEAN /\ SameStore(L, w.to)
          /\ SameElse(L, w.to, b) /\ Offered(L, b, x, w)
      BY <2>1, <2>2, ItemWriteIs
    <2> QED BY <2>3 DEF M, Offered
  <1>2. M.items = items /\ M.count = count
    BY <1>1 DEF SameStore
  <1>3. /\ Acks(items, count, L.to[b], L.acked[b])
        /\ Sends(items, count, L.to[b], L.sent[b])
        /\ Told(items, L.to[b], L.sent[b], b)
        /\ L.acked[b] \in Seq(Nat) /\ L.sent[b] \in Seq(Sent) /\ Numbered(items, count)
    BY StateFields DEF Fed, FedBy
  <1> HIDE DEF M, items, count
  <1>4. CASE x.id \in L.to[b]
    <2>1. w.ok /\ M = L
      BY <1>1, <1>4
    <2>2. ASSUME NEW i \in 1..k PROVE items[i].id \in L.to[b]
      <3>1. i \in 1..(k - 1) \/ i = k
        OBVIOUS
      <3> QED BY <1>0, <1>4, <3>1 DEF MarkedTo, items
    <2>3. MarkedTo(M, b, k)
      BY <2>1, <2>2 DEF MarkedTo, items
    <2> QED BY <1>1, <2>1, <2>3 DEF Served, M
  <1> SUFFICES ASSUME x.id \notin L.to[b] PROVE
           /\ Served(L, w.to, b) /\ w.ok \in BOOLEAN
           /\ IF w.ok THEN MarkedTo(w.to, b, k) ELSE Out(w.to, b)
    BY <1>4
  <1>5. First(items, L.to[b], k)
    BY <1>0 DEF First, MarkedTo, items
  <1>k. k \in 1..Len(items)
    BY DEF items
  <1>6. CASE ~w.ok
    <2>1. Sends(items, count, L.to[b], M.sent[b])
      <3>1. CASE M.sent[b] = L.sent[b]
        BY <1>3, <3>1
      <3>2. ASSUME NEW y \in BOOLEAN,
                   M.sent[b] = Append(L.sent[b], [id |-> x.id, whole |-> y])
            PROVE  Sends(items, count, L.to[b], M.sent[b])
        BY <1>0, <1>3, <1>5, <1>k, <3>2, SendsOn
      <3> QED BY <1>1, <1>6, <3>1, <3>2
    <2>2. Told(items, L.to[b], M.sent[b], b)
      <3>1. CASE M.sent[b] = L.sent[b]
        BY <1>3, <3>1
      <3>2. ASSUME NEW y \in BOOLEAN,
                   M.sent[b] = Append(L.sent[b], [id |-> x.id, whole |-> y])
            PROVE  Told(items, L.to[b], M.sent[b], b)
        <4>1. [id |-> x.id, whole |-> y] \in Sent
          BY <1>0, ItemSize DEF Sent
        <4> QED BY <1>3, <3>2, <4>1, ToldMore
      <3> QED BY <1>1, <1>6, <3>1, <3>2
    <2>3. M.to[b] = L.to[b] /\ M.acked[b] = L.acked[b] /\ Refused(M, b, x)
      BY <1>1, <1>6
    <2>5. Out(M, b)
      <3>1. MarkedTo(M, b, k - 1)
        BY <1>2, <2>3 DEF MarkedTo, items
      <3>2. k \in 1..Len(M.items) /\ M.items[k] = x
        BY <1>0, <1>2, <1>k
      <3> QED BY <2>3, <3>1, <3>2 DEF Refused, Out
    <2>4. Fed(M, b)
      BY <1>2, <1>3, <2>1, <2>2, <2>3 DEF Fed, FedBy
    <2> QED BY <1>1, <1>6, <2>3, <2>4, <2>5 DEF Served, M
  <1>7. CASE w.ok
    <2> DEFINE t == L.to[b] \cup {x.id}
    <2>0. /\ M.to[b] = t /\ M.acked[b] = Append(L.acked[b], x.id)
          /\ \/ ~CheckFilter(x, Entry(b)) /\ M.sent[b] = L.sent[b]
             \/ M.sent[b] = Append(L.sent[b], [id |-> x.id, whole |-> TRUE])
      BY <1>1, <1>7
    <2>1. Sends(items, count, L.to[b], M.sent[b])
      <3>1. CASE M.sent[b] = L.sent[b]
        BY <1>3, <3>1
      <3>2. CASE M.sent[b] = Append(L.sent[b], [id |-> x.id, whole |-> TRUE])
        <4>1. /\ Numbered(items, count) /\ First(items, L.to[b], k)
              /\ L.sent[b] \in Seq(Sent) /\ Sends(items, count, L.to[b], L.sent[b])
          BY <1>3, <1>5
        <4>2. Sends(items, count, L.to[b], Append(L.sent[b], [id |-> items[k].id, whole |-> TRUE]))
          BY ONLY <1>0, <1>k, <4>1, TRUE \in BOOLEAN, SendsOn
        <4>3. items[k].id = x.id
          BY <1>0
        <4> QED BY <3>2, <4>2, <4>3
      <3> QED BY <2>0, <3>1, <3>2
    <2>2. Sends(items, count, t, M.sent[b])
      BY <2>1, SendsMore
    <2>3. Told(items, L.to[b], M.sent[b], b)
      <3>1. CASE M.sent[b] = L.sent[b]
        BY <1>3, <3>1
      <3>2. CASE M.sent[b] = Append(L.sent[b], [id |-> x.id, whole |-> TRUE])
        <4>1. [id |-> x.id, whole |-> TRUE] \in Sent
          BY <1>0, ItemSize DEF Sent
        <4> QED BY <1>3, <3>2, <4>1, ToldMore
      <3> QED BY <2>0, <3>1, <3>2
    <2>4. CheckFilter(x, Entry(b)) =>
            \E n \in 1..Len(M.sent[b]) : M.sent[b][n] = [id |-> x.id, whole |-> TRUE]
      <3> SUFFICES ASSUME M.sent[b] = Append(L.sent[b], [id |-> x.id, whole |-> TRUE])
                   PROVE  \E n \in 1..Len(M.sent[b]) :
                             M.sent[b][n] = [id |-> x.id, whole |-> TRUE]
        BY <2>0
      <3>1. [id |-> x.id, whole |-> TRUE] \in Sent
        BY <1>0, ItemSize DEF Sent
      <3> DEFINE y == [id |-> x.id, whole |-> TRUE]
      <3> HIDE DEF y
      <3>2. Len(L.sent[b]) + 1 \in 1..Len(Append(L.sent[b], y))
            /\ Append(L.sent[b], y)[Len(L.sent[b]) + 1] = y
        BY <1>3, <3>1 DEF y
      <3> QED BY <3>2 DEF y
    <2>5. Told(items, t, M.sent[b], b)
      BY <1>0, <1>3, <1>k, <2>3, <2>4, ToldOn
    <2>6. Acks(items, count, t, M.acked[b])
      <3>1. Acks(items, count, L.to[b] \cup {items[k].id},
                 Append(L.acked[b], items[k].id))
        BY <1>0, <1>3, <1>5, <1>k, AcksOn
      <3> QED BY <1>0, <2>0, <3>1
    <2>7. Fed(M, b)
      BY <1>2, <2>0, <2>2, <2>5, <2>6 DEF Fed, FedBy
    <2>8. ASSUME NEW i \in 1..k PROVE items[i].id \in t
      <3>1. i \in 1..(k - 1) \/ i = k
        OBVIOUS
      <3> QED BY <1>0, <3>1 DEF MarkedTo, items
    <2>9. MarkedTo(M, b, k)
      BY <1>2, <2>0, <2>8 DEF MarkedTo
    <2> QED BY <1>1, <1>7, <2>0, <2>7, <2>9 DEF Served, M
  <1> QED BY <1>1, <1>6, <1>7

-----------------------------------------------------------------------------
(* Messages to one backend *)

\* What sending a message gives: the new state, and whether it succeeded
Result == [to : State, ok : BOOLEAN]

\* log_item_write_to returns a state and whether the backend took the message.
LEMMA WriteResult ==
    ASSUME NEW L \in State, NEW b \in Known, NEW x \in Item
    PROVE  ItemWriteTo(L, b, x) \in Result
  <1> DEFINE w == ItemWriteTo(L, b, x)
  <1>1. w.to \in State /\ w.ok \in BOOLEAN
    BY ItemWriteIs
  <1>2. w = [to |-> w.to, ok |-> w.ok]
    <2>1. ASSUME NEW M, NEW y PROVE [to |-> M, ok |-> y].to = M /\ [to |-> M, ok |-> y].ok = y
      OBVIOUS
    <2>2. \E M, y : w = [to |-> M, ok |-> y]
      BY Zenon DEF ItemWriteTo
    <2> HIDE DEF w
    <2> QED BY <2>1, <2>2
  <1> HIDE DEF w
  <1> QED BY <1>1, <1>2 DEF Result, w

\* A loop that ends early: at holds the results after each message.
Loop(at, n, start, b, items) ==
    /\ at[0] = start
    /\ \A k \in 1..n :
         at[k] = IF at[k - 1].ok THEN ItemWriteTo(at[k - 1].to, b, items[k]) ELSE at[k - 1]

\* Send offers the messages one by one, up to the first failure.
LEMMA SendSteps ==
    ASSUME NEW L \in State, NEW b \in Known, NEW items \in Seq(Item)
    PROVE  \E at : /\ Loop(at, Len(items), [to |-> L, ok |-> TRUE], b, items)
                   /\ Send(L, b, items) = at[Len(items)].to
  <1> DEFINE n == Len(items)
             start == [to |-> L, ok |-> TRUE]
             Body(f) == [k \in 0..n |->
                IF k = 0 THEN start
                ELSE IF f[k - 1].ok THEN ItemWriteTo(f[k - 1].to, b, items[k]) ELSE f[k - 1]]
             r == CHOOSE f : f = Body(f)
             step == [q \in Result \X (1..n) |->
                IF q[1].ok THEN ItemWriteTo(q[1].to, b, items[q[2]]) ELSE q[1]]
  <1>n. n \in Nat /\ \A k \in 1..n : items[k] \in Item
    OBVIOUS
  <1>1. Send(L, b, items) = r[n].to
    BY Zenon DEF Send
  <1>2. start \in Result
    BY DEF Result
  <1> HIDE DEF n, start
  <1>3. IsStep(step, Result, n)
    <2>1. ASSUME NEW p \in Result, NEW k \in 1..n
          PROVE  (IF p.ok THEN ItemWriteTo(p.to, b, items[k]) ELSE p) \in Result
      <3>1. p.to \in State
        BY DEF Result
      <3> QED BY <1>n, <3>1, WriteResult
    <2> QED BY <2>1 DEF IsStep
  <1>4. \A p \in Result, k \in 1..n :
           step[<<p, k>>] = IF p.ok THEN ItemWriteTo(p.to, b, items[k]) ELSE p
    OBVIOUS
  <1> HIDE DEF step
  <1>5. PICK g : Iterates(g, Result, n, start, step)
    BY <1>n, <1>2, <1>3, Iteration
  <1>6. g = Body(g)
    <2>1. g \in [0..n -> Result] /\ g[0] = start
      BY <1>5 DEF Iterates
    <2>2. ASSUME NEW k \in 0..n, k # 0
          PROVE  g[k] = IF g[k - 1].ok THEN ItemWriteTo(g[k - 1].to, b, items[k]) ELSE g[k - 1]
      <3>1. k \in 1..n /\ k - 1 \in 0..n
        BY <1>n, <2>2
      <3>2. g[k] = step[<<g[k - 1], k>>] /\ g[k - 1] \in Result
        BY <1>5, <2>1, <3>1 DEF Iterates
      <3> QED BY <1>4, <3>1, <3>2
    <2> QED BY <2>1, <2>2
  <1>7. r = Body(r)
    <2> HIDE DEF Body
    <2> QED BY <1>6, Zenon
  <1> HIDE DEF r
  <1>8. Loop(r, n, start, b, items)
    <2> DEFINE B == Body(r)
    <2>1. /\ B[0] = start
          /\ \A k \in 1..n :
               B[k] = IF r[k - 1].ok THEN ItemWriteTo(r[k - 1].to, b, items[k]) ELSE r[k - 1]
      BY <1>n
    <2> HIDE DEF B
    <2>2. r = B
      BY <1>7 DEF B
    <2> QED BY <2>1, <2>2 DEF Loop
  <1> QED BY <1>1, <1>8 DEF n, start

\* Messages to a backend leave a state.
LEMMA SendState ==
    ASSUME NEW L \in State, NEW b \in Known, NEW items \in Seq(Item)
    PROVE  Send(L, b, items) \in State
  <1> DEFINE n == Len(items)
  <1>1. PICK at : /\ Loop(at, n, [to |-> L, ok |-> TRUE], b, items)
                  /\ Send(L, b, items) = at[n].to
    BY SendSteps
  <1>n. n \in Nat /\ \A k \in 1..n : items[k] \in Item
    OBVIOUS
  <1> HIDE DEF n
  <1> DEFINE S == {k \in 0..n : at[k] \in Result}
  <1>2. 0 \in S
    <2>1. [to |-> L, ok |-> TRUE] \in Result
      BY DEF Result
    <2>2. at[0] = [to |-> L, ok |-> TRUE]
      BY <1>1 DEF Loop
    <2> QED BY <1>n, <2>1, <2>2
  <1>3. ASSUME NEW k \in 0..(n - 1), k \in S PROVE k + 1 \in S
    <2> DEFINE p == at[k]
    <2>1. k + 1 \in 1..n /\ k + 1 \in 0..n /\ (k + 1) - 1 = k
      BY <1>n
    <2>2. at[k + 1] = IF p.ok THEN ItemWriteTo(p.to, b, items[k + 1]) ELSE p
      BY <1>1, <2>1 DEF Loop
    <2>3. p \in Result /\ p.to \in State
      BY <1>3 DEF Result
    <2> HIDE DEF p
    <2>4. ItemWriteTo(p.to, b, items[k + 1]) \in Result
      BY <1>n, <2>1, <2>3, WriteResult
    <2> QED BY <2>1, <2>2, <2>3, <2>4
  <1> HIDE DEF S
  <1>4. n \in S
    <2>1. \A k \in 0..n : k \in S
      BY <1>n, <1>2, <1>3, SetInduction
    <2> QED BY <1>n, <2>1
  <1>5. at[n] \in Result
    BY <1>4 DEF S
  <1> QED BY <1>1, <1>5 DEF Result

\* What two runs of messages to the same backend leave alone, they leave alone
\* one after the other.
LEMMA ServedOn ==
    ASSUME NEW L, NEW M, NEW N, NEW b, Served(L, M, b), Served(M, N, b)
    PROVE  Served(L, N, b)
  BY DEF Served, SameStore, SameElse

\* The messages after the first d
Rest(L, d) == SubSeq(L.items, 1 + d, Len(L.items))

\* Those messages by their positions
LEMMA RestIs ==
    ASSUME NEW L, L.items \in Seq(Item), NEW d \in 0..Len(L.items),
           NEW s, s = Rest(L, d)
    PROVE  /\ s \in Seq(Item) /\ Len(s) \in Nat /\ d + Len(s) = Len(L.items)
           /\ \A k \in 1..Len(s) : s[k] = L.items[d + k]
  <1> DEFINE items == L.items
             m == Len(items)
  <1>1. items \in Seq(Item) /\ m \in Nat /\ s = SubSeq(items, 1 + d, m)
    BY DEF Rest
  <1>2. 1 + d \in 1..(m + 1) /\ \A i \in (1 + d)..m : items[i] \in Item
    BY <1>1
  <1> HIDE DEF items, m
  <1>3. /\ Len(s) = IF 1 + d <= m THEN m - (1 + d) + 1 ELSE 0
        /\ \A k \in 1..(m - (1 + d) + 1) : s[k] = items[(1 + d) + k - 1]
    BY <1>1, <1>2
  <1>4. Len(s) = m - d
    BY <1>1, <1>2, <1>3
  <1>5. s \in Seq(Item)
    BY <1>1, <1>2
  <1>6. ASSUME NEW k \in 1..Len(s) PROVE s[k] = items[d + k]
    <2>1. k \in 1..(m - (1 + d) + 1) /\ (1 + d) + k - 1 = d + k
      BY <1>1, <1>4
    <2> QED BY <1>3, <2>1
  <1>7. Len(s) \in Nat /\ d + Len(s) = m
    BY <1>1, <1>2, <1>4
  <1> QED BY <1>5, <1>6, <1>7 DEF items, m

\* Send brings b up to date, or b is out of order.
LEMMA SendServes ==
    ASSUME NEW L \in State, NEW b \in Known, Fed(L, b), Numbered(L.items, L.count),
           NEW d \in 0..Len(L.items), MarkedTo(L, b, d),
           NEW s, s = Rest(L, d),
           NEW M, M = Send(L, b, s)
    PROVE  /\ Served(L, M, b)
           /\ MarkedTo(M, b, Len(L.items)) \/ Out(M, b)
  <1> DEFINE n == Len(s)
             m == Len(L.items)
  <1>0. L.items \in Seq(Item) /\ m \in Nat
    BY StateFields
  <1>1. s \in Seq(Item) /\ n \in Nat /\ d + n = m /\ \A k \in 1..n : s[k] = L.items[d + k]
    BY <1>0, RestIs
  <1>n. n \in Nat
    BY <1>1
  <1>2. PICK at : Loop(at, n, [to |-> L, ok |-> TRUE], b, s) /\ M = at[n].to
    BY <1>1, SendSteps
  <1> HIDE DEF n
  <1> DEFINE Good(k, p) == /\ p.ok \in BOOLEAN /\ Served(L, p.to, b)
                           /\ IF p.ok THEN MarkedTo(p.to, b, d + k) ELSE Out(p.to, b)
             S == {k \in 0..n : Good(k, at[k])}
  <1>3. 0 \in S
    <2>1. at[0].to = L /\ at[0].ok = TRUE
      BY <1>2 DEF Loop
    <2>2. Served(L, L, b)
      BY DEF Served, SameStore, SameElse
    <2>3. MarkedTo(L, b, d + 0)
      BY <1>0 DEF MarkedTo
    <2>4. Good(0, at[0])
      BY <2>1, <2>2, <2>3
    <2> HIDE DEF Good
    <2> QED BY <1>1, <2>4
  <1>4. ASSUME NEW k \in 0..(n - 1), k \in S PROVE k + 1 \in S
    <2> DEFINE p == at[k]
               q == at[k + 1]
    <2>1. /\ k + 1 \in 1..n /\ k + 1 \in 0..n /\ (k + 1) - 1 = k
          /\ d + (k + 1) \in 1..m /\ (d + (k + 1)) - 1 = d + k
      <3>1. d \in Nat /\ m \in Nat /\ n \in Nat /\ d + n = m
        BY <1>0, <1>1
      <3> HIDE DEF m
      <3> QED BY <3>1
    <2>2. q = IF p.ok THEN ItemWriteTo(p.to, b, s[k + 1]) ELSE p
      BY <1>2, <2>1 DEF Loop
    <2>3. /\ p.ok \in BOOLEAN /\ Served(L, p.to, b)
          /\ IF p.ok THEN MarkedTo(p.to, b, d + k) ELSE Out(p.to, b)
      BY <1>4
    <2> HIDE DEF p, q
    <2>4. CASE ~p.ok
      <3>1. Good(k + 1, q)
        BY <2>2, <2>3, <2>4
      <3> HIDE DEF Good
      <3> QED BY <2>1, <3>1 DEF q
    <2>5. CASE p.ok
      <3> DEFINE N == p.to
                 j == d + (k + 1)
      <3>1. /\ N \in State /\ Fed(N, b) /\ N.items = L.items /\ N.count = L.count
            /\ Numbered(N.items, N.count)
        BY <2>3 DEF Served, SameStore
      <3>2. s[k + 1] = N.items[j] /\ j \in 1..Len(N.items)
        BY <1>1, <2>1, <3>1
      <3>3. MarkedTo(N, b, j - 1)
        BY <2>1, <2>3, <2>5
      <3>4. q = ItemWriteTo(N, b, N.items[j])
        BY <2>2, <2>5, <3>2
      <3> HIDE DEF N, j
      <3>5. /\ Served(N, q.to, b) /\ q.ok \in BOOLEAN
            /\ IF q.ok THEN MarkedTo(q.to, b, j) ELSE Out(q.to, b)
        BY <3>1, <3>2, <3>3, <3>4, WriteServes
      <3>6. Served(L, q.to, b)
        BY <2>3, <3>5, ServedOn DEF N
      <3>7. Good(k + 1, q)
        BY <3>5, <3>6 DEF j
      <3> HIDE DEF Good
      <3> QED BY <2>1, <3>7 DEF q
    <2> QED BY <2>3, <2>4, <2>5
  <1> HIDE DEF S
  <1>5. n \in S
    <2>1. \A k \in 0..n : k \in S
      BY <1>1, <1>3, <1>4, SetInduction
    <2> QED BY <1>n, <2>1
  <1>6. Good(n, at[n])
    BY <1>5 DEF S
  <1> QED BY <1>1, <1>2, <1>6

-----------------------------------------------------------------------------
(* Messages to all backends: log_flush_fast *)

\* b is as it was
SameAt(L, M, b) ==
    /\ M.to[b] = L.to[b] /\ M.room[b] = L.room[b]
    /\ M.acked[b] = L.acked[b] /\ M.sent[b] = L.sent[b]

\* b has had all retained messages, unless it is out of order.
UpToDate(L, b) == MarkedTo(L, b, Len(L.items)) \/ Out(L, b)

\* L became M by messages to the backends on the list.
ServedAll(L, M) ==
    /\ M \in State /\ SameStore(L, M)
    /\ \A b \in Known : L.to[b] \subseteq M.to[b] /\ Fed(M, b)
    /\ \A b \in Known \ ToSet(L.backends) : SameAt(L, M, b)

\* at holds the states after each backend.
LoopAll(at, L, items) ==
    /\ at[0] = L
    /\ \A k \in 1..Len(L.backends) : at[k] = Send(at[k - 1], L.backends[k], items)

\* SendAll sends to the backends one by one, in their order.
LEMMA SendAllSteps ==
    ASSUME NEW L \in State, NEW items \in Seq(Item)
    PROVE  \E at : LoopAll(at, L, items) /\ SendAll(L, items) = at[Len(L.backends)]
  <1> DEFINE bs == L.backends
             n == Len(bs)
             Body(f) == [k \in 0..n |-> IF k = 0 THEN L ELSE Send(f[k - 1], bs[k], items)]
             r == CHOOSE f : f = Body(f)
             step == [q \in State \X (1..n) |-> Send(q[1], bs[q[2]], items)]
  <1>n. n \in Nat /\ \A k \in 1..n : bs[k] \in Known
    BY StateFields
  <1>1. SendAll(L, items) = r[n]
    BY Zenon DEF SendAll
  <1>d. bs = L.backends /\ n = Len(bs)
    OBVIOUS
  <1> HIDE DEF n, bs
  <1>3. IsStep(step, State, n)
    <2>1. ASSUME NEW p \in State, NEW k \in 1..n PROVE Send(p, bs[k], items) \in State
      BY <1>n, SendState
    <2> QED BY <2>1 DEF IsStep
  <1>4. \A p \in State, k \in 1..n : step[<<p, k>>] = Send(p, bs[k], items)
    OBVIOUS
  <1> HIDE DEF step
  <1>5. PICK g : Iterates(g, State, n, L, step)
    BY <1>n, <1>3, Iteration
  <1>6. g = Body(g)
    <2>1. g \in [0..n -> State] /\ g[0] = L
      BY <1>5 DEF Iterates
    <2>2. ASSUME NEW k \in 0..n, k # 0 PROVE g[k] = Send(g[k - 1], bs[k], items)
      <3>1. k \in 1..n /\ k - 1 \in 0..n
        BY <1>n, <2>2
      <3>2. g[k] = step[<<g[k - 1], k>>] /\ g[k - 1] \in State
        BY <1>5, <2>1, <3>1 DEF Iterates
      <3> QED BY <1>4, <3>1, <3>2
    <2> QED BY <2>1, <2>2
  <1>7. r = Body(r)
    <2> HIDE DEF Body
    <2> QED BY <1>6, Zenon
  <1> HIDE DEF r
  <1>8. LoopAll(r, L, items)
    <2> DEFINE B == Body(r)
    <2>1. B[0] = L /\ \A k \in 1..n : B[k] = Send(r[k - 1], bs[k], items)
      BY <1>n
    <2> HIDE DEF B
    <2>2. r = B
      BY <1>7 DEF B
    <2> QED BY <1>d, <2>1, <2>2 DEF LoopAll
  <1> QED BY <1>1, <1>8, <1>d

\* One backend more
LEMMA ServeOneMore ==
    ASSUME NEW L \in State, NEW M, ServedAll(L, M), Numbered(L.items, L.count),
           NEW c \in ToSet(L.backends), c \in Known,
           NEW d \in 0..Len(L.items), MarkedTo(L, c, d),
           NEW s, s = Rest(L, d),
           NEW N, N = Send(M, c, s)
    PROVE  /\ ServedAll(L, N) /\ UpToDate(N, c)
           /\ \A b \in Known \ {c} : UpToDate(M, b) => UpToDate(N, b)
  <1>1. /\ M \in State /\ SameStore(L, M) /\ Fed(M, c) /\ L.to[c] \subseteq M.to[c]
        /\ M.items = L.items /\ M.count = L.count
    BY DEF ServedAll, SameStore
  <1>2. MarkedTo(M, c, d) /\ Numbered(M.items, M.count) /\ d \in 0..Len(M.items)
        /\ s = Rest(M, d)
    BY <1>1 DEF MarkedTo, Rest
  <1>3. Served(M, N, c) /\ (MarkedTo(N, c, Len(M.items)) \/ Out(N, c))
    BY <1>1, <1>2, SendServes
  <1>4. /\ N \in State /\ SameStore(M, N) /\ SameElse(M, N, c) /\ Fed(N, c)
        /\ M.to[c] \subseteq N.to[c]
    BY <1>3 DEF Served
  <1>5. N.items = M.items /\ N.count = M.count /\ SameStore(L, N)
    BY <1>1, <1>4 DEF SameStore
  <1>6. ASSUME NEW b \in Known, b # c PROVE SameAt(M, N, b)
    BY <1>4, <1>6 DEF SameElse, SameAt
  <1>7. ASSUME NEW b \in Known PROVE L.to[b] \subseteq N.to[b] /\ Fed(N, b)
    <2>1. CASE b = c
      BY <1>1, <1>4, <2>1
    <2>2. CASE b # c
      <3>1. SameAt(M, N, b) /\ Fed(M, b) /\ L.to[b] \subseteq M.to[b]
        BY <1>6, <2>2 DEF ServedAll
      <3> QED BY <1>5, <3>1 DEF SameAt, Fed
    <2> QED BY <2>1, <2>2
  <1>8. ASSUME NEW b \in Known \ ToSet(L.backends) PROVE SameAt(L, N, b)
    <2>1. SameAt(M, N, b) /\ SameAt(L, M, b)
      BY <1>6 DEF ServedAll
    <2> QED BY <2>1 DEF SameAt
  <1>9. ASSUME NEW b \in Known, b # c, UpToDate(M, b) PROVE UpToDate(N, b)
    <2>1. SameAt(M, N, b)
      BY <1>6, <1>9
    <2> QED BY <1>5, <1>9, <2>1 DEF UpToDate, SameAt, MarkedTo, Out
  <1>10. UpToDate(N, c)
    BY <1>3, <1>5 DEF UpToDate
  <1>11. ServedAll(L, N)
    BY <1>4, <1>5, <1>7, <1>8 DEF ServedAll
  <1> QED BY <1>9, <1>10, <1>11

\* Every backend is brought up to date.
LEMMA SendAllServes ==
    ASSUME NEW L \in State, Numbered(L.items, L.count), \A b \in Known : Fed(L, b),
           NEW d \in 0..Len(L.items), \A b \in ToSet(L.backends) : MarkedTo(L, b, d),
           NEW s, s = Rest(L, d),
           NEW M, M = SendAll(L, s)
    PROVE  ServedAll(L, M) /\ \A b \in ToSet(L.backends) : UpToDate(M, b)
  <1> DEFINE bs == L.backends
             n == Len(bs)
  <1>n. n \in Nat /\ DOMAIN bs = 1..n /\ \A k \in 1..n : bs[k] \in Known
    BY StateFields
  <1>t. ToSet(bs) = {bs[k] : k \in 1..n}
    BY <1>n DEF ToSet
  <1>1. s \in Seq(Item)
    BY StateFields DEF Rest
  <1>2. PICK at : LoopAll(at, L, s) /\ M = at[n]
    BY <1>1, SendAllSteps
  <1>3. at[0] = L /\ \A k \in 1..n : at[k] = Send(at[k - 1], bs[k], s)
    BY <1>2 DEF LoopAll
  <1>b. bs = L.backends
    OBVIOUS
  <1> HIDE DEF n, bs
  <1> DEFINE Good(k, N) == ServedAll(L, N) /\ \A j \in 1..k : UpToDate(N, bs[j])
             S == {k \in 0..n : Good(k, at[k])}
  <1>4. 0 \in S
    <2>1. ServedAll(L, L)
      BY DEF ServedAll, SameStore, SameAt
    <2>2. Good(0, at[0])
      BY <1>3, <2>1
    <2> HIDE DEF Good
    <2> QED BY <1>n, <2>2
  <1>5. ASSUME NEW k \in 0..(n - 1), k \in S PROVE k + 1 \in S
    <2> DEFINE P == at[k]
               N == at[k + 1]
               c == bs[k + 1]
    <2>1. k + 1 \in 1..n /\ k + 1 \in 0..n /\ (k + 1) - 1 = k
      BY <1>n
    <2>2. N = Send(P, c, s)
      BY <1>3, <2>1
    <2>3. ServedAll(L, P) /\ \A j \in 1..k : UpToDate(P, bs[j])
      BY <1>5
    <2>4. c \in Known /\ c \in ToSet(L.backends)
      BY <1>b, <1>n, <1>t, <2>1
    <2> HIDE DEF P, N, c
    <2>5. MarkedTo(L, c, d)
      BY <2>4
    <2>6. /\ ServedAll(L, N) /\ UpToDate(N, c)
          /\ \A b \in Known \ {c} : UpToDate(P, b) => UpToDate(N, b)
      BY ONLY L \in State, Numbered(L.items, L.count), d \in 0..Len(L.items),
         s = Rest(L, d),
         <2>2, <2>3, <2>4, <2>5, ServeOneMore
    <2>7. ASSUME NEW j \in 1..(k + 1) PROVE UpToDate(N, bs[j])
      <3>1. CASE bs[j] = c
        BY <2>6, <3>1
      <3>2. CASE bs[j] # c
        <4>1. j \in 1..k
          BY <3>2 DEF c
        <4>2. bs[j] \in Known
          BY <1>n, <4>1
        <4> QED BY <2>3, <2>6, <3>2, <4>1, <4>2
      <3> QED BY <3>1, <3>2
    <2>8. Good(k + 1, N)
      BY <2>6, <2>7
    <2> HIDE DEF Good
    <2> QED BY <2>1, <2>8 DEF N
  <1> HIDE DEF S
  <1>6. n \in S
    <2>1. \A k \in 0..n : k \in S
      BY <1>n, <1>4, <1>5, SetInduction
    <2> QED BY <1>n, <2>1
  <1>7. Good(n, at[n])
    BY <1>6 DEF S
  <1> QED BY <1>2, <1>7, <1>t, <1>b

\* Nothing has been sent to b.
Untouched(L, b) == L.to[b] = {} /\ L.acked[b] = <<>> /\ L.sent[b] = <<>>

\* log_flushed is set for messages that every backend has had.
FlagsTrue(L) ==
    /\ \A id \in L.flushed : id <= L.count
    /\ \A k \in 1..Len(L.items) : L.items[k].id \in L.flushed =>
         \A b \in ToSet(L.backends) : L.items[k].id \in L.to[b]

\* What every function of the log keeps
Store(L) ==
    /\ L \in State
    /\ Numbered(L.items, L.count)
    /\ L.size = TotalSize(L.items)
    /\ FlagsTrue(L)
    /\ \A b \in Known : Fed(L, b)
    /\ \A b \in Known \ ToSet(L.backends) : Untouched(L, b)

\* The backends and the messages by their positions
LEMMA Listed ==
    ASSUME NEW L \in State
    PROVE  /\ ToSet(L.backends) \subseteq Known
           /\ ToSet(L.backends) = {L.backends[k] : k \in 1..Len(L.backends)}
           /\ DOMAIN L.items = 1..Len(L.items) /\ Len(L.items) \in Nat
           /\ Ids(L.items) = {L.items[k].id : k \in 1..Len(L.items)}
  <1>1. L.backends \in Seq(Known) /\ L.items \in Seq(Item)
    BY StateFields
  <1>2. DOMAIN L.backends = 1..Len(L.backends) /\ DOMAIN L.items = 1..Len(L.items)
    BY <1>1
  <1>3. ToSet(L.backends) \subseteq Known /\ Len(L.items) \in Nat
    BY <1>1 DEF ToSet
  <1>4. ToSet(L.backends) = {L.backends[k] : k \in 1..Len(L.backends)}
    BY <1>2, Zenon DEF ToSet
  <1>5. Ids(L.items) = {L.items[k].id : k \in 1..Len(L.items)}
    BY <1>2, Zenon DEF Ids
  <1> QED BY <1>2, <1>3, <1>4, <1>5

\* log_item_update_flushed: the flags of the messages with these numbers, and
\* no others, are computed again from the marks.
LEMMA RecomputeIs ==
    ASSUME NEW L \in State, NEW ids \in SUBSET Nat, NEW M, M = Recompute(L, ids)
    PROVE  /\ M \in State
           /\ M.items = L.items /\ M.size = L.size /\ M.limit = L.limit
           /\ M.backends = L.backends /\ M.count = L.count
           /\ M.to = L.to /\ M.room = L.room /\ M.acked = L.acked /\ M.sent = L.sent
           /\ \A id \in M.flushed :
                \/ id \in L.flushed /\ id \notin ids
                \/ id \in ids /\ \A b \in ToSet(L.backends) : id \in L.to[b]
  <1> DEFINE f == (L.flushed \ ids) \cup {id \in ids : FullyFlushed(L, id)}
  <1>1. M = [L EXCEPT !.flushed = f]
    BY DEF Recompute
  <1>2. f \in SUBSET Nat
    BY StateFields
  <1>3. \A id \in f : \/ id \in L.flushed /\ id \notin ids
                      \/ id \in ids /\ \A b \in ToSet(L.backends) : id \in L.to[b]
    BY Zenon DEF FullyFlushed
  <1> HIDE DEF f
  <1>4. M \in State
    BY <1>1, <1>2 DEF State
  <1>5. /\ M.items = L.items /\ M.size = L.size /\ M.limit = L.limit
        /\ M.backends = L.backends /\ M.count = L.count
        /\ M.to = L.to /\ M.room = L.room /\ M.acked = L.acked /\ M.sent = L.sent
        /\ M.flushed = f
    BY <1>1 DEF State
  <1> QED BY <1>3, <1>4, <1>5

\* Where log_flush_fast starts, everything before has been had by everyone.
LEMMA SuffixIs ==
    ASSUME NEW L, Store(L)
    PROVE  \E d \in 0..Len(L.items) :
             /\ UnflushedSuffix(L) = Rest(L, d)
             /\ \A b \in ToSet(L.backends) : MarkedTo(L, b, d)
  <1>s. /\ L \in State /\ Numbered(L.items, L.count) /\ FlagsTrue(L)
        /\ \A b \in Known : Fed(L, b)
    BY DEF Store
  <1> DEFINE n == Len(L.items)
             F == {k \in DOMAIN L.items : L.items[k].id \in L.flushed}
             d == Max({0} \cup F)
  <1>1. n \in Nat /\ DOMAIN L.items = 1..n /\ L.items \in Seq(Item)
    BY <1>s, Listed, StateFields
  <1>2. {0} \cup F \in SUBSET (0..n) /\ 0 \in {0} \cup F
    BY <1>1
  <1>3. UnflushedSuffix(L) = Rest(L, d)
    BY Zenon DEF UnflushedSuffix, Rest
  <1>4. d \in {0} \cup F
    <2> HIDE DEF F, n
    <2> QED BY <1>1, <1>2, Greatest
  <1>5. d \in 0..n
    BY <1>2, <1>4
  <1>f. d # 0 => d \in 1..n /\ L.items[d].id \in L.flushed
    BY <1>1, <1>4
  <1> HIDE DEF d, F
  <1>6. ASSUME NEW b \in ToSet(L.backends), NEW i \in 1..d
        PROVE  L.items[i].id \in L.to[b]
    <2>1. d \in 1..n /\ i \in 1..n /\ L.items[d].id \in L.flushed
      BY <1>1, <1>5, <1>f
    <2>2. L.items[d].id \in L.to[b]
      BY <1>s, <2>1 DEF FlagsTrue
    <2>3. CASE i = d
      BY <2>2, <2>3
    <2>4. CASE i # d
      <3>1. L.items[i].id < L.items[d].id /\ L.items[i].id \in Nat /\ L.items[d].id \in Nat
        <4>1. i \in 1..(d - 1)
          BY <2>1, <2>4
        <4>2. L.items[i].id < L.items[d].id
          BY <1>s, <2>1, <4>1 DEF Numbered
        <4> QED BY <1>1, <2>1, <4>2, ItemSize
      <3>2. Acks(L.items, L.count, L.to[b], L.acked[b])
        BY <1>s, Listed DEF Fed, FedBy
      <3>3. PICK m \in 1..Len(L.acked[b]) : L.acked[b][m] = L.items[d].id
        BY <2>2, <3>2 DEF Acks
      <3>4. L.items[i].id \notin L.to[b] => L.acked[b][m] < L.items[i].id
        BY <2>1, <3>2, <3>3 DEF Acks
      <3> QED BY <3>1, <3>3, <3>4
    <2> QED BY <2>3, <2>4
  <1>7. \A b \in ToSet(L.backends) : MarkedTo(L, b, d)
    BY <1>6 DEF MarkedTo
  <1> QED BY <1>3, <1>5, <1>7

\* Messages to the backends keep the store true.
LEMMA ServedStore ==
    ASSUME NEW L, Store(L), NEW M, ServedAll(L, M)
    PROVE  Store(M)
  <1>1. /\ L \in State /\ M \in State /\ SameStore(L, M)
        /\ \A b \in Known : L.to[b] \subseteq M.to[b] /\ Fed(M, b)
        /\ \A b \in Known \ ToSet(L.backends) : SameAt(L, M, b)
    BY DEF ServedAll, Store
  <1>2. FlagsTrue(M)
    <2>1. ASSUME NEW b \in ToSet(L.backends) PROVE L.to[b] \subseteq M.to[b]
      BY <1>1, Listed
    <2> QED BY <1>1, <2>1 DEF Store, FlagsTrue, SameStore
  <1>3. \A b \in Known \ ToSet(M.backends) : Untouched(M, b)
    BY <1>1 DEF Store, Untouched, SameAt, SameStore
  <1> QED BY <1>1, <1>2, <1>3 DEF Store, SameStore

\* To compute the flags of retained messages again keeps the store true.
LEMMA RecomputeKeeps ==
    ASSUME NEW L, Store(L), NEW ids, ids \subseteq Ids(L.items), NEW M,
           M = Recompute(L, ids)
    PROVE  /\ Store(M)
           /\ M.items = L.items /\ M.size = L.size /\ M.limit = L.limit
           /\ M.backends = L.backends /\ M.count = L.count
           /\ M.to = L.to /\ M.room = L.room
  <1>0. /\ L \in State /\ Numbered(L.items, L.count) /\ L.items \in Seq(Item)
        /\ Ids(L.items) = {L.items[k].id : k \in 1..Len(L.items)}
        /\ FlagsTrue(L)
    BY StateFields, Listed DEF Store
  <1>1. \A id \in ids : id \in Nat /\ id <= L.count
    BY <1>0, ItemSize DEF Numbered
  <1>2. ids \in SUBSET Nat
    BY <1>1
  <1>3. /\ M \in State
        /\ M.items = L.items /\ M.size = L.size /\ M.limit = L.limit
        /\ M.backends = L.backends /\ M.count = L.count
        /\ M.to = L.to /\ M.room = L.room /\ M.acked = L.acked /\ M.sent = L.sent
        /\ \A id \in M.flushed :
             \/ id \in L.flushed /\ id \notin ids
             \/ id \in ids /\ \A b \in ToSet(L.backends) : id \in L.to[b]
    BY <1>0, <1>2, RecomputeIs
  <1>4. FlagsTrue(M)
    BY <1>0, <1>1, <1>3 DEF FlagsTrue
  <1>5. \A b \in Known : Fed(M, b)
    BY <1>3 DEF Fed, Store
  <1>6. \A b \in Known \ ToSet(M.backends) : Untouched(M, b)
    BY <1>3 DEF Untouched, Store
  <1>7. Store(M)
    BY <1>3, <1>4, <1>5, <1>6 DEF Store
  <1> QED BY <1>3, <1>7

\* log_flush_fast keeps the store true and brings every backend up to date.
LEMMA FlushFastKeeps ==
    ASSUME NEW L, Store(L), NEW M, M = FlushFast(L)
    PROVE  /\ Store(M)
           /\ M.items = L.items /\ M.size = L.size /\ M.limit = L.limit
           /\ M.backends = L.backends /\ M.count = L.count
           /\ \A b \in ToSet(M.backends) : UpToDate(M, b)
  <1>s. L \in State /\ Numbered(L.items, L.count) /\ \A b \in Known : Fed(L, b)
    BY DEF Store
  <1>1. PICK d \in 0..Len(L.items) :
             /\ UnflushedSuffix(L) = Rest(L, d)
             /\ \A b \in ToSet(L.backends) : MarkedTo(L, b, d)
    BY SuffixIs
  <1> DEFINE new == Rest(L, d)
             A == SendAll(L, new)
             ids == Ids(new)
  <1>2. M = Recompute(A, ids)
    BY <1>1 DEF FlushFast
  <1>3. ServedAll(L, A) /\ \A b \in ToSet(L.backends) : UpToDate(A, b)
    <2> HIDE DEF new
    <2>1. new = Rest(L, d)
      BY DEF new
    <2> QED BY <1>1, <1>s, <2>1, SendAllServes
  <1>4. ids \subseteq Ids(L.items)
    <2>1. /\ L.items \in Seq(Item)
          /\ Ids(L.items) = {L.items[k].id : k \in 1..Len(L.items)}
      BY <1>s, StateFields, Listed
    <2>2. new \in Seq(Item) /\ DOMAIN new = 1..Len(new)
          /\ \A k \in 1..Len(new) : d + k \in 1..Len(L.items) /\ new[k] = L.items[d + k]
      <3>0. new = Rest(L, d)
        OBVIOUS
      <3> HIDE DEF new
      <3>1. new \in Seq(Item) /\ Len(new) \in Nat /\ d + Len(new) = Len(L.items)
            /\ \A k \in 1..Len(new) : new[k] = L.items[d + k]
        BY ONLY <2>1, <3>0, d \in 0..Len(L.items), RestIs
      <3>2. d \in Nat /\ Len(L.items) \in Nat
        BY <2>1
      <3>3. \A k \in 1..Len(new) : d + k \in 1..Len(L.items)
        BY <3>1, <3>2
      <3> QED BY <3>1, <3>3
    <2> HIDE DEF new
    <2>3. \A id \in ids : \E k \in 1..Len(new) : id = new[k].id
      BY <2>2 DEF Ids
    <2> HIDE DEF ids
    <2> QED BY <2>1, <2>2, <2>3
  <1> HIDE DEF new, A, ids
  <1>5. Store(A) /\ SameStore(L, A)
    BY <1>3, ServedStore DEF ServedAll
  <1>6. /\ A.items = L.items /\ A.size = L.size
        /\ A.limit = L.limit /\ A.backends = L.backends /\ A.count = L.count
    BY <1>5 DEF SameStore
  <1>7. /\ Store(M)
        /\ M.items = A.items /\ M.size = A.size /\ M.limit = A.limit
        /\ M.backends = A.backends /\ M.count = A.count
        /\ M.to = A.to /\ M.room = A.room
    <2>1. ids \subseteq Ids(A.items)
      BY <1>4, <1>6
    <2> QED BY <1>2, <1>5, <2>1, RecomputeKeeps
  <1>8. \A b \in ToSet(M.backends) : UpToDate(M, b)
    BY <1>3, <1>6, <1>7 DEF UpToDate, MarkedTo, Out
  <1> QED BY <1>6, <1>7, <1>8

-----------------------------------------------------------------------------
(* The store: log_size_limit_check and log_base_print *)

\* The parts of the state that the messages and their count are not
SameBackends(L, M) ==
    /\ M.flushed = L.flushed /\ M.to = L.to /\ M.limit = L.limit
    /\ M.backends = L.backends /\ M.room = L.room /\ M.acked = L.acked
    /\ M.sent = L.sent

\* Fewer messages
LEMMA FewerFed ==
    ASSUME NEW L, Store(L), NEW M \in State, SameBackends(L, M), M.count = L.count,
           \A k \in 1..Len(M.items) : \E j \in 1..Len(L.items) : M.items[k] = L.items[j]
    PROVE  /\ FlagsTrue(M) /\ \A b \in Known : Fed(M, b)
           /\ \A b \in Known \ ToSet(M.backends) : Untouched(M, b)
  <1>1. FlagsTrue(M)
    BY DEF Store, FlagsTrue, SameBackends
  <1>2. ASSUME NEW b \in Known PROVE Fed(M, b)
    <2>1. /\ Acks(L.items, L.count, L.to[b], L.acked[b])
          /\ Sends(L.items, L.count, L.to[b], L.sent[b])
          /\ Told(L.items, L.to[b], L.sent[b], b)
      BY DEF Store, Fed, FedBy
    <2>2. M.to[b] = L.to[b] /\ M.acked[b] = L.acked[b] /\ M.sent[b] = L.sent[b]
      BY DEF SameBackends
    <2>3. Acks(M.items, M.count, L.to[b], L.acked[b])
      BY <2>1 DEF Acks
    <2>4. Sends(M.items, M.count, L.to[b], L.sent[b])
      BY <2>1 DEF Sends
    <2>5. Told(M.items, L.to[b], L.sent[b], b)
      BY <2>1 DEF Told
    <2> QED BY <2>2, <2>3, <2>4, <2>5 DEF Fed, FedBy
  <1>3. \A b \in Known \ ToSet(M.backends) : Untouched(M, b)
    BY DEF Store, Untouched, SameBackends
  <1> QED BY <1>1, <1>2, <1>3

\* The least member of a set
LEMMA Least ==
    ASSUME NEW S \in SUBSET Nat, S # {}
    PROVE  Min(S) \in S
  <1> DEFINE P(x) == x \in S /\ \A y \in S : x =< y
  <1>1. PICK m \in S : \A k \in S : m <= k
    BY LeastMember
  <1>2. P(m)
    BY <1>1
  <1>3. Min(S) = CHOOSE x : P(x)
    BY DEF Min
  <1> HIDE DEF P
  <1>4. P(Min(S))
    BY <1>2, <1>3
  <1> QED BY <1>4 DEF P

\* Other messages, and their size
ItemsPut(L, s, z) == [L EXCEPT !.items = s, !.size = z]

\* Only the messages and their size change.
LEMMA PutItems ==
    ASSUME NEW L \in State, NEW s \in Seq(Item), NEW z \in Int, NEW M,
           M = ItemsPut(L, s, z)
    PROVE  /\ M \in State /\ SameBackends(L, M) /\ M.count = L.count
           /\ M.items = s /\ M.size = z
  BY DEF State, SameBackends, ItemsPut

\* The oldest messages go; what is left fits.
LEMMA SizeLimitKeeps ==
    ASSUME NEW L, Store(L), NEW M, M = SizeLimitCheck(L)
    PROVE  /\ Store(M) /\ SameBackends(L, M) /\ M.count = L.count
           /\ M.size <= M.limit
  <1> DEFINE s == L.items
             n == Len(s)
             keep == {k \in 1..(n + 1) :
                        L.size - TotalSize(SubSeq(s, 1, k - 1)) <= L.limit \/ k = n + 1}
             f == Min(keep)
             a == SubSeq(s, 1, f - 1)
             t == SubSeq(s, f, n)
             z == L.size - TotalSize(a)
  <1>0. /\ L \in State /\ s \in Seq(Item) /\ n \in Nat /\ L.size = TotalSize(s)
        /\ L.limit \in Nat /\ Numbered(s, L.count) /\ L.count \in Nat
    BY StateFields DEF Store
  <1>1. M = ItemsPut(L, t, z)
    BY Zenon DEF SizeLimitCheck, ItemsPut
  <1>2. f \in keep
    <2>1. keep \in SUBSET Nat /\ n + 1 \in keep
      BY <1>0
    <2> HIDE DEF keep
    <2> QED BY <2>1, Least
  <1>3. f \in 1..(n + 1) /\ (z <= L.limit \/ f = n + 1)
    BY <1>2
  <1> HIDE DEF f, keep
  <1>4. /\ t \in Seq(Item) /\ TotalSize(a) \in Nat /\ TotalSize(s) \in Nat
        /\ TotalSize(t) = TotalSize(s) - TotalSize(a)
    <2> HIDE DEF s
    <2>1. s \in Seq(Item) /\ f \in 1..(Len(s) + 1)
      BY <1>0, <1>3
    <2> QED BY ONLY <2>1, TotalSplit DEF a, t, n
  <1>5. z \in Int /\ z = TotalSize(t)
    BY <1>0, <1>4
  <1>6. z <= L.limit
    <2>1. CASE f = n + 1
      <3>1. Len(t) = 0
        BY <1>0, <2>1
      <3>2. t = <<>>
        BY <1>4, <3>1
      <3>3. TotalSize(t) = 0
        BY <3>2, TotalEnds
      <3> QED BY <1>0, <1>5, <3>3
    <2> QED BY <1>3, <2>1
  <1>7. /\ Len(t) \in Nat
        /\ \A k \in 1..Len(t) : t[k] = s[(f - 1) + k] /\ (f - 1) + k \in 1..n
    <2>1. Len(t) = n - (f - 1) /\ \A k \in 1..Len(t) : t[k] = s[(f - 1) + k]
      BY <1>0, <1>3
    <2> HIDE DEF t, n
    <2>2. \A k \in 1..Len(t) : (f - 1) + k \in 1..n
      BY <1>0, <1>3, <2>1
    <2> QED BY <1>0, <1>3, <2>1, <2>2
  <1> HIDE DEF t, z, a, n, s
  <1>8. /\ M \in State /\ SameBackends(L, M) /\ M.count = L.count
        /\ M.items = t /\ M.size = z
    <2>1. L \in State /\ t \in Seq(Item) /\ z \in Int
      BY <1>0, <1>4, <1>5
    <2> QED BY ONLY <1>1, <2>1, PutItems
  <1>9. /\ FlagsTrue(M) /\ \A b \in Known : Fed(M, b)
        /\ \A b \in Known \ ToSet(M.backends) : Untouched(M, b)
    <2>1. \A k \in 1..Len(M.items) : \E j \in 1..Len(L.items) : M.items[k] = L.items[j]
      BY <1>7, <1>8 DEF s, n
    <2> QED BY <1>8, <2>1, FewerFed
  <1>10. Numbered(M.items, M.count)
    <2>1. ASSUME NEW k \in 1..Len(t) PROVE t[k].id <= L.count
      BY <1>0, <1>7 DEF Numbered, n
    <2>2. ASSUME NEW k \in 1..Len(t), NEW j \in 1..(k - 1) PROVE t[j].id < t[k].id
      <3>1. j \in 1..Len(t)
        BY <1>7
      <3>2. /\ t[k] = s[(f - 1) + k] /\ (f - 1) + k \in 1..n
            /\ t[j] = s[(f - 1) + j]
        BY <1>7, <3>1
      <3>3. (f - 1) + j \in 1..(((f - 1) + k) - 1)
        BY <1>0, <1>3
      <3> QED BY <1>0, <3>2, <3>3 DEF Numbered, n
    <2> QED BY <1>8, <2>1, <2>2 DEF Numbered
  <1>11. M.size = TotalSize(M.items)
    BY <1>5, <1>8
  <1>12. Store(M)
    BY <1>8, <1>9, <1>10, <1>11 DEF Store
  <1>13. M.size <= M.limit
    BY <1>6, <1>8 DEF SameBackends
  <1> QED BY <1>8, <1>12, <1>13

\* What the program may log
Loggable(m) ==
    /\ m.level \in 0..3 /\ m.tag \in Tag
    /\ m.size \in Nat \ {0} /\ m.chunks \in Nat \ {0} /\ m.good \in Nat

\* Every message the program logs, its own warnings included, is well formed.
LEMMA AllLoggable ==
    Loggable(Warning) /\ Loggable(Info) /\ \A m \in Messages : Loggable(m)
  BY LogAssumption DEF Loggable, Warning, Info, Tag

\* Another number of the last message
CountPut(L, c) == [L EXCEPT !.count = c]

\* Only the number of the last message changes.
LEMMA PutCount ==
    ASSUME NEW L \in State, NEW c \in Nat, NEW M, M = CountPut(L, c)
    PROVE  /\ M \in State /\ SameBackends(L, M) /\ M.count = c
           /\ M.items = L.items /\ M.size = L.size
  BY DEF State, SameBackends, CountPut

\* One more message was logged, kept or not.
LEMMA CountOn ==
    ASSUME NEW L, Store(L), NEW M \in State, SameBackends(L, M), M.count = L.count + 1,
           NEW n \in Nat, \A k \in 1..n : M.items[k] = L.items[k],
           n = Len(L.items),
           \/ Len(M.items) = n
           \/ Len(M.items) = n + 1 /\ M.items[n + 1].id = L.count + 1
    PROVE  /\ Numbered(M.items, M.count) /\ FlagsTrue(M) /\ \A b \in Known : Fed(M, b)
           /\ \A b \in Known \ ToSet(M.backends) : Untouched(M, b)
  <1> DEFINE c == L.count
  <1>0. /\ L \in State /\ c \in Nat /\ Numbered(L.items, c) /\ FlagsTrue(L)
        /\ \A k \in 1..n : L.items[k].id \in Nat
    BY StateFields, ItemSize DEF Store
  <1>1. ASSUME NEW k \in 1..Len(M.items)
        PROVE  \/ k \in 1..n /\ M.items[k] = L.items[k] /\ M.items[k].id <= c
               \/ k = n + 1 /\ M.items[k].id = c + 1
    BY <1>0 DEF Numbered
  <1> HIDE DEF c
  <1>2. Numbered(M.items, M.count)
    <2>1. ASSUME NEW k \in 1..Len(M.items) PROVE M.items[k].id <= M.count
      <3>1. CASE k \in 1..n /\ M.items[k] = L.items[k] /\ M.items[k].id <= c
        <4>1. M.items[k].id \in Nat
          BY <1>0, <3>1
        <4> QED BY <1>0, <3>1, <4>1 DEF c
      <3>2. CASE k = n + 1 /\ M.items[k].id = c + 1
        BY <1>0, <3>2 DEF c
      <3> QED BY <1>1, <3>1, <3>2
    <2>2. ASSUME NEW k \in 1..Len(M.items), NEW j \in 1..(k - 1)
          PROVE  M.items[j].id < M.items[k].id
      <3>1. j \in 1..n /\ M.items[j] = L.items[j] /\ L.items[j].id \in Nat /\ L.items[j].id <= c
        <4>1. j \in 1..n
          BY <1>1
        <4> QED BY <1>0, <4>1 DEF Numbered
      <3>2. CASE k \in 1..n /\ M.items[k] = L.items[k]
        BY <1>0, <3>1, <3>2 DEF Numbered
      <3>3. CASE k = n + 1 /\ M.items[k].id = c + 1
        BY <1>0, <3>1, <3>3
      <3> QED BY <1>1, <3>2, <3>3
    <2> QED BY <2>1, <2>2 DEF Numbered
  <1>3. FlagsTrue(M)
    <2>1. \A id \in L.flushed : id <= c /\ id \in Nat
      BY <1>0, StateFields DEF FlagsTrue, c
    <2>2. ASSUME NEW id \in M.flushed PROVE id <= M.count
      BY <1>0, <2>1 DEF SameBackends, c
    <2>3. ASSUME NEW k \in 1..Len(M.items), M.items[k].id \in M.flushed,
                 NEW b \in ToSet(M.backends)
          PROVE  M.items[k].id \in M.to[b]
      <3>1. M.items[k].id \in L.flushed /\ b \in ToSet(L.backends) /\ M.to[b] = L.to[b]
        BY <2>3 DEF SameBackends
      <3>2. k \in 1..n /\ M.items[k] = L.items[k]
        <4>1. M.items[k].id # c + 1
          BY <1>0, <2>1, <3>1
        <4> QED BY <1>1, <4>1
      <3> QED BY <1>0, <3>1, <3>2 DEF FlagsTrue
    <2> QED BY <2>2, <2>3 DEF FlagsTrue
  <1>4. ASSUME NEW b \in Known PROVE Fed(M, b)
    <2> DEFINE to == L.to[b]
               acked == L.acked[b]
               sent == L.sent[b]
    <2>1. /\ Acks(L.items, c, to, acked) /\ Sends(L.items, c, to, sent)
          /\ Told(L.items, to, sent, b)
      BY DEF Store, Fed, FedBy, c
    <2>2. M.to[b] = to /\ M.acked[b] = acked /\ M.sent[b] = sent
      BY DEF SameBackends
    <2>3. acked \in Seq(Nat) /\ sent \in Seq(Sent)
      BY <1>0, StateFields
    <2>4. /\ \A i \in 1..Len(acked) : acked[i] \in Nat /\ acked[i] <= c /\ acked[i] < c + 1
          /\ \A i \in 1..Len(sent) : sent[i].id \in Nat /\ sent[i].id <= c /\ sent[i].id <= c + 1
      <3>1. \A i \in 1..Len(acked) : acked[i] \in Nat /\ acked[i] <= c
        BY <2>1, <2>3 DEF Acks
      <3>2. \A i \in 1..Len(sent) : sent[i].id \in Nat /\ sent[i].id <= c
        <4>1. \A i \in 1..Len(sent) : sent[i] \in Sent
          BY <2>3
        <4>2. \A i \in 1..Len(sent) : sent[i].id <= c
          BY <2>1 DEF Sends
        <4> QED BY <4>1, <4>2 DEF Sent
      <3> HIDE DEF acked, sent
      <3> QED BY <1>0, <3>1, <3>2
    <2> HIDE DEF to, acked, sent
    <2>5. c + 1 \notin to
      BY <1>0, <2>1, <2>4 DEF Acks
    <2>m. M.count = c + 1
      BY DEF c
    <2>6. Acks(M.items, M.count, to, acked)
      <3>1. \A i \in 1..Len(acked) : acked[i] <= M.count
        BY <1>0, <2>4, <2>m
      <3>2. ASSUME NEW k \in 1..Len(M.items), M.items[k].id \notin to, NEW i \in 1..Len(acked)
            PROVE  acked[i] < M.items[k].id
        <4>1. CASE k \in 1..n /\ M.items[k] = L.items[k]
          BY <2>1, <3>2, <4>1 DEF Acks
        <4>2. CASE M.items[k].id = c + 1
          BY <2>4, <4>2
        <4> QED BY <1>1, <4>1, <4>2
      <3> QED BY <2>1, <3>1, <3>2 DEF Acks
    <2>7. Sends(M.items, M.count, to, sent)
      <3>1. \A i \in 1..Len(sent) : sent[i].id <= M.count
        BY <1>0, <2>4, <2>m
      <3>2. ASSUME NEW k \in 1..Len(M.items), M.items[k].id \notin to, NEW i \in 1..Len(sent)
            PROVE  sent[i].id <= M.items[k].id
        <4>1. CASE k \in 1..n /\ M.items[k] = L.items[k]
          BY <2>1, <3>2, <4>1 DEF Sends
        <4>2. CASE M.items[k].id = c + 1
          BY <2>4, <4>2
        <4> QED BY <1>1, <4>1, <4>2
      <3> QED BY <2>1, <3>1, <3>2 DEF Sends
    <2>8. Told(M.items, to, sent, b)
      <3>1. ASSUME NEW k \in 1..Len(M.items), M.items[k].id \in to
            PROVE  k \in 1..Len(L.items) /\ M.items[k] = L.items[k]
        BY <1>1, <2>5, <3>1
      <3> QED BY <2>1, <3>1 DEF Told
    <2> QED BY <2>2, <2>6, <2>7, <2>8 DEF Fed, FedBy
  <1>5. \A b \in Known \ ToSet(M.backends) : Untouched(M, b)
    BY DEF Store, Untouched, SameBackends
  <1> QED BY <1>2, <1>3, <1>4, <1>5

\* What log_base_print does: a true store within its limit, and if the message
\* was kept, every backend up to date.
LEMMA SubmitKeeps ==
    ASSUME NEW L, Store(L), NEW m, Loggable(m), NEW M, M = Submit(L, m)
    PROVE  /\ Store(M) /\ M.size <= M.limit /\ M.limit = L.limit
           /\ M.backends = L.backends /\ M.count = L.count + 1
           /\ M.count \in Ids(M.items) => \A b \in ToSet(M.backends) : UpToDate(M, b)
  <1> DEFINE R == SizeLimitCheck(L)
             c == L.count
             x == [id |-> c + 1, level |-> m.level, tag |-> m.tag,
                   size |-> m.size, chunks |-> m.chunks, good |-> m.good]
             n == Len(R.items)
  <1>1. Store(R) /\ SameBackends(L, R) /\ R.count = c /\ R.size <= R.limit
    BY SizeLimitKeeps
  <1>2. /\ R \in State /\ c \in Nat /\ R.items \in Seq(Item) /\ n \in Nat
        /\ R.size = TotalSize(R.items) /\ R.size \in Int
        /\ R.limit = L.limit /\ R.backends = L.backends
    BY <1>1, StateFields DEF Store, SameBackends
  <1>3. x \in Item /\ x.id = c + 1 /\ x.size = m.size /\ m.size \in Nat
    BY <1>2 DEF Item, Loggable
  <1>4. CASE m.size >= L.limit
    <2>1. M = CountPut(R, R.count + 1)
      BY <1>4, Zenon DEF Submit, CountPut
    <2> HIDE DEF R
    <2>2. /\ M \in State /\ SameBackends(R, M) /\ M.count = R.count + 1
          /\ M.items = R.items /\ M.size = R.size
      <3> DEFINE e == R.count + 1
      <3>1. e \in Nat /\ R \in State /\ M = CountPut(R, e)
        BY <1>1, <1>2, <2>1
      <3>2. M.count = e /\ M \in State /\ SameBackends(R, M)
            /\ M.items = R.items /\ M.size = R.size
        <4> HIDE DEF e
        <4> QED BY ONLY <3>1, PutCount
      <3> QED BY <3>2
    <2>3. /\ Numbered(M.items, M.count) /\ FlagsTrue(M) /\ \A b \in Known : Fed(M, b)
          /\ \A b \in Known \ ToSet(M.backends) : Untouched(M, b)
      <3>1. Len(M.items) = n /\ \A k \in 1..n : M.items[k] = R.items[k]
        BY <2>2
      <3> QED BY <1>1, <1>2, <2>2, <3>1, CountOn
    <2>4. Store(M)
      BY <1>2, <2>2, <2>3 DEF Store
    <2>5. M.count \notin Ids(M.items)
      <3>1. \A k \in 1..Len(R.items) : R.items[k].id <= c /\ R.items[k].id \in Nat
        BY <1>1, <1>2, ItemSize DEF Store, Numbered
      <3>2. Ids(M.items) = {R.items[k].id : k \in 1..Len(R.items)}
        BY <1>2, <2>2, Listed
      <3> QED BY <1>1, <1>2, <2>2, <3>1, <3>2
    <2>6. M.limit = L.limit /\ M.backends = L.backends /\ M.size <= M.limit
      BY <1>1, <1>2, <2>2 DEF SameBackends
    <2> QED BY <1>1, <2>2, <2>4, <2>5, <2>6
  <1>5. CASE ~(m.size >= L.limit)
    <2> DEFINE P == [R EXCEPT !.items = Append(R.items, x), !.size = R.size + m.size,
                              !.count = R.count + 1]
               Q == SizeLimitCheck(P)
    <2>1. M = FlushFast(Q)
      BY <1>5, Zenon DEF Submit
    <2>p. P = CountPut(ItemsPut(R, Append(R.items, x), R.size + m.size), R.count + 1)
      BY DEF CountPut, ItemsPut
    <2> DEFINE I == ItemsPut(R, Append(R.items, x), R.size + m.size)
    <2>2. /\ I \in State /\ SameBackends(R, I) /\ I.count = R.count
          /\ I.items = Append(R.items, x) /\ I.size = R.size + m.size
      <3>1. Append(R.items, x) \in Seq(Item) /\ R.size + m.size \in Int
        BY <1>2, <1>3
      <3>2. I = ItemsPut(R, Append(R.items, x), R.size + m.size)
        OBVIOUS
      <3> DEFINE s == Append(R.items, x)
                 z == R.size + m.size
      <3> HIDE DEF R, x, I, s, z
      <3>3. I = ItemsPut(R, s, z) /\ s \in Seq(Item) /\ z \in Int /\ R \in State
        BY <1>2, <3>1, <3>2 DEF s, z
      <3>4. /\ I \in State /\ SameBackends(R, I) /\ I.count = R.count
            /\ I.items = s /\ I.size = z
        BY ONLY <3>3, PutItems
      <3> QED BY <3>4 DEF s, z
    <2>3. P = CountPut(I, R.count + 1)
      BY <2>p
    <2> HIDE DEF P, I, R, x
    <2>4. /\ P \in State /\ SameBackends(I, P) /\ P.count = R.count + 1
          /\ P.items = I.items /\ P.size = I.size
      <3>1. R.count + 1 \in Nat
        BY ONLY <1>1, <1>2
      <3> QED BY <2>2, <2>3, <3>1, PutCount
    <2>5. SameBackends(R, P)
      BY <2>2, <2>4 DEF SameBackends
    <2>6. /\ Len(P.items) = n + 1 /\ P.items[n + 1] = x
          /\ \A k \in 1..n : P.items[k] = R.items[k]
      BY <1>2, <1>3, <2>2, <2>4
    <2>7. /\ Numbered(P.items, P.count) /\ FlagsTrue(P) /\ \A b \in Known : Fed(P, b)
          /\ \A b \in Known \ ToSet(P.backends) : Untouched(P, b)
      <3>1. P.items[n + 1].id = R.count + 1
        BY <1>1, <1>3, <2>6
      <3> HIDE DEF n
      <3>2. n = Len(R.items) /\ n \in Nat
        BY <1>2 DEF n
      <3> QED BY ONLY <1>1, <2>4, <2>5, <2>6, <3>1, <3>2, CountOn
    <2>8. P.size = TotalSize(P.items)
      BY <1>2, <1>3, <2>2, <2>4, TotalEnds
    <2>9. Store(P)
      BY <2>4, <2>7, <2>8 DEF Store
    <2>10. Store(Q) /\ SameBackends(P, Q) /\ Q.count = P.count /\ Q.size <= Q.limit
      BY <2>9, SizeLimitKeeps
    <2> HIDE DEF Q
    <2>11. /\ Store(M)
           /\ M.size = Q.size /\ M.limit = Q.limit
           /\ M.backends = Q.backends /\ M.count = Q.count
           /\ \A b \in ToSet(M.backends) : UpToDate(M, b)
      BY <2>1, <2>10, FlushFastKeeps
    <2>12. M.limit = L.limit /\ M.backends = L.backends
      BY <1>2, <2>5, <2>10, <2>11 DEF SameBackends
    <2> QED BY <1>1, <2>4, <2>10, <2>11, <2>12
  <1> QED BY <1>4, <1>5

-----------------------------------------------------------------------------
(* A new backend: log_flush_to, log_backend_create *)

\* Another size
SizePut(L, z) == [L EXCEPT !.size = z]

\* Only the size changes.
LEMMA PutSize ==
    ASSUME NEW L \in State, NEW M, M = SizePut(L, L.size)
    PROVE  M \in State /\ SameBackends(L, M) /\ M.count = L.count
           /\ M.items = L.items /\ M.size = L.size
  BY DEF State, SameBackends, SizePut

\* Counting the size again (log_flush_to) leaves a true store as it is.
LEMMA SameStoreTrue ==
    ASSUME NEW L, Store(L), NEW M \in State, SameBackends(L, M), M.count = L.count,
           M.items = L.items, M.size = L.size
    PROVE  Store(M)
  <1>1. \A k \in 1..Len(M.items) : \E j \in 1..Len(L.items) : M.items[k] = L.items[j]
    OBVIOUS
  <1>2. /\ FlagsTrue(M) /\ \A b \in Known : Fed(M, b)
        /\ \A b \in Known \ ToSet(M.backends) : Untouched(M, b)
    BY <1>1, FewerFed
  <1> QED BY <1>2 DEF Store

\* One message and its flag
LEMMA FlushOneServes ==
    ASSUME NEW L, Store(L), NEW b \in ToSet(L.backends),
           NEW k \in 1..Len(L.items), MarkedTo(L, b, k - 1),
           NEW r, r = FlushOneTo(L, b, L.items[k])
    PROVE  /\ Store(r.to) /\ r.ok \in BOOLEAN
           /\ r.to.items = L.items /\ r.to.limit = L.limit
           /\ r.to.backends = L.backends /\ r.to.count = L.count
           /\ r.ok => MarkedTo(r.to, b, k)
  <1> DEFINE x == L.items[k]
             w == ItemWriteTo(L, b, x)
             W == w.to
  <1>0. /\ L \in State /\ b \in Known /\ Fed(L, b) /\ Numbered(L.items, L.count)
        /\ \A c \in Known : Fed(L, c)
        /\ Ids(L.items) = {L.items[j].id : j \in 1..Len(L.items)}
    BY Listed DEF Store
  <1>1. Served(L, W, b) /\ w.ok \in BOOLEAN /\ (w.ok => MarkedTo(W, b, k))
    <2>1. w = ItemWriteTo(L, b, L.items[k])
      OBVIOUS
    <2> HIDE DEF w, x
    <2> QED BY <1>0, <2>1, WriteServes
  <1>2. r = [to |-> Recompute(W, {x.id}), ok |-> w.ok]
    BY DEF FlushOneTo
  <1>3. r.to = Recompute(W, {x.id}) /\ r.ok = w.ok
    BY <1>2
  <1>x. {x.id} \subseteq Ids(L.items)
    BY <1>0
  <1> HIDE DEF w, W, x
  <1>4. /\ W \in State /\ SameStore(L, W) /\ SameElse(L, W, b) /\ Fed(W, b)
        /\ L.to[b] \subseteq W.to[b]
    BY <1>1 DEF Served
  <1>5. ServedAll(L, W)
    <2>1. W.items = L.items /\ W.count = L.count
      BY <1>4 DEF SameStore
    <2>2. ASSUME NEW c \in Known, c # b PROVE SameAt(L, W, c)
      BY <1>4, <2>2 DEF SameElse, SameAt
    <2>3. ASSUME NEW c \in Known PROVE L.to[c] \subseteq W.to[c] /\ Fed(W, c)
      <3>1. CASE c = b
        BY <1>4, <3>1
      <3>2. CASE c # b
        BY <1>0, <2>1, <2>2, <3>2 DEF SameAt, Fed
      <3> QED BY <3>1, <3>2
    <2>4. ASSUME NEW c \in Known \ ToSet(L.backends) PROVE SameAt(L, W, c)
      <3>1. c # b
        OBVIOUS
      <3> QED BY <2>2, <3>1
    <2> QED BY <1>4, <2>3, <2>4 DEF ServedAll
  <1>6. Store(W)
    BY <1>5, ServedStore
  <1>7. W.items = L.items /\ W.limit = L.limit /\ W.backends = L.backends /\ W.count = L.count
    BY <1>4 DEF SameStore
  <1>8. /\ Store(r.to)
        /\ r.to.items = W.items /\ r.to.limit = W.limit
        /\ r.to.backends = W.backends /\ r.to.count = W.count /\ r.to.to = W.to
    <2>1. {x.id} \subseteq Ids(W.items)
      BY <1>7, <1>x
    <2> QED BY <1>3, <1>6, <2>1, RecomputeKeeps
  <1> QED BY <1>1, <1>3, <1>7, <1>8 DEF MarkedTo

\* log_flush_one_to returns a state and whether the backend took the message.
LEMMA FlushOneResult ==
    ASSUME NEW L \in State, NEW b \in Known, NEW x \in Item
    PROVE  FlushOneTo(L, b, x) \in Result
  <1> DEFINE w == ItemWriteTo(L, b, x)
  <1>1. w.to \in State /\ w.ok \in BOOLEAN
    BY WriteResult DEF Result
  <1>2. {x.id} \in SUBSET Nat
    BY ItemSize
  <1>3. FlushOneTo(L, b, x) = [to |-> Recompute(w.to, {x.id}), ok |-> w.ok]
    BY DEF FlushOneTo
  <1> HIDE DEF w
  <1>4. Recompute(w.to, {x.id}) \in State
    BY <1>1, <1>2, RecomputeIs
  <1> QED BY <1>1, <1>3, <1>4 DEF Result

\* at holds the results after each message.
LoopTo(at, n, start, b, items) ==
    /\ at[0] = start
    /\ \A k \in 1..n :
         at[k] = IF at[k - 1].ok THEN FlushOneTo(at[k - 1].to, b, items[k]) ELSE at[k - 1]

\* log_flush_to offers the messages one by one, up to the first failure.
LEMMA FlushToSteps ==
    ASSUME NEW L, Store(L), NEW b \in Known
    PROVE  \E at : /\ LoopTo(at, Len(L.items), [to |-> SizePut(L, L.size), ok |-> TRUE], b, L.items)
                   /\ FlushTo(L, b) = at[Len(L.items)].to
  <1> DEFINE items == L.items
             n == Len(items)
             start == [to |-> [L EXCEPT !.size = TotalSize(L.items)], ok |-> TRUE]
             Body(f) == [k \in 0..n |->
                IF k = 0 THEN start
                ELSE IF f[k - 1].ok THEN FlushOneTo(f[k - 1].to, b, items[k]) ELSE f[k - 1]]
             r == CHOOSE f : f = Body(f)
             step == [q \in Result \X (1..n) |->
                IF q[1].ok THEN FlushOneTo(q[1].to, b, items[q[2]]) ELSE q[1]]
  <1>n. n \in Nat /\ \A k \in 1..n : items[k] \in Item
    BY StateFields DEF Store
  <1>1. FlushTo(L, b) = r[n].to
    BY Zenon DEF FlushTo
  <1>s. start = [to |-> SizePut(L, L.size), ok |-> TRUE]
    BY Zenon DEF SizePut, Store
  <1>d. items = L.items /\ n = Len(items)
    OBVIOUS
  <1> HIDE DEF n, start, items
  <1>2. start \in Result
    <2>1. SizePut(L, L.size) \in State
      BY PutSize DEF Store
    <2> QED BY <1>s, <2>1 DEF Result
  <1>3. IsStep(step, Result, n)
    <2>1. ASSUME NEW p \in Result, NEW k \in 1..n
          PROVE  (IF p.ok THEN FlushOneTo(p.to, b, items[k]) ELSE p) \in Result
      <3>1. p.to \in State
        BY DEF Result
      <3> QED BY <1>n, <3>1, FlushOneResult
    <2> QED BY <2>1 DEF IsStep
  <1>4. \A p \in Result, k \in 1..n :
           step[<<p, k>>] = IF p.ok THEN FlushOneTo(p.to, b, items[k]) ELSE p
    OBVIOUS
  <1> HIDE DEF step
  <1>5. PICK g : Iterates(g, Result, n, start, step)
    BY <1>n, <1>2, <1>3, Iteration
  <1>6. g = Body(g)
    <2>1. g \in [0..n -> Result] /\ g[0] = start
      BY <1>5 DEF Iterates
    <2>2. ASSUME NEW k \in 0..n, k # 0
          PROVE  g[k] = IF g[k - 1].ok THEN FlushOneTo(g[k - 1].to, b, items[k]) ELSE g[k - 1]
      <3>1. k \in 1..n /\ k - 1 \in 0..n
        BY <1>n, <2>2
      <3>2. g[k] = step[<<g[k - 1], k>>] /\ g[k - 1] \in Result
        BY <1>5, <2>1, <3>1 DEF Iterates
      <3> QED BY <1>4, <3>1, <3>2
    <2> QED BY <2>1, <2>2
  <1>7. r = Body(r)
    <2> HIDE DEF Body
    <2> QED BY <1>6, Zenon
  <1> HIDE DEF r
  <1>8. LoopTo(r, n, start, b, items)
    <2> DEFINE B == Body(r)
    <2>1. /\ B[0] = start
          /\ \A k \in 1..n :
               B[k] = IF r[k - 1].ok THEN FlushOneTo(r[k - 1].to, b, items[k]) ELSE r[k - 1]
      BY <1>n
    <2> HIDE DEF B
    <2>2. r = B
      BY <1>7 DEF B
    <2> QED BY <2>1, <2>2 DEF LoopTo
  <1> QED BY <1>1, <1>8, <1>s, <1>d

\* log_flush_to keeps the store true.
LEMMA FlushToKeeps ==
    ASSUME NEW L, Store(L), NEW b \in ToSet(L.backends), NEW M, M = FlushTo(L, b)
    PROVE  /\ Store(M) /\ M.limit = L.limit
           /\ M.backends = L.backends /\ M.count = L.count
  <1> DEFINE n == Len(L.items)
             start == SizePut(L, L.size)
  <1>n. n \in Nat /\ L \in State /\ b \in Known
    BY Listed DEF Store
  <1>1. PICK at : LoopTo(at, n, [to |-> start, ok |-> TRUE], b, L.items) /\ M = at[n].to
    BY <1>n, FlushToSteps
  <1>2. /\ start \in State /\ SameBackends(L, start) /\ start.count = L.count
        /\ start.items = L.items /\ start.size = L.size
    BY <1>n, PutSize
  <1> HIDE DEF start, n
  <1> DEFINE Good(k, p) ==
               /\ p.ok \in BOOLEAN /\ Store(p.to) /\ p.to.items = L.items
               /\ p.to.limit = L.limit /\ p.to.backends = L.backends
               /\ p.to.count = L.count
               /\ p.ok => MarkedTo(p.to, b, k)
             S == {k \in 0..n : Good(k, at[k])}
  <1>3. 0 \in S
    <2>1. at[0].to = start /\ at[0].ok = TRUE
      BY <1>1 DEF LoopTo
    <2>2. Store(start)
      BY <1>2, SameStoreTrue
    <2>3. MarkedTo(start, b, 0)
      BY DEF MarkedTo
    <2>4. Good(0, at[0])
      BY <1>2, <2>1, <2>2, <2>3 DEF SameBackends
    <2> HIDE DEF Good
    <2> QED BY <1>n, <2>4
  <1>4. ASSUME NEW k \in 0..(n - 1), k \in S PROVE k + 1 \in S
    <2> DEFINE p == at[k]
               q == at[k + 1]
               j == k + 1
    <2>1. j \in 1..n /\ j \in 0..n /\ j - 1 = k
      BY <1>n
    <2>2. q = IF p.ok THEN FlushOneTo(p.to, b, L.items[j]) ELSE p
      BY <1>1, <2>1 DEF LoopTo
    <2>3. Good(k, p)
      BY <1>4
    <2> HIDE DEF p, q, j
    <2>4. CASE ~p.ok
      <3>1. Good(j, q)
        BY <2>2, <2>3, <2>4
      <3> HIDE DEF Good
      <3> QED BY <2>1, <3>1 DEF q, j
    <2>5. CASE p.ok
      <3> DEFINE N == p.to
      <3>1. /\ Store(N) /\ N.items = L.items /\ b \in ToSet(N.backends)
            /\ MarkedTo(N, b, j - 1) /\ j \in 1..Len(N.items)
            /\ N.limit = L.limit /\ N.backends = L.backends /\ N.count = L.count
        BY <2>1, <2>3, <2>5 DEF n
      <3>2. q = FlushOneTo(N, b, N.items[j])
        BY <2>2, <2>5, <3>1
      <3> HIDE DEF N
      <3>3. /\ Store(q.to) /\ q.ok \in BOOLEAN
            /\ q.to.items = N.items /\ q.to.limit = N.limit
            /\ q.to.backends = N.backends /\ q.to.count = N.count
            /\ q.ok => MarkedTo(q.to, b, j)
        BY <3>1, <3>2, FlushOneServes
      <3>4. Good(j, q)
        BY <3>1, <3>3
      <3> HIDE DEF Good
      <3> QED BY <2>1, <3>4 DEF q, j
    <2> QED BY <2>3, <2>4, <2>5
  <1> HIDE DEF S
  <1>5. n \in S
    <2>1. \A k \in 0..n : k \in S
      BY <1>n, <1>3, <1>4, SetInduction
    <2> QED BY <1>n, <2>1
  <1>6. Good(n, at[n])
    BY <1>5 DEF S
  <1> QED BY <1>1, <1>6

\* What log_base_print leaves
Settled(L) ==
    /\ Store(L) /\ L.size <= L.limit
    /\ L.count \in Ids(L.items) => \A b \in ToSet(L.backends) : UpToDate(L, b)

\* The backends of M are those of L and perhaps b.
BackendJoined(L, M, b) == ToSet(M.backends) \subseteq ToSet(L.backends) \cup {b}

\* log_item_invalidate_flush_state for a backend that joins
LEMMA JoinKeeps ==
    ASSUME NEW L, Store(L), NEW b \in Known, NEW M,
           M = InvalidateFlushState([L EXCEPT !.backends = Append(@, b)])
    PROVE  Store(M) /\ M.limit = L.limit /\ M.count = L.count /\ b \in ToSet(M.backends)
           /\ BackendJoined(L, M, b)
  <1> DEFINE bs == Append(L.backends, b)
  <1>0. L \in State /\ L.backends \in Seq(Known)
    BY StateFields DEF Store
  <1>1. M = [L EXCEPT !.backends = bs, !.flushed = {}]
    BY DEF InvalidateFlushState
  <1>2. bs \in Seq(Known) /\ ToSet(bs) = ToSet(L.backends) \cup {b}
    <2>1. /\ bs \in Seq(Known) /\ Len(bs) = Len(L.backends) + 1 /\ bs[Len(L.backends) + 1] = b
          /\ \A k \in 1..Len(L.backends) : bs[k] = L.backends[k]
          /\ DOMAIN bs = 1..Len(bs) /\ DOMAIN L.backends = 1..Len(L.backends)
          /\ Len(L.backends) \in Nat
      BY <1>0
    <2> HIDE DEF bs
    <2>2. ToSet(bs) = {bs[k] : k \in 1..Len(bs)}
          /\ ToSet(L.backends) = {L.backends[k] : k \in 1..Len(L.backends)}
      BY <2>1 DEF ToSet
    <2>3. ASSUME NEW c \in ToSet(bs) PROVE c \in ToSet(L.backends) \cup {b}
      <3>1. PICK k \in 1..Len(bs) : c = bs[k]
        BY <2>2
      <3>2. k \in 1..Len(L.backends) \/ k = Len(L.backends) + 1
        BY <2>1
      <3> QED BY <2>1, <2>2, <3>1, <3>2
    <2>4. ASSUME NEW c \in ToSet(L.backends) \cup {b} PROVE c \in ToSet(bs)
      <3>1. CASE c = b
        <4>1. Len(L.backends) + 1 \in 1..Len(bs)
          BY <2>1
        <4> QED BY <2>1, <2>2, <3>1, <4>1
      <3>2. CASE c \in ToSet(L.backends)
        <4>1. PICK k \in 1..Len(L.backends) : c = L.backends[k]
          BY <2>2, <3>2
        <4>2. k \in 1..Len(bs) /\ bs[k] = c
          BY <2>1, <4>1
        <4> QED BY <2>2, <4>2
      <3> QED BY <3>1, <3>2
    <2> QED BY <2>1, <2>3, <2>4
  <1> HIDE DEF bs
  <1>3. M \in State
    BY <1>0, <1>1, <1>2 DEF State
  <1>4. /\ M.items = L.items /\ M.size = L.size /\ M.limit = L.limit /\ M.count = L.count
        /\ M.to = L.to /\ M.acked = L.acked /\ M.sent = L.sent
        /\ M.backends = bs /\ M.flushed = {}
    BY <1>0, <1>1 DEF State
  <1>5. FlagsTrue(M)
    BY <1>4 DEF FlagsTrue
  <1>6. \A c \in Known : Fed(M, c)
    BY <1>4 DEF Fed, Store
  <1>7. \A c \in Known \ ToSet(M.backends) : Untouched(M, c)
    BY <1>2, <1>4 DEF Untouched, Store
  <1>8. Store(M)
    BY <1>3, <1>4, <1>5, <1>6, <1>7 DEF Store
  <1> QED BY <1>2, <1>4, <1>8 DEF BackendJoined

\* log_backend_destroy of a backend that never joined
LEMMA ForgetKeeps ==
    ASSUME NEW L, Store(L), NEW b \in Known, b \notin ToSet(L.backends),
           NEW M, M = ForgetBackend(L, b)
    PROVE  Store(M) /\ M.limit = L.limit /\ M.count = L.count /\ M.backends = L.backends
  <1> DEFINE N == [L EXCEPT !.backends = RemoveFirst(@, b), !.to[b] = {}]
  <1>0. /\ L \in State /\ L.to \in [Known -> SUBSET Nat] /\ L.to[b] = {}
        /\ ToSet(L.backends) = {L.backends[k] : k \in 1..Len(L.backends)}
    BY StateFields, Listed DEF Store, Untouched
  <1>1. M = Recompute(N, Ids(L.items))
    BY Zenon DEF ForgetBackend
  <1>2. RemoveFirst(L.backends, b) = L.backends
    <2>1. ~\E i \in 1..Len(L.backends) : L.backends[i] = b
      BY <1>0
    <2> QED BY <2>1, Zenon DEF RemoveFirst
  <1>3. N = [L EXCEPT !.backends = L.backends, !.to[b] = {}]
    BY <1>2
  <1> HIDE DEF N
  <1>4. /\ N \in State /\ SameBackends(L, N) /\ N.count = L.count
        /\ N.items = L.items /\ N.size = L.size
    <2>1. N \in State
      BY <1>0, <1>3 DEF State
    <2>2. N.to = [L.to EXCEPT ![b] = {}]
      BY <1>0, <1>3 DEF State
    <2>3. N.to = L.to
      BY <1>0, <2>2
    <2> QED BY <1>0, <1>3, <2>1, <2>3 DEF State, SameBackends
  <1>5. Store(N)
    BY <1>4, SameStoreTrue
  <1>6. M = Recompute(N, Ids(N.items))
    BY <1>1, <1>4
  <1> QED BY <1>4, <1>5, <1>6, RecomputeKeeps DEF SameBackends

\* log_base_print leaves the log settled, whichever message it is given.
LEMMA SubmitSettles ==
    ASSUME NEW L, Store(L), NEW m, Loggable(m)
    PROVE  /\ Settled(Submit(L, m)) /\ Store(Submit(L, m))
           /\ Submit(L, m).limit = L.limit
           /\ Submit(L, m).backends = L.backends
  <1> DEFINE M == Submit(L, m)
  <1>1. /\ Store(M) /\ M.size <= M.limit /\ M.limit = L.limit
        /\ M.backends = L.backends /\ M.count = L.count + 1
        /\ M.count \in Ids(M.items) => \A b \in ToSet(M.backends) : UpToDate(M, b)
    BY SubmitKeeps
  <1> HIDE DEF M
  <1>2. Settled(M) /\ Store(M) /\ M.limit = L.limit /\ M.backends = L.backends
    BY <1>1 DEF Settled
  <1> QED BY <1>2 DEF M

\* log_backend_create
LEMMA CreateKeeps ==
    ASSUME NEW L, Store(L), NEW b \in Known, NEW opens, NEW M,
           M = BackendCreate(L, b, opens)
    PROVE  /\ BackendInit(Entry(b), opens) => Settled(M) /\ BackendJoined(L, M, b)
           /\ ~BackendInit(Entry(b), opens) /\ b \notin ToSet(L.backends) =>
                Store(M) /\ M.backends = L.backends
  <1>1. Loggable(Warning) /\ Loggable(Info)
    BY AllLoggable
  <1>2. ASSUME BackendInit(Entry(b), opens) PROVE Settled(M) /\ BackendJoined(L, M, b)
    <2> DEFINE P == InvalidateFlushState([L EXCEPT !.backends = Append(@, b)])
               Q == FlushTo(P, b)
    <2>1. M = Submit(Q, Info)
      BY <1>2, Zenon DEF BackendCreate
    <2>2. Store(P) /\ b \in ToSet(P.backends) /\ BackendJoined(L, P, b)
      BY JoinKeeps
    <2> HIDE DEF P
    <2>3. Store(Q) /\ Q.backends = P.backends
      BY <2>2, FlushToKeeps
    <2> HIDE DEF Q
    <2> QED BY <1>1, <2>1, <2>2, <2>3, SubmitSettles DEF BackendJoined
  <1>3. ASSUME ~BackendInit(Entry(b), opens), b \notin ToSet(L.backends)
        PROVE  Store(M) /\ M.backends = L.backends
    <2> DEFINE P == Submit(L, Warning)
    <2>1. M = ForgetBackend(P, b)
      BY <1>3, Zenon DEF BackendCreate
    <2>2. Store(P) /\ P.backends = L.backends
      BY <1>1, SubmitSettles
    <2> HIDE DEF P
    <2> QED BY <1>3, <2>1, <2>2, ForgetKeeps
  <1> QED BY <1>2, <1>3

\* An entry of log.backends
LEMMA CreateFromKeeps ==
    ASSUME NEW L, Store(L), NEW b \in Known, b \notin ToSet(L.backends), NEW opens, NEW M,
           M = CreateFrom(L, b, opens)
    PROVE  Settled(M) /\ BackendJoined(L, M, b)
  <1> DEFINE e == Entry(b)
             C == BackendCreate(L, b, opens)
  <1>1. Loggable(Warning)
    BY AllLoggable
  <1>2. /\ BackendInit(Entry(b), opens) => Settled(C) /\ BackendJoined(L, C, b)
        /\ ~BackendInit(Entry(b), opens) => Store(C) /\ C.backends = L.backends
    BY CreateKeeps
  <1>3. CASE ~Recognised(e)
    <2>1. M = Submit(L, Warning)
      BY <1>3, Zenon DEF CreateFrom
    <2> QED BY <1>1, <2>1, SubmitSettles DEF BackendJoined
  <1>4. CASE Recognised(e) /\ BackendInit(e, opens)
    <2>1. M = C
      BY <1>4, Zenon DEF CreateFrom
    <2> QED BY <1>2, <1>4, <2>1
  <1>5. CASE Recognised(e) /\ ~BackendInit(e, opens)
    <2>1. M = Submit(C, Warning)
      BY <1>5, Zenon DEF CreateFrom
    <2> HIDE DEF C
    <2> QED BY <1>1, <1>2, <1>5, <2>1, SubmitSettles DEF BackendJoined
  <1> QED BY <1>3, <1>4, <1>5

-----------------------------------------------------------------------------
(* The invariant *)

\* The inductive invariant: the store is true and within its limit, and only
\* backends that log_init has come to are on the list.
LogInv ==
    /\ sit \in DOMAIN Situations /\ pc \in {"early", "backends", "ready"}
    /\ next \in Nat \ {0}
    /\ Store(log) /\ log.size <= log.limit
    /\ \A b \in ToSet(log.backends) : b < next

\* What the configuration gives: a sequence of backends and a size limit
LEMMA Machine ==
    ASSUME sit \in DOMAIN Situations
    PROVE  Len(cf.backends) \in Nat /\ cf.limit.value \in Int
  BY SituationAssumption DEF cf

\* log.size-limit
LEMMA SetLimitKeeps ==
    ASSUME NEW L, Store(L), sit \in DOMAIN Situations, NEW M, M = SetLimit(L)
    PROVE  Store(M) /\ M.backends = L.backends
  <1>1. CASE ~cf.limit.ok
    <2>1. M = L
      BY <1>1, Zenon DEF SetLimit
    <2> QED BY <2>1
  <1>2. CASE cf.limit.ok /\ cf.limit.value >= 0
    <2> DEFINE v == cf.limit.value
    <2>1. M = [L EXCEPT !.limit = v]
      BY <1>2, Zenon DEF SetLimit
    <2>2. v \in Nat
      BY <1>2, Machine
    <2> HIDE DEF v
    <2>3. L \in State
      BY DEF Store
    <2>4. M \in State
      BY <2>1, <2>2, <2>3 DEF State
    <2>5. /\ M.items = L.items /\ M.size = L.size /\ M.count = L.count
          /\ M.to = L.to /\ M.acked = L.acked /\ M.sent = L.sent
          /\ M.backends = L.backends /\ M.flushed = L.flushed
      BY <2>1, <2>3 DEF State
    <2> QED BY <2>4, <2>5 DEF Store, FlagsTrue, Fed, Untouched
  <1>3. CASE cf.limit.ok /\ ~(cf.limit.value >= 0)
    <2>1. M = Submit(L, Warning)
      BY <1>3, Zenon DEF SetLimit
    <2> QED BY <2>1, AllLoggable, SubmitSettles
  <1> QED BY <1>1, <1>2, <1>3

\* A backend fails or recovers.
Fails(L, b, r) == [L EXCEPT !.room[b] = r]

\* That keeps the store true: nothing recorded depends on it.
LEMMA RoomKeeps ==
    ASSUME NEW L, Store(L), NEW b \in ToSet(L.backends), NEW r \in 0..MaxRoom,
           NEW M, M = Fails(L, b, r)
    PROVE  /\ Store(M) /\ M.backends = L.backends /\ M.count = L.count
           /\ M.size = L.size /\ M.limit = L.limit
  <1>1. L \in State /\ b \in Known
    BY Listed DEF Store
  <1>2. M \in State
    BY <1>1 DEF State, Fails
  <1>3. /\ M.items = L.items /\ M.size = L.size /\ M.limit = L.limit /\ M.count = L.count
        /\ M.to = L.to /\ M.acked = L.acked /\ M.sent = L.sent
        /\ M.backends = L.backends /\ M.flushed = L.flushed
    BY <1>1 DEF State, Fails
  <1> QED BY <1>2, <1>3 DEF Store, FlagsTrue, Fed, Untouched

\* The store before log_init
LEMMA InitStore ==
    ASSUME LogInit
    PROVE  LogInv
  <1>1. /\ sit \in DOMAIN Situations /\ pc = "early" /\ next = 1
        /\ log = [items |-> <<>>, flushed |-> {}, to |-> [b \in Known |-> {}],
              size |-> 0, limit |-> DefaultLimit, backends |-> <<>>, count |-> 0,
              room |-> [b \in Known |-> MaxRoom],
              acked |-> [b \in Known |-> <<>>],
              sent |-> [b \in Known |-> <<>>]]
    BY DEF LogInit
  <1>2. DefaultLimit \in Nat /\ MaxRoom \in Nat
    BY LogAssumption
  <1>3. log \in State
    BY <1>1, <1>2 DEF State
  <1>4. /\ log.items = <<>> /\ log.flushed = {} /\ log.size = 0 /\ log.count = 0
        /\ log.limit = DefaultLimit /\ log.backends = <<>>
        /\ \A b \in Known : log.to[b] = {} /\ log.acked[b] = <<>> /\ log.sent[b] = <<>>
    BY <1>1
  <1>5. \A b \in Known : Fed(log, b) /\ Untouched(log, b)
    BY <1>4 DEF Fed, FedBy, Acks, Sends, Told, Untouched
  <1>6. FlagsTrue(log) /\ Numbered(log.items, log.count)
    BY <1>4 DEF FlagsTrue, Numbered
  <1>7. log.size = TotalSize(log.items)
    BY <1>4, TotalEnds
  <1>8. Store(log)
    BY <1>3, <1>5, <1>6, <1>7 DEF Store
  <1>9. ToSet(log.backends) = {}
    BY <1>4 DEF ToSet
  <1> QED BY <1>1, <1>2, <1>4, <1>8, <1>9 DEF LogInv

\* A step of the program leaves what log_base_print leaves; only the
\* environment does not log.
Steps ==
    /\ sit' = sit /\ pc' \in {"early", "backends", "ready"} /\ next' \in Nat \ {0}
    /\ Store(log') /\ log'.size <= log'.limit
    /\ \A b \in ToSet(log'.backends) : b < next'
    /\ Settled(log') \/ log'.count = log.count

\* Every step keeps the store true and within its limit; one that logs a
\* message leaves every backend up to date.
LEMMA LogSteps == ASSUME LogInv, [LogNext]_logVars PROVE Steps
  <1>i. /\ sit \in DOMAIN Situations /\ pc \in {"early", "backends", "ready"}
        /\ next \in Nat \ {0} /\ Store(log) /\ log.size <= log.limit
        /\ \A b \in ToSet(log.backends) : b < next
        /\ Len(cf.backends) \in Nat
    BY Machine DEF LogInv
  <1>k. \A L : Store(L) => ToSet(L.backends) \subseteq Known
    BY Listed DEF Store
  <1>n. Known \subseteq Nat
    BY <1>i DEF Known
  <1>s. \A L : Settled(L) => Store(L) /\ L.size <= L.limit
    BY DEF Settled
  <1>1. CASE BasePrint
    <2>1. PICK m \in Messages : log' = Submit(log, m)
      BY <1>1 DEF BasePrint
    <2>2. Settled(log') /\ log'.backends = log.backends
      BY <1>i, <2>1, AllLoggable, SubmitSettles
    <2> QED BY <1>1, <1>i, <1>s, <2>2 DEF BasePrint, Steps
  <1>2. CASE InitDefaults
    <2>1. 0 \in Known
      BY <1>i DEF Known
    <2>2. CASE cf.defaults
      <3>1. log' = BackendCreate(log, 0, TRUE)
        BY <1>2, <2>2 DEF InitDefaults
      <3>2. BackendInit(Entry(0), TRUE)
        BY DEF BackendInit, Entry, Default
      <3>3. Settled(log') /\ BackendJoined(log, log', 0)
        BY <1>i, <2>1, <3>1, <3>2, CreateKeeps
      <3>4. \A b \in ToSet(log'.backends) : b < next
        BY <1>i, <3>3 DEF BackendJoined
      <3> QED BY <1>2, <1>i, <1>s, <3>3, <3>4 DEF InitDefaults, Steps
    <2>3. CASE ~cf.defaults
      BY <1>2, <1>i, <2>3 DEF InitDefaults, Steps
    <2> QED BY <2>2, <2>3
  <1>3. CASE InitBackend
    <2>1. PICK opens \in BOOLEAN : log' = CreateFrom(log, next, opens)
      BY <1>3 DEF InitBackend
    <2>2. next \in Known /\ next' = next + 1 /\ next \notin ToSet(log.backends)
      BY <1>3, <1>i DEF InitBackend, Known
    <2>3. Settled(log') /\ BackendJoined(log, log', next)
      BY <1>i, <2>1, <2>2, CreateFromKeeps
    <2>4. ASSUME NEW b \in ToSet(log'.backends) PROVE b < next'
      <3>1. b \in Nat /\ (b < next \/ b = next)
        <4>1. b \in Known
          BY <1>k, <1>s, <2>3
        <4> QED BY <1>i, <1>n, <2>3, <4>1 DEF BackendJoined
      <3> QED BY <1>i, <2>2, <3>1
    <2> QED BY <1>3, <1>i, <1>s, <2>2, <2>3, <2>4 DEF InitBackend, Steps
  <1>4. CASE InitLimit
    <2> DEFINE L == SetLimit(log)
    <2>1. log' = Submit(L, Info)
      BY <1>4 DEF InitLimit
    <2>2. Store(L) /\ L.backends = log.backends
      BY <1>i, SetLimitKeeps
    <2> HIDE DEF L
    <2>3. Settled(log') /\ log'.backends = log.backends
      BY <2>1, <2>2, AllLoggable, SubmitSettles
    <2> QED BY <1>4, <1>i, <1>s, <2>3 DEF InitLimit, Steps
  <1>5. CASE RoomChanges
    <2>1. PICK b \in ToSet(log.backends), r \in 0..MaxRoom :
             log' = Fails(log, b, r)
      BY <1>5 DEF RoomChanges, Fails
    <2>2. /\ Store(log') /\ log'.backends = log.backends /\ log'.count = log.count
          /\ log'.size = log.size /\ log'.limit = log.limit
      BY <1>i, <2>1, RoomKeeps
    <2> QED BY <1>5, <1>i, <2>2 DEF RoomChanges, Steps
  <1>6. CASE UNCHANGED logVars
    BY <1>6, <1>i DEF logVars, Steps
  <1>7. CASE LogDone
    BY <1>6, <1>7 DEF LogDone
  <1> QED BY <1>1, <1>2, <1>3, <1>4, <1>5, <1>6, <1>7 DEF LogNext

\* The configuration does not change.
LEMMA StoreNext ==
    ASSUME sit' = sit, Store(log')
    PROVE  Store(log)'
  BY DEF Store, State, Known, Fed, FedBy, Told, Entry, cf, Default, Untouched, FlagsTrue

\* The invariant is inductive.
LEMMA LogInvNext == ASSUME LogInv, [LogNext]_logVars PROVE LogInv'
  <1>1. Steps
    BY LogSteps
  <1>2. Store(log)'
    BY <1>1, StoreNext DEF Steps
  <1> QED BY <1>1, <1>2 DEF LogInv, Steps

\* The invariant implies what the runs check.
LEMMA LogInvImplies == ASSUME LogInv PROVE StoreTrue /\ SentInOrder
  <1>0. /\ sit \in DOMAIN Situations /\ pc \in {"early", "backends", "ready"}
        /\ log \in State /\ log.size = TotalSize(log.items) /\ log.size <= log.limit
        /\ \A b \in Known : Fed(log, b)
        /\ \A b \in Known \ ToSet(log.backends) : Untouched(log, b)
    BY DEF LogInv, Store
  <1>1. LogTypeOK
    BY <1>0, StateFields DEF LogTypeOK, Untouched
  <1>2. /\ ToSet(log.backends) \subseteq Known
        /\ DOMAIN log.items = 1..Len(log.items)
    BY <1>0, Listed
  <1>3. \A b \in Known : /\ DOMAIN log.acked[b] = 1..Len(log.acked[b])
                         /\ DOMAIN log.sent[b] = 1..Len(log.sent[b])
    BY <1>0, StateFields
  <1>4. ASSUME NEW b \in Known
        PROVE  /\ Acks(log.items, log.count, log.to[b], log.acked[b])
               /\ Sends(log.items, log.count, log.to[b], log.sent[b])
               /\ Told(log.items, log.to[b], log.sent[b], b)
    BY <1>0 DEF Fed, FedBy
  <1>5. AckedMeansSent
    <2> SUFFICES ASSUME NEW b \in ToSet(log.backends), NEW k \in DOMAIN log.items,
                        log.items[k].id \in log.to[b], CheckFilter(log.items[k], Entry(b))
                 PROVE  \E n \in DOMAIN log.sent[b] :
                           log.sent[b][n] = [id |-> log.items[k].id, whole |-> TRUE]
      BY DEF AckedMeansSent
    <2>1. b \in Known /\ k \in 1..Len(log.items)
      BY <1>2
    <2> QED BY <1>3, <1>4, <2>1 DEF Told
  <1>6. NothingPassedOver
    BY <1>2, <1>3, <1>4 DEF NothingPassedOver, Acks
  <1>7. OrderKept
    BY <1>3, <1>4 DEF OrderKept, Acks, Sends
  <1> QED BY <1>0, <1>1, <1>5, <1>6, <1>7 DEF StoreTrue, SizeBounded, SentInOrder

\* The store is true whatever backends fail, recover, join late or are
\* dropped: log_size_cur is what the messages hold and stays within
\* log.size-limit (log_size_limit_check), and a message marked for a backend
\* went out to it whole or is not for it (log_item_write_to).
THEOREM StoreIsTrue == LogSpec => []StoreTrue
  <1>1. LogSpec => []LogInv
    BY InitStore, LogInvNext, PTL DEF LogSpec
  <1> QED BY <1>1, LogInvImplies, PTL

\* A backend gets the messages in the order they were logged and never one
\* twice after it took it: log_item_write_to marks what log_flush_fast and
\* log_flush_to sent, in this order, and offers nothing past a failure.
THEOREM OrderIsKept == LogSpec => []SentInOrder
  <1>1. LogSpec => []LogInv
    BY InitStore, LogInvNext, PTL DEF LogSpec
  <1> QED BY <1>1, LogInvImplies, PTL

\* After log_base_print kept a message, every backend that still works has had
\* every message up to the first that it can never take: what a failed write
\* held back goes out with the next message.
THEOREM EveryoneCatchesUp == LogSpec => CaughtUp
  <1> DEFINE Kept == log'.count # log.count /\ log'.count \in Ids(log'.items)
             Reached(b, k) ==
                 /\ log'.room[b] > 0
                 /\ \A j \in 1..k : Takes(log'.items[j], Entry(b))
                 => log'.items[k].id \in log'.to[b]
             CatchUp == Kept => \A b \in ToSet(log'.backends), k \in DOMAIN log'.items :
                                    Reached(b, k)
  <1>1. LogSpec => []LogInv
    BY InitStore, LogInvNext, PTL DEF LogSpec
  <1>2. ASSUME LogInv, [LogNext]_logVars PROVE [CatchUp]_logVars
    <2> SUFFICES ASSUME Kept, NEW b \in ToSet(log'.backends),
                        NEW k \in DOMAIN log'.items, log'.room[b] > 0,
                        \A j \in 1..k : Takes(log'.items[j], Entry(b))
                 PROVE  log'.items[k].id \in log'.to[b]
      OBVIOUS
    <2>1. Settled(log') /\ Store(log')
      BY <1>2, LogSteps DEF Steps
    <2>2. UpToDate(log', b)
      BY <2>1 DEF Settled
    <2>3. Len(log'.items) \in Nat /\ k \in 1..Len(log'.items)
      BY <2>1, Listed DEF Store
    <2>4. CASE MarkedTo(log', b, Len(log'.items))
      BY <2>3, <2>4 DEF MarkedTo
    <2>5. CASE \E j \in 1..Len(log'.items) :
                  MarkedTo(log', b, j - 1) /\ ~Takes(log'.items[j], Entry(b))
      <3>1. PICK j \in 1..Len(log'.items) :
                  MarkedTo(log', b, j - 1) /\ ~Takes(log'.items[j], Entry(b))
        BY <2>5
      <3>2. j \notin 1..k
        BY <3>1
      <3>3. k \in 1..(j - 1)
        BY <2>3, <3>2
      <3> QED BY <3>1, <3>3 DEF MarkedTo
    <2> QED BY <2>2, <2>4, <2>5 DEF UpToDate, Out
  <1> QED BY <1>1, <1>2, PTL DEF LogSpec, CaughtUp

=============================================================================
