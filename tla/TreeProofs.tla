----------------------------- MODULE TreeProofs -----------------------------
(***************************************************************************)
(* The configuration tree in memory (ConfigTree), for any keys, values,     *)
(* paths, documents and memory: whatever calls are made and wherever memory *)
(* runs out, memory holds well-formed trees, the ones the clients hold, and *)
(* nothing else (TreesWellFormed).                                          *)
(*                                                                         *)
(* The invariant (TreeInv) adds to WellFormed that going up from a node ends *)
(* at a root (Rooted): without it a cycle of nodes could float free with all *)
(* links in agreement.  The inner calls are described by what they may      *)
(* disturb: Kept(h, g, X) says that a call changed nothing but the nodes of  *)
(* X and what is below them, Made that it made one tree or none, Within that *)
(* it kept every tree, Gave that it took over a tree or failed.  Copying,    *)
(* merging and building go level by level; each level keeps the contract of  *)
(* the one below it (CopiesTrees, MergesTrees, BuildsTrees).                *)
(***************************************************************************)
EXTENDS ConfigTree, Recursion, FiniteSetTheorems, TLAPS

-----------------------------------------------------------------------------
(* Heaps *)

\* Going up from node to node ends at a root: no set of nodes has all of its
\* parents in itself.
Rooted(h) == \A S \in SUBSET Live(h) : S # {} => \E n \in S : h[n].parent \notin S

\* A heap as the library leaves it.
Good(h) == h \in Heaps /\ Linked(h) /\ Rooted(h)

Roots(h) == {n \in Live(h) : h[n].parent = NULL}

\* Nodes and all nodes above them
Up(h, U) == U \subseteq Live(h) /\ \A m \in U : h[m].parent \in U \cup {NULL}

\* A call that changes nothing but what lies below the nodes of X, and X.
Kept(h, g, X) ==
    \A U \in SUBSET Ids : Up(h, U) /\ U \cap X = {} => \A m \in U : g[m] = h[m]

\* The constants
LEMMA TreeConstants ==
    /\ MaxNodes \in Nat /\ MaxNodes >= 1
    /\ NULL \notin Ids /\ Ids \in SUBSET Nat
    /\ IsFiniteSet(Ids) /\ Cardinality(Ids) = MaxNodes
    /\ NoKey \notin Keys
  <1>1. MaxNodes \in Nat /\ MaxNodes >= 1 /\ NoKey \notin Keys
    BY ConfigAssumption
  <1>2. IsFiniteSet(Ids) /\ Cardinality(Ids) = MaxNodes
    BY <1>1, FS_Interval DEF Ids
  <1> QED BY <1>1, <1>2 DEF Ids, NULL

\* A slot of memory holds a node or is free.
LEMMA NodeIs ==
    ASSUME NEW h \in Heaps, NEW n \in Ids
    PROVE  /\ n \in Live(h) <=> h[n] \in Node
           /\ n \notin Live(h) <=> h[n] = FreeNode
           /\ n \in Live(h) =>
                /\ h[n].type \in {"null", "value", "array", "map"}
                /\ h[n].value \in LeafValue \cup {NoValue}
                /\ h[n].key \in Keys \cup {NoKey} /\ h[n].index \in -1..MaxNodes
                /\ h[n].parent \in Ids \cup {NULL} /\ h[n].items \in Seq(Ids)
  <1>1. h[n] \in Node \cup {FreeNode}
    BY DEF Heaps
  <1>2. \A x \in Node :
            /\ x.type \in {"null", "value", "array", "map"}
            /\ x.value \in LeafValue \cup {NoValue}
            /\ x.key \in Keys \cup {NoKey} /\ x.index \in -1..MaxNodes
            /\ x.parent \in Ids \cup {NULL} /\ x.items \in Seq(Ids)
    BY DEF Node
  <1>3. FreeNode.type = "free"
    BY DEF FreeNode
  <1>4. n \in Live(h) <=> h[n].type # "free"
    BY DEF Live
  <1> QED BY <1>1, <1>2, <1>3, <1>4

\* A node as seven fields
LEMMA NodeMade ==
    ASSUME NEW type \in {"null", "value", "array", "map"}, NEW value \in LeafValue \cup {NoValue},
           NEW key \in Keys \cup {NoKey}, NEW index \in -1..MaxNodes,
           NEW parent \in Ids \cup {NULL}, NEW items \in Seq(Ids)
    PROVE  [type |-> type, value |-> value, key |-> key, index |-> index,
            parent |-> parent, items |-> items] \in Node
  BY DEF Node

\* How the nodes of a heap are linked.
LEMMA LinkedIs ==
    ASSUME NEW h \in Heaps
    PROVE  Linked(h) <=>
             \A n \in Live(h) :
                /\ \A i \in 1..Len(h[n].items) :
                      h[n].items[i] \in Live(h) /\ h[h[n].items[i]].parent = n
                /\ \A i, j \in 1..Len(h[n].items) : h[n].items[i] = h[n].items[j] => i = j
                /\ h[n].parent # NULL =>
                      /\ h[n].parent \in Live(h)
                      /\ \E i \in 1..Len(h[h[n].parent].items) : h[h[n].parent].items[i] = n
                /\ h[n].type = "array" =>
                      \A i \in 1..Len(h[n].items) : h[h[n].items[i]].index = i - 1
                /\ h[n].type = "map" =>
                      /\ \A i \in 1..Len(h[n].items) : h[h[n].items[i]].key # NoKey
                      /\ \A i, j \in 1..Len(h[n].items) :
                            h[h[n].items[i]].key = h[h[n].items[j]].key => i = j
  <1>1. ASSUME NEW n \in Live(h)
        PROVE  /\ n \in Ids /\ h[n].items \in Seq(Ids) /\ DOMAIN h[n].items = 1..Len(h[n].items)
               /\ Len(h[n].items) \in Nat
               /\ \A i \in 1..Len(h[n].items) : h[n].items[i] \in Ids
               /\ h[n].parent \in Ids \cup {NULL}
    <2>1. n \in Ids
      BY DEF Live
    <2> QED BY <2>1, NodeIs
  <1>2. \A m \in Ids : m \in Live(h) <=> h[m].type # "free"
    BY DEF Live
  <1>4. ASSUME Linked(h), NEW n \in Live(h)
        PROVE  /\ \A i \in 1..Len(h[n].items) :
                      h[n].items[i] \in Live(h) /\ h[h[n].items[i]].parent = n
               /\ \A i, j \in 1..Len(h[n].items) : h[n].items[i] = h[n].items[j] => i = j
               /\ h[n].parent # NULL =>
                      /\ h[n].parent \in Live(h)
                      /\ \E i \in 1..Len(h[h[n].parent].items) : h[h[n].parent].items[i] = n
               /\ h[n].type = "array" =>
                      \A i \in 1..Len(h[n].items) : h[h[n].items[i]].index = i - 1
               /\ h[n].type = "map" =>
                      /\ \A i \in 1..Len(h[n].items) : h[h[n].items[i]].key # NoKey
                      /\ \A i, j \in 1..Len(h[n].items) :
                            h[h[n].items[i]].key = h[h[n].items[j]].key => i = j
    BY <1>1, <1>2, <1>4 DEF Linked, Contains
  <1>5. ASSUME \A n \in Live(h) :
                /\ \A i \in 1..Len(h[n].items) :
                      h[n].items[i] \in Live(h) /\ h[h[n].items[i]].parent = n
                /\ \A i, j \in 1..Len(h[n].items) : h[n].items[i] = h[n].items[j] => i = j
                /\ h[n].parent # NULL =>
                      /\ h[n].parent \in Live(h)
                      /\ \E i \in 1..Len(h[h[n].parent].items) : h[h[n].parent].items[i] = n
                /\ h[n].type = "array" =>
                      \A i \in 1..Len(h[n].items) : h[h[n].items[i]].index = i - 1
                /\ h[n].type = "map" =>
                      /\ \A i \in 1..Len(h[n].items) : h[h[n].items[i]].key # NoKey
                      /\ \A i, j \in 1..Len(h[n].items) :
                            h[h[n].items[i]].key = h[h[n].items[j]].key => i = j
        PROVE  Linked(h)
    <2> SUFFICES ASSUME NEW n \in Live(h)
        PROVE LET items == h[n].items IN
        /\ \A i \in DOMAIN items : h[items[i]].type # "free" /\ h[items[i]].parent = n
        /\ \A i, j \in DOMAIN items : i # j => items[i] # items[j]
        /\ h[n].parent # NULL =>
              h[h[n].parent].type # "free" /\ Contains(h[h[n].parent].items, n)
        /\ h[n].type = "array" => \A i \in DOMAIN items : h[items[i]].index = i - 1
        /\ h[n].type = "map" =>
              /\ \A i \in DOMAIN items : h[items[i]].key # NoKey
              /\ \A i, j \in DOMAIN items : i # j => h[items[i]].key # h[items[j]].key
      BY DEF Linked
    <2> DEFINE items == h[n].items
    <2>1. DOMAIN items = 1..Len(items)
      BY <1>1
    <2>2. /\ \A i \in 1..Len(items) : items[i] \in Live(h) /\ h[items[i]].parent = n
          /\ \A i, j \in 1..Len(items) : items[i] = items[j] => i = j
          /\ h[n].parent # NULL =>
                /\ h[n].parent \in Live(h)
                /\ \E i \in 1..Len(h[h[n].parent].items) : h[h[n].parent].items[i] = n
      BY <1>5
    <2>3. /\ h[n].type = "array" => \A i \in 1..Len(items) : h[items[i]].index = i - 1
          /\ h[n].type = "map" =>
                /\ \A i \in 1..Len(items) : h[items[i]].key # NoKey
                /\ \A i, j \in 1..Len(items) : h[items[i]].key = h[items[j]].key => i = j
      BY <1>5
    <2>4. \A m \in Live(h) : h[m].type # "free"
      BY DEF Live
    <2>5. h[n].parent # NULL =>
              h[h[n].parent].type # "free" /\ Contains(h[h[n].parent].items, n)
      BY <2>2, <2>4, Zenon DEF Contains
    <2> HIDE DEF items
    <2>6. /\ \A i \in DOMAIN items : h[items[i]].type # "free" /\ h[items[i]].parent = n
          /\ \A i, j \in DOMAIN items : i # j => items[i] # items[j]
      BY <2>1, <2>2, <2>4
    <2>7. /\ h[n].type = "array" => \A i \in DOMAIN items : h[items[i]].index = i - 1
          /\ h[n].type = "map" =>
              /\ \A i \in DOMAIN items : h[items[i]].key # NoKey
              /\ \A i, j \in DOMAIN items : i # j => h[items[i]].key # h[items[j]].key
      BY <2>1, <2>3
    <2> QED BY <2>5, <2>6, <2>7 DEF items
  <1> QED BY <1>4, <1>5

\* What is known of a node.
LEMMA GoodAt ==
    ASSUME NEW h, Good(h), NEW n \in Live(h)
    PROVE  /\ h \in Heaps /\ n \in Ids /\ n # NULL /\ h[n] \in Node
           /\ h[n].type \in {"null", "value", "array", "map"}
           /\ h[n].value \in LeafValue \cup {NoValue}
           /\ h[n].key \in Keys \cup {NoKey} /\ h[n].index \in -1..MaxNodes
           /\ h[n].parent \in Ids \cup {NULL} /\ h[n].items \in Seq(Ids)
           /\ Len(h[n].items) \in Nat /\ DOMAIN h[n].items = 1..Len(h[n].items)
           /\ \A i \in 1..Len(h[n].items) :
                 h[n].items[i] \in Live(h) /\ h[h[n].items[i]].parent = n
           /\ \A i, j \in 1..Len(h[n].items) : h[n].items[i] = h[n].items[j] => i = j
           /\ h[n].parent # NULL =>
                 /\ h[n].parent \in Live(h)
                 /\ \E i \in 1..Len(h[h[n].parent].items) : h[h[n].parent].items[i] = n
           /\ h[n].type = "array" =>
                 \A i \in 1..Len(h[n].items) : h[h[n].items[i]].index = i - 1
           /\ h[n].type = "map" =>
                 /\ \A i \in 1..Len(h[n].items) : h[h[n].items[i]].key # NoKey
                 /\ \A i, j \in 1..Len(h[n].items) :
                       h[h[n].items[i]].key = h[h[n].items[j]].key => i = j
  <1>1. h \in Heaps /\ Linked(h)
    BY DEF Good
  <1>2. n \in Ids
    BY DEF Live
  <1>3. n # NULL
    BY <1>2, TreeConstants
  <1> QED BY <1>1, <1>2, <1>3, NodeIs, LinkedIs

\* Going up ends, if it does in another heap: nodes are below a root, below
\* where they were, or below a part that is as it was.
LEMMA RootedBy ==
    ASSUME NEW h, Rooted(h), NEW g, NEW U \in SUBSET Live(g),
           \A m \in Live(g) : g[m].parent # NULL =>
              \/ g[g[m].parent].parent = NULL
              \/ m \in U /\ g[m].parent \in U /\ m \in Live(h) /\ h[m].parent = g[m].parent
              \/ m \notin U /\ g[m].parent \in U
              \/ m \notin U /\ m \in Live(h) /\ h[m].parent = g[m].parent
    PROVE  Rooted(g)
  <1> SUFFICES ASSUME NEW S \in SUBSET Live(g), S # {}, \A n \in S : g[n].parent \in S
               PROVE  FALSE
    BY DEF Rooted
  <1>1. \A n \in S : n \in Ids /\ n # NULL
    BY TreeConstants DEF Live
  <1>2. \A n \in S : g[n].parent # NULL /\ g[g[n].parent].parent # NULL
    BY <1>1
  <1>3. CASE S \cap U # {}
    <2>1. \A n \in S \cap U : n \in Live(h) /\ h[n].parent \in S \cap U
      BY <1>2
    <2>2. S \cap U \in SUBSET Live(h)
      BY <2>1
    <2> QED BY <1>3, <2>1, <2>2 DEF Rooted
  <1>4. CASE S \cap U = {}
    <2>1. \A n \in S : n \in Live(h) /\ h[n].parent \in S
      BY <1>2, <1>4
    <2>2. S \in SUBSET Live(h)
      BY <2>1
    <2> QED BY <2>1, <2>2 DEF Rooted
  <1> QED BY <1>3, <1>4

-----------------------------------------------------------------------------
(* Trees in a heap *)

\* One step further down
Further(h, S) == S \cup UNION {Offspring(h, m) : m \in S}

Reaches(r, h, n, L) ==
    /\ r \in [0..MaxNodes -> SUBSET L] /\ r[0] = {n}
    /\ \A k \in 1..MaxNodes : r[k] = Further(h, r[k - 1])
    /\ Subtree(h, n) = r[MaxNodes]

\* Subtree takes MaxNodes steps.
LEMMA SubtreeSteps ==
    ASSUME NEW h, NEW n, NEW L, n \in L, \A m \in L : Offspring(h, m) \subseteq L
    PROVE  \E r : Reaches(r, h, n, L)
  <1> DEFINE X == SUBSET L
             l == MaxNodes
             step == [p \in X \X (1..l) |-> Further(h, p[1])]
             rule(f, k) == LET above == f[k - 1] IN above \cup UNION {Offspring(h, m) : m \in above}
             Body(f) == [k \in 0..l |-> IF k = 0 THEN {n} ELSE rule(f, k)]
             r == CHOOSE f : f = Body(f)
  <1>0. l \in Nat
    BY TreeConstants
  <1>1. Subtree(h, n) = r[l]
    BY Zenon DEF Subtree
  <1>2. \A f, k : rule(f, k) = Further(h, f[k - 1])
    BY DEF Further
  <1> HIDE DEF rule
  <1>3. \A S \in X : Further(h, S) \in X
    BY DEF Further
  <1>4. IsStep(step, X, l)
    <2>1. ASSUME NEW p \in X \X (1..l) PROVE Further(h, p[1]) \in X
      <3>1. p[1] \in X
        OBVIOUS
      <3> QED BY <1>3, <3>1
    <2> HIDE DEF X, l
    <2>2. step \in [X \X (1..l) -> X]
      BY <2>1
    <2> QED BY <2>2 DEF IsStep
  <1>5. \A S \in X, k \in 1..l : step[<<S, k>>] = Further(h, S)
    <2> HIDE DEF X, l
    <2> QED OBVIOUS
  <1>6. {n} \in X
    OBVIOUS
  <1> HIDE DEF step, X
  <1>7. PICK g : Iterates(g, X, l, {n}, step)
    BY <1>0, <1>4, <1>6, Iteration, Zenon
  <1>8. /\ g \in [0..l -> X] /\ g[0] = {n}
        /\ \A k \in 1..l : g[k] = Further(h, g[k - 1])
    <2>1. /\ g \in [0..l -> X] /\ g[0] = {n}
          /\ \A k \in 1..l : g[k] = step[<<g[k - 1], k>>]
      BY <1>7 DEF Iterates
    <2>2. \A k \in 1..l : g[k - 1] \in X
      <3> HIDE DEF l
      <3> QED BY <1>0, <2>1
    <2> QED BY <1>5, <2>1, <2>2, Zenon
  <1> HIDE DEF l
  <1>9. g = Body(g)
    <2>1. \A k \in 0..l : g[k] = IF k = 0 THEN {n} ELSE rule(g, k)
      <3> TAKE k \in 0..l
      <3>1. k # 0 => k \in 1..l
        BY <1>0
      <3> QED BY <1>2, <1>8, <3>1
    <2>2. g = [k \in 0..l |-> g[k]]
      BY <1>8
    <2> QED BY <2>1, <2>2
  <1>10. r = Body(r)
    <2> HIDE DEF Body
    <2> QED BY <1>9, Zenon
  <1> HIDE DEF r
  <1>11. /\ r[0] = {n} /\ \A k \in 1..l : r[k] = Further(h, r[k - 1])
         /\ r = [k \in 0..l |-> r[k]]
    <2> DEFINE B == Body(r)
    <2>1. B[0] = {n} /\ (\A k \in 1..l : B[k] = rule(r, k)) /\ B = [k \in 0..l |-> B[k]]
      BY <1>0
    <2> HIDE DEF B
    <2>2. r = B
      BY <1>10 DEF B
    <2> QED BY <1>2, <2>1, <2>2
  <1>12. r \in [0..l -> X]
    <2> DEFINE S == {k \in 0..l : r[k] \in X}
    <2>1. 0 \in S
      <3>1. r[0] \in X /\ 0 \in 0..l
        BY <1>0, <1>6, <1>11
      <3> QED BY <3>1
    <2>2. ASSUME NEW k \in 0..(l - 1), k \in S PROVE k + 1 \in S
      <3>1. k + 1 \in 1..l /\ (k + 1) - 1 = k /\ r[k] \in X
        BY <1>0, <2>2
      <3>2. r[k + 1] = Further(h, r[k])
        BY <1>11, <3>1
      <3> QED BY <1>0, <1>3, <3>1, <3>2 DEF X
    <2>3. \A k \in 0..l : k \in S
      <3> HIDE DEF S
      <3> QED BY <1>0, <2>1, <2>2, SetInduction
    <2> QED BY <1>11, <2>3
  <1>13. r \in [0..MaxNodes -> SUBSET L] /\ Subtree(h, n) = r[MaxNodes]
    BY <1>1, <1>12 DEF X, l
  <1>14. r[0] = {n} /\ \A k \in 1..MaxNodes : r[k] = Further(h, r[k - 1])
    BY <1>11 DEF l
  <1> QED BY <1>13, <1>14 DEF Reaches

\* Subtree is the least set that has the node and what is below its nodes.
LEMMA SubtreeIs ==
    ASSUME NEW h, NEW n, NEW L \in SUBSET Ids, n \in L, \A m \in L : Offspring(h, m) \subseteq L
    PROVE  /\ n \in Subtree(h, n) /\ Subtree(h, n) \subseteq L
           /\ \A m \in Subtree(h, n) : Offspring(h, m) \subseteq Subtree(h, n)
           /\ \A C : n \in C /\ (\A m \in C \cap L : Offspring(h, m) \subseteq C)
                        => Subtree(h, n) \subseteq C
  <1>1. PICK r : /\ r \in [0..MaxNodes -> SUBSET L] /\ r[0] = {n}
                 /\ \A k \in 1..MaxNodes : r[k] = Further(h, r[k - 1])
                 /\ Subtree(h, n) = r[MaxNodes]
    <2>1. \E r : Reaches(r, h, n, L)
      BY SubtreeSteps
    <2> QED BY <2>1 DEF Reaches
  <1>2. MaxNodes \in Nat /\ MaxNodes >= 1 /\ IsFiniteSet(Ids) /\ Cardinality(Ids) = MaxNodes
    BY TreeConstants
  <1>3. \A k \in 0..(MaxNodes - 1) :
           k + 1 \in 0..MaxNodes /\ k \in 0..MaxNodes /\ r[k + 1] = Further(h, r[k])
    BY <1>1, <1>2
  <1>4. \A S : S \subseteq Further(h, S) /\ (Further(h, S) = S => \A m \in S : Offspring(h, m) \subseteq S)
    BY DEF Further
  <1>5. \A k \in 0..MaxNodes : n \in r[k] /\ r[k] \in SUBSET L
    <2> DEFINE S == {k \in 0..MaxNodes : n \in r[k]}
    <2>1. 0 \in S
      BY <1>1, <1>2
    <2>2. \A k \in 0..(MaxNodes - 1) : k \in S => k + 1 \in S
      BY <1>3, <1>4
    <2>3. \A k \in 0..MaxNodes : k \in S
      <3> HIDE DEF S
      <3> QED BY <1>2, <2>1, <2>2, SetInduction
    <2> QED BY <1>1, <2>3
  <1>6. \A T \in SUBSET L : IsFiniteSet(T) /\ Cardinality(T) \in Nat /\ Cardinality(T) <= MaxNodes
    <2> TAKE T \in SUBSET L
    <2>1. T \in SUBSET Ids
      OBVIOUS
    <2> QED BY <1>2, <2>1, FS_Subset, FS_CardinalityType
  <1>7. \A k \in 0..MaxNodes : Cardinality(r[k]) >= k + 1 \/ Further(h, r[k]) = r[k]
    <2> DEFINE S == {k \in 0..MaxNodes : Cardinality(r[k]) >= k + 1 \/ Further(h, r[k]) = r[k]}
    <2>1. 0 \in S
      <3>1. Cardinality({n}) = 1
        BY FS_Singleton
      <3>2. Cardinality(r[0]) >= 0 + 1 /\ 0 \in 0..MaxNodes
        BY <1>1, <1>2, <3>1
      <3> QED BY <3>2
    <2>2. ASSUME NEW k \in 0..(MaxNodes - 1), k \in S PROVE k + 1 \in S
      <3>1. CASE Further(h, r[k]) = r[k]
        BY <1>3, <3>1
      <3>2. CASE Further(h, r[k]) # r[k]
        <4>1. r[k] \subseteq r[k + 1] /\ r[k] # r[k + 1] /\ r[k + 1] \in SUBSET L /\ r[k] \in SUBSET L
          BY <1>3, <1>4, <1>5, <3>2
        <4>2. /\ Cardinality(r[k]) <= Cardinality(r[k + 1])
              /\ Cardinality(r[k + 1]) # Cardinality(r[k])
          BY <1>6, <4>1, FS_Subset
        <4>3. Cardinality(r[k]) \in Nat /\ Cardinality(r[k + 1]) \in Nat /\ Cardinality(r[k]) >= k + 1
          BY <1>6, <2>2, <3>2, <4>1
        <4> QED BY <1>3, <4>2, <4>3
      <3> QED BY <3>1, <3>2
    <2>3. \A k \in 0..MaxNodes : k \in S
      <3> HIDE DEF S
      <3> QED BY <1>2, <2>1, <2>2, SetInduction
    <2> QED BY <2>3
  <1>8. Further(h, r[MaxNodes]) = r[MaxNodes]
    <2>1. MaxNodes \in 0..MaxNodes
      BY <1>2
    <2>2. Cardinality(r[MaxNodes]) \in Nat /\ Cardinality(r[MaxNodes]) <= MaxNodes
      BY <1>5, <1>6, <2>1
    <2>3. ~(Cardinality(r[MaxNodes]) >= MaxNodes + 1)
      BY <1>2, <2>2
    <2> QED BY <1>7, <2>1, <2>3
  <1>9. ASSUME NEW C, n \in C, \A m \in C \cap L : Offspring(h, m) \subseteq C
        PROVE  r[MaxNodes] \subseteq C
    <2> DEFINE S == {k \in 0..MaxNodes : r[k] \subseteq C}
    <2>1. 0 \in S
      BY <1>1, <1>2, <1>9
    <2>2. ASSUME NEW k \in 0..(MaxNodes - 1), k \in S PROVE k + 1 \in S
      <3>1. r[k] \subseteq C \cap L
        BY <1>3, <1>5, <2>2
      <3>2. Further(h, r[k]) \subseteq C
        BY <1>9, <3>1 DEF Further
      <3> QED BY <1>3, <3>2
    <2>3. \A k \in 0..MaxNodes : k \in S
      <3> HIDE DEF S
      <3> QED BY <1>2, <2>1, <2>2, SetInduction
    <2> QED BY <1>2, <2>3
  <1>10. MaxNodes \in 0..MaxNodes
    BY <1>2
  <1> QED BY <1>1, <1>4, <1>5, <1>8, <1>9, <1>10

\* What is below a node of a well-formed heap.
LEMMA OffspringIs ==
    ASSUME NEW h, Good(h), NEW m \in Live(h)
    PROVE  /\ \A c : c \in Offspring(h, m) <=> \E i \in 1..Len(h[m].items) : h[m].items[i] = c
           /\ \A c : c \in Offspring(h, m) <=> c \in Live(h) /\ h[c].parent = m
           /\ Offspring(h, m) \subseteq Live(h)
  <1>1. /\ DOMAIN h[m].items = 1..Len(h[m].items)
        /\ \A i \in 1..Len(h[m].items) : h[m].items[i] \in Live(h) /\ h[h[m].items[i]].parent = m
        /\ m # NULL
    BY GoodAt
  <1>2. \A c : c \in Offspring(h, m) <=>
                 \E i \in 1..Len(h[m].items) : h[m].items[i] = c /\ h[c].parent = m
    BY <1>1 DEF Offspring, ToSet
  <1>3. ASSUME NEW c \in Live(h), h[c].parent = m
        PROVE  \E i \in 1..Len(h[m].items) : h[m].items[i] = c
    <2>1. h[c].parent # NULL
      BY <1>1, <1>3
    <2>2. \E i \in 1..Len(h[h[c].parent].items) : h[h[c].parent].items[i] = c
      BY <2>1, GoodAt
    <2> QED BY <1>3, <2>2
  <1> QED BY <1>1, <1>2, <1>3

\* The tree below a node of a well-formed heap.
LEMMA SubtreeGood ==
    ASSUME NEW h, Good(h), NEW n \in Live(h)
    PROVE  /\ n \in Subtree(h, n) /\ Subtree(h, n) \subseteq Live(h)
           /\ \A m \in Live(h) : h[m].parent \in Subtree(h, n) => m \in Subtree(h, n)
           /\ \A m \in Subtree(h, n) : m = n \/ h[m].parent \in Subtree(h, n)
           /\ \A U : Up(h, U) /\ n \notin U => U \cap Subtree(h, n) = {}
  <1> DEFINE L == Live(h)
             T == Subtree(h, n)
  <1>1. L \in SUBSET Ids /\ n \in L /\ \A m \in L : Offspring(h, m) \subseteq L
    BY OffspringIs DEF Live
  <1>2. /\ n \in T /\ T \subseteq L
        /\ \A m \in T : Offspring(h, m) \subseteq T
        /\ \A C : n \in C /\ (\A m \in C \cap L : Offspring(h, m) \subseteq C) => T \subseteq C
    <2> HIDE DEF L
    <2> QED BY <1>1, SubtreeIs
  <1> HIDE DEF T
  <1>3. \A m \in Live(h) : h[m].parent \in T => m \in T
    <2> TAKE m \in Live(h)
    <2> HAVE h[m].parent \in T
    <2>1. h[m].parent \in Live(h)
      BY <1>2
    <2>2. m \in Offspring(h, h[m].parent)
      BY <2>1, OffspringIs
    <2> QED BY <1>2, <2>2
  <1>4. \A m \in T : m = n \/ h[m].parent \in T
    <2> DEFINE C == {m \in T : m = n \/ h[m].parent \in T}
    <2>1. \A m \in C \cap L : Offspring(h, m) \subseteq C
      <3> TAKE m \in C \cap L
      <3>1. \A c \in Offspring(h, m) : c \in T /\ h[c].parent = m
        BY <1>2, OffspringIs
      <3> QED BY <3>1
    <2>2. n \in C
      BY <1>2
    <2>3. T \subseteq C
      <3> HIDE DEF C, L
      <3> QED BY <1>2, <2>1, <2>2
    <2> QED BY <2>3
  <1>5. ASSUME NEW U, Up(h, U), n \notin U PROVE U \cap T = {}
    <2> DEFINE C == Live(h) \ U
    <2>1. \A m \in C \cap L : Offspring(h, m) \subseteq C
      <3> TAKE m \in C \cap L
      <3>1. \A c \in Offspring(h, m) : c \in Live(h) /\ h[c].parent = m
        BY OffspringIs
      <3>2. m # NULL
        BY GoodAt
      <3>3. \A c \in U : h[c].parent \in U \cup {NULL}
        BY <1>5 DEF Up
      <3> QED BY <3>1, <3>2, <3>3
    <2>2. n \in C
      BY <1>5
    <2>3. T \subseteq C
      <3> HIDE DEF C, L
      <3> QED BY <1>2, <2>1, <2>2
    <2> QED BY <2>3
  <1> QED BY <1>2, <1>3, <1>4, <1>5 DEF T

-----------------------------------------------------------------------------
(* Links of a node *)

\* What a node says of the nodes below it, and of the one above it.
LinkedDown(h, n) ==
    /\ \A i \in 1..Len(h[n].items) :
          h[n].items[i] \in Live(h) /\ h[h[n].items[i]].parent = n
    /\ \A i, j \in 1..Len(h[n].items) : h[n].items[i] = h[n].items[j] => i = j
    /\ h[n].type = "array" => \A i \in 1..Len(h[n].items) : h[h[n].items[i]].index = i - 1
    /\ h[n].type = "map" =>
          /\ \A i \in 1..Len(h[n].items) : h[h[n].items[i]].key # NoKey
          /\ \A i, j \in 1..Len(h[n].items) :
                h[h[n].items[i]].key = h[h[n].items[j]].key => i = j

LinkedUp(h, n) ==
    h[n].parent # NULL =>
        /\ h[n].parent \in Live(h)
        /\ \E i \in 1..Len(h[h[n].parent].items) : h[h[n].parent].items[i] = n

\* Both together are Linked.
LEMMA LinkedBoth ==
    ASSUME NEW h \in Heaps
    PROVE  Linked(h) <=> \A n \in Live(h) : LinkedDown(h, n) /\ LinkedUp(h, n)
  BY LinkedIs, Zenon DEF LinkedDown, LinkedUp

\* A node whose children are as they were
LEMMA DownSame ==
    ASSUME NEW h, NEW g, NEW n, LinkedDown(h, n), g[n].items = h[n].items, g[n].type = h[n].type,
           \A i \in 1..Len(h[n].items) :
              LET c == h[n].items[i] IN
              /\ c \in Live(g) /\ g[c].parent = n
              /\ g[c].key = h[c].key /\ g[c].index = h[c].index
    PROVE  LinkedDown(g, n)
  BY DEF LinkedDown

\* A node whose parent is as it was
LEMMA UpSame ==
    ASSUME NEW h, NEW g, NEW n, LinkedUp(h, n), g[n].parent = h[n].parent,
           h[n].parent # NULL => /\ h[n].parent \in Live(g)
                                 /\ g[h[n].parent].items = h[h[n].parent].items
    PROVE  LinkedUp(g, n)
  BY DEF LinkedUp

\* A well-formed heap, link by link
LEMMA GoodLinks ==
    ASSUME NEW h, Good(h)
    PROVE  h \in Heaps /\ \A n \in Live(h) : LinkedDown(h, n) /\ LinkedUp(h, n)
  BY LinkedBoth DEF Good

\* One call after the other: what the second one changes is below what the
\* first one may change.
LEMMA KeptTrans ==
    ASSUME NEW h, NEW k, NEW g, NEW X, NEW Y, Kept(h, k, X), Kept(k, g, Y),
           \A m \in Y : m \in Live(h) => m \in X \/ (h[m].parent # NULL /\ h[m].parent \in X)
    PROVE  Kept(h, g, X)
  <1> SUFFICES ASSUME NEW U \in SUBSET Ids, Up(h, U), U \cap X = {}
               PROVE  \A m \in U : g[m] = h[m]
    BY DEF Kept
  <1>1. \A m \in U : k[m] = h[m]
    BY DEF Kept
  <1>4. \A m \in U : m \in Live(h) /\ h[m].parent \in U \cup {NULL}
    BY DEF Up
  <1>2. Up(k, U)
    <2>2. \A m \in U : m \in Live(k)
      BY <1>1, <1>4 DEF Live
    <2> QED BY <1>1, <1>4, <2>2 DEF Up
  <1>3. U \cap Y = {}
    BY <1>4
  <1> QED BY <1>1, <1>2, <1>3 DEF Kept

\* A call that changes nothing but some nodes and what is right below them
LEMMA KeptBy ==
    ASSUME NEW h, NEW g, NEW X,
           \A m \in Live(h) : \/ g[m] = h[m]
                              \/ m \in X
                              \/ h[m].parent # NULL /\ h[m].parent \in X
    PROVE  Kept(h, g, X)
  BY DEF Kept, Up

\* What changes no more than X and what is below it changes no more than a larger set.
LEMMA KeptMore ==
    ASSUME NEW h, NEW g, NEW X, NEW Y, Kept(h, g, X), X \subseteq Y
    PROVE  Kept(h, g, Y)
  BY DEF Kept

\* A node is not its own parent, and not its parent's parent.
LEMMA ParentOther ==
    ASSUME NEW h, Good(h), NEW n \in Live(h)
    PROVE  h[n].parent # n
  <1>1. {n} \in SUBSET Live(h) /\ Rooted(h)
    BY DEF Good
  <1> QED BY <1>1 DEF Rooted

\* A tree of its own is freed.
LEMMA RootDropped ==
    ASSUME NEW h, Good(h), NEW n \in Roots(h), NEW g,
           g = [m \in Ids |-> IF m \in Subtree(h, n) THEN FreeNode ELSE h[m]]
    PROVE  /\ Good(g) /\ Live(g) = Live(h) \ Subtree(h, n) /\ n \notin Live(g)
           /\ Roots(g) = Roots(h) \ {n} /\ Kept(h, g, {n})
  <1> DEFINE T == Subtree(h, n)
  <1>1. n \in Live(h) /\ h[n].parent = NULL /\ h \in Heaps
    BY DEF Roots, Good
  <1>2. /\ n \in T /\ T \subseteq Live(h)
        /\ \A m \in Live(h) : h[m].parent \in T => m \in T
        /\ \A m \in T : m = n \/ h[m].parent \in T
        /\ \A U : Up(h, U) /\ n \notin U => U \cap T = {}
    BY <1>1, SubtreeGood
  <1> HIDE DEF T
  <1>3. /\ \A m \in Ids : g[m] = IF m \in T THEN FreeNode ELSE h[m]
        /\ g = [m \in Ids |-> g[m]]
    BY DEF T
  <1>4. FreeNode.type = "free"
    BY DEF FreeNode
  <1>5. Live(g) = Live(h) \ T
    BY <1>3, <1>4 DEF Live
  <1>6. \A m \in Live(g) : g[m] = h[m] /\ m \in Live(h) /\ m \notin T
    BY <1>3, <1>5 DEF Live
  <1>7. g \in Heaps
    <2>1. \A m \in Ids : h[m] \in Node \cup {FreeNode}
      BY <1>1 DEF Heaps
    <2> QED BY <1>3, <2>1 DEF Heaps
  <1>8. ASSUME NEW m \in Live(g) PROVE LinkedDown(g, m) /\ LinkedUp(g, m)
    <2>1. LinkedDown(h, m) /\ LinkedUp(h, m)
      BY <1>6, GoodLinks
    <2>2. \A i \in 1..Len(h[m].items) :
             h[m].items[i] \in Live(h) /\ h[h[m].items[i]].parent = m
      BY <2>1 DEF LinkedDown
    <2>3. \A c \in Live(h) : h[c].parent = m => c \notin T
      <3> TAKE c \in Live(h)
      <3> HAVE h[c].parent = m
      <3>1. m # NULL /\ m \notin T
        BY <1>6, TreeConstants DEF Live
      <3> QED BY <1>1, <1>2, <3>1
    <2>4. \A i \in 1..Len(h[m].items) :
             h[m].items[i] \in Live(g) /\ g[h[m].items[i]] = h[h[m].items[i]]
      BY <1>5, <1>6, <2>2, <2>3
    <2>5. g[m] = h[m]
      BY <1>6
    <2>6. LinkedDown(g, m)
      <3>1. \A i \in 1..Len(h[m].items) :
               LET c == h[m].items[i] IN
               /\ c \in Live(g) /\ g[c].parent = m
               /\ g[c].key = h[c].key /\ g[c].index = h[c].index
        BY <2>2, <2>4
      <3> QED BY ONLY <2>1, <2>5, <3>1, DownSame
    <2>7. h[m].parent # NULL => h[m].parent \in Live(g) /\ g[h[m].parent] = h[h[m].parent]
      <3> HAVE h[m].parent # NULL
      <3>1. h[m].parent \in Live(h)
        BY <2>1 DEF LinkedUp
      <3>2. h[m].parent \notin T
        BY <1>2, <1>6
      <3> QED BY <1>5, <1>6, <3>1, <3>2
    <2>8. LinkedUp(g, m)
      BY <2>1, <2>5, <2>7, UpSame
    <2> QED BY <2>6, <2>8
  <1>9. Linked(g)
    BY <1>7, <1>8, LinkedBoth
  <1>10. Rooted(g)
    <2>1. Rooted(h)
      BY DEF Good
    <2> DEFINE U == {}
    <2>2. U \in SUBSET Live(g)
      OBVIOUS
    <2>3. \A m \in Live(g) : m \notin U /\ m \in Live(h) /\ h[m].parent = g[m].parent
      BY <1>6
    <2> HIDE DEF U
    <2> QED BY <2>1, <2>2, <2>3, RootedBy
  <1>11. Roots(g) = Roots(h) \ {n}
    <2>1. \A m \in Roots(h) : m \in T => m = n
      <3> TAKE m \in Roots(h)
      <3>1. h[m].parent = NULL /\ NULL \notin T
        BY <1>2, TreeConstants DEF Roots, Live
      <3> QED BY <1>2, <3>1
    <2> QED BY <1>2, <1>5, <1>6, <2>1 DEF Roots
  <1>12. Kept(h, g, {n})
    <2> SUFFICES ASSUME NEW U \in SUBSET Ids, Up(h, U), n \notin U
                 PROVE  \A m \in U : g[m] = h[m]
      BY DEF Kept
    <2>1. U \cap T = {}
      BY <1>2
    <2> QED BY <1>3, <2>1
  <1> QED BY <1>2, <1>5, <1>7, <1>9, <1>10, <1>11, <1>12 DEF Good, T

\* A list of different nodes is no longer than the memory.
LEMMA ListFits ==
    ASSUME NEW s \in Seq(Ids), \A i, j \in 1..Len(s) : s[i] = s[j] => i = j
    PROVE  Len(s) \in Nat /\ Len(s) <= MaxNodes
  <1>1. Len(s) \in Nat /\ s \in [1..Len(s) -> Ids]
    OBVIOUS
  <1>2. s \in Injection(1..Len(s), Ids)
    BY <1>1 DEF Injection, IsInjective
  <1>3. Cardinality(1..Len(s)) <= MaxNodes
    BY <1>2, FS_Injection, TreeConstants
  <1>4. Cardinality(1..Len(s)) = Len(s)
    BY <1>1, FS_Interval
  <1> QED BY <1>1, <1>3, <1>4

\* The position of an item
LEMMA PlaceIs ==
    ASSUME NEW s \in Seq(Ids), \A i, j \in 1..Len(s) : s[i] = s[j] => i = j, NEW i \in 1..Len(s)
    PROVE  SelectInSeq(s, LAMBDA c : c = s[i]) = i
  <1> DEFINE I == {k \in 1..Len(s) : s[k] = s[i]}
  <1>1. SelectInSeq(s, LAMBDA c : c = s[i]) = IF I # {} THEN Min(I) ELSE 0
    BY Zenon DEF SelectInSeq
  <1>2. I = {i}
    OBVIOUS
  <1>3. Min({i}) \in {i}
    <2>1. {i} \in SUBSET Nat /\ {i} # {}
      OBVIOUS
    <2> QED BY <2>1, LeastIs
  <1> HIDE DEF I
  <1> QED BY <1>1, <1>2, <1>3

-----------------------------------------------------------------------------
(* Whole trees and lists *)

\* Whole trees
WholeTrees(h, W) ==
    /\ W \subseteq Live(h)
    /\ \A m \in Live(h) : h[m].parent # NULL => (m \in W <=> h[m].parent \in W)

\* What a call leaves alone stays as it is.
LEMMA KeptUp ==
    ASSUME NEW h, NEW g, NEW X, Kept(h, g, X), NEW W, Up(h, W), W \cap X = {}
    PROVE  /\ \A m \in W : g[m] = h[m]
           /\ Up(g, W)
  <1>1. W \in SUBSET Ids
    BY DEF Up, Live
  <1>2. \A m \in W : g[m] = h[m]
    BY <1>1 DEF Kept
  <1>3. \A m \in W : m \in Live(h) /\ h[m].parent \in W \cup {NULL}
    BY DEF Up
  <1>4. \A m \in W : m \in Live(g)
    BY <1>2, <1>3 DEF Live
  <1> QED BY <1>2, <1>3, <1>4 DEF Up

\* Whole trees, and what is left without them, have all that is above their nodes.
LEMMA TreesUp ==
    ASSUME NEW h, Good(h), NEW W, WholeTrees(h, W)
    PROVE  Up(h, W) /\ Up(h, Live(h) \ W) /\ WholeTrees(h, Live(h) \ W)
  <1>1. \A m \in Live(h) : h[m].parent # NULL => h[m].parent \in Live(h)
    BY GoodAt
  <1>2. W \subseteq Live(h) /\ \A m \in Live(h) : h[m].parent # NULL => (m \in W <=> h[m].parent \in W)
    BY DEF WholeTrees
  <1>3. \A m \in W : h[m].parent \in W \cup {NULL}
    BY <1>2
  <1>4. \A m \in Live(h) \ W : h[m].parent \in (Live(h) \ W) \cup {NULL}
    BY <1>1, <1>2
  <1> QED BY <1>1, <1>2, <1>3, <1>4 DEF WholeTrees, Up

\* All that lives are whole trees.
LEMMA TreesAll ==
    ASSUME NEW h, Good(h)
    PROVE  WholeTrees(h, Live(h)) /\ Up(h, Live(h))
  <1>1. \A m \in Live(h) : h[m].parent # NULL => h[m].parent \in Live(h)
    BY GoodAt
  <1> QED BY <1>1 DEF WholeTrees, Up

\* WholeTrees a call leaves alone are trees afterwards.
LEMMA TreesKept ==
    ASSUME NEW h, Good(h), NEW g, Good(g), NEW W, WholeTrees(h, W), \A m \in W : g[m] = h[m]
    PROVE  WholeTrees(g, W)
  <1>1. W \subseteq Live(h) /\ \A m \in Live(h) : h[m].parent # NULL => (m \in W <=> h[m].parent \in W)
    BY DEF WholeTrees
  <1>2. W \subseteq Live(g)
    BY <1>1 DEF Live
  <1>3. ASSUME NEW m \in Live(g), g[m].parent # NULL, m \in W PROVE g[m].parent \in W
    BY <1>1, <1>3
  <1>4. ASSUME NEW m \in Live(g), g[m].parent # NULL, g[m].parent \in W PROVE m \in W
    <2> DEFINE p == g[m].parent
    <2>1. p \in Live(h) /\ g[p] = h[p] /\ p # NULL
      BY <1>1, <1>4
    <2>2. PICK i \in 1..Len(g[p].items) : g[p].items[i] = m
      BY <1>4, GoodAt
    <2>3. m \in Live(h) /\ h[m].parent = p
      BY <2>1, <2>2, GoodAt
    <2> QED BY <1>1, <1>4, <2>1, <2>3
  <1> QED BY <1>2, <1>3, <1>4 DEF WholeTrees

\* The tree of a root is a whole tree, and what is not below a node has all
\* that is above it.
LEMMA TreeOf ==
    ASSUME NEW h, Good(h), NEW n \in Live(h)
    PROVE  /\ Up(h, Live(h) \ Subtree(h, n))
           /\ h[n].parent = NULL => WholeTrees(h, Subtree(h, n))
           /\ h[n].parent # NULL => h[n].parent \notin Subtree(h, n)
  <1> DEFINE T == Subtree(h, n)
  <1>1. /\ n \in T /\ T \subseteq Live(h)
        /\ \A m \in Live(h) : h[m].parent \in T => m \in T
        /\ \A m \in T : m = n \/ h[m].parent \in T
    BY SubtreeGood
  <1> HIDE DEF T
  <1>2. Up(h, Live(h) \ T)
    <2>1. \A m \in Live(h) : h[m].parent # NULL => h[m].parent \in Live(h)
      BY GoodAt
    <2> QED BY <1>1, <2>1 DEF Up
  <1>3. h[n].parent = NULL => WholeTrees(h, T)
    BY <1>1 DEF WholeTrees
  <1>4. h[n].parent \notin T
    <2> SUFFICES ASSUME h[n].parent \in T PROVE FALSE
      OBVIOUS
    <2>1. T \in SUBSET Live(h) /\ T # {} /\ \A m \in T : h[m].parent \in T
      BY <1>1
    <2>2. Rooted(h)
      BY DEF Good
    <2> QED BY <2>1, <2>2 DEF Rooted
  <1> QED BY <1>2, <1>3, <1>4 DEF T

\* Every live node is in the tree of a root.
LEMMA RootAbove ==
    ASSUME NEW h, Good(h)
    PROVE  Live(h) = UNION {Subtree(h, n) : n \in Roots(h)}
  <1> DEFINE A == UNION {Subtree(h, n) : n \in Roots(h)}
  <1>1. A \subseteq Live(h)
    BY SubtreeGood DEF Roots
  <1>2. ASSUME Live(h) \ A # {} PROVE FALSE
    <2>1. Live(h) \ A \in SUBSET Live(h) /\ Rooted(h)
      BY DEF Good
    <2>2. PICK m \in Live(h) \ A : h[m].parent \notin Live(h) \ A
      BY <1>2, <2>1 DEF Rooted
    <2>3. h[m].parent # NULL
      <3>1. m \in Roots(h) => m \in Subtree(h, m)
        BY SubtreeGood DEF Roots
      <3> QED BY <2>2, <3>1 DEF Roots
    <2>4. h[m].parent \in A
      BY <2>2, <2>3, GoodAt
    <2>5. PICK n \in Roots(h) : h[m].parent \in Subtree(h, n)
      BY <2>4
    <2>6. m \in Subtree(h, n)
      BY <2>2, <2>5, SubtreeGood DEF Roots
    <2> QED BY <2>2, <2>5, <2>6
  <1> QED BY <1>1, <1>2

\* A list with an item put in
LEMMA Inserted ==
    ASSUME NEW s \in Seq(Ids), NEW e \in Ids, NEW k \in 1..(Len(s) + 1),
           \A i, j \in 1..Len(s) : s[i] = s[j] => i = j,
           \A i \in 1..Len(s) : s[i] # e
    PROVE  LET t == InsertAt(s, k, e) IN
           /\ t \in Seq(Ids) /\ Len(t) = Len(s) + 1
           /\ \A i, j \in 1..Len(t) : t[i] = t[j] => i = j
           /\ \A i \in 1..Len(t) : t[i] = e \/ \E j \in 1..Len(s) : t[i] = s[j]
           /\ \A j \in 1..Len(s) : \E i \in 1..Len(t) : t[i] = s[j]
           /\ \E i \in 1..Len(t) : t[i] = e
  <1> DEFINE a == SubSeq(s, 1, k - 1)
             b == SubSeq(s, k, Len(s))
             t == InsertAt(s, k, e)
  <1>1. Len(s) \in Nat /\ k \in Nat
    OBVIOUS
  <1>2. /\ a \in Seq(Ids) /\ Len(a) = k - 1 /\ \A i \in 1..(k - 1) : a[i] = s[i]
        /\ b \in Seq(Ids) /\ Len(b) = Len(s) - k + 1 /\ \A i \in 1..(Len(s) - k + 1) : b[i] = s[i + k - 1]
    BY <1>1
  <1> HIDE DEF a, b
  <1>3. t = a \o <<e>> \o b
    BY DEF InsertAt, a, b
  <1>4. /\ t \in Seq(Ids) /\ Len(t) = Len(s) + 1
        /\ \A i \in 1..Len(t) : t[i] = IF i < k THEN s[i] ELSE IF i = k THEN e ELSE s[i - 1]
    <2> DEFINE c == a \o <<e>>
    <2>1. /\ c \in Seq(Ids) /\ Len(c) = k
          /\ \A i \in 1..k : c[i] = IF i < k THEN s[i] ELSE e
      BY <1>1, <1>2
    <2>2. t = c \o b
      BY <1>3
    <2> HIDE DEF c, t
    <2>3. t \in Seq(Ids) /\ Len(t) = Len(s) + 1
      BY <1>1, <1>2, <2>1, <2>2
    <2>4. \A i \in 1..Len(t) : t[i] = IF i <= k THEN c[i] ELSE b[i - k]
      BY <1>1, <1>2, <2>1, <2>2, <2>3
    <2>5. \A i \in 1..Len(t) : i > k => b[i - k] = s[i - 1]
      <3> TAKE i \in 1..Len(t)
      <3> HAVE i > k
      <3>1. i - k \in 1..(Len(s) - k + 1) /\ (i - k) + k - 1 = i - 1
        BY <1>1, <2>3
      <3> QED BY <1>2, <3>1
    <2>6. \A i \in 1..Len(t) : t[i] = IF i < k THEN s[i] ELSE IF i = k THEN e ELSE s[i - 1]
      <3> TAKE i \in 1..Len(t)
      <3>1. i \in Int
        OBVIOUS
      <3>2. CASE i <= k
        <4>1. i \in 1..k
          BY <3>1, <3>2
        <4> QED BY <1>1, <2>1, <2>4, <4>1
      <3>3. CASE i > k
        BY <1>1, <2>4, <2>5, <3>1, <3>3
      <3> QED BY <1>1, <3>1, <3>2, <3>3
    <2> QED BY <2>3, <2>6
  <1> HIDE DEF t
  <1>9. \A i \in 1..Len(t) : i # k =>
           LET j == IF i < k THEN i ELSE i - 1 IN j \in 1..Len(s) /\ t[i] = s[j] /\ t[i] # e
    <2> TAKE i \in 1..Len(t)
    <2> HAVE i # k
    <2>1. CASE i < k
      <3>1. i \in 1..Len(s) /\ t[i] = s[i]
        BY <1>1, <1>4, <2>1
      <3> QED BY <2>1, <3>1
    <2>2. CASE i > k
      <3>1. i - 1 \in 1..Len(s) /\ t[i] = s[i - 1] /\ ~(i < k)
        BY <1>1, <1>4, <2>2
      <3> QED BY <3>1
    <2> QED BY <1>1, <2>1, <2>2
  <1>10. k \in 1..Len(t) /\ t[k] = e
    BY <1>1, <1>4
  <1>5. ASSUME NEW i \in 1..Len(t), NEW j \in 1..Len(t), t[i] = t[j] PROVE i = j
    <2>1. CASE i # k /\ j # k
      <3>1. (IF i < k THEN i ELSE i - 1) = (IF j < k THEN j ELSE j - 1)
        BY <1>5, <1>9, <2>1
      <3> QED BY <1>1, <2>1, <3>1
    <2> QED BY <1>5, <1>9, <1>10, <2>1
  <1>6. \A i \in 1..Len(t) : t[i] = e \/ \E j \in 1..Len(s) : t[i] = s[j]
    BY <1>9, <1>10, Zenon
  <1>7. \A j \in 1..Len(s) : \E i \in 1..Len(t) : t[i] = s[j]
    <2> TAKE j \in 1..Len(s)
    <2>1. CASE j < k
      BY <1>1, <1>4, <2>1
    <2>2. CASE j >= k
      <3>1. j + 1 \in 1..Len(t) /\ t[j + 1] = s[j]
        BY <1>1, <1>4, <2>2
      <3> QED BY <3>1
    <2> QED BY <1>1, <2>1, <2>2
  <1>8. \E i \in 1..Len(t) : t[i] = e
    <2>1. k \in 1..Len(t) /\ t[k] = e
      BY <1>1, <1>4
    <2> QED BY <2>1
  <1> QED BY <1>4, <1>5, <1>6, <1>7, <1>8 DEF t

\* A list without an item
LEMMA Removed ==
    ASSUME NEW s \in Seq(Ids), NEW k \in 1..Len(s),
           \A i, j \in 1..Len(s) : s[i] = s[j] => i = j
    PROVE  LET t == RemoveFirst(s, s[k]) IN
           /\ t \in Seq(Ids)
           /\ \A i, j \in 1..Len(t) : t[i] = t[j] => i = j
           /\ \A i \in 1..Len(t) : \E j \in 1..Len(s) : t[i] = s[j] /\ j # k
           /\ \A j \in 1..Len(s) : j # k => \E i \in 1..Len(t) : t[i] = s[j]
  <1> DEFINE a == SubSeq(s, 1, k - 1)
             b == SubSeq(s, k + 1, Len(s))
             t == RemoveFirst(s, s[k])
  <1>1. Len(s) \in Nat /\ k \in Nat
    OBVIOUS
  <1>2. /\ a \in Seq(Ids) /\ Len(a) = k - 1 /\ \A i \in 1..(k - 1) : a[i] = s[i]
        /\ b \in Seq(Ids) /\ Len(b) = Len(s) - k /\ \A i \in 1..(Len(s) - k) : b[i] = s[i + k]
    BY <1>1
  <1> HIDE DEF a, b
  <1>3. t = RemoveAt(s, SelectInSeq(s, LAMBDA v : v = s[k]))
    BY Zenon DEF RemoveFirst
  <1>4. SelectInSeq(s, LAMBDA v : v = s[k]) = k
    BY PlaceIs
  <1>5. t = a \o b
    BY <1>3, <1>4 DEF RemoveAt, a, b
  <1>6. /\ t \in Seq(Ids) /\ Len(t) = Len(s) - 1
        /\ \A i \in 1..Len(t) : t[i] = IF i < k THEN s[i] ELSE s[i + 1]
    <2> HIDE DEF t
    <2>1. t \in Seq(Ids) /\ Len(t) = Len(s) - 1
      BY <1>1, <1>2, <1>5
    <2>2. \A i \in 1..Len(t) : i < k => t[i] = s[i]
      BY <1>1, <1>2, <1>5, <2>1
    <2>3. \A i \in 1..Len(t) : ~(i < k) => t[i] = b[i - (k - 1)] /\ i - (k - 1) \in 1..(Len(s) - k)
      BY <1>1, <1>2, <1>5, <2>1
    <2>4. \A i \in 1..Len(t) : ~(i < k) => t[i] = s[i + 1]
      BY <1>1, <1>2, <2>3
    <2> QED BY <2>1, <2>2, <2>4
  <1> HIDE DEF t
  <1>7. \A i, j \in 1..Len(t) : t[i] = t[j] => i = j
    BY <1>1, <1>6
  <1>8. \A i \in 1..Len(t) : \E j \in 1..Len(s) : t[i] = s[j] /\ j # k
    <2> TAKE i \in 1..Len(t)
    <2>1. CASE i < k
      BY <1>1, <1>6, <2>1
    <2>2. CASE i >= k
      <3>1. i + 1 \in 1..Len(s) /\ t[i] = s[i + 1] /\ i + 1 # k
        BY <1>1, <1>6, <2>2
      <3> QED BY <3>1
    <2> QED BY <1>1, <2>1, <2>2
  <1>9. \A j \in 1..Len(s) : j # k => \E i \in 1..Len(t) : t[i] = s[j]
    <2> TAKE j \in 1..Len(s)
    <2>1. CASE j < k
      BY <1>1, <1>6, <2>1
    <2>2. CASE j > k
      <3>1. j - 1 \in 1..Len(t) /\ t[j - 1] = s[j]
        BY <1>1, <1>6, <2>2
      <3> QED BY <3>1
    <2> QED BY <1>1, <2>1, <2>2
  <1> QED BY <1>6, <1>7, <1>8, <1>9 DEF t

-----------------------------------------------------------------------------
(* Stores; a root joins the children of a node *)

\* A store as its three parts
IsStore(s) == s = [heap |-> s.heap, left |-> s.left, r |-> s.r]

\* The fields of a store after Yields, Spent and Return
LEMMA StoreIs ==
    ASSUME NEW s, IsStore(s)
    PROVE  /\ \A x : /\ Yields(s, x).heap = s.heap /\ Yields(s, x).left = s.left
                     /\ Yields(s, x).r = x /\ IsStore(Yields(s, x))
           /\ \A k : /\ Spent(s, k).heap = s.heap /\ Spent(s, k).left = s.left - k
                     /\ Spent(s, k).r = s.r /\ IsStore(Spent(s, k))
           /\ \A h, x : /\ Return(s, h, x).heap = h /\ Return(s, h, x).left = s.left
                        /\ Return(s, h, x).r = x /\ IsStore(Return(s, h, x))
  <1> DEFINE a == s.heap
             b == s.left
             c == s.r
  <1>1. s = [heap |-> a, left |-> b, r |-> c]
    BY DEF IsStore
  <1> HIDE DEF a, b, c
  <1>2. /\ \A x : Yields(s, x) = [heap |-> a, left |-> b, r |-> x]
        /\ \A k : Spent(s, k) = [heap |-> a, left |-> b - k, r |-> c]
        /\ \A h, x : Return(s, h, x) = [heap |-> h, left |-> b, r |-> x]
        /\ s.heap = a /\ s.left = b /\ s.r = c
    BY <1>1 DEF Yields, Spent, Return
  <1> QED BY <1>2 DEF IsStore

\* Yields changes the result of a store.
LEMMA YieldsIs ==
    ASSUME NEW s, IsStore(s), NEW t, NEW x, t = Yields(s, x)
    PROVE  t.heap = s.heap /\ t.left = s.left /\ t.r = x /\ IsStore(t)
  BY StoreIs

\* Spent takes allocations away.
LEMMA SpentIs ==
    ASSUME NEW s, IsStore(s), NEW t, NEW k, t = Spent(s, k)
    PROVE  t.heap = s.heap /\ t.left = s.left - k /\ t.r = s.r /\ IsStore(t)
  BY StoreIs

\* Return puts in a heap and a result.
LEMMA ReturnIs ==
    ASSUME NEW s, IsStore(s), NEW t, NEW h, NEW x, t = Return(s, h, x)
    PROVE  t.heap = h /\ t.left = s.left /\ t.r = x /\ IsStore(t)
  BY StoreIs

\* The fields of a store with another result
LEMMA YieldsParts ==
    ASSUME NEW s, IsStore(s), NEW x
    PROVE  /\ Yields(s, x).heap = s.heap /\ Yields(s, x).left = s.left
           /\ Yields(s, x).r = x /\ IsStore(Yields(s, x))
  BY StoreIs

\* A store that reports failure
LEMMA YieldsFalse ==
    ASSUME NEW s, IsStore(s), NEW t, t = Yields(s, FALSE)
    PROVE  t.heap = s.heap /\ t.left = s.left /\ t.r = FALSE /\ IsStore(t)
  BY YieldsParts

\* A new heap with success
LEMMA ReturnTrue ==
    ASSUME NEW s, IsStore(s), NEW t, NEW h, t = Return(s, h, TRUE)
    PROVE  t.heap = h /\ t.left = s.left /\ t.r = TRUE /\ IsStore(t)
  BY ReturnIs

\* A node is its fields.
LEMMA NodeFields ==
    ASSUME NEW h \in Heaps, NEW n \in Live(h)
    PROVE  h[n] = [type |-> h[n].type, value |-> h[n].value, key |-> h[n].key,
                   index |-> h[n].index, parent |-> h[n].parent, items |-> h[n].items]
  <1>1. h[n] \in Node
    BY NodeIs DEF Live
  <1> QED BY <1>1 DEF Node

\* Fixup numbers the elements of an array and changes nothing else.
LEMMA Renumbered ==
    ASSUME NEW h \in Heaps, NEW n \in Live(h),
           \A i \in 1..Len(h[n].items) : h[n].items[i] \in Live(h) /\ h[h[n].items[i]].parent = n,
           \A i, j \in 1..Len(h[n].items) : h[n].items[i] = h[n].items[j] => i = j
    PROVE  LET g == Fixup(h, n) IN
           /\ g \in Heaps /\ Live(g) = Live(h)
           /\ \A m \in Live(h) : /\ g[m].type = h[m].type /\ g[m].items = h[m].items
                                 /\ g[m].parent = h[m].parent /\ g[m].key = h[m].key
           /\ \A m \in Live(h) : h[m].parent # n => g[m] = h[m]
           /\ h[n].type = "array" => \A i \in 1..Len(h[n].items) : g[h[n].items[i]].index = i - 1
           /\ h[n].type # "array" => g = h
           /\ (h[n].type = "array" => \A i \in 1..Len(h[n].items) : h[h[n].items[i]].index = i - 1)
                => g = h
  <1> DEFINE items == h[n].items
             g == Fixup(h, n)
             place(m) == SelectInSeq(items, LAMBDA c : c = m) - 1
  <1>1. items \in Seq(Ids) /\ n \in Ids /\ \A m \in Live(h) : m \in Ids
    BY NodeIs DEF Live
  <1>2. Len(items) \in Nat /\ Len(items) <= MaxNodes
    BY <1>1, ListFits
  <1>3. \A i \in 1..Len(items) : place(items[i]) = i - 1 /\ items[i] \in Live(h) /\ h[items[i]].parent = n
    <2> TAKE i \in 1..Len(items)
    <2>1. SelectInSeq(items, LAMBDA c : c = items[i]) = i
      BY <1>1, PlaceIs
    <2> QED BY <2>1
  <1>4. CASE h[n].type # "array"
    <2>1. g = h
      BY <1>4 DEF Fixup
    <2> QED BY <1>4, <2>1
  <1>5. CASE h[n].type = "array"
    <2> DEFINE C == {items[i] : i \in 1..Len(items)}
    <2>1. g = [m \in Ids |-> IF h[m].type # "free" /\ h[m].parent = n /\ Contains(items, m)
                             THEN [h[m] EXCEPT !.index = place(m)] ELSE h[m]]
      BY <1>5, Zenon DEF Fixup
    <2>2. \A m \in Ids : h[m].type # "free" /\ h[m].parent = n /\ Contains(items, m) <=> m \in C
      BY <1>3 DEF Contains, Live
    <2> HIDE DEF place, items
    <2>3. /\ \A m \in Ids : g[m] = IF m \in C THEN [h[m] EXCEPT !.index = place(m)] ELSE h[m]
          /\ g = [m \in Ids |-> g[m]]
      BY <2>1, <2>2
    <2>4. \A m \in C : place(m) \in -1..MaxNodes
      <3> TAKE m \in C
      <3>1. PICK i \in 1..Len(items) : m = items[i]
        OBVIOUS
      <3>2. place(m) = i - 1
        BY <1>3, <3>1
      <3>3. i - 1 \in -1..MaxNodes
        BY <1>2, TreeConstants
      <3> QED BY <3>2, <3>3
    <2>5. \A m \in C : m \in Live(h) /\ h[m].parent = n
      BY <1>3
    <2> HIDE DEF C, g
    <2>6. ASSUME NEW m \in C
          PROVE  /\ g[m] \in Node
                 /\ g[m].type = h[m].type /\ g[m].items = h[m].items
                 /\ g[m].parent = h[m].parent /\ g[m].key = h[m].key
                 /\ g[m].index = place(m)
                 /\ place(m) = h[m].index => g[m] = h[m]
      <3>1. h[m] = [type |-> h[m].type, value |-> h[m].value, key |-> h[m].key,
                    index |-> h[m].index, parent |-> h[m].parent, items |-> h[m].items]
        BY <2>5, NodeFields
      <3>2. m \in Ids /\ m \in Live(h)
        BY <1>1, <2>5
      <3>3. g[m] = [h[m] EXCEPT !.index = place(m)]
        BY <2>3, <3>2
      <3>4. g[m] = [type |-> h[m].type, value |-> h[m].value, key |-> h[m].key,
                    index |-> place(m), parent |-> h[m].parent, items |-> h[m].items]
        BY <3>1, <3>3
      <3>8. /\ h[m].type \in {"null", "value", "array", "map"}
            /\ h[m].value \in LeafValue \cup {NoValue}
            /\ h[m].key \in Keys \cup {NoKey}
            /\ h[m].parent \in Ids \cup {NULL} /\ h[m].items \in Seq(Ids)
        BY <3>2, NodeIs
      <3>5. g[m] \in Node
        <4>1. PICK x \in -1..MaxNodes : x = place(m)
          BY <2>4
        <4>2. g[m] = [type |-> h[m].type, value |-> h[m].value, key |-> h[m].key,
                      index |-> x, parent |-> h[m].parent, items |-> h[m].items]
          BY <3>4, <4>1
        <4>3. [type |-> h[m].type, value |-> h[m].value, key |-> h[m].key,
               index |-> x, parent |-> h[m].parent, items |-> h[m].items] \in Node
          BY <3>8, <4>1, NodeMade, Zenon
        <4> QED BY <4>2, <4>3
      <3>6. /\ g[m].type = h[m].type /\ g[m].items = h[m].items
            /\ g[m].parent = h[m].parent /\ g[m].key = h[m].key
            /\ g[m].index = place(m)
        BY <3>4
      <3>7. place(m) = h[m].index => g[m] = h[m]
        BY <3>1, <3>4
      <3> QED BY <3>5, <3>6, <3>7
    <2>7. \A m \in Ids : g[m] \in Node \cup {FreeNode}
      BY <2>3, <2>6 DEF Heaps
    <2>8. g \in Heaps
      BY <2>3, <2>7 DEF Heaps
    <2>9. Live(g) = Live(h)
      <3>1. \A m \in Ids : g[m].type = h[m].type
        BY <2>3, <2>6
      <3> QED BY <3>1 DEF Live
    <2>10. \A m \in Live(h) : /\ g[m].type = h[m].type /\ g[m].items = h[m].items
                              /\ g[m].parent = h[m].parent /\ g[m].key = h[m].key
      BY <1>1, <2>3, <2>6
    <2>11. \A m \in Live(h) : h[m].parent # n => g[m] = h[m]
      BY <1>1, <2>3, <2>5
    <2>12. \A i \in 1..Len(items) : g[items[i]].index = i - 1
      BY <1>3, <2>6 DEF C
    <2>13. (\A i \in 1..Len(items) : h[items[i]].index = i - 1) => g = h
      <3> HAVE \A i \in 1..Len(items) : h[items[i]].index = i - 1
      <3>1. \A m \in C : g[m] = h[m]
        BY <1>3, <2>6 DEF C
      <3>2. \A m \in Ids : g[m] = h[m]
        BY <2>3, <3>1
      <3>3. h = [m \in Ids |-> h[m]]
        BY DEF Heaps
      <3> QED BY <2>3, <3>2, <3>3
    <2> QED BY <1>5, <2>8, <2>9, <2>10, <2>11, <2>12, <2>13 DEF items, g
  <1> QED BY <1>4, <1>5

\* A root joins the children of a node.
Joins(h, g, n, sub) ==
    /\ g \in Heaps /\ Live(g) = Live(h)
    /\ \A m \in Live(h) : /\ g[m].type = h[m].type
                          /\ g[m].parent = IF m = sub THEN n ELSE h[m].parent
    /\ \A m \in Live(h) \ {n} : g[m].items = h[m].items
    /\ \A m \in Live(h) \ {sub} : g[m].key = h[m].key /\ (h[m].parent # n => g[m].index = h[m].index)
    /\ \A i, j \in 1..Len(g[n].items) : g[n].items[i] = g[n].items[j] => i = j
    /\ \A i \in 1..Len(g[n].items) :
          g[n].items[i] = sub \/ \E j \in 1..Len(h[n].items) : g[n].items[i] = h[n].items[j]
    /\ \A j \in 1..Len(h[n].items) : \E i \in 1..Len(g[n].items) : g[n].items[i] = h[n].items[j]
    /\ \E i \in 1..Len(g[n].items) : g[n].items[i] = sub
    /\ g[n].type = "array" => \A i \in 1..Len(g[n].items) : g[g[n].items[i]].index = i - 1
    /\ g[n].type = "map" =>
          /\ \A i \in 1..Len(g[n].items) : g[g[n].items[i]].key # NoKey
          /\ \A i, j \in 1..Len(g[n].items) :
                g[g[n].items[i]].key = g[g[n].items[j]].key => i = j

\* A root that joined the children of a node leaves a well-formed heap with one root less.
LEMMA PutIn ==
    ASSUME NEW h, Good(h), NEW n \in Live(h), NEW sub \in Roots(h),
           NEW U, Up(h, U), n \in U, sub \notin U, NEW g, Joins(h, g, n, sub)
    PROVE  Good(g) /\ Roots(g) = Roots(h) \ {sub}
  <1>0. /\ g \in Heaps /\ Live(g) = Live(h)
        /\ \A m \in Live(h) : /\ g[m].type = h[m].type
                              /\ g[m].parent = IF m = sub THEN n ELSE h[m].parent
        /\ \A m \in Live(h) \ {n} : g[m].items = h[m].items
        /\ \A m \in Live(h) \ {sub} : g[m].key = h[m].key /\ (h[m].parent # n => g[m].index = h[m].index)
        /\ \A i \in 1..Len(g[n].items) :
              g[n].items[i] = sub \/ \E j \in 1..Len(h[n].items) : g[n].items[i] = h[n].items[j]
        /\ \A j \in 1..Len(h[n].items) : \E i \in 1..Len(g[n].items) : g[n].items[i] = h[n].items[j]
        /\ \E i \in 1..Len(g[n].items) : g[n].items[i] = sub
    BY DEF Joins
  <1>7. /\ \A i, j \in 1..Len(g[n].items) : g[n].items[i] = g[n].items[j] => i = j
        /\ g[n].type = "array" => \A i \in 1..Len(g[n].items) : g[g[n].items[i]].index = i - 1
        /\ g[n].type = "map" =>
              /\ \A i \in 1..Len(g[n].items) : g[g[n].items[i]].key # NoKey
              /\ \A i, j \in 1..Len(g[n].items) :
                    g[g[n].items[i]].key = g[g[n].items[j]].key => i = j
    BY DEF Joins
  <1>1. sub \in Live(h) /\ h[sub].parent = NULL /\ sub # n /\ n # NULL
    BY GoodAt DEF Roots
  <1>2. ASSUME NEW m \in Live(h) PROVE LinkedDown(g, m)
    <2>1. LinkedDown(h, m)
      BY GoodLinks
    <2>2. \A i \in 1..Len(h[m].items) : h[m].items[i] \in Live(h) /\ h[h[m].items[i]].parent = m
      BY <2>1 DEF LinkedDown
    <2>3. CASE m = n
      <3>1. \A i \in 1..Len(g[n].items) : g[n].items[i] \in Live(g) /\ g[g[n].items[i]].parent = n
        <4> TAKE i \in 1..Len(g[n].items)
        <4>1. CASE g[n].items[i] = sub
          BY <1>0, <1>1, <4>1
        <4>2. CASE g[n].items[i] # sub
          <5>1. PICK j \in 1..Len(h[n].items) : g[n].items[i] = h[n].items[j]
            BY <1>0, <4>2
          <5>2. h[n].items[j] \in Live(h) /\ h[h[n].items[j]].parent = n
            BY <1>0, <2>2, <2>3
          <5>3. g[h[n].items[j]].parent = n
            BY <1>0, <4>2, <5>1, <5>2
          <5> QED BY <1>0, <5>1, <5>2, <5>3
        <4> QED BY <4>1, <4>2
      <3> QED BY <1>7, <2>3, <3>1 DEF LinkedDown
    <2>4. CASE m # n
      <3>1. m # NULL
        BY GoodAt
      <3>2. \A i \in 1..Len(h[m].items) :
               LET c == h[m].items[i] IN
               /\ c \in Live(g) /\ g[c].parent = m /\ g[c].key = h[c].key /\ g[c].index = h[c].index
        BY <1>0, <1>1, <2>2, <2>4, <3>1
      <3>3. g[m].items = h[m].items /\ g[m].type = h[m].type
        BY <1>0, <2>4
      <3> QED BY <1>0, <2>1, <3>2, <3>3, DownSame
    <2> QED BY <1>0, <2>3, <2>4
  <1>3. ASSUME NEW m \in Live(h) PROVE LinkedUp(g, m)
    <2>1. LinkedUp(h, m)
      BY GoodLinks
    <2>2. CASE m = sub
      BY <1>0, <2>2 DEF LinkedUp
    <2>3. CASE m # sub /\ h[m].parent = n
      <3>1. PICK j \in 1..Len(h[n].items) : h[n].items[j] = m
        BY <1>0, <1>1, <2>1, <2>3 DEF LinkedUp
      <3>2. \E i \in 1..Len(g[n].items) : g[n].items[i] = m
        BY <1>0, <3>1
      <3>3. g[m].parent = n
        BY <1>0, <2>3
      <3> QED BY <1>0, <3>2, <3>3 DEF LinkedUp
    <2>4. CASE m # sub /\ h[m].parent # n
      <3>1. g[m].parent = h[m].parent
        BY <1>0, <2>4
      <3>2. h[m].parent # NULL => /\ h[m].parent \in Live(g)
                                  /\ g[h[m].parent].items = h[h[m].parent].items
        BY <1>0, <2>1, <2>4 DEF LinkedUp
      <3> QED BY <1>0, <2>1, <3>1, <3>2, UpSame
    <2> QED BY <1>0, <2>2, <2>3, <2>4
  <1>4. Linked(g)
    BY <1>0, <1>2, <1>3, LinkedBoth
  <1>5. Rooted(g)
    <2>1. Rooted(h) /\ U \in SUBSET Live(g)
      BY <1>0 DEF Good, Up
    <2>2. \A m \in Live(g) : g[m].parent # NULL =>
              \/ g[g[m].parent].parent = NULL
              \/ m \in U /\ g[m].parent \in U /\ m \in Live(h) /\ h[m].parent = g[m].parent
              \/ m \notin U /\ g[m].parent \in U
              \/ m \notin U /\ m \in Live(h) /\ h[m].parent = g[m].parent
      BY <1>0, <1>1 DEF Up
    <2> QED BY <1>0, <2>1, <2>2, RootedBy
  <1>6. Roots(g) = Roots(h) \ {sub}
    BY <1>0, <1>1 DEF Roots
  <1> QED BY <1>0, <1>4, <1>5, <1>6 DEF Good

-----------------------------------------------------------------------------
(* Reading maps and arrays; a node takes the place of another one *)

\* The first entry of a map with a key, or none
LEMMA MapGetIs ==
    ASSUME NEW h, Good(h), NEW n \in Live(h), NEW key
    PROVE  /\ MapGet(h, n, key) = NULL =>
                h[n].type # "map" \/ \A i \in 1..Len(h[n].items) : h[h[n].items[i]].key # key
           /\ MapGet(h, n, key) # NULL =>
                /\ h[n].type = "map" /\ MapGet(h, n, key) \in Live(h)
                /\ h[MapGet(h, n, key)].parent = n /\ h[MapGet(h, n, key)].key = key
  <1> DEFINE items == h[n].items
             I == {i \in 1..Len(items) : h[items[i]].parent = n /\ h[items[i]].key = key}
             p == SelectInSeq(items, LAMBDA c : h[c].parent = n /\ h[c].key = key)
  <1>1. p = IF I # {} THEN Min(I) ELSE 0
    BY Zenon DEF SelectInSeq
  <1>2. MapGet(h, n, key) = IF h[n].type # "map" THEN NULL
                            ELSE IF p = 0 THEN NULL ELSE items[p]
    BY Zenon DEF MapGet
  <1>3. /\ Len(items) \in Nat
        /\ \A i \in 1..Len(items) : items[i] \in Live(h) /\ h[items[i]].parent = n
        /\ \A m \in Live(h) : m # NULL
    BY GoodAt
  <1>4. I # {} => Min(I) \in I
    <2>1. I \in SUBSET Nat
      BY <1>3
    <2> HIDE DEF I
    <2> QED BY <2>1, LeastIs
  <1> HIDE DEF p
  <1>5. CASE h[n].type # "map"
    BY <1>2, <1>5
  <1>6. CASE h[n].type = "map" /\ I = {}
    <2>1. MapGet(h, n, key) = NULL
      BY <1>1, <1>2, <1>6
    <2> QED BY <1>3, <1>6, <2>1
  <1>7. CASE h[n].type = "map" /\ I # {}
    <2>4. p \in I
      <3> HIDE DEF I
      <3> QED BY <1>1, <1>4, <1>7
    <2>1. p \in I /\ p # 0
      BY <2>4
    <2>2. MapGet(h, n, key) = items[p]
      BY <1>2, <1>7, <2>1
    <2>3. p \in 1..Len(items) /\ h[items[p]].key = key
      BY <2>1
    <2> HIDE DEF I, items
    <2> QED BY <1>3, <1>7, <2>2, <2>3
  <1> QED BY <1>5, <1>6, <1>7

\* The element of an array at an index, or none
LEMMA ArrayGetIs ==
    ASSUME NEW h, Good(h), NEW n \in Live(h), NEW index \in Nat
    PROVE  /\ ArrayGet(h, n, index) # NULL =>
                /\ h[n].type = "array" /\ index < Len(h[n].items)
                /\ ArrayGet(h, n, index) \in Live(h)
                /\ h[ArrayGet(h, n, index)].parent = n
           /\ h[n].type = "array" /\ index < Len(h[n].items) => ArrayGet(h, n, index) # NULL
  <1> DEFINE items == h[n].items
             I == {i \in 1..Len(items) : h[items[i]].parent = n /\ h[items[i]].index = index}
             p == SelectInSeq(items, LAMBDA c : h[c].parent = n /\ h[c].index = index)
  <1>1. p = IF I # {} THEN Min(I) ELSE 0
    BY Zenon DEF SelectInSeq
  <1>2. ArrayGet(h, n, index) = IF h[n].type # "array" THEN NULL
                                ELSE IF p = 0 THEN NULL ELSE items[p]
    BY Zenon DEF ArrayGet
  <1>3. /\ Len(items) \in Nat
        /\ \A i \in 1..Len(items) : items[i] \in Live(h) /\ h[items[i]].parent = n
        /\ \A m \in Live(h) : m # NULL
        /\ h[n].type = "array" => \A i \in 1..Len(items) : h[items[i]].index = i - 1
    BY GoodAt
  <1>4. I # {} => Min(I) \in I
    <2>1. I \in SUBSET Nat
      BY <1>3
    <2> HIDE DEF I
    <2> QED BY <2>1, LeastIs
  <1> HIDE DEF p
  <1>5. CASE h[n].type # "array"
    BY <1>2, <1>5
  <1>6. CASE h[n].type = "array" /\ I = {}
    <2>1. ArrayGet(h, n, index) = NULL
      BY <1>1, <1>2, <1>6
    <2>2. ~(index < Len(items))
      <3> SUFFICES ASSUME index < Len(items) PROVE FALSE
        OBVIOUS
      <3>1. index + 1 \in 1..Len(items) /\ (index + 1) - 1 = index
        BY <1>3
      <3>2. index + 1 \in I
        BY <1>3, <1>6, <3>1
      <3> QED BY <1>6, <3>2
    <2> QED BY <2>1, <2>2
  <1>7. CASE h[n].type = "array" /\ I # {}
    <2>6. p \in I
      <3> HIDE DEF I
      <3> QED BY <1>1, <1>4, <1>7
    <2>1. p \in I /\ p # 0
      BY <2>6
    <2>2. ArrayGet(h, n, index) = items[p]
      BY <1>2, <1>7, <2>1
    <2>3. p \in 1..Len(items) /\ h[items[p]].index = index
      BY <2>1
    <2>4. index < Len(items)
      BY <1>3, <1>7, <2>3
    <2>5. items[p] \in Live(h) /\ h[items[p]].parent = n /\ items[p] # NULL
      BY <1>3, <2>3
    <2> HIDE DEF I, items
    <2> QED BY <1>7, <2>2, <2>4, <2>5 DEF items
  <1> QED BY <1>5, <1>6, <1>7

\* A root is freed with its tree.
LEMMA CleanRoot ==
    ASSUME NEW h, Good(h), NEW n \in Roots(h)
    PROVE  LET g == Clean(h, n) IN
           /\ Good(g) /\ Live(g) = Live(h) \ Subtree(h, n) /\ n \notin Live(g)
           /\ Roots(g) = Roots(h) \ {n} /\ Kept(h, g, {n})
  <1>1. h[n].parent = NULL
    BY DEF Roots
  <1>2. Detach(h, n) = h
    BY <1>1 DEF Detach
  <1>3. Clean(h, n) = [m \in Ids |-> IF m \in Subtree(h, n) THEN FreeNode ELSE h[m]]
    BY <1>2, Zenon DEF Clean
  <1> QED BY <1>3, RootDropped

\* What TakePlace does before it frees `old`
SwapIn(h, old, sub) ==
    [h EXCEPT ![h[old].parent].items = ReplaceAll(@, old, sub),
              ![sub].parent = h[old].parent, ![old].parent = NULL]

\* The child `sub` stands where `old` stood, which is now a root.
LEMMA Exchanged ==
    ASSUME NEW h, Good(h), NEW old \in Live(h), h[old].parent # NULL, NEW sub \in Roots(h),
           NEW U, Up(h, U), h[old].parent \in U, sub \notin U,
           h[h[old].parent].type = "map" => h[sub].key = h[old].key,
           h[h[old].parent].type = "array" => h[sub].index = h[old].index
    PROVE  LET g == SwapIn(h, old, sub) IN
           /\ Good(g) /\ Live(g) = Live(h) /\ Roots(g) = (Roots(h) \ {sub}) \cup {old}
           /\ \A m \in Live(h) : m \notin {h[old].parent, sub, old} => g[m] = h[m]
           /\ g[sub].parent = h[old].parent
  <1> DEFINE p == h[old].parent
             list == h[p].items
             new == ReplaceAll(list, old, sub)
             g == SwapIn(h, old, sub)
  <1>0. /\ h[p].type = "map" => h[sub].key = h[old].key
        /\ h[p].type = "array" => h[sub].index = h[old].index
        /\ p \in U
    OBVIOUS
  <1>1. /\ h \in Heaps /\ p \in Live(h) /\ old \in Live(h) /\ sub \in Live(h)
        /\ p # NULL /\ h[sub].parent = NULL /\ p # old /\ p # sub /\ old # sub /\ old # NULL
        /\ p \in Ids /\ sub \in Ids /\ old \in Ids
        /\ list \in Seq(Ids) /\ Len(list) \in Nat
    BY GoodAt, ParentOther DEF Roots
  <1>2. /\ \A i \in 1..Len(list) : list[i] \in Live(h) /\ h[list[i]].parent = p
        /\ \A i, j \in 1..Len(list) : list[i] = list[j] => i = j
        /\ \E i \in 1..Len(list) : list[i] = old
        /\ h[p].type = "array" => \A i \in 1..Len(list) : h[list[i]].index = i - 1
        /\ h[p].type = "map" =>
              /\ \A i \in 1..Len(list) : h[list[i]].key # NoKey
              /\ \A i, j \in 1..Len(list) : h[list[i]].key = h[list[j]].key => i = j
    <2>1. /\ \A i \in 1..Len(h[p].items) : h[p].items[i] \in Live(h) /\ h[h[p].items[i]].parent = p
          /\ \A i, j \in 1..Len(h[p].items) : h[p].items[i] = h[p].items[j] => i = j
          /\ h[p].type = "array" =>
                \A i \in 1..Len(h[p].items) : h[h[p].items[i]].index = i - 1
          /\ h[p].type = "map" =>
                /\ \A i \in 1..Len(h[p].items) : h[h[p].items[i]].key # NoKey
                /\ \A i, j \in 1..Len(h[p].items) :
                      h[h[p].items[i]].key = h[h[p].items[j]].key => i = j
      <3> HIDE DEF p
      <3> QED BY <1>1, GoodAt
    <2>2. \E i \in 1..Len(h[p].items) : h[p].items[i] = old
      BY <1>1, GoodAt
    <2> HIDE DEF p
    <2> QED BY <2>1, <2>2
  <1>3. /\ new \in Seq(Ids) /\ Len(new) = Len(list)
        /\ \A i \in 1..Len(list) : new[i] = IF list[i] = old THEN sub ELSE list[i]
    <2>1. new = [i \in 1..Len(list) |-> IF list[i] = old THEN sub ELSE list[i]]
      BY Zenon DEF ReplaceAll
    <2>2. \A i \in 1..Len(list) : list[i] \in Ids
      BY <1>1
    <2> HIDE DEF list, new
    <2> QED BY <1>1, <2>1, <2>2
  <1> HIDE DEF p, list, new
  <1>4. /\ g[p] = [h[p] EXCEPT !.items = new]
        /\ g[sub] = [h[sub] EXCEPT !.parent = p]
        /\ g[old] = [h[old] EXCEPT !.parent = NULL]
        /\ \A m \in Ids : m \notin {p, sub, old} => g[m] = h[m]
        /\ g = [m \in Ids |-> g[m]]
    <2>1. h = [m \in Ids |-> h[m]]
      BY <1>1 DEF Heaps
    <2>2. g = [h EXCEPT ![p].items = new, ![sub].parent = p, ![old].parent = NULL]
      BY DEF p, list, new, SwapIn
    <2> HIDE DEF g
    <2> QED BY <1>1, <2>1, <2>2
  <1> HIDE DEF g
  <1>5. /\ h[p] \in Node /\ h[sub] \in Node /\ h[old] \in Node
    BY <1>1, NodeIs
  <1>6. /\ g[p] \in Node /\ g[sub] \in Node /\ g[old] \in Node
        /\ g[p].items = new /\ g[p].type = h[p].type /\ g[p].parent = h[p].parent
        /\ g[p].key = h[p].key /\ g[p].index = h[p].index
        /\ g[sub].parent = p /\ g[sub].type = h[sub].type /\ g[sub].items = h[sub].items
        /\ g[sub].key = h[sub].key /\ g[sub].index = h[sub].index
        /\ g[old].parent = NULL /\ g[old].type = h[old].type /\ g[old].items = h[old].items
        /\ g[old].key = h[old].key /\ g[old].index = h[old].index
    <2>1. \A x \in Node : /\ [x EXCEPT !.items = new] \in Node
                          /\ [x EXCEPT !.parent = p] \in Node
                          /\ [x EXCEPT !.parent = NULL] \in Node
      BY <1>1, <1>3 DEF Node
    <2>2. \A x \in Node : \A y :
                             /\ [x EXCEPT !.items = y].items = y /\ [x EXCEPT !.items = y].type = x.type
                             /\ [x EXCEPT !.items = y].parent = x.parent
                             /\ [x EXCEPT !.items = y].key = x.key /\ [x EXCEPT !.items = y].index = x.index
                             /\ [x EXCEPT !.parent = y].parent = y /\ [x EXCEPT !.parent = y].type = x.type
                             /\ [x EXCEPT !.parent = y].items = x.items
                             /\ [x EXCEPT !.parent = y].key = x.key /\ [x EXCEPT !.parent = y].index = x.index
      BY DEF Node
    <2>3. g[p] \in Node /\ g[sub] \in Node /\ g[old] \in Node
      BY <1>4, <1>5, <2>1
    <2>4. /\ g[p].items = new /\ g[p].type = h[p].type /\ g[p].parent = h[p].parent
          /\ g[p].key = h[p].key /\ g[p].index = h[p].index
      BY <1>4, <1>5, <2>2
    <2>5. /\ g[sub].parent = p /\ g[sub].type = h[sub].type /\ g[sub].items = h[sub].items
          /\ g[sub].key = h[sub].key /\ g[sub].index = h[sub].index
      BY <1>4, <1>5, <2>2
    <2>6. /\ g[old].parent = NULL /\ g[old].type = h[old].type /\ g[old].items = h[old].items
          /\ g[old].key = h[old].key /\ g[old].index = h[old].index
      BY <1>4, <1>5, <2>2
    <2> QED BY <2>3, <2>4, <2>5, <2>6
  <1>7. g \in Heaps /\ Live(g) = Live(h)
    <2>1. \A m \in Ids : g[m] \in Node \cup {FreeNode}
      BY <1>1, <1>4, <1>6 DEF Heaps
    <2>2. g \in Heaps
      BY <1>4, <2>1 DEF Heaps
    <2>3. \A m \in Ids : g[m].type = h[m].type
      BY <1>4, <1>6
    <2> QED BY <2>2, <2>3 DEF Live
  <1>8. \A m \in Live(h) : /\ g[m].type = h[m].type /\ g[m].key = h[m].key /\ g[m].index = h[m].index
                           /\ g[m].parent = IF m = sub THEN p ELSE IF m = old THEN NULL ELSE h[m].parent
                           /\ m # p => g[m].items = h[m].items
    <2> TAKE m \in Live(h)
    <2>1. m \in Ids
      BY DEF Live
    <2>2. CASE m = p
      BY <1>1, <1>6, <2>2
    <2>3. CASE m = sub
      BY <1>1, <1>6, <2>3
    <2>4. CASE m = old
      BY <1>1, <1>6, <2>4
    <2>5. CASE m \notin {p, sub, old}
      BY <1>4, <2>1, <2>5
    <2> QED BY <2>2, <2>3, <2>4, <2>5
  <1>9. ASSUME NEW m \in Live(h) PROVE LinkedDown(g, m)
    <2>1. LinkedDown(h, m)
      BY GoodLinks
    <2>2. CASE m = p
      <3>1. \A i \in 1..Len(list) :
               /\ g[p].items[i] = IF list[i] = old THEN sub ELSE list[i]
               /\ g[p].items[i] \in Live(g) /\ g[g[p].items[i]].parent = p
               /\ h[p].type = "array" => g[g[p].items[i]].index = h[list[i]].index
               /\ h[p].type = "map" => g[g[p].items[i]].key = h[list[i]].key
        <4> TAKE i \in 1..Len(list)
        <4>1. g[p].items[i] = IF list[i] = old THEN sub ELSE list[i]
          BY <1>3, <1>6
        <4>2. list[i] \in Live(h) /\ h[list[i]].parent = p /\ list[i] # sub
          BY <1>1, <1>2
        <4>3. CASE list[i] = old
          BY <1>0, <1>1, <1>6, <1>7, <4>1, <4>3
        <4>4. CASE list[i] # old
          BY <1>7, <1>8, <4>1, <4>2, <4>4
        <4> QED BY <4>1, <4>3, <4>4
      <3>2. Len(g[p].items) = Len(list)
        BY <1>3, <1>6
      <3>3. ASSUME NEW i \in 1..Len(list), NEW j \in 1..Len(list), g[p].items[i] = g[p].items[j]
            PROVE  i = j
        <4>1. list[i] # sub /\ list[j] # sub
          BY <1>1, <1>2
        <4>2. list[i] = list[j]
          BY <3>1, <3>3, <4>1
        <4> QED BY <1>2, <4>2
      <3>4. g[p].type = h[p].type
        BY <1>6
      <3>5. g[p].type = "array" => \A i \in 1..Len(list) : g[g[p].items[i]].index = i - 1
        BY <1>2, <3>1, <3>4
      <3>6. g[p].type = "map" => \A i \in 1..Len(list) : g[g[p].items[i]].key # NoKey
        BY <1>2, <3>1, <3>4
      <3>7. g[p].type = "map" =>
              \A i, j \in 1..Len(list) : g[g[p].items[i]].key = g[g[p].items[j]].key => i = j
        BY <1>2, <3>1, <3>4
      <3>8. \A i \in 1..Len(list) : g[p].items[i] \in Live(g) /\ g[g[p].items[i]].parent = p
        BY <3>1
      <3>9. LinkedDown(g, p)
        BY <3>2, <3>3, <3>5, <3>6, <3>7, <3>8 DEF LinkedDown
      <3> QED BY <2>2, <3>9
    <2>3. CASE m # p
      <3>1. m # NULL
        BY GoodAt
      <3>2. \A i \in 1..Len(h[m].items) : h[m].items[i] \in Live(h) /\ h[h[m].items[i]].parent = m
        BY <2>1 DEF LinkedDown
      <3>3. \A c \in Live(h) : h[c].parent = m => c # sub /\ c # old
        BY <1>1, <2>3, <3>1 DEF p
      <3>4. \A i \in 1..Len(h[m].items) :
               LET c == h[m].items[i] IN
               /\ c \in Live(g) /\ g[c].parent = m /\ g[c].key = h[c].key /\ g[c].index = h[c].index
        BY <1>7, <1>8, <3>2, <3>3
      <3>5. g[m].items = h[m].items /\ g[m].type = h[m].type
        BY <1>8, <2>3
      <3> QED BY <2>1, <3>4, <3>5, DownSame
    <2> QED BY <2>2, <2>3
  <1>10. ASSUME NEW m \in Live(h) PROVE LinkedUp(g, m)
    <2>1. LinkedUp(h, m)
      BY GoodLinks
    <2>2. CASE m = old
      BY <1>6, <2>2 DEF LinkedUp
    <2>3. CASE m = sub
      <3>1. PICK i \in 1..Len(list) : list[i] = old
        BY <1>2
      <3>2. i \in 1..Len(g[p].items) /\ g[p].items[i] = sub
        BY <1>3, <1>6, <3>1
      <3>3. g[sub].parent = p /\ p \in Live(g)
        BY <1>1, <1>6, <1>7
      <3> QED BY <2>3, <3>2, <3>3 DEF LinkedUp
    <2>4. CASE m # old /\ m # sub /\ h[m].parent = p
      <3>1. PICK i \in 1..Len(list) : list[i] = m
        BY <1>1, <2>1, <2>4 DEF LinkedUp, list
      <3>2. i \in 1..Len(g[p].items) /\ g[p].items[i] = m
        BY <1>3, <1>6, <2>4, <3>1
      <3>3. g[m].parent = p /\ p \in Live(g)
        BY <1>1, <1>7, <1>8, <2>4
      <3> QED BY <3>2, <3>3 DEF LinkedUp
    <2>5. CASE m # old /\ m # sub /\ h[m].parent # p
      <3>1. g[m].parent = h[m].parent
        BY <1>8, <2>5
      <3>2. h[m].parent # NULL => /\ h[m].parent \in Live(g)
                                  /\ g[h[m].parent].items = h[h[m].parent].items
        BY <1>7, <1>8, <2>1, <2>5 DEF LinkedUp
      <3> QED BY <2>1, <3>1, <3>2, UpSame
    <2> QED BY <2>2, <2>3, <2>4, <2>5
  <1>11. Linked(g)
    BY <1>7, <1>9, <1>10, LinkedBoth
  <1>12. Rooted(g)
    <2>1. Rooted(h) /\ U \in SUBSET Live(g) /\ p \in U
      BY <1>0, <1>7 DEF Good, Up
    <2>2. \A m \in U : h[m].parent \in U \cup {NULL}
      BY DEF Up
    <2>3. \A m \in Live(g) : g[m].parent # NULL =>
              \/ g[g[m].parent].parent = NULL
              \/ m \in U /\ g[m].parent \in U /\ m \in Live(h) /\ h[m].parent = g[m].parent
              \/ m \notin U /\ g[m].parent \in U
              \/ m \notin U /\ m \in Live(h) /\ h[m].parent = g[m].parent
      BY <1>7, <1>8, <2>1, <2>2
    <2> QED BY <2>1, <2>3, RootedBy
  <1>13. Roots(g) = (Roots(h) \ {sub}) \cup {old}
    BY <1>1, <1>7, <1>8 DEF Roots
  <1>14. Good(g)
    BY <1>7, <1>11, <1>12 DEF Good
  <1>15. \A m \in Live(h) : m \notin {p, sub, old} => g[m] = h[m]
    BY <1>4 DEF Live
  <1> QED BY <1>6, <1>7, <1>13, <1>14, <1>15 DEF p, g

Sound(s) == IsStore(s) /\ Good(s.heap) /\ s.left \in Nat

\* A call that puts the root sub under a node, or leaves everything as it was
Placed(s, t, sub, X) ==
    /\ Sound(t)
    /\ \/ t.r = FALSE /\ t.heap = s.heap
       \/ /\ t.r = TRUE /\ Roots(t.heap) = Roots(s.heap) \ {sub}
          /\ sub \in Live(t.heap) /\ Kept(s.heap, t.heap, X)

\* The root is a child of n then, and n is what it was.
PlacedUnder(s, t, n, sub) ==
    /\ Placed(s, t, sub, {n, sub})
    /\ t.r = TRUE => t.heap[sub].parent = n /\ t.heap[n].type = s.heap[n].type

\* `old` is freed when `sub` stands in its place.
LEMMA TakenPlace ==
    ASSUME NEW h, Good(h), NEW old \in Live(h), h[old].parent # NULL, NEW sub \in Roots(h),
           NEW U, Up(h, U), h[old].parent \in U, sub \notin U,
           h[h[old].parent].type = "map" => h[sub].key = h[old].key,
           h[h[old].parent].type = "array" => h[sub].index = h[old].index
    PROVE  LET g == TakePlace(h, old, sub) IN
           /\ Good(g) /\ Roots(g) = Roots(h) \ {sub}
           /\ sub \in Live(g) /\ g[sub].parent = h[old].parent
           /\ g[h[old].parent].type = h[h[old].parent].type
           /\ Kept(h, g, {h[old].parent, sub})
  <1> DEFINE p == h[old].parent
             k == SwapIn(h, old, sub)
             g == TakePlace(h, old, sub)
  <1>1. g = Clean(k, old)
    BY Zenon DEF TakePlace, SwapIn
  <1>2. /\ Good(k) /\ Live(k) = Live(h) /\ Roots(k) = (Roots(h) \ {sub}) \cup {old}
        /\ \A m \in Live(h) : m \notin {p, sub, old} => k[m] = h[m]
        /\ k[sub].parent = p
    BY Exchanged
  <1>3. /\ p \in Live(h) /\ sub \in Live(h) /\ p # NULL /\ old \notin Roots(h) /\ h[sub].parent = NULL
    BY GoodAt DEF Roots
  <1>4. k[p].type = h[p].type
    <2>1. p \in Ids /\ sub \in Ids /\ old \in Ids /\ h \in [Ids -> Node \cup {FreeNode}] /\ p # sub /\ p # old
      BY <1>3, ParentOther DEF Good, Heaps, Live
    <2>2. k[p] = [h[p] EXCEPT !.items = ReplaceAll(h[p].items, old, sub)]
      <3> HIDE DEF p
      <3>1. k = [h EXCEPT ![p].items = ReplaceAll(@, old, sub), ![sub].parent = p, ![old].parent = NULL]
        BY DEF SwapIn, p
      <3> HIDE DEF k
      <3> QED BY <2>1, <3>1
    <2>3. h[p] \in Node
      BY <1>3, GoodAt
    <2>4. \A x \in Node : \A y : [x EXCEPT !.items = y].type = x.type
      BY DEF Node
    <2> HIDE DEF k, p
    <2> QED BY <2>2, <2>3, <2>4
  <1> HIDE DEF k, g
  <1>5. old \in Roots(k)
    BY <1>2
  <1>6. /\ Good(g) /\ Live(g) = Live(k) \ Subtree(k, old)
        /\ Roots(g) = Roots(k) \ {old} /\ Kept(k, g, {old})
    BY <1>1, <1>2, <1>5, CleanRoot
  <1>7. Roots(g) = Roots(h) \ {sub}
    BY <1>2, <1>3, <1>6
  <1> DEFINE V == Live(h) \ Subtree(h, old)
  <1>8. /\ Up(h, V) /\ p \in V /\ sub \in V /\ old \notin V
    <2>1. Up(h, V) /\ p \notin Subtree(h, old)
      BY TreeOf
    <2>2. old \in Subtree(h, old) /\ Subtree(h, old) \subseteq Live(h)
          /\ \A m \in Subtree(h, old) : m = old \/ h[m].parent \in Subtree(h, old)
      BY SubtreeGood
    <2>3. sub # old /\ NULL \notin Live(h)
      BY <1>3, GoodAt DEF Roots
    <2> QED BY <1>3, <2>1, <2>2, <2>3
  <1>9. Up(k, V)
    <2>1. \A m \in V : m \in Live(h) /\ h[m].parent \in V \cup {NULL}
      BY <1>8 DEF Up
    <2>2. \A m \in V : k[m].parent \in V \cup {NULL}
      <3> TAKE m \in V
      <3> HIDE DEF V, p
      <3>1. CASE m = sub
        BY <1>2, <1>8, <3>1
      <3>2. CASE m = p
        <4>1. k[p].parent = h[p].parent
          <5>1. p \in Ids /\ sub \in Ids /\ old \in Ids /\ h \in [Ids -> Node \cup {FreeNode}] /\ p # sub /\ p # old
            BY <1>3, ParentOther DEF Good, Heaps, Live, p
          <5>2. k = [h EXCEPT ![p].items = ReplaceAll(@, old, sub), ![sub].parent = p, ![old].parent = NULL]
            BY DEF SwapIn, p, k
          <5>3. k[p] = [h[p] EXCEPT !.items = ReplaceAll(h[p].items, old, sub)]
            BY <5>1, <5>2
          <5>4. h[p] \in Node
            BY <1>3, GoodAt
          <5>5. \A x \in Node : \A y : [x EXCEPT !.items = y].parent = x.parent
            BY DEF Node
          <5> QED BY <5>3, <5>4, <5>5
        <4> QED BY <2>1, <3>2, <4>1
      <3>3. CASE m # sub /\ m # p
        BY <1>2, <1>8, <2>1, <3>3
      <3> QED BY <3>1, <3>2, <3>3
    <2> QED BY <1>2, <2>1, <2>2 DEF Up
  <1>10. \A m \in V : g[m] = k[m] /\ m \in Live(g)
    <2>1. /\ \A m \in V : g[m] = k[m]
          /\ Up(g, V)
      <3> HIDE DEF V
      <3>1. V \cap {old} = {}
        BY <1>8
      <3> QED BY <1>6, <1>9, <3>1, KeptUp
    <2> QED BY <2>1 DEF Up
  <1>11. sub \in Live(g) /\ g[sub].parent = p /\ g[p].type = h[p].type
    BY <1>2, <1>4, <1>8, <1>10
  <1>12. Kept(h, k, {p, sub})
    <2>1. \A m \in Live(h) : k[m] = h[m] \/ m \in {p, sub} \/ (h[m].parent # NULL /\ h[m].parent \in {p, sub})
      <3> HIDE DEF p
      <3>1. h[old].parent = p
        BY DEF p
      <3> QED BY <1>2, <1>3, <3>1
    <2> QED BY <2>1, KeptBy
  <1>13. Kept(h, g, {p, sub})
    <2>1. \A m \in {old} : m \in Live(h) => m \in {p, sub} \/ (h[m].parent # NULL /\ h[m].parent \in {p, sub})
      BY <1>3
    <2> HIDE DEF p
    <2> QED BY <1>6, <1>12, <2>1, KeptTrans
  <1> QED BY <1>6, <1>7, <1>11, <1>13 DEF p, g

\* A root's key and index are nobody's concern.
RootNamedIn(h, sub, key, index) == [h EXCEPT ![sub].key = key, ![sub].index = index]

\* A root with another key and index
LEMMA RootNamed ==
    ASSUME NEW h, Good(h), NEW sub \in Roots(h), NEW key \in Keys \cup {NoKey}, NEW index \in -1..MaxNodes
    PROVE  LET g == RootNamedIn(h, sub, key, index) IN
           /\ Good(g) /\ Live(g) = Live(h) /\ Roots(g) = Roots(h)
           /\ g[sub].key = key /\ g[sub].index = index
           /\ \A m \in Ids : m # sub => g[m] = h[m]
           /\ \A m \in Live(h) : /\ g[m].type = h[m].type /\ g[m].items = h[m].items
                                 /\ g[m].parent = h[m].parent
  <1> DEFINE g == RootNamedIn(h, sub, key, index)
  <1>1. /\ h \in Heaps /\ sub \in Live(h) /\ h[sub].parent = NULL /\ sub \in Ids
        /\ h \in [Ids -> Node \cup {FreeNode}]
    BY DEF Good, Roots, Live, Heaps
  <1>2. h[sub] \in Node
    BY <1>1, NodeIs
  <1>3. /\ g[sub] = [h[sub] EXCEPT !.key = key, !.index = index]
        /\ \A m \in Ids : m # sub => g[m] = h[m]
        /\ g = [m \in Ids |-> g[m]]
    BY <1>1 DEF RootNamedIn
  <1> HIDE DEF g
  <1>4. /\ g[sub] \in Node /\ g[sub].key = key /\ g[sub].index = index
        /\ g[sub].type = h[sub].type /\ g[sub].items = h[sub].items /\ g[sub].parent = NULL
    <2>1. \A x \in Node : LET y == [x EXCEPT !.key = key, !.index = index] IN
             /\ y \in Node /\ y.key = key /\ y.index = index
             /\ y.type = x.type /\ y.items = x.items /\ y.parent = x.parent
      BY DEF Node
    <2> QED BY <1>1, <1>2, <1>3, <2>1
  <1>5. \A m \in Ids : g[m] \in Node \cup {FreeNode} /\ g[m].type = h[m].type
    BY <1>1, <1>3, <1>4
  <1>6. g \in Heaps /\ Live(g) = Live(h)
    BY <1>3, <1>5 DEF Heaps, Live
  <1>7. \A m \in Live(h) : /\ g[m].type = h[m].type /\ g[m].items = h[m].items
                           /\ g[m].parent = h[m].parent
    BY <1>1, <1>3, <1>4 DEF Live
  <1>8. ASSUME NEW m \in Live(h) PROVE LinkedDown(g, m) /\ LinkedUp(g, m)
    <2>1. LinkedDown(h, m) /\ LinkedUp(h, m)
      BY GoodLinks
    <2>2. \A i \in 1..Len(h[m].items) : h[m].items[i] \in Live(h) /\ h[h[m].items[i]].parent = m
      BY <2>1 DEF LinkedDown
    <2>3. m # NULL
      BY GoodAt
    <2>4. \A c \in Live(h) : h[c].parent = m => g[c] = h[c]
      BY <1>1, <1>3, <2>3 DEF Live
    <2>5. \A i \in 1..Len(h[m].items) :
             LET c == h[m].items[i] IN
             /\ c \in Live(g) /\ g[c].parent = m /\ g[c].key = h[c].key /\ g[c].index = h[c].index
      BY <1>6, <2>2, <2>4
    <2>6. LinkedDown(g, m)
      BY <1>7, <2>1, <2>5, DownSame
    <2>7. h[m].parent # NULL => /\ h[m].parent \in Live(g)
                                /\ g[h[m].parent].items = h[h[m].parent].items
      BY <1>6, <1>7, <2>1 DEF LinkedUp
    <2>8. LinkedUp(g, m)
      BY <1>7, <2>1, <2>7, UpSame
    <2> QED BY <2>6, <2>8
  <1>9. Linked(g)
    BY <1>6, <1>8, LinkedBoth
  <1>10. Rooted(g)
    <2>1. Rooted(h)
      BY DEF Good
    <2> QED BY <1>6, <1>7, <2>1 DEF Rooted
  <1>11. Good(g) /\ Roots(g) = Roots(h)
    BY <1>6, <1>7, <1>9, <1>10 DEF Good, Roots
  <1> QED BY <1>3, <1>4, <1>6, <1>7, <1>11 DEF g

-----------------------------------------------------------------------------
(* confignode_array_append, confignode_map_set, confignode_replace *)

\* A root under a node, with a key and a list of the node's children
JoinOf(h, n, sub, key, list) ==
    [m \in Ids |-> IF m = n THEN [h[n] EXCEPT !.items = list]
                   ELSE IF m = sub THEN [h[sub] EXCEPT !.key = key, !.parent = n]
                   ELSE h[m]]

\* What a root under a node, with a key and a new list, leaves in the other fields
LEMMA Joined ==
    ASSUME NEW h, Good(h), NEW n \in Live(h), NEW sub \in Roots(h), n # sub,
           NEW key \in Keys \cup {NoKey}, NEW list \in Seq(Ids)
    PROVE  LET g == JoinOf(h, n, sub, key, list) IN
           /\ g \in Heaps /\ Live(g) = Live(h)
           /\ g[n].items = list /\ g[sub].key = key
           /\ \A m \in Live(h) : /\ g[m].type = h[m].type
                                 /\ g[m].parent = IF m = sub THEN n ELSE h[m].parent
                                 /\ m # n => g[m].items = h[m].items
                                 /\ m # sub => g[m].key = h[m].key
                                 /\ g[m].index = h[m].index
                                 /\ m \notin {n, sub} => g[m] = h[m]
  <1> DEFINE g == JoinOf(h, n, sub, key, list)
  <1>1. /\ h \in Heaps /\ sub \in Live(h) /\ sub \in Ids /\ n \in Ids
        /\ h \in [Ids -> Node \cup {FreeNode}]
    BY DEF Good, Roots, Live, Heaps
  <1>2. h[sub] \in Node /\ h[n] \in Node
    BY <1>1, NodeIs
  <1>3. /\ g[n] = [h[n] EXCEPT !.items = list]
        /\ g[sub] = [h[sub] EXCEPT !.key = key, !.parent = n]
        /\ \A m \in Ids : m \notin {n, sub} => g[m] = h[m]
        /\ g = [m \in Ids |-> g[m]]
    BY <1>1 DEF JoinOf
  <1> HIDE DEF g
  <1>4. /\ g[n] \in Node /\ g[n].items = list /\ g[n].type = h[n].type /\ g[n].parent = h[n].parent
        /\ g[n].key = h[n].key /\ g[n].index = h[n].index
    <2>1. \A x \in Node : LET y == [x EXCEPT !.items = list] IN
             /\ y \in Node /\ y.items = list /\ y.type = x.type /\ y.parent = x.parent
             /\ y.key = x.key /\ y.index = x.index
      BY DEF Node
    <2> QED BY <1>2, <1>3, <2>1
  <1>5. /\ g[sub] \in Node /\ g[sub].items = h[sub].items /\ g[sub].type = h[sub].type
        /\ g[sub].parent = n /\ g[sub].key = key /\ g[sub].index = h[sub].index
    <2>1. \A x \in Node : LET y == [x EXCEPT !.key = key, !.parent = n] IN
             /\ y \in Node /\ y.items = x.items /\ y.type = x.type /\ y.parent = n
             /\ y.key = key /\ y.index = x.index
      BY <1>1 DEF Node
    <2> QED BY <1>2, <1>3, <2>1
  <1>6. \A m \in Ids : g[m] \in Node \cup {FreeNode} /\ g[m].type = h[m].type
    BY <1>1, <1>3, <1>4, <1>5
  <1>7. g \in Heaps /\ Live(g) = Live(h)
    BY <1>3, <1>6 DEF Heaps, Live
  <1>8. ASSUME NEW m \in Live(h)
        PROVE  /\ g[m].type = h[m].type
               /\ g[m].parent = IF m = sub THEN n ELSE h[m].parent
               /\ m # n => g[m].items = h[m].items
               /\ m # sub => g[m].key = h[m].key
               /\ g[m].index = h[m].index
               /\ m \notin {n, sub} => g[m] = h[m]
    <2>1. m \in Ids
      BY DEF Live
    <2>2. CASE m = n
      BY <1>4, <2>2
    <2>3. CASE m = sub
      BY <1>5, <2>3
    <2>4. CASE m \notin {n, sub}
      BY <1>3, <2>1, <2>4
    <2> QED BY <2>2, <2>3, <2>4
  <1> QED BY <1>4, <1>5, <1>7, <1>8 DEF g

\* A root becomes an element of an array.
LEMMA AttachedAt ==
    ASSUME NEW s, Sound(s), NEW n \in Live(s.heap), NEW sub \in Roots(s.heap),
           NEW U, Up(s.heap, U), n \in U, sub \notin U,
           NEW position \in 1..(Len(s.heap[n].items) + 1)
    PROVE  LET t == AttachAt(s, n, position, sub) IN
           /\ PlacedUnder(s, t, n, sub)
           /\ t.r = TRUE => Len(t.heap[n].items) = Len(s.heap[n].items) + 1
  <1> DEFINE h == s.heap
             t == AttachAt(s, n, position, sub)
             list == InsertAt(h[n].items, position, sub)
             k == JoinOf(h, n, sub, h[sub].key, list)
             g == Fixup(k, n)
  <1>1. /\ IsStore(s) /\ Good(h) /\ s.left \in Nat
    BY DEF Sound
  <1>2. /\ sub \in Live(h) /\ h[sub].parent = NULL /\ n # sub /\ n # NULL
        /\ n \in Ids /\ sub \in Ids /\ h[n].items \in Seq(Ids) /\ h[sub].key \in Keys \cup {NoKey}
        /\ Len(h[n].items) \in Nat
    BY <1>1, GoodAt DEF Roots
  <1>3. /\ \A i \in 1..Len(h[n].items) : h[n].items[i] \in Live(h) /\ h[h[n].items[i]].parent = n
        /\ \A i, j \in 1..Len(h[n].items) : h[n].items[i] = h[n].items[j] => i = j
    BY <1>1, GoodAt
  <1>4. CASE h[n].type # "array" \/ ~CanTake(s, 1)
    <2>1. t = Yields(s, FALSE)
      BY <1>2, <1>4 DEF AttachAt
    <2>2. Sound(t) /\ t.r = FALSE /\ t.heap = h
      <3> HIDE DEF t, h, list, k, g
      <3>2. IsStore(s)
        BY <1>1
      <3>1. t.heap = s.heap /\ t.left = s.left /\ t.r = FALSE /\ IsStore(t)
        BY <2>1, <3>2, YieldsFalse
      <3> QED BY <1>1, <3>1 DEF Sound, h
    <2> QED BY <2>2 DEF PlacedUnder, Placed
  <1>5. CASE h[n].type = "array" /\ CanTake(s, 1)
    <2>1. [h EXCEPT ![n].items = InsertAt(@, position, sub), ![sub].parent = n] = k
      <3>1. h[sub] = [h[sub] EXCEPT !.key = h[sub].key]
        <4>1. h[sub] \in Node
          BY <1>1, <1>2, GoodAt
        <4> QED BY <4>1 DEF Node
      <3>2. h = [m \in Ids |-> h[m]]
        BY <1>1 DEF Good, Heaps
      <3>3. k = [m \in Ids |-> IF m = n THEN [h[n] EXCEPT !.items = list]
                               ELSE IF m = sub THEN [h[sub] EXCEPT !.parent = n] ELSE h[m]]
        <4>1. [h[sub] EXCEPT !.key = h[sub].key, !.parent = n] = [h[sub] EXCEPT !.parent = n]
          <5>1. h[sub] \in Node
            BY <1>1, <1>2, GoodAt
          <5>2. \A x \in Node : [x EXCEPT !.key = x.key, !.parent = n] = [x EXCEPT !.parent = n]
            BY DEF Node
          <5> QED BY <5>1, <5>2
        <4> HIDE DEF list
        <4> QED BY <4>1, Zenon DEF JoinOf
      <3>4. [h EXCEPT ![n].items = InsertAt(@, position, sub), ![sub].parent = n]
              = [h EXCEPT ![n].items = list, ![sub].parent = n]
        OBVIOUS
      <3> HIDE DEF list, k, h
      <3>5. [h EXCEPT ![n].items = list, ![sub].parent = n]
              = [m \in Ids |-> IF m = n THEN [h[n] EXCEPT !.items = list]
                               ELSE IF m = sub THEN [h[sub] EXCEPT !.parent = n] ELSE h[m]]
        BY <1>2, <3>2
      <3> QED BY <3>3, <3>4, <3>5 DEF h
    <2>2. t = Return(Spent(s, 1), g, TRUE)
      <3>1. h[sub].parent = NULL
        BY <1>2
      <3> HIDE DEF k
      <3> QED BY <1>5, <2>1, <3>1, Zenon DEF AttachAt
    <2>3. t.heap = g /\ t.left = s.left - 1 /\ t.r = TRUE /\ IsStore(t)
      <3> DEFINE u == Spent(s, 1)
      <3>1. u.left = s.left - 1 /\ IsStore(u)
        BY <1>1, SpentIs
      <3> HIDE DEF u, t, g, h, list, k
      <3>2. t = Return(u, g, TRUE)
        BY <2>2 DEF u
      <3>3. IsStore(u)
        BY <3>1
      <3>4. t.heap = g /\ t.left = u.left /\ t.r = TRUE /\ IsStore(t)
        <4>1. \A y : t = Return(u, y, TRUE) =>
                       t.heap = y /\ t.left = u.left /\ t.r = TRUE /\ IsStore(t)
          BY <3>3, ReturnTrue
        <4> QED BY <3>2, <4>1
      <3> QED BY <3>1, <3>4
    <2>4. t.left \in Nat
      BY <1>1, <1>5, <2>3 DEF CanTake
    <2>5. /\ list \in Seq(Ids) /\ Len(list) = Len(h[n].items) + 1
          /\ \A i, j \in 1..Len(list) : list[i] = list[j] => i = j
          /\ \A i \in 1..Len(list) : list[i] = sub \/ \E j \in 1..Len(h[n].items) : list[i] = h[n].items[j]
          /\ \A j \in 1..Len(h[n].items) : \E i \in 1..Len(list) : list[i] = h[n].items[j]
          /\ \E i \in 1..Len(list) : list[i] = sub
      <3>1. \A i \in 1..Len(h[n].items) : h[n].items[i] # sub
        BY <1>2, <1>3
      <3> QED BY <1>2, <1>3, <3>1, Inserted
    <2> HIDE DEF list
    <2>6. /\ k \in Heaps /\ Live(k) = Live(h) /\ k[n].items = list
          /\ \A m \in Live(h) : /\ k[m].type = h[m].type
                                /\ k[m].parent = IF m = sub THEN n ELSE h[m].parent
                                /\ m # n => k[m].items = h[m].items
                                /\ m # sub => k[m].key = h[m].key
                                /\ k[m].index = h[m].index
                                /\ m \notin {n, sub} => k[m] = h[m]
      <3> HIDE DEF h, t
      <3>1. sub \in Roots(h) /\ n \in Live(h)
        BY DEF h
      <3>2. Good(h) /\ n # sub /\ h[sub].key \in Keys \cup {NoKey} /\ list \in Seq(Ids)
        BY <1>1, <1>2, <2>5
      <3>3. \A key \in Keys \cup {NoKey} : LET j == JoinOf(h, n, sub, key, list) IN
              /\ j \in Heaps /\ Live(j) = Live(h) /\ j[n].items = list
              /\ \A m \in Live(h) : /\ j[m].type = h[m].type
                                    /\ j[m].parent = IF m = sub THEN n ELSE h[m].parent
                                    /\ m # n => j[m].items = h[m].items
                                    /\ m # sub => j[m].key = h[m].key
                                    /\ j[m].index = h[m].index
                                    /\ m \notin {n, sub} => j[m] = h[m]
        BY ONLY <3>1, <3>2, Joined
      <3> QED BY <3>2, <3>3, Zenon
    <2> HIDE DEF k
    <2>7. \A i \in 1..Len(k[n].items) : k[n].items[i] \in Live(k) /\ k[k[n].items[i]].parent = n
      <3> TAKE i \in 1..Len(k[n].items)
      <3>1. i \in 1..Len(list) /\ k[n].items[i] = list[i]
        BY <2>6
      <3>2. CASE list[i] = sub
        BY <1>2, <2>6, <3>1, <3>2
      <3>3. CASE list[i] # sub
        <4>1. PICK j \in 1..Len(h[n].items) : list[i] = h[n].items[j]
          BY <2>5, <3>1, <3>3
        <4>2. list[i] \in Live(h) /\ h[list[i]].parent = n
          BY <1>3, <4>1
        <4> QED BY <2>6, <3>1, <3>3, <4>2
      <3> QED BY <3>2, <3>3
    <2>8. \A i, j \in 1..Len(k[n].items) : k[n].items[i] = k[n].items[j] => i = j
      BY <2>5, <2>6
    <2>9. /\ g \in Heaps /\ Live(g) = Live(k)
          /\ \A m \in Live(k) : /\ g[m].type = k[m].type /\ g[m].items = k[m].items
                                /\ g[m].parent = k[m].parent /\ g[m].key = k[m].key
          /\ \A m \in Live(k) : k[m].parent # n => g[m] = k[m]
          /\ k[n].type = "array" => \A i \in 1..Len(k[n].items) : g[k[n].items[i]].index = i - 1
      <3>1. n \in Live(k)
        BY <2>6
      <3> HIDE DEF h, t
      <3> QED BY <2>6, <2>7, <2>8, <3>1, Renumbered
    <2> HIDE DEF g
    <2>10. /\ Live(g) = Live(h) /\ g[n].items = list /\ g[n].type = "array" /\ k[n].type = "array"
           /\ \A m \in Live(h) : /\ g[m].type = h[m].type
                                 /\ g[m].parent = IF m = sub THEN n ELSE h[m].parent
           /\ \A m \in Live(h) \ {n} : g[m].items = h[m].items
           /\ \A m \in Live(h) \ {sub} : g[m].key = h[m].key
      BY <1>5, <2>6, <2>9
    <2>11. \A m \in Live(h) \ {sub} : h[m].parent # n => g[m].index = h[m].index
      BY <2>6, <2>9
    <2>12. \A i \in 1..Len(list) : g[list[i]].index = i - 1
      BY <2>6, <2>9, <2>10
    <2>13. Good(g) /\ Roots(g) = Roots(h) \ {sub}
      <3> HIDE DEF h, t
      <3>1. \A m \in Live(h) \ {sub} : /\ g[m].key = h[m].key
                                       /\ h[m].parent # n => g[m].index = h[m].index
        BY <2>10, <2>11
      <3>2. g \in Heaps
        BY <2>9
      <3>3. Up(h, U)
        BY DEF h
      <3>4. sub \in Roots(h) /\ n \in Live(h)
        BY DEF h
      <3>5. \A i, j \in 1..Len(g[n].items) : g[n].items[i] = g[n].items[j] => i = j
        BY <2>5, <2>10
      <3>6. /\ \A i \in 1..Len(g[n].items) :
                  g[n].items[i] = sub \/ \E j \in 1..Len(h[n].items) : g[n].items[i] = h[n].items[j]
            /\ \A j \in 1..Len(h[n].items) : \E i \in 1..Len(g[n].items) : g[n].items[i] = h[n].items[j]
            /\ \E i \in 1..Len(g[n].items) : g[n].items[i] = sub
        BY <2>5, <2>10
      <3>7. \A i \in 1..Len(g[n].items) : g[g[n].items[i]].index = i - 1
        BY <2>10, <2>12
      <3>8. g[n].type # "map"
        BY <2>10
      <3>9. /\ \A m \in Live(h) : /\ g[m].type = h[m].type
                                  /\ g[m].parent = IF m = sub THEN n ELSE h[m].parent
            /\ \A m \in Live(h) \ {n} : g[m].items = h[m].items
            /\ Live(g) = Live(h)
        BY <2>10
      <3>10. Joins(h, g, n, sub)
        BY <2>11, <3>1, <3>2, <3>5, <3>6, <3>7, <3>8, <3>9 DEF Joins
      <3> QED BY <1>1, <3>3, <3>4, <3>10, PutIn
    <2>14. Kept(h, g, {n, sub})
      <3>1. \A m \in Live(h) : g[m] = h[m] \/ m \in {n, sub} \/ (h[m].parent # NULL /\ h[m].parent \in {n, sub})
        BY <1>2, <2>6, <2>9
      <3> QED BY <3>1, KeptBy
    <2>15. sub \in Live(g) /\ g[sub].parent = n /\ g[n].type = h[n].type
      BY <1>2, <2>10
    <2> QED BY <2>3, <2>4, <2>5, <2>10, <2>13, <2>14, <2>15 DEF PlacedUnder, Placed, Sound
  <1> QED BY <1>4, <1>5

\* ... at its end
LEMMA ArrayAppended ==
    ASSUME NEW s, Sound(s), NEW n \in Live(s.heap), NEW sub \in Roots(s.heap),
           NEW U, Up(s.heap, U), n \in U, sub \notin U
    PROVE  LET t == ArrayAppend(s, n, sub) IN
           /\ PlacedUnder(s, t, n, sub)
           /\ t.r = TRUE => Len(t.heap[n].items) = Len(s.heap[n].items) + 1
  <1>1. Len(s.heap[n].items) + 1 \in 1..(Len(s.heap[n].items) + 1)
    <2>1. Len(s.heap[n].items) \in Nat
      BY GoodAt DEF Sound
    <2> QED BY <2>1
  <1>2. ArrayAppend(s, n, sub) = AttachAt(s, n, Len(s.heap[n].items) + 1, sub)
    BY DEF ArrayAppend
  <1> QED BY <1>1, <1>2, AttachedAt

\* A root becomes the entry of a key.
LEMMA MapSetIs ==
    ASSUME NEW s, Sound(s), NEW n \in Live(s.heap), NEW sub \in Roots(s.heap),
           NEW U, Up(s.heap, U), n \in U, sub \notin U,
           NEW key, s.heap[n].type = "map" => key \in Keys
    PROVE  PlacedUnder(s, MapSet(s, n, key, sub), n, sub)
  <1> DEFINE h == s.heap
             t == MapSet(s, n, key, sub)
             old == MapGet(h, n, key)
             named == [h EXCEPT ![sub].key = key]
  <1>1. /\ IsStore(s) /\ Good(h) /\ s.left \in Nat
    BY DEF Sound
  <1>2. /\ sub \in Live(h) /\ h[sub].parent = NULL /\ n # sub /\ n # NULL
        /\ n \in Ids /\ sub \in Ids /\ h[n].items \in Seq(Ids)
        /\ Len(h[n].items) \in Nat /\ h[sub].index \in -1..MaxNodes
    BY <1>1, GoodAt DEF Roots
  <1>3. t = IF h[n].type # "map" \/ ~CanTake(s, 1) THEN Yields(s, FALSE)
            ELSE IF old # NULL THEN Return(Spent(s, 1), TakePlace(named, old, sub), TRUE)
            ELSE IF ~CanTake(s, 2) THEN Yields(Spent(s, 1), FALSE)
            ELSE Return(Spent(s, 2), [named EXCEPT ![n].items = Append(@, sub), ![sub].parent = n], TRUE)
    <2>1. ~(s.heap[sub].parent # NULL)
      BY <1>2
    <2> DEFINE a == Yields(s, FALSE)
               b == Return(Spent(s, 1), TakePlace(named, old, sub), TRUE)
               c == Yields(Spent(s, 1), FALSE)
               d == Return(Spent(s, 2), [named EXCEPT ![n].items = Append(@, sub), ![sub].parent = n], TRUE)
    <2>2. t = IF s.heap[sub].parent # NULL \/ h[n].type # "map" \/ ~CanTake(s, 1) THEN a
              ELSE IF old # NULL THEN b ELSE IF ~CanTake(s, 2) THEN c ELSE d
      BY DEF MapSet
    <2> HIDE DEF t, h, old, named, a, b, c, d
    <2>3. t = IF h[n].type # "map" \/ ~CanTake(s, 1) THEN a
              ELSE IF old # NULL THEN b ELSE IF ~CanTake(s, 2) THEN c ELSE d
      BY <2>1, <2>2
    <2> QED BY <2>3 DEF a, b, c, d
  <1> HIDE DEF t
  <1>4. CASE h[n].type # "map" \/ ~CanTake(s, 1)
    <2>1. t = Yields(s, FALSE)
      BY <1>3, <1>4
    <2>2. t.heap = s.heap /\ t.left = s.left /\ t.r = FALSE /\ IsStore(t)
      <3> HIDE DEF h, old, named
      <3>1. IsStore(s)
        BY <1>1
      <3> QED BY <2>1, <3>1, YieldsFalse
    <2> QED BY <1>1, <2>2 DEF PlacedUnder, Placed, Sound, t
  <1>5. CASE h[n].type = "map" /\ CanTake(s, 1) /\ old # NULL
    <2>1. t = Return(Spent(s, 1), TakePlace(named, old, sub), TRUE)
      BY <1>3, <1>5
    <2>2. key \in Keys \cup {NoKey}
      BY <1>5
    <2>3. named = RootNamedIn(h, sub, key, h[sub].index)
      <3>1. h[sub] \in Node
        BY <1>1, <1>2, GoodAt
      <3>2. h \in [Ids -> Node \cup {FreeNode}]
        BY <1>1 DEF Good, Heaps
      <3>3. \A x \in Node : [x EXCEPT !.key = key, !.index = x.index] = [x EXCEPT !.key = key]
        BY DEF Node
      <3>4. RootNamedIn(h, sub, key, h[sub].index)
              = [h EXCEPT ![sub] = [h[sub] EXCEPT !.key = key, !.index = h[sub].index]]
        <4> HIDE DEF h
        <4> QED BY <1>2, <3>2 DEF RootNamedIn
      <3>5. named = [h EXCEPT ![sub] = [h[sub] EXCEPT !.key = key]]
        <4> HIDE DEF h
        <4> QED BY <1>2, <3>2
      <3> QED BY <3>1, <3>3, <3>4, <3>5
    <2>4. /\ Good(named) /\ Live(named) = Live(h) /\ Roots(named) = Roots(h)
          /\ named[sub].key = key
          /\ \A m \in Ids : m # sub => named[m] = h[m]
          /\ \A m \in Live(h) : /\ named[m].type = h[m].type /\ named[m].items = h[m].items
                                /\ named[m].parent = h[m].parent
      <3> HIDE DEF named
      <3>1. sub \in Roots(h)
        OBVIOUS
      <3> HIDE DEF h
      <3> DEFINE i == h[sub].index
      <3>2. i \in -1..MaxNodes /\ named = RootNamedIn(h, sub, key, i)
        BY <1>2, <2>3
      <3> HIDE DEF i
      <3>3. LET g == RootNamedIn(h, sub, key, i) IN
            /\ Good(g) /\ Live(g) = Live(h) /\ Roots(g) = Roots(h)
            /\ g[sub].key = key /\ g[sub].index = i
            /\ \A m \in Ids : m # sub => g[m] = h[m]
            /\ \A m \in Live(h) : /\ g[m].type = h[m].type /\ g[m].items = h[m].items
                                  /\ g[m].parent = h[m].parent
        BY <1>1, <2>2, <3>1, <3>2, RootNamed
      <3> QED BY <3>2, <3>3
    <2>5. /\ old \in Live(h) /\ h[old].parent = n /\ h[old].key = key
      <3> HIDE DEF h
      <3>1. n \in Live(h)
        BY DEF h
      <3> QED BY <1>1, <1>5, <3>1, MapGetIs
    <2> HIDE DEF named, old
    <2>6. /\ old \in Live(named) /\ named[old].parent = n /\ named[n].type = "map" /\ old # sub
          /\ named[old].key = key /\ sub \in Roots(named) /\ n \in Live(h)
      BY <1>2, <1>5, <2>4, <2>5 DEF Live
    <2>7. Up(named, U)
      BY <2>4 DEF Up
    <2> DEFINE g == TakePlace(named, old, sub)
    <2>8. /\ Good(g) /\ Roots(g) = Roots(named) \ {sub}
          /\ sub \in Live(g) /\ g[sub].parent = n /\ g[n].type = named[n].type
          /\ Kept(named, g, {n, sub})
      <3>1. /\ named[old].parent # NULL /\ named[old].parent \in U
            /\ named[named[old].parent].type = "map" => named[sub].key = named[old].key
            /\ named[named[old].parent].type = "array" => named[sub].index = named[old].index
        BY <1>2, <2>4, <2>6
      <3> HIDE DEF g, h
      <3>2. LET k == TakePlace(named, old, sub) IN
            /\ Good(k) /\ Roots(k) = Roots(named) \ {sub}
            /\ sub \in Live(k) /\ k[sub].parent = named[old].parent
            /\ k[named[old].parent].type = named[named[old].parent].type
            /\ Kept(named, k, {named[old].parent, sub})
        BY <2>4, <2>6, <2>7, <3>1, TakenPlace
      <3> QED BY <2>6, <3>2 DEF g
    <2>9. Kept(h, g, {n, sub})
      <3>1. Kept(h, named, {n, sub})
        <4>1. \A m \in Live(h) : \/ named[m] = h[m] \/ m \in {n, sub}
                                 \/ h[m].parent # NULL /\ h[m].parent \in {n, sub}
          BY <2>4 DEF Live
        <4> QED BY <4>1, KeptBy
      <3>2. \A m \in {n, sub} : m \in Live(h) => m \in {n, sub} \/ (h[m].parent # NULL /\ h[m].parent \in {n, sub})
        OBVIOUS
      <3> HIDE DEF g, h
      <3> QED BY <2>8, <3>1, <3>2, KeptTrans
    <2> HIDE DEF g
    <2>10. t.heap = g /\ t.left = s.left - 1 /\ t.r = TRUE /\ IsStore(t)
      <3> DEFINE u == Spent(s, 1)
      <3>1. IsStore(s)
        BY <1>1
      <3> HIDE DEF h
      <3>2. u.left = s.left - 1 /\ IsStore(u)
        BY <3>1, SpentIs
      <3> HIDE DEF u
      <3>3. t = Return(u, g, TRUE) /\ IsStore(u)
        BY <2>1, <3>2 DEF u, g
      <3> HIDE DEF t, g
      <3>4. t.heap = g /\ t.left = u.left /\ t.r = TRUE /\ IsStore(t)
        <4>1. IsStore(u)
          BY <3>3
        <4>2. \A y : t = Return(u, y, TRUE) =>
                       t.heap = y /\ t.left = u.left /\ t.r = TRUE /\ IsStore(t)
          BY <4>1, ReturnTrue
        <4> QED BY <3>3, <4>2
      <3> QED BY <3>2, <3>4
    <2>11. t.left \in Nat
      BY <1>1, <1>5, <2>10 DEF CanTake
    <2>12. g[n].type = h[n].type /\ Roots(g) = Roots(h) \ {sub}
      BY <2>4, <2>6, <2>8
    <2> QED BY <2>8, <2>9, <2>10, <2>11, <2>12 DEF PlacedUnder, Placed, Sound, t
  <1>6. CASE h[n].type = "map" /\ CanTake(s, 1) /\ old = NULL /\ ~CanTake(s, 2)
    <2>1. t = Yields(Spent(s, 1), FALSE)
      BY <1>3, <1>6
    <2> DEFINE u == Spent(s, 1)
    <2> HIDE DEF u, h, old, named
    <2>2. u.heap = s.heap /\ u.left = s.left - 1 /\ IsStore(u)
      BY <1>1, SpentIs DEF u
    <2>3. t = Yields(u, FALSE) /\ IsStore(u)
      BY <2>1, <2>2 DEF u
    <2>4. t.heap = u.heap /\ t.left = u.left /\ t.r = FALSE /\ IsStore(t)
      BY <2>3, YieldsFalse
    <2>5. t.heap = h /\ Sound(t)
      BY <1>1, <1>6, <2>2, <2>4 DEF Sound, CanTake, h
    <2> QED BY <2>4, <2>5 DEF PlacedUnder, Placed, t, h
  <1>7. CASE h[n].type = "map" /\ CanTake(s, 1) /\ old = NULL /\ CanTake(s, 2)
    <2> DEFINE list == Append(h[n].items, sub)
               g == JoinOf(h, n, sub, key, list)
    <2>1. key \in Keys
      BY <1>7
    <2>2. [named EXCEPT ![n].items = Append(@, sub), ![sub].parent = n] = g
      <3>1. h \in [Ids -> Node \cup {FreeNode}] /\ h = [m \in Ids |-> h[m]]
        BY <1>1 DEF Good, Heaps
      <3>2. h[sub] \in Node
        BY <1>1, <1>2, GoodAt
      <3>3. /\ named[n] = h[n] /\ named[sub] = [h[sub] EXCEPT !.key = key]
            /\ \A m \in Ids : m # sub => named[m] = h[m]
            /\ named = [m \in Ids |-> named[m]]
        <4> HIDE DEF h
        <4> QED BY <1>2, <3>1
      <3> DEFINE k == [named EXCEPT ![n].items = Append(@, sub), ![sub].parent = n]
      <3>4. /\ k[n] = [h[n] EXCEPT !.items = list] /\ k[sub] = [[h[sub] EXCEPT !.key = key] EXCEPT !.parent = n]
            /\ \A m \in Ids : m \notin {n, sub} => k[m] = h[m]
            /\ k = [m \in Ids |-> k[m]]
        <4>1. k = [named EXCEPT ![n].items = list, ![sub].parent = n]
          BY <3>3
        <4> HIDE DEF h, named, list, k
        <4> QED BY <1>2, <3>3, <4>1
      <3>5. \A x \in Node : [[x EXCEPT !.key = key] EXCEPT !.parent = n] = [x EXCEPT !.key = key, !.parent = n]
        BY DEF Node
      <3>6. k[sub] = [h[sub] EXCEPT !.key = key, !.parent = n]
        <4> HIDE DEF k, h
        <4> QED BY <3>2, <3>4, <3>5
      <3> HIDE DEF k, h, list
      <3>7. \A m \in Ids : k[m] = IF m = n THEN [h[n] EXCEPT !.items = list]
                                  ELSE IF m = sub THEN [h[sub] EXCEPT !.key = key, !.parent = n] ELSE h[m]
        BY <3>4, <3>6
      <3>8. k = g
        BY <3>4, <3>7 DEF JoinOf
      <3> QED BY <3>8 DEF k, h
    <2>3. t = Return(Spent(s, 2), g, TRUE)
      <3> HIDE DEF g
      <3> QED BY <1>3, <1>7, <2>2
    <2>4. /\ list \in Seq(Ids) /\ Len(list) = Len(h[n].items) + 1
          /\ \A i \in 1..Len(h[n].items) : list[i] = h[n].items[i]
          /\ list[Len(h[n].items) + 1] = sub
      <3> HIDE DEF h
      <3> QED BY <1>2
    <2>5. /\ \A i \in 1..Len(h[n].items) : h[n].items[i] \in Live(h) /\ h[h[n].items[i]].parent = n
          /\ \A i, j \in 1..Len(h[n].items) : h[n].items[i] = h[n].items[j] => i = j
          /\ \A i \in 1..Len(h[n].items) : h[h[n].items[i]].key # NoKey
          /\ \A i, j \in 1..Len(h[n].items) :
                h[h[n].items[i]].key = h[h[n].items[j]].key => i = j
          /\ \A i \in 1..Len(h[n].items) : h[h[n].items[i]].key # key
      <3>1. \A i \in 1..Len(h[n].items) : h[h[n].items[i]].key # key
        <4>1. n \in Live(h)
          OBVIOUS
        <4> HIDE DEF h
        <4> QED BY <1>1, <1>7, <4>1, MapGetIs
      <3> QED BY <1>1, <1>7, <3>1, GoodAt
    <2> HIDE DEF list, old, named
    <2>6. /\ g \in Heaps /\ Live(g) = Live(h) /\ g[n].items = list /\ g[sub].key = key
          /\ \A m \in Live(h) : /\ g[m].type = h[m].type
                                /\ g[m].parent = IF m = sub THEN n ELSE h[m].parent
                                /\ m # n => g[m].items = h[m].items
                                /\ m # sub => g[m].key = h[m].key
                                /\ g[m].index = h[m].index
                                /\ m \notin {n, sub} => g[m] = h[m]
      <3>1. sub \in Roots(h) /\ n \in Live(h) /\ key \in Keys \cup {NoKey}
        BY <2>1
      <3> HIDE DEF h
      <3>2. n # sub /\ list \in Seq(Ids) /\ Good(h)
        BY <1>1, <1>2, <2>4
      <3> QED BY <3>1, <3>2, Joined
    <2> HIDE DEF g
    <2>7. /\ n \in Live(h) /\ g[n].type = "map" /\ Up(h, U) /\ sub \in Roots(h)
      BY <1>7, <2>6
    <2> HIDE DEF h
    <2>8. /\ \A i, j \in 1..Len(list) : list[i] = list[j] => i = j
          /\ \A i \in 1..Len(list) : list[i] = sub \/ \E j \in 1..Len(h[n].items) : list[i] = h[n].items[j]
          /\ \A j \in 1..Len(h[n].items) : \E i \in 1..Len(list) : list[i] = h[n].items[j]
          /\ \E i \in 1..Len(list) : list[i] = sub
      <3>1. \A i \in 1..Len(h[n].items) : h[n].items[i] # sub
        BY <1>2, <2>5
      <3>2. \A i \in 1..Len(list) : i \in 1..Len(h[n].items) \/ i = Len(h[n].items) + 1
        BY <1>2, <2>4
      <3>3. \A i \in 1..Len(h[n].items) : i \in 1..Len(list)
        BY <1>2, <2>4
      <3>4. Len(h[n].items) + 1 \in 1..Len(list)
        BY <1>2, <2>4
      <3>5. \A i, j \in 1..Len(list) : list[i] = list[j] => i = j
        BY <2>4, <2>5, <3>1, <3>2
      <3>6. \A i \in 1..Len(list) : list[i] = sub \/ \E j \in 1..Len(h[n].items) : list[i] = h[n].items[j]
        BY <2>4, <3>2
      <3>7. \A j \in 1..Len(h[n].items) : \E i \in 1..Len(list) : list[i] = h[n].items[j]
        BY <2>4, <3>3
      <3>8. \E i \in 1..Len(list) : list[i] = sub
        BY <2>4, <3>4
      <3> QED BY <3>5, <3>6, <3>7, <3>8
    <2>9. /\ \A i \in 1..Len(list) : g[list[i]].key # NoKey
          /\ \A i, j \in 1..Len(list) : g[list[i]].key = g[list[j]].key => i = j
      <3>1. \A i \in 1..Len(list) : i \in 1..Len(h[n].items) \/ i = Len(h[n].items) + 1
        BY <1>2, <2>4
      <3>2. \A i \in 1..Len(h[n].items) : g[list[i]].key = h[h[n].items[i]].key /\ g[list[i]].key # key
                                          /\ g[list[i]].key # NoKey
        BY <1>2, <2>4, <2>5, <2>6
      <3>3. g[list[Len(h[n].items) + 1]].key = key /\ key # NoKey
        BY <2>1, <2>4, <2>6, TreeConstants
      <3>4. ASSUME NEW i \in 1..Len(list), NEW j \in 1..Len(list), g[list[i]].key = g[list[j]].key
            PROVE  i = j
        <4>1. CASE i = Len(h[n].items) + 1
          BY <3>1, <3>2, <3>3, <3>4, <4>1
        <4>2. CASE j = Len(h[n].items) + 1
          BY <3>1, <3>2, <3>3, <3>4, <4>2
        <4>3. CASE i \in 1..Len(h[n].items) /\ j \in 1..Len(h[n].items)
          BY <2>5, <3>2, <3>4, <4>3
        <4> QED BY <3>1, <4>1, <4>2, <4>3
      <3> QED BY <3>1, <3>2, <3>3, <3>4
    <2>10. Joins(h, g, n, sub)
      <3>1. list = g[n].items
        BY <2>6
      <3>2. g[n].type = "map"
        BY <2>6, <2>7
      <3> HIDE DEF g, list
      <3> QED BY <2>6, <2>7, <2>8, <2>9, <3>1, <3>2 DEF Joins
    <2>11. Good(g) /\ Roots(g) = Roots(h) \ {sub}
      BY <1>1, <2>7, <2>10, PutIn
    <2>12. Kept(h, g, {n, sub})
      <3>1. \A m \in Live(h) : g[m] = h[m] \/ m \in {n, sub} \/ (h[m].parent # NULL /\ h[m].parent \in {n, sub})
        BY <2>6
      <3> QED BY <3>1, KeptBy
    <2>13. t.heap = g /\ t.left = s.left - 2 /\ t.r = TRUE /\ IsStore(t)
      <3> DEFINE u == Spent(s, 2)
      <3>1. u.left = s.left - 2 /\ IsStore(u)
        BY <1>1, SpentIs
      <3> HIDE DEF u
      <3>2. t = Return(u, g, TRUE) /\ IsStore(u)
        BY <2>3, <3>1 DEF u
      <3> HIDE DEF t, g
      <3>3. t.heap = g /\ t.left = u.left /\ t.r = TRUE /\ IsStore(t)
        <4>1. IsStore(u)
          BY <3>2
        <4>2. \A y : t = Return(u, y, TRUE) =>
                       t.heap = y /\ t.left = u.left /\ t.r = TRUE /\ IsStore(t)
          BY <4>1, ReturnTrue
        <4> QED BY <3>2, <4>2
      <3> QED BY <3>1, <3>3
    <2>14. t.left \in Nat
      BY <1>1, <1>7, <2>13 DEF CanTake
    <2>15. sub \in Live(g) /\ g[sub].parent = n /\ g[n].type = h[n].type
      BY <1>2, <2>6, <2>7
    <2> QED BY <2>11, <2>12, <2>13, <2>14, <2>15 DEF PlacedUnder, Placed, Sound, t, h
  <1> QED BY <1>4, <1>5, <1>6, <1>7

-----------------------------------------------------------------------------
(* Calls that make nodes *)

\* A root takes the place of a node, which is freed.
LEMMA ReplaceIs ==
    ASSUME NEW s, Sound(s), NEW old \in Live(s.heap), NEW sub \in Roots(s.heap),
           NEW U, Up(s.heap, U), s.heap[old].parent # NULL => s.heap[old].parent \in U, sub \notin U
    PROVE  Placed(s, Replace(s, old, sub), sub, {s.heap[old].parent, sub})
  <1> DEFINE h == s.heap
             p == h[old].parent
             t == Replace(s, old, sub)
             key == IF h[p].type = "map" THEN h[old].key ELSE NoKey
             index == IF h[p].type = "map" THEN -1 ELSE h[old].index
             named == RootNamedIn(h, sub, key, index)
             u == IF h[p].type = "map" THEN Spent(s, 1) ELSE s
  <1>1. /\ IsStore(s) /\ Good(h) /\ s.left \in Nat
    BY DEF Sound
  <1>2. /\ sub \in Live(h) /\ h[sub].parent = NULL /\ sub \in Ids /\ old \in Live(h)
        /\ h[old].key \in Keys \cup {NoKey} /\ h[old].index \in -1..MaxNodes
    BY <1>1, GoodAt DEF Roots
  <1> DEFINE a == Yields(s, FALSE)
             b == Return(u, TakePlace(named, old, sub), TRUE)
  <1>3. t = IF p = NULL \/ h[sub].parent # NULL THEN a
            ELSE IF h[p].type = "map" /\ (h[old].key = NoKey \/ ~CanTake(s, 1)) THEN a
            ELSE b
    BY DEF Replace, RootNamedIn
  <1> HIDE DEF t, a, b
  <1>4. CASE t = a
    <2>1. t = Yields(s, FALSE) /\ IsStore(s)
      BY <1>1, <1>4 DEF a
    <2>2. t.heap = s.heap /\ t.left = s.left /\ t.r = FALSE /\ IsStore(t)
      <3> HIDE DEF h, p, named, u, key, index
      <3> QED BY <2>1, YieldsFalse
    <2> QED BY <1>1, <2>2 DEF Placed, Sound, t
  <1>5. CASE /\ t = b /\ p # NULL
             /\ h[p].type = "map" => h[old].key # NoKey /\ CanTake(s, 1)
    <2>1. p \in Live(h) /\ p \in U /\ sub # old
      <3>1. p \in Live(h)
        BY <1>1, <1>2, <1>5, GoodAt
      <3> QED BY <1>2, <1>5, <3>1
    <2>2. key \in Keys \cup {NoKey} /\ index \in -1..MaxNodes
      <3>1. -1 \in -1..MaxNodes
        BY TreeConstants
      <3> QED BY <1>2, <3>1
    <2>3. /\ h[p].type = "map" => key = h[old].key
          /\ h[p].type = "array" => index = h[old].index
      OBVIOUS
    <2>4. sub \in Roots(h) /\ Up(h, U) /\ p = h[old].parent
      OBVIOUS
    <2> HIDE DEF h, p, key, index
    <2>5. /\ Good(named) /\ Live(named) = Live(h) /\ Roots(named) = Roots(h)
          /\ named[sub].key = key /\ named[sub].index = index
          /\ \A m \in Ids : m # sub => named[m] = h[m]
          /\ \A m \in Live(h) : /\ named[m].type = h[m].type /\ named[m].items = h[m].items
                                /\ named[m].parent = h[m].parent
      <3> HIDE DEF named
      <3>1. LET g == RootNamedIn(h, sub, key, index) IN
            /\ Good(g) /\ Live(g) = Live(h) /\ Roots(g) = Roots(h)
            /\ g[sub].key = key /\ g[sub].index = index
            /\ \A m \in Ids : m # sub => g[m] = h[m]
            /\ \A m \in Live(h) : /\ g[m].type = h[m].type /\ g[m].items = h[m].items
                                  /\ g[m].parent = h[m].parent
        BY <1>1, <2>2, <2>4, RootNamed
      <3> QED BY <3>1 DEF named
    <2> HIDE DEF named
    <2>6. /\ old \in Live(named) /\ named[old].parent = p /\ named[p].type = h[p].type
          /\ named[old].key = h[old].key /\ named[old].index = h[old].index
          /\ sub \in Roots(named)
      BY <1>2, <2>1, <2>4, <2>5 DEF Live
    <2>7. Up(named, U)
      BY <2>4, <2>5 DEF Up
    <2> DEFINE g == TakePlace(named, old, sub)
    <2>8. /\ Good(g) /\ Roots(g) = Roots(named) \ {sub} /\ sub \in Live(g) /\ Kept(named, g, {p, sub})
      <3>1. /\ named[old].parent # NULL /\ named[old].parent \in U
            /\ named[named[old].parent].type = "map" => named[sub].key = named[old].key
            /\ named[named[old].parent].type = "array" => named[sub].index = named[old].index
        BY <1>5, <2>1, <2>3, <2>5, <2>6
      <3> HIDE DEF g
      <3>2. LET k == TakePlace(named, old, sub) IN
            /\ Good(k) /\ Roots(k) = Roots(named) \ {sub}
            /\ sub \in Live(k) /\ k[sub].parent = named[old].parent
            /\ k[named[old].parent].type = named[named[old].parent].type
            /\ Kept(named, k, {named[old].parent, sub})
        BY <2>5, <2>6, <2>7, <3>1, TakenPlace
      <3> QED BY <2>6, <3>2 DEF g
    <2>9. Kept(h, g, {p, sub})
      <3>1. Kept(h, named, {p, sub})
        <4>1. \A m \in Live(h) : \/ named[m] = h[m] \/ m \in {p, sub}
                                 \/ h[m].parent # NULL /\ h[m].parent \in {p, sub}
          BY <2>5 DEF Live
        <4> QED BY <4>1, KeptBy
      <3>2. \A m \in {p, sub} : m \in Live(h) => m \in {p, sub} \/ (h[m].parent # NULL /\ h[m].parent \in {p, sub})
        OBVIOUS
      <3> HIDE DEF g
      <3> QED BY <2>8, <3>1, <3>2, KeptTrans
    <2>10. IsStore(u) /\ u.left \in Nat
      <3>1. CASE h[p].type = "map"
        <4>1. u = Spent(s, 1)
          BY <3>1
        <4> HIDE DEF u
        <4>2. IsStore(u) /\ u.left = s.left - 1
          BY <1>1, <4>1, SpentIs
        <4> QED BY <1>1, <1>5, <3>1, <4>2 DEF CanTake
      <3>2. CASE h[p].type # "map"
        BY <1>1, <3>2
      <3> QED BY <3>1, <3>2
    <2> HIDE DEF g, u
    <2>11. t = Return(u, g, TRUE)
      BY <1>5 DEF b, g
    <2>12. t.heap = g /\ t.left = u.left /\ t.r = TRUE /\ IsStore(t)
      <3>1. IsStore(u)
        BY <2>10
      <3>2. \A y : t = Return(u, y, TRUE) => t.heap = y /\ t.left = u.left /\ t.r = TRUE /\ IsStore(t)
        BY <3>1, ReturnTrue
      <3> QED BY <2>11, <3>2
    <2>13. Placed(s, t, sub, {p, sub})
      BY <2>5, <2>8, <2>9, <2>10, <2>12 DEF Placed, Sound, h
    <2> QED BY <2>13 DEF t, p, h
  <1>6. \/ t = a
        \/ t = b /\ p # NULL /\ (h[p].type = "map" => h[old].key # NoKey /\ CanTake(s, 1))
    <2> HIDE DEF h, p
    <2> QED BY <1>3
  <1> QED BY <1>4, <1>5, <1>6

\* A call that leaves every node that was there as it was
Beyond(s, t) == Sound(t) /\ \A m \in Live(s.heap) : t.heap[m] = s.heap[m]

\* ... and makes a root, or none
Made(s, t) ==
    /\ Beyond(s, t)
    /\ \/ t.r = NULL /\ Roots(t.heap) = Roots(s.heap)
       \/ /\ t.r \in Live(t.heap) \ Live(s.heap)
          /\ Roots(t.heap) = Roots(s.heap) \cup {t.r}

\* The nodes that were there before a call are whole trees after it.
LEMMA BeyondUp ==
    ASSUME NEW s, Sound(s), NEW t, Beyond(s, t)
    PROVE  /\ Up(t.heap, Live(s.heap)) /\ WholeTrees(t.heap, Live(s.heap))
           /\ Live(s.heap) \subseteq Live(t.heap)
  <1>1. Good(s.heap) /\ Good(t.heap) /\ \A m \in Live(s.heap) : t.heap[m] = s.heap[m]
    BY DEF Beyond, Sound
  <1>2. WholeTrees(s.heap, Live(s.heap))
    BY <1>1, TreesAll
  <1>3. WholeTrees(t.heap, Live(s.heap))
    BY <1>1, <1>2, TreesKept
  <1> QED BY <1>1, <1>3, TreesUp DEF WholeTrees

\* A change below nodes that are new is one beyond what was there.
LEMMA BeyondMore ==
    ASSUME NEW s, Sound(s), NEW t, Beyond(s, t), NEW u, Sound(u), NEW X, Kept(t.heap, u.heap, X),
           X \cap Live(s.heap) = {}
    PROVE  Beyond(s, u)
  <1>1. Up(t.heap, Live(s.heap))
    BY BeyondUp
  <1>2. \A m \in Live(s.heap) : u.heap[m] = t.heap[m]
    <2> DEFINE W == Live(s.heap)
    <2>1. Up(t.heap, W) /\ W \cap X = {}
      BY <1>1
    <2> HIDE DEF W
    <2>2. \A m \in W : u.heap[m] = t.heap[m]
      BY <2>1, KeptUp
    <2> QED BY <2>2 DEF W
  <1> QED BY <1>2 DEF Beyond

\* Two calls beyond what was there, one after the other
LEMMA BeyondTrans ==
    ASSUME NEW s, Sound(s), NEW t, Beyond(s, t), NEW u, Beyond(t, u)
    PROVE  Beyond(s, u)
  <1>1. Live(s.heap) \subseteq Live(t.heap)
    BY BeyondUp
  <1> QED BY <1>1 DEF Beyond

\* A root is freed.
LEMMA CleanedIn ==
    ASSUME NEW s, Sound(s), NEW n \in Roots(s.heap), NEW x
    PROVE  LET t == CleanIn(s, n, x) IN
           /\ Sound(t) /\ t.r = x /\ Roots(t.heap) = Roots(s.heap) \ {n} /\ Kept(s.heap, t.heap, {n})
  <1> DEFINE g == Clean(s.heap, n)
             t == CleanIn(s, n, x)
  <1>1. IsStore(s) /\ Good(s.heap) /\ s.left \in Nat
    BY DEF Sound
  <1>2. Good(g) /\ Roots(g) = Roots(s.heap) \ {n} /\ Kept(s.heap, g, {n})
    BY <1>1, CleanRoot
  <1>3. t = Return(s, g, x)
    BY DEF CleanIn
  <1> HIDE DEF g, t
  <1>4. t.heap = g /\ t.left = s.left /\ t.r = x /\ IsStore(t)
    BY <1>1, <1>3, ReturnIs
  <1> QED BY <1>1, <1>2, <1>4 DEF Sound, t

\* A new node
LEMMA NewIs ==
    ASSUME NEW s, Sound(s), NEW type \in {"null", "value", "array", "map"},
           NEW value \in LeafValue \cup {NoValue}
    PROVE  LET t == New(s, Blank(type, value)) IN
           /\ Made(s, t)
           /\ t.r # NULL => t.heap[t.r].type = type
  <1> DEFINE h == s.heap
             node == Blank(type, value)
             t == New(s, node)
             spare == Ids \ Live(h)
             r == Min(spare)
             g == [h EXCEPT ![r] = node]
             a == Yields(s, NULL)
             b == Return(Spent(s, 1), g, r)
  <1>1. /\ IsStore(s) /\ Good(h) /\ s.left \in Nat /\ h \in Heaps
        /\ h \in [Ids -> Node \cup {FreeNode}]
    BY DEF Sound, Good, Heaps
  <1>2. t = IF ~CanTake(s, 1) \/ spare = {} THEN a ELSE b
    BY DEF New
  <1>3. CASE t = a
    <2> HIDE DEF t, h, g, node, spare, r, b
    <2>1. t = Yields(s, NULL) /\ IsStore(s)
      BY <1>1, <1>3
    <2>2. t.heap = s.heap /\ t.left = s.left /\ t.r = NULL /\ IsStore(t)
      BY <2>1, YieldsIs
    <2>3. Made(s, t) /\ t.r = NULL
      BY <1>1, <2>2 DEF Made, Beyond, Sound, h
    <2> QED BY <2>3 DEF t, node
  <1>4. CASE t = b /\ CanTake(s, 1) /\ spare # {}
    <2>1. r \in spare
      <3>1. spare \in SUBSET Nat
        BY TreeConstants
      <3> HIDE DEF spare
      <3> QED BY <1>4, <3>1, LeastIs
    <2>2. /\ node \in Node /\ node.type = type /\ node.items = <<>> /\ node.parent = NULL
      <3>1. -1 \in -1..MaxNodes
        BY TreeConstants
      <3>2. <<>> \in Seq(Ids)
        OBVIOUS
      <3>3. [type |-> type, value |-> value, key |-> NoKey, index |-> -1,
             parent |-> NULL, items |-> <<>>] \in Node
        BY <3>1, <3>2, NodeMade
      <3> QED BY <3>3 DEF Blank
    <2>3. r \in Ids /\ r \notin Live(h)
      BY <2>1
    <2>4. g \in Heaps /\ g[r] = node /\ \A m \in Ids : m # r => g[m] = h[m]
      <3> HIDE DEF h, r, node
      <3> QED BY <1>1, <2>2, <2>3 DEF Heaps
    <2> HIDE DEF g, r, node, spare
    <2>5. Live(g) = Live(h) \cup {r}
      BY <2>2, <2>3, <2>4 DEF Live
    <2>6. \A m \in Live(h) : g[m] = h[m] /\ m # r
      BY <2>3, <2>4 DEF Live
    <2>7. ASSUME NEW m \in Live(g) PROVE LinkedDown(g, m) /\ LinkedUp(g, m)
      <3>1. CASE m = r
        <4>1. Len(<<>>) = 0
          OBVIOUS
        <4> QED BY <2>2, <2>4, <3>1, <4>1 DEF LinkedDown, LinkedUp
      <3>2. CASE m # r
        <4>1. m \in Live(h)
          BY <2>5, <3>2
        <4> HIDE DEF h
        <4>2. LinkedDown(h, m) /\ LinkedUp(h, m)
          BY <1>1, <4>1, GoodLinks
        <4>3. \A i \in 1..Len(h[m].items) :
                 LET c == h[m].items[i] IN
                 /\ c \in Live(g) /\ g[c].parent = m /\ g[c].key = h[c].key /\ g[c].index = h[c].index
          BY <2>5, <2>6, <4>2 DEF LinkedDown
        <4>4. g[m] = h[m]
          BY <2>6, <4>1
        <4>5. LinkedDown(g, m)
          BY <4>2, <4>3, <4>4, DownSame
        <4>6. h[m].parent # NULL => /\ h[m].parent \in Live(g)
                                    /\ g[h[m].parent].items = h[h[m].parent].items
          BY <2>5, <2>6, <4>2 DEF LinkedUp
        <4>7. LinkedUp(g, m)
          BY <4>2, <4>4, <4>6, UpSame
        <4> QED BY <4>5, <4>7
      <3> QED BY <3>1, <3>2
    <2>8. Linked(g)
      BY <2>4, <2>7, LinkedBoth
    <2>9. Rooted(g)
      <3> HIDE DEF h
      <3>1. Rooted(h)
        BY <1>1 DEF Good
      <3> SUFFICES ASSUME NEW S \in SUBSET Live(g), S # {}, \A m \in S : g[m].parent \in S
                   PROVE  FALSE
        BY DEF Rooted
      <3>2. r \notin S
        <4>1. NULL \notin Live(g)
          BY TreeConstants DEF Live
        <4> QED BY <2>2, <2>4, <4>1
      <3>3. S \in SUBSET Live(h) /\ \A m \in S : h[m].parent \in S
        BY <2>5, <2>6, <3>2
      <3> QED BY <3>1, <3>3 DEF Rooted
    <2>10. Good(g)
      BY <2>4, <2>8, <2>9 DEF Good
    <2>11. Roots(g) = Roots(h) \cup {r}
      BY <2>2, <2>4, <2>5, <2>6 DEF Roots
    <2> DEFINE u == Spent(s, 1)
    <2> HIDE DEF u, h, t
    <2>12. u.left = s.left - 1 /\ IsStore(u)
      BY <1>1, SpentIs DEF u
    <2>13. t = Return(u, g, r) /\ IsStore(u)
      BY <1>4, <2>12 DEF u
    <2>14. t.heap = g /\ t.left = u.left /\ t.r = r /\ IsStore(t)
      BY <2>13, ReturnIs
    <2>15. t.left \in Nat
      BY <1>1, <1>4, <2>12, <2>14 DEF CanTake
    <2>16. Made(s, t) /\ t.heap[t.r].type = type
      BY <2>2, <2>3, <2>4, <2>5, <2>6, <2>10, <2>11, <2>14, <2>15 DEF Made, Beyond, Sound, h
    <2> QED BY <2>16 DEF t, node
  <1>5. t = a \/ (t = b /\ CanTake(s, 1) /\ spare # {})
    BY <1>2
  <1> QED BY <1>3, <1>4, <1>5

\* A store with another result, or with less left
LEMMA SoundYields ==
    ASSUME NEW s, Sound(s), NEW x
    PROVE  LET t == Yields(s, x) IN Sound(t) /\ t.heap = s.heap /\ t.left = s.left /\ t.r = x
  <1> DEFINE t == Yields(s, x)
  <1>1. IsStore(s)
    BY DEF Sound
  <1> HIDE DEF t
  <1>2. t.heap = s.heap /\ t.left = s.left /\ t.r = x /\ IsStore(t)
    BY <1>1, YieldsIs DEF t
  <1> QED BY <1>2 DEF Sound, t

\* ... with less left
LEMMA SoundSpent ==
    ASSUME NEW s, Sound(s), NEW k \in Nat, CanTake(s, k)
    PROVE  LET t == Spent(s, k) IN Sound(t) /\ t.heap = s.heap /\ t.r = s.r
  <1> DEFINE t == Spent(s, k)
  <1>1. IsStore(s)
    BY DEF Sound
  <1> HIDE DEF t
  <1>2. t.heap = s.heap /\ t.left = s.left - k /\ t.r = s.r /\ IsStore(t)
    BY <1>1, SpentIs DEF t
  <1>3. t.left \in Nat
    BY <1>2 DEF Sound, CanTake
  <1> QED BY <1>2, <1>3 DEF Sound, t

\* ... with another heap
LEMMA SoundReturn ==
    ASSUME NEW s, Sound(s), NEW g, Good(g), NEW x
    PROVE  LET t == Return(s, g, x) IN Sound(t) /\ t.heap = g /\ t.left = s.left /\ t.r = x
  <1> DEFINE t == Return(s, g, x)
  <1>1. IsStore(s)
    BY DEF Sound
  <1> HIDE DEF t
  <1>2. t.heap = g /\ t.left = s.left /\ t.r = x /\ IsStore(t)
    BY <1>1, ReturnIs DEF t
  <1> QED BY <1>2 DEF Sound, t

\* The store a call starts with
LEMMA SoundStore ==
    ASSUME NEW h, Good(h), NEW left \in Nat
    PROVE  LET s == Store(h, left) IN Sound(s) /\ s.heap = h /\ s.left = left /\ s.r = NULL
  BY DEF Sound, IsStore, Store

\* A root that was made is freed again.
LEMMA MadeDropped ==
    ASSUME NEW s, Sound(s), NEW t, Beyond(s, t), NEW n \in Roots(t.heap), n \notin Live(s.heap), NEW x
    PROVE  LET u == CleanIn(t, n, x) IN
           Beyond(s, u) /\ u.r = x /\ Roots(u.heap) = Roots(t.heap) \ {n}
  <1> DEFINE u == CleanIn(t, n, x)
  <1>1. Sound(t)
    BY DEF Beyond
  <1> HIDE DEF u
  <1>2. Sound(u) /\ u.r = x /\ Roots(u.heap) = Roots(t.heap) \ {n} /\ Kept(t.heap, u.heap, {n})
    BY <1>1, CleanedIn DEF u
  <1>3. {n} \cap Live(s.heap) = {}
    OBVIOUS
  <1>4. Beyond(s, u)
    BY <1>2, <1>3, BeyondMore
  <1> QED BY <1>2, <1>4 DEF u

\* confignode_new_value makes a node or leaves everything as it was.
LEMMA NewValueIs ==
    ASSUME NEW s, Sound(s), NEW value \in LeafValue \cup {NoValue}
    PROVE  Made(s, NewValue(s, value))
  <1> DEFINE made == New(s, Blank("value", value))
             t == NewValue(s, value)
  <1>1. t = IF made.r = NULL \/ value.kind # "string" THEN made
            ELSE IF CanTake(made, 1) THEN Spent(made, 1) ELSE CleanIn(made, made.r, NULL)
    BY DEF NewValue
  <1>2. Made(s, made)
    BY NewIs
  <1> HIDE DEF made, t
  <1>3. Beyond(s, made) /\ Sound(made)
    BY <1>2 DEF Made, Beyond
  <1>4. CASE t = made
    BY <1>2, <1>4 DEF t
  <1>5. CASE made.r # NULL /\ CanTake(made, 1) /\ t = Spent(made, 1)
    <2>1. Sound(t) /\ t.heap = made.heap /\ t.r = made.r
      BY <1>3, <1>5, SoundSpent
    <2>2. Made(s, t)
      BY <1>2, <2>1 DEF Made, Beyond
    <2> QED BY <2>2 DEF t
  <1>6. CASE made.r # NULL /\ t = CleanIn(made, made.r, NULL)
    <2>1. /\ made.r \in Live(made.heap) /\ made.r \notin Live(s.heap)
          /\ Roots(made.heap) = Roots(s.heap) \cup {made.r}
      BY <1>2, <1>6 DEF Made
    <2>2. made.r \in Roots(made.heap) /\ made.r \notin Roots(s.heap)
      BY <2>1 DEF Roots
    <2>3. Beyond(s, t) /\ t.r = NULL /\ Roots(t.heap) = Roots(made.heap) \ {made.r}
      BY <1>3, <1>6, <2>1, <2>2, MadeDropped
    <2>4. Made(s, t)
      BY <2>1, <2>2, <2>3 DEF Made
    <2> QED BY <2>4 DEF t
  <1> QED BY <1>1, <1>4, <1>5, <1>6

\* A new node is put in its place, or freed.
PutOrFreed(s, made, put, X, good, bad, t) ==
    /\ Sound(t) /\ Roots(t.heap) = Roots(s.heap) \ {made} /\ Kept(s.heap, t.heap, X \cup {made})
    /\ \/ put.r = TRUE /\ t.r = good /\ t.heap = put.heap
       \/ put.r = FALSE /\ t.r = bad /\ Kept(s.heap, t.heap, {made})

\* OrDrop puts a root in its place or frees it.
LEMMA PutOrDropped ==
    ASSUME NEW s, Sound(s), NEW made \in Roots(s.heap), NEW put, NEW X, Placed(s, put, made, X),
           NEW good, NEW bad
    PROVE  PutOrFreed(s, made, put, X, good, bad, OrDrop(put, made, good, bad))
  <1> DEFINE t == OrDrop(put, made, good, bad)
  <1>1. t = IF put.r THEN Yields(put, good) ELSE CleanIn(put, made, bad)
    BY DEF OrDrop
  <1>2. Sound(put)
    BY DEF Placed
  <1> HIDE DEF t
  <1>3. CASE put.r = TRUE
    <2>1. Roots(put.heap) = Roots(s.heap) \ {made} /\ Kept(s.heap, put.heap, X)
      BY <1>3 DEF Placed
    <2>2. t = Yields(put, good)
      BY <1>1, <1>3
    <2>3. Sound(t) /\ t.heap = put.heap /\ t.r = good
      BY <1>2, <2>2, SoundYields
    <2>4. Kept(s.heap, put.heap, X \cup {made})
      <3>1. X \subseteq X \cup {made}
        OBVIOUS
      <3> QED BY <2>1, <3>1, KeptMore
    <2> QED BY <1>3, <2>1, <2>3, <2>4 DEF PutOrFreed, t
  <1>4. CASE put.r = FALSE /\ put.heap = s.heap
    <2>1. t = CleanIn(put, made, bad)
      BY <1>1, <1>4
    <2>2. made \in Roots(put.heap)
      BY <1>4
    <2>3. /\ Sound(t) /\ t.r = bad /\ Roots(t.heap) = Roots(put.heap) \ {made}
          /\ Kept(put.heap, t.heap, {made})
      BY <1>2, <2>1, <2>2, CleanedIn
    <2>4. Kept(s.heap, t.heap, X \cup {made})
      <3>1. {made} \subseteq X \cup {made} /\ Kept(s.heap, t.heap, {made})
        BY <1>4, <2>3
      <3> QED BY <3>1, KeptMore
    <2>5. Kept(s.heap, t.heap, {made})
      BY <1>4, <2>3
    <2> QED BY <1>4, <2>3, <2>4, <2>5 DEF PutOrFreed, t
  <1> QED BY <1>3, <1>4 DEF Placed

-----------------------------------------------------------------------------
(* Calls within a node *)

\* A call that changes nothing but node n and what is below it, and keeps every
\* tree
Within(s, n, t) ==
    /\ Sound(t) /\ Roots(t.heap) = Roots(s.heap)
    /\ n \in Live(t.heap) /\ Kept(s.heap, t.heap, {n})

\* A node's place stays what it was when all below it may change.
LEMMA WithinSame ==
    ASSUME NEW s, Sound(s), NEW n \in Live(s.heap), NEW t, Sound(t), t.heap = s.heap
    PROVE  Within(s, n, t)
  <1>1. \A m \in Live(s.heap) : t.heap[m] = s.heap[m]
    OBVIOUS
  <1>2. Kept(s.heap, t.heap, {n})
    BY <1>1, KeptBy
  <1> QED BY <1>2 DEF Within

\* Two calls within a node, one after the other
LEMMA WithinTrans ==
    ASSUME NEW s, NEW n, NEW t, Within(s, n, t), NEW u, Within(t, n, u)
    PROVE  Within(s, n, u)
  <1>1. \A m \in {n} : m \in Live(s.heap) => m \in {n} \/ (s.heap[m].parent # NULL /\ s.heap[m].parent \in {n})
    OBVIOUS
  <1>2. Kept(s.heap, t.heap, {n}) /\ Kept(t.heap, u.heap, {n})
    BY DEF Within
  <1>3. Kept(s.heap, u.heap, {n})
    BY <1>1, <1>2, KeptTrans
  <1> QED BY <1>3 DEF Within

\* A call beyond what was there keeps all of it.
LEMMA BeyondKept ==
    ASSUME NEW s, NEW t, Beyond(s, t), NEW X
    PROVE  Kept(s.heap, t.heap, X)
  <1>1. \A m \in Live(s.heap) : t.heap[m] = s.heap[m]
    BY DEF Beyond
  <1> QED BY <1>1, KeptBy

\* Nothing new joined a node and nothing new is left: the call of a node that was
\* made for n.
LEMMA BeyondWithin ==
    ASSUME NEW s, Sound(s), NEW n \in Live(s.heap), NEW t, Beyond(s, t), Roots(t.heap) = Roots(s.heap)
    PROVE  Within(s, n, t) /\ t.heap[n] = s.heap[n]
  <1>1. Live(s.heap) \subseteq Live(t.heap)
    BY BeyondUp
  <1>2. Kept(s.heap, t.heap, {n})
    BY BeyondKept
  <1> QED BY <1>1, <1>2 DEF Within, Beyond

\* A node is made and put under n, or freed.
PutUnder(s, n, put, good, bad, t) ==
    /\ Within(s, n, t) /\ t.heap[n].type = s.heap[n].type
    /\ \/ put.r = TRUE /\ t.r = good /\ t.heap = put.heap
       \/ put.r = FALSE /\ t.r = bad

\* A node made for the children of n is put there or freed, within n.
LEMMA MadeWithin ==
    ASSUME NEW s, Sound(s), NEW n \in Live(s.heap), NEW made, Made(s, made), made.r # NULL,
           NEW put, PlacedUnder(made, put, n, made.r), NEW good, NEW bad
    PROVE  PutUnder(s, n, put, good, bad, OrDrop(put, made.r, good, bad))
  <1> DEFINE t == OrDrop(put, made.r, good, bad)
  <1>1. /\ Beyond(s, made) /\ Sound(made)
        /\ made.r \in Live(made.heap) /\ made.r \notin Live(s.heap) /\ Roots(made.heap) = Roots(s.heap) \cup {made.r}
    BY DEF Made, Beyond
  <1>2. made.r \in Roots(made.heap) /\ made.r \notin Roots(s.heap) /\ made.r # n
    BY <1>1 DEF Roots
  <1>3. /\ Live(s.heap) \subseteq Live(made.heap) /\ Up(made.heap, Live(s.heap))
        /\ made.heap[n] = s.heap[n]
    BY <1>1, BeyondUp DEF Beyond
  <1>4. Placed(made, put, made.r, {n, made.r})
    BY DEF PlacedUnder
  <1> HIDE DEF t
  <1>5. /\ Sound(t) /\ Roots(t.heap) = Roots(made.heap) \ {made.r}
        /\ Kept(made.heap, t.heap, {n, made.r} \cup {made.r})
        /\ \/ put.r = TRUE /\ t.r = good /\ t.heap = put.heap
           \/ put.r = FALSE /\ t.r = bad /\ Kept(made.heap, t.heap, {made.r})
    <2>1. PutOrFreed(made, made.r, put, {n, made.r}, good, bad, t)
      BY <1>1, <1>2, <1>4, PutOrDropped DEF t
    <2> QED BY <2>1 DEF PutOrFreed
  <1>6. Kept(s.heap, t.heap, {n})
    <2>1. Kept(s.heap, made.heap, {n})
      BY <1>1, BeyondKept
    <2>2. \A m \in {n, made.r} \cup {made.r} : m \in Live(s.heap) => m \in {n} \/ (s.heap[m].parent # NULL /\ s.heap[m].parent \in {n})
      BY <1>1
    <2> DEFINE Y == {n, made.r} \cup {made.r}
    <2> HIDE DEF Y
    <2>3. Kept(made.heap, t.heap, Y) /\ \A m \in Y : m \in Live(s.heap) => m \in {n} \/ (s.heap[m].parent # NULL /\ s.heap[m].parent \in {n})
      BY <1>5, <2>2 DEF Y
    <2> QED BY <2>1, <2>3, KeptTrans
  <1>7. n \in Live(t.heap) /\ t.heap[n].type = s.heap[n].type
    <2>1. n \in Ids /\ s.heap[n].type # "free"
      BY DEF Live
    <2>2. CASE put.r = TRUE /\ t.heap = put.heap
      BY <1>3, <2>1, <2>2 DEF PlacedUnder, Live
    <2>3. CASE Kept(made.heap, t.heap, {made.r})
      <3> DEFINE W == Live(s.heap)
      <3>1. Up(made.heap, W) /\ W \cap {made.r} = {} /\ n \in W
        BY <1>1, <1>3
      <3> HIDE DEF W
      <3>2. t.heap[n] = made.heap[n]
        BY <2>3, <3>1, KeptUp
      <3> QED BY <1>3, <2>1, <3>2 DEF Live
    <2> QED BY <1>5, <2>2, <2>3
  <1>8. Roots(t.heap) = Roots(s.heap)
    BY <1>1, <1>2, <1>5
  <1>9. PutUnder(s, n, put, good, bad, t)
    BY <1>5, <1>6, <1>7, <1>8 DEF Within, PutUnder
  <1> QED BY <1>9 DEF t

\* One more element, or none
LEMMA LengthenedIs ==
    ASSUME NEW s, Sound(s), NEW n \in Live(s.heap), s.heap[n].type = "array"
    PROVE  LET t == Lengthened(s, n) IN
           /\ Within(s, n, t) /\ t.heap[n].type = "array" /\ t.r \in BOOLEAN
           /\ t.r = TRUE => Len(t.heap[n].items) = Len(s.heap[n].items) + 1
  <1> DEFINE t == Lengthened(s, n)
             made == New(s, Blank("null", NoValue))
             put == ArrayAppend(made, n, made.r)
  <1>1. t = IF made.r = NULL THEN Yields(made, FALSE) ELSE OrDrop(put, made.r, TRUE, FALSE)
    BY DEF Lengthened
  <1>2. Made(s, made)
    BY NewIs
  <1> HIDE DEF t, made, put
  <1>3. Beyond(s, made) /\ Sound(made) /\ made.heap[n] = s.heap[n]
    BY <1>2 DEF Made, Beyond
  <1>4. CASE made.r = NULL
    <2>1. Roots(made.heap) = Roots(s.heap)
      <3>1. NULL \notin Live(made.heap)
        BY TreeConstants DEF Live
      <3> QED BY <1>2, <1>4, <3>1 DEF Made
    <2>2. Within(s, n, made)
      BY <1>3, <2>1, BeyondWithin
    <2>3. Sound(t) /\ t.heap = made.heap /\ t.r = FALSE
      BY <1>1, <1>3, <1>4, SoundYields
    <2>4. Within(s, n, t)
      BY <2>2, <2>3 DEF Within
    <2> QED BY <1>3, <2>3, <2>4 DEF t
  <1>5. CASE made.r # NULL
    <2>1. /\ made.r \in Live(made.heap) /\ made.r \notin Live(s.heap)
          /\ Roots(made.heap) = Roots(s.heap) \cup {made.r}
      BY <1>2, <1>5 DEF Made
    <2>2. /\ n \in Live(made.heap) /\ made.r \in Roots(made.heap)
          /\ Up(made.heap, Live(s.heap))
      BY <1>3, <2>1, BeyondUp
    <2>3. /\ PlacedUnder(made, put, n, made.r)
          /\ put.r = TRUE => Len(put.heap[n].items) = Len(made.heap[n].items) + 1
      BY <1>3, <2>1, <2>2, ArrayAppended DEF put
    <2>4. t = OrDrop(put, made.r, TRUE, FALSE)
      BY <1>1, <1>5
    <2>5. /\ Within(s, n, t) /\ t.heap[n].type = s.heap[n].type
          /\ \/ put.r = TRUE /\ t.r = TRUE /\ t.heap = put.heap
             \/ put.r = FALSE /\ t.r = FALSE
      <3> DEFINE yes == TRUE
                 no == FALSE
      <3>1. t = OrDrop(put, made.r, yes, no)
        BY <2>4
      <3> HIDE DEF yes, no
      <3>2. PutUnder(s, n, put, yes, no, t)
        BY <1>2, <1>5, <2>3, <3>1, MadeWithin
      <3> QED BY <3>2 DEF PutUnder, yes, no
    <2> QED BY <1>3, <2>3, <2>5 DEF t
  <1> QED BY <1>4, <1>5

\* A store is a record.
LEMMA StoreIn ==
    ASSUME NEW t, Sound(t), NEW R, t.r \in R
    PROVE  t \in [heap : Heaps, left : Nat, r : R]
  <1>1. t = [heap |-> t.heap, left |-> t.left, r |-> t.r] /\ t.heap \in Heaps /\ t.left \in Nat
    BY DEF Sound, IsStore, Good
  <1> QED BY <1>1

\* The array n of s, some elements longer or not
Longer(s, n, t) == Within(s, n, t) /\ t.heap[n].type = "array" /\ t.r \in BOOLEAN

\* A step of the loop in confignode_array_extend
LEMMA LengthenToIs ==
    ASSUME NEW s, NEW n, NEW t, Longer(s, n, t), NEW length \in Nat
    PROVE  LET u == LengthenTo(t, n, length) IN
           /\ Longer(s, n, u)
           /\ u.r = TRUE => \/ Len(u.heap[n].items) >= length
                            \/ t.r = TRUE /\ Len(u.heap[n].items) = Len(t.heap[n].items) + 1
  <1> DEFINE u == LengthenTo(t, n, length)
  <1>1. u = IF ~t.r \/ Len(t.heap[n].items) >= length THEN t ELSE Lengthened(t, n)
    BY DEF LengthenTo
  <1>2. Sound(t) /\ n \in Live(t.heap) /\ t.heap[n].type = "array" /\ t.r \in BOOLEAN
    BY DEF Longer, Within
  <1> HIDE DEF u
  <1>3. CASE u = t /\ (~t.r \/ Len(t.heap[n].items) >= length)
    BY <1>2, <1>3 DEF u
  <1>4. CASE u = Lengthened(t, n) /\ t.r = TRUE
    <2>1. /\ Within(t, n, u) /\ u.heap[n].type = "array" /\ u.r \in BOOLEAN
          /\ u.r = TRUE => Len(u.heap[n].items) = Len(t.heap[n].items) + 1
      BY <1>2, <1>4, LengthenedIs
    <2>2. Within(s, n, t)
      BY DEF Longer
    <2>3. Within(s, n, u)
      BY <2>1, <2>2, WithinTrans
    <2>4. Longer(s, n, u)
      BY <2>1, <2>3 DEF Longer
    <2> QED BY <1>4, <2>1, <2>4 DEF u
  <1> QED BY <1>1, <1>2, <1>3, <1>4

\* The loop
Extends(f, s, n, length) ==
    /\ f[0] = Yields(s, TRUE)
    /\ \A k \in 1..length : f[k] = LengthenTo(f[k - 1], n, length)
    /\ ArrayExtend(s, n, length) =
         IF s.heap[n].type # "array" THEN Yields(s, FALSE)
         ELSE IF f[length].r THEN Return(f[length], Fixup(f[length].heap, n), TRUE)
         ELSE f[length]

\* The loop of confignode_array_extend takes its steps.
LEMMA ExtendSteps ==
    ASSUME NEW s, Sound(s), NEW n \in Live(s.heap), s.heap[n].type = "array", NEW length \in Nat
    PROVE  Longer(s, n, Yields(s, TRUE)) /\ \E f : Extends(f, s, n, length)
  <1> DEFINE X == {t \in [heap : Heaps, left : Nat, r : BOOLEAN] : Longer(s, n, t)}
             start == Yields(s, TRUE)
             step == [p \in X \X (1..length) |-> LengthenTo(p[1], n, length)]
             Body(f) == [k \in 0..length |-> IF k = 0 THEN start ELSE LengthenTo(f[k - 1], n, length)]
             f == CHOOSE g : g = Body(g)
  <1>1. ArrayExtend(s, n, length) =
         IF s.heap[n].type # "array" THEN Yields(s, FALSE)
         ELSE IF f[length].r THEN Return(f[length], Fixup(f[length].heap, n), TRUE)
         ELSE f[length]
    BY Zenon DEF ArrayExtend
  <1>2. \A t : Longer(s, n, t) => t \in X
    <2> TAKE t
    <2> HAVE Longer(s, n, t)
    <2>1. Sound(t) /\ t.r \in BOOLEAN
      BY DEF Longer, Within
    <2> DEFINE B == BOOLEAN
    <2>2. t.r \in B
      BY <2>1
    <2> HIDE DEF B
    <2>3. t \in [heap : Heaps, left : Nat, r : B]
      BY <2>1, <2>2, StoreIn
    <2> QED BY <2>3 DEF B
  <1>3. \A t \in X : Longer(s, n, t)
    OBVIOUS
  <1> HIDE DEF X
  <1>4. Longer(s, n, start)
    <2> DEFINE yes == TRUE
               u == Yields(s, yes)
    <2> HIDE DEF yes, u
    <2>1. Sound(u) /\ u.heap = s.heap /\ u.r = yes
      BY SoundYields DEF u
    <2>2. Within(s, n, u)
      BY <2>1, WithinSame
    <2>3. u = start
      BY DEF u, yes
    <2> QED BY <2>1, <2>2, <2>3 DEF Longer, yes
  <1> HIDE DEF start
  <1>5. \A t \in X : LengthenTo(t, n, length) \in X
    BY <1>2, <1>3, LengthenToIs
  <1>6. IsStep(step, X, length) /\ \A t \in X, k \in 1..length : step[<<t, k>>] = LengthenTo(t, n, length)
    <2>1. ASSUME NEW p \in X \X (1..length) PROVE LengthenTo(p[1], n, length) \in X
      <3>1. p[1] \in X
        OBVIOUS
      <3> QED BY <1>5, <3>1
    <2> QED BY <2>1 DEF IsStep
  <1> HIDE DEF step
  <1>7. start \in X
    BY <1>2, <1>4
  <1>8. PICK g : Iterates(g, X, length, start, step)
    BY <1>6, <1>7, Iteration, Zenon
  <1>9. g = Body(g)
    <2>1. g \in [0..length -> X] /\ g[0] = start
      BY <1>8 DEF Iterates
    <2>2. \A k \in 1..length : g[k] = LengthenTo(g[k - 1], n, length)
      <3> TAKE k \in 1..length
      <3>1. k - 1 \in 0..length
        OBVIOUS
      <3>2. g[k - 1] \in X /\ g[k] = step[<<g[k - 1], k>>]
        BY <1>8, <2>1, <3>1 DEF Iterates
      <3> QED BY <1>6, <3>2
    <2>3. \A k \in 0..length : g[k] = IF k = 0 THEN start ELSE LengthenTo(g[k - 1], n, length)
      <3> TAKE k \in 0..length
      <3>1. k # 0 => k \in 1..length
        OBVIOUS
      <3> QED BY <2>1, <2>2, <3>1
    <2>4. g = [k \in 0..length |-> g[k]]
      BY <2>1
    <2> QED BY <2>3, <2>4
  <1>10. f = Body(f)
    <2> HIDE DEF Body
    <2> QED BY <1>9, Zenon
  <1> HIDE DEF f
  <1>11. f[0] = start /\ \A k \in 1..length : f[k] = LengthenTo(f[k - 1], n, length)
    <2> DEFINE B == Body(f)
    <2>1. B[0] = start /\ \A k \in 1..length : B[k] = LengthenTo(f[k - 1], n, length)
      <3>1. 0 \in 0..length /\ \A k \in 1..length : k \in 0..length /\ k # 0
        OBVIOUS
      <3> QED BY <3>1
    <2> HIDE DEF B
    <2>2. f = B
      BY <1>10 DEF B
    <2> QED BY <2>1, <2>2
  <1>12. Extends(f, s, n, length)
    BY <1>1, <1>11 DEF Extends, start
  <1> QED BY <1>4, <1>12 DEF start

\* confignode_array_extend makes an array at least as long as it is told, or
\* fails; in both cases it only appends elements.
LEMMA ArrayExtendIs ==
    ASSUME NEW s, Sound(s), NEW n \in Live(s.heap), NEW length \in Nat
    PROVE  LET t == ArrayExtend(s, n, length) IN
           /\ Within(s, n, t) /\ t.heap[n].type = s.heap[n].type /\ t.r \in BOOLEAN
           /\ t.r = TRUE => t.heap[n].type = "array" /\ Len(t.heap[n].items) >= length
  <1> DEFINE t == ArrayExtend(s, n, length)
  <1>1. CASE s.heap[n].type # "array"
    <2>1. t = Yields(s, FALSE)
      BY <1>1, Zenon DEF ArrayExtend
    <2> DEFINE no == FALSE
    <2> HIDE DEF t, no
    <2>2. t = Yields(s, no)
      BY <2>1 DEF no
    <2>3. Sound(t) /\ t.heap = s.heap /\ t.r = no
      BY <2>2, SoundYields
    <2>4. Within(s, n, t)
      BY <2>3, WithinSame
    <2> QED BY <2>3, <2>4 DEF no, t
  <1>2. CASE s.heap[n].type = "array"
    <2>1. Longer(s, n, Yields(s, TRUE)) /\ \E f : Extends(f, s, n, length)
      BY <1>2, ExtendSteps
    <2>2. PICK f : Extends(f, s, n, length)
      BY <2>1
    <2> DEFINE e == f[length]
    <2>3. t = IF e.r THEN Return(e, Fixup(e.heap, n), TRUE) ELSE e
      BY <1>2, <2>2 DEF Extends
    <2> HIDE DEF t
    <2>4. /\ f[0] = Yields(s, TRUE)
          /\ \A k \in 1..length : f[k] = LengthenTo(f[k - 1], n, length)
      BY <2>2 DEF Extends
    <2> DEFINE S == {k \in 0..length : /\ Longer(s, n, f[k])
                                       /\ f[k].r = TRUE => Len(f[k].heap[n].items) >= k}
    <2>5. 0 \in S
      <3>1. Longer(s, n, f[0])
        BY <2>1, <2>4
      <3> DEFINE u == f[0]
      <3> HIDE DEF u
      <3>2. Longer(s, n, u)
        BY <3>1 DEF u
      <3>3. Good(u.heap) /\ n \in Live(u.heap)
        BY <3>2 DEF Longer, Within, Sound
      <3>4. Len(u.heap[n].items) >= 0
        BY <3>3, GoodAt
      <3> QED BY <3>2, <3>4 DEF u
    <2>6. ASSUME NEW k \in 0..(length - 1), k \in S PROVE k + 1 \in S
      <3> DEFINE u == f[k]
                 v == f[k + 1]
      <3>1. k + 1 \in 1..length /\ (k + 1) - 1 = k
        OBVIOUS
      <3>2. v = LengthenTo(u, n, length)
        BY <2>4, <3>1
      <3>3. Longer(s, n, u) /\ (u.r = TRUE => Len(u.heap[n].items) >= k)
        BY <2>6
      <3> HIDE DEF u, v
      <3>4. /\ Longer(s, n, v)
            /\ v.r = TRUE => \/ Len(v.heap[n].items) >= length
                             \/ u.r = TRUE /\ Len(v.heap[n].items) = Len(u.heap[n].items) + 1
        BY <3>2, <3>3, LengthenToIs
      <3>5. Len(u.heap[n].items) \in Nat /\ Len(v.heap[n].items) \in Nat
        <4>1. Good(u.heap) /\ n \in Live(u.heap) /\ Good(v.heap) /\ n \in Live(v.heap)
          BY <3>3, <3>4 DEF Longer, Within, Sound
        <4> QED BY <4>1, GoodAt
      <3>6. v.r = TRUE => Len(v.heap[n].items) >= k + 1
        BY <3>3, <3>4, <3>5
      <3> QED BY <3>1, <3>4, <3>6 DEF v
    <2>7. \A k \in 0..length : k \in S
      <3> HIDE DEF S
      <3> QED BY <2>5, <2>6, SetInduction
    <2>8. Longer(s, n, e) /\ (e.r = TRUE => Len(e.heap[n].items) >= length)
      BY <2>7
    <2> HIDE DEF e, S
    <2>9. Good(e.heap) /\ n \in Live(e.heap) /\ Sound(e) /\ e.heap[n].type = "array" /\ e.r \in BOOLEAN
      BY <2>8 DEF Longer, Within, Sound
    <2>10. Fixup(e.heap, n) = e.heap
      <3> DEFINE h == e.heap
      <3>1. Good(h) /\ n \in Live(h) /\ h \in Heaps
        BY <2>9 DEF Good
      <3> HIDE DEF h
      <3>2. /\ \A i \in 1..Len(h[n].items) : h[n].items[i] \in Live(h) /\ h[h[n].items[i]].parent = n
            /\ \A i, j \in 1..Len(h[n].items) : h[n].items[i] = h[n].items[j] => i = j
            /\ h[n].type = "array" => \A i \in 1..Len(h[n].items) : h[h[n].items[i]].index = i - 1
        BY <3>1, GoodAt
      <3>3. LET g == Fixup(h, n) IN
            (h[n].type = "array" => \A i \in 1..Len(h[n].items) : h[h[n].items[i]].index = i - 1)
                => g = h
        BY <3>1, <3>2, Renumbered
      <3> QED BY <3>2, <3>3 DEF h
    <2>11. CASE e.r = TRUE
      <3>1. t = Return(e, e.heap, TRUE)
        BY <2>3, <2>10, <2>11
      <3> DEFINE yes == TRUE
      <3> HIDE DEF yes
      <3>2. t = Return(e, e.heap, yes)
        BY <3>1 DEF yes
      <3>3. Sound(t) /\ t.heap = e.heap /\ t.r = yes
        BY <2>9, <3>2, SoundReturn
      <3>4. Within(s, n, t)
        BY <2>8, <3>3 DEF Longer, Within
      <3> QED BY <1>2, <2>8, <2>9, <2>11, <3>3, <3>4 DEF yes, t
    <2>12. CASE e.r = FALSE
      <3>1. t = e
        BY <2>3, <2>12
      <3> QED BY <1>2, <2>8, <2>9, <2>12, <3>1 DEF Longer, t
    <2> QED BY <2>9, <2>11, <2>12
  <1> QED BY <1>1, <1>2

-----------------------------------------------------------------------------
(* Calls that take over a tree *)

\* Trees that a call does not reach stay as they are.
Untouched(h, g, V) ==
    /\ \A m \in V : g[m] = h[m]
    /\ WholeTrees(g, V) /\ V \subseteq Live(g) /\ Up(g, Live(g) \ V)

\* What a call may change has no part in V, so V stays.
LEMMA ApartKept ==
    ASSUME NEW h, Good(h), NEW g, Good(g), NEW V, WholeTrees(h, V), NEW X, Kept(h, g, X), X \cap V = {}
    PROVE  Untouched(h, g, V)
  <1>1. Up(h, V)
    BY TreesUp
  <1>2. \A m \in V : g[m] = h[m]
    BY <1>1, KeptUp
  <1>3. WholeTrees(g, V)
    BY <1>2, TreesKept
  <1> QED BY <1>2, <1>3, TreesUp DEF WholeTrees, Untouched

\* A node n apart from the tree V of a root sub
Apart(h, V, n, sub) ==
    /\ Good(h) /\ WholeTrees(h, V) /\ n \in Live(h) \ V
    /\ sub \in V /\ sub \in Roots(h)

\* A node apart from V, and the one above it, are in what is left without V.
LEMMA ApartUp ==
    ASSUME NEW h, NEW V, NEW n, NEW sub, Apart(h, V, n, sub)
    PROVE  /\ n \in Live(h) /\ Up(h, Live(h) \ V) /\ n \in Live(h) \ V /\ sub \notin Live(h) \ V
           /\ h[n].parent # NULL => h[n].parent \in Live(h) \ V
  <1>1. Good(h) /\ WholeTrees(h, V) /\ n \in Live(h) /\ n \notin V /\ sub \in V
    BY DEF Apart
  <1>2. Up(h, Live(h) \ V)
    BY <1>1, TreesUp
  <1>3. h[n].parent # NULL => h[n].parent \in Live(h) /\ h[n].parent \notin V
    BY <1>1, GoodAt DEF WholeTrees
  <1> QED BY <1>1, <1>2, <1>3

\* A call that took over the tree of sub, or left it to the client
Gave(s, t, sub) ==
    /\ Sound(t)
    /\ \/ t.r = FALSE /\ Roots(t.heap) = Roots(s.heap)
       \/ t.r = TRUE /\ Roots(t.heap) = Roots(s.heap) \ {sub}

\* A call that placed a root took it over.
LEMMA PlacedGave ==
    ASSUME NEW s, NEW t, NEW sub, NEW X, Placed(s, t, sub, X)
    PROVE  Gave(s, t, sub)
  BY DEF Placed, Gave

\* A call that failed before it did anything
LEMMA GaveFalse ==
    ASSUME NEW s, Sound(s), NEW t, t = Yields(s, FALSE), NEW sub
    PROVE  Gave(s, t, sub)
  <1> DEFINE no == FALSE
  <1> HIDE DEF no
  <1>1. t = Yields(s, no)
    BY DEF no
  <1> DEFINE u == Yields(s, no)
  <1> HIDE DEF u
  <1>2. Sound(u) /\ u.heap = s.heap /\ u.r = no
    BY SoundYields DEF u
  <1> QED BY <1>1, <1>2 DEF Gave, no, u

\* confignode_array_insert
LEMMA ArrayInsertIs ==
    ASSUME NEW s, Sound(s), NEW V, NEW n, NEW sub, Apart(s.heap, V, n, sub), NEW index \in Nat
    PROVE  Gave(s, ArrayInsert(s, n, index, sub), sub)
  <1> DEFINE h == s.heap
             t == ArrayInsert(s, n, index, sub)
             U == Live(h) \ V
  <1>1. t = IF h[n].type # "array" \/ (index # 0 /\ ArrayGet(h, n, index) = NULL)
            THEN Yields(s, FALSE) ELSE AttachAt(s, n, index + 1, sub)
    BY DEF ArrayInsert
  <1>2. /\ n \in Live(h) /\ Up(h, U) /\ n \in U /\ sub \notin U /\ sub \in Roots(h) /\ Good(h)
    BY ApartUp DEF Apart
  <1> HIDE DEF t, U
  <1>3. CASE t = Yields(s, FALSE)
    <2>1. Gave(s, t, sub)
      BY <1>3, GaveFalse
    <2> QED BY <2>1 DEF t
  <1>4. CASE /\ h[n].type = "array" /\ (index # 0 => ArrayGet(h, n, index) # NULL)
             /\ t = AttachAt(s, n, index + 1, sub)
    <2>1. index + 1 \in 1..(Len(h[n].items) + 1)
      <3>1. Len(h[n].items) \in Nat
        BY <1>2, GoodAt
      <3>2. index # 0 => index < Len(h[n].items)
        BY <1>2, <1>4, ArrayGetIs
      <3> QED BY <3>1, <3>2
    <2> DEFINE p == index + 1
    <2> HIDE DEF p
    <2>2. p \in 1..(Len(s.heap[n].items) + 1) /\ t = AttachAt(s, n, p, sub)
      BY <1>4, <2>1 DEF p
    <2> HIDE DEF h
    <2>3. n \in Live(s.heap) /\ sub \in Roots(s.heap) /\ Up(s.heap, U) /\ n \in U /\ sub \notin U
      BY <1>2 DEF h
    <2>4. PlacedUnder(s, t, n, sub)
      BY <2>2, <2>3, AttachedAt
    <2>5. Placed(s, t, sub, {n, sub})
      BY <2>4 DEF PlacedUnder
    <2>6. Gave(s, t, sub)
      BY <2>5, PlacedGave
    <2> QED BY <2>6 DEF t
  <1> QED BY <1>1, <1>3, <1>4

\* confignode_replace
LEMMA ReplaceGave ==
    ASSUME NEW s, Sound(s), NEW V, NEW n, NEW sub, Apart(s.heap, V, n, sub)
    PROVE  Gave(s, Replace(s, n, sub), sub)
  <1> DEFINE U == Live(s.heap) \ V
             X == {s.heap[n].parent, sub}
  <1>1. /\ n \in Live(s.heap) /\ Up(s.heap, U) /\ sub \notin U /\ sub \in Roots(s.heap)
        /\ s.heap[n].parent # NULL => s.heap[n].parent \in U
    BY ApartUp DEF Apart
  <1> HIDE DEF U, X
  <1>2. Placed(s, Replace(s, n, sub), sub, X)
    BY <1>1, ReplaceIs DEF X
  <1> QED BY <1>2, PlacedGave

\* confignode_array_append, confignode_map_set
LEMMA AppendGave ==
    ASSUME NEW s, Sound(s), NEW V, NEW n, NEW sub, Apart(s.heap, V, n, sub)
    PROVE  Gave(s, ArrayAppend(s, n, sub), sub)
  <1> DEFINE U == Live(s.heap) \ V
             X == {n, sub}
             t == ArrayAppend(s, n, sub)
  <1>1. /\ n \in Live(s.heap) /\ Up(s.heap, U) /\ n \in U /\ sub \notin U /\ sub \in Roots(s.heap)
    BY ApartUp DEF Apart
  <1> HIDE DEF U, X, t
  <1>2. PlacedUnder(s, t, n, sub)
    BY <1>1, ArrayAppended DEF t
  <1>3. Placed(s, t, sub, X)
    BY <1>2 DEF PlacedUnder, X
  <1>4. Gave(s, t, sub)
    BY <1>3, PlacedGave
  <1> QED BY <1>4 DEF t

\* ... and confignode_map_set
LEMMA MapSetGave ==
    ASSUME NEW s, Sound(s), NEW V, NEW n, NEW sub, Apart(s.heap, V, n, sub), NEW key \in Keys
    PROVE  Gave(s, MapSet(s, n, key, sub), sub)
  <1> DEFINE U == Live(s.heap) \ V
             X == {n, sub}
             t == MapSet(s, n, key, sub)
  <1>1. /\ n \in Live(s.heap) /\ Up(s.heap, U) /\ n \in U /\ sub \notin U /\ sub \in Roots(s.heap)
    BY ApartUp DEF Apart
  <1> HIDE DEF U, X, t
  <1>2. PlacedUnder(s, t, n, sub)
    BY <1>1, MapSetIs DEF t
  <1>3. Placed(s, t, sub, X)
    BY <1>2 DEF PlacedUnder, X
  <1>4. Gave(s, t, sub)
    BY <1>3, PlacedGave
  <1> QED BY <1>4 DEF t

\* What lies apart stays apart.
LEMMA WithinApart ==
    ASSUME NEW s, Sound(s), NEW V, NEW n, NEW sub, Apart(s.heap, V, n, sub), NEW t, Within(s, n, t)
    PROVE  Apart(t.heap, V, n, sub)
  <1>1. /\ Good(s.heap) /\ WholeTrees(s.heap, V) /\ n \notin V /\ sub \in V /\ sub \in Roots(s.heap)
    BY DEF Apart
  <1>2. /\ Good(t.heap) /\ Kept(s.heap, t.heap, {n}) /\ n \in Live(t.heap)
        /\ Roots(t.heap) = Roots(s.heap)
    BY DEF Within, Sound
  <1>3. {n} \cap V = {}
    BY <1>1
  <1>4. WholeTrees(t.heap, V)
    BY <1>1, <1>2, <1>3, ApartKept DEF Untouched
  <1> QED BY <1>1, <1>2, <1>4 DEF Apart

\* confignode_array_set
LEMMA ArraySetIs ==
    ASSUME NEW s, Sound(s), NEW V, NEW n, NEW sub, Apart(s.heap, V, n, sub), NEW index \in Nat
    PROVE  Gave(s, ArraySet(s, n, index, sub), sub)
  <1> DEFINE t == ArraySet(s, n, index, sub)
             e == ArrayExtend(s, n, index + 1)
  <1>1. t = IF s.heap[sub].parent # NULL \/ s.heap[n].type # "array" THEN Yields(s, FALSE)
            ELSE IF ~e.r THEN e ELSE Replace(e, ArrayGet(e.heap, n, index), sub)
    BY DEF ArraySet
  <1>2. n \in Live(s.heap)
    BY DEF Apart
  <1>3. /\ Within(s, n, e) /\ e.r \in BOOLEAN
        /\ e.r = TRUE => e.heap[n].type = "array" /\ Len(e.heap[n].items) >= index + 1
    <2> DEFINE l == index + 1
    <2>1. l \in Nat
      OBVIOUS
    <2> HIDE DEF e, l
    <2>2. /\ Within(s, n, e) /\ e.r \in BOOLEAN
          /\ e.r = TRUE => e.heap[n].type = "array" /\ Len(e.heap[n].items) >= l
      BY <1>2, <2>1, ArrayExtendIs DEF e, l
    <2> QED BY <2>2 DEF l
  <1> HIDE DEF t, e
  <1>4. CASE t = Yields(s, FALSE)
    <2>1. Gave(s, t, sub)
      BY <1>4, GaveFalse
    <2> QED BY <2>1 DEF t
  <1>5. CASE e.r = FALSE /\ t = e
    BY <1>3, <1>5 DEF Gave, Within, t
  <1>6. CASE e.r = TRUE /\ t = Replace(e, ArrayGet(e.heap, n, index), sub)
    <2> DEFINE c == ArrayGet(e.heap, n, index)
    <2>1. Apart(e.heap, V, n, sub)
      BY <1>3, WithinApart
    <2>2. /\ Good(e.heap) /\ n \in Live(e.heap) /\ n \notin V /\ Sound(e) /\ WholeTrees(e.heap, V)
          /\ Len(e.heap[n].items) \in Nat /\ Roots(e.heap) = Roots(s.heap)
      <3>1. Good(e.heap) /\ n \in Live(e.heap) /\ n \notin V /\ Sound(e) /\ WholeTrees(e.heap, V)
        BY <1>3, <2>1 DEF Apart, Within
      <3>2. Len(e.heap[n].items) \in Nat
        BY <3>1, GoodAt
      <3> QED BY <1>3, <3>1, <3>2 DEF Within
    <2>3. e.heap[n].type = "array" /\ index < Len(e.heap[n].items)
      BY <1>3, <1>6, <2>2
    <2>4. c # NULL
      BY <2>2, <2>3, ArrayGetIs
    <2>5. c \in Live(e.heap) /\ e.heap[c].parent = n
      BY <2>2, <2>4, ArrayGetIs
    <2> HIDE DEF c
    <2>6. n # NULL
      BY <2>2, GoodAt
    <2>7. c \notin V
      BY <2>2, <2>5, <2>6 DEF WholeTrees
    <2>8. Apart(e.heap, V, c, sub)
      BY <2>1, <2>5, <2>7 DEF Apart
    <2>9. Gave(e, Replace(e, c, sub), sub)
      BY <2>2, <2>8, ReplaceGave
    <2>10. Gave(e, t, sub)
      BY <1>6, <2>9 DEF c
    <2>11. Gave(s, t, sub)
      BY <2>2, <2>10 DEF Gave
    <2> QED BY <2>11 DEF t
  <1>7. \/ t = Yields(s, FALSE)
        \/ e.r = FALSE /\ t = e
        \/ e.r = TRUE /\ t = Replace(e, ArrayGet(e.heap, n, index), sub)
    BY <1>1, <1>3
  <1> QED BY <1>4, <1>5, <1>6, <1>7

-----------------------------------------------------------------------------
(* Walks along a path *)

Step == [key : Keys] \cup [index : Nat] \cup {Malformed}

\* A step of a path names a key or an index, or is malformed.
LEMMA StepIs ==
    ASSUME NEW step \in Step, step # Malformed
    PROVE  /\ IsKey(step) => step.key \in Keys
           /\ ~IsKey(step) => step.index \in Nat
  <1>1. CASE step \in [key : Keys]
    BY <1>1 DEF IsKey
  <1>2. CASE step \in [index : Nat]
    BY <1>2 DEF IsKey
  <1> QED BY <1>1, <1>2 DEF Step

\* A walk in trees that are not V: V and the roots stay what they were, and the
\* walk ends at a node of the other trees or nowhere.
Walks(s, V, t) ==
    /\ Sound(t) /\ Roots(t.heap) = Roots(s.heap)
    /\ WholeTrees(t.heap, V) /\ \A m \in V : t.heap[m] = s.heap[m]

At(V, t) == t.r \in Live(t.heap) \ V
AtOrNot(V, t) == t.r = NULL \/ At(V, t)

\* A walk after a walk
LEMMA WalksTrans ==
    ASSUME NEW s, NEW V, NEW t, Walks(s, V, t), NEW u, Walks(t, V, u)
    PROVE  Walks(s, V, u)
  BY DEF Walks

\* A walk that changes nothing
LEMMA WalksSame ==
    ASSUME NEW s, Sound(s), NEW V, WholeTrees(s.heap, V), NEW t, Sound(t), t.heap = s.heap
    PROVE  Walks(s, V, t)
  BY DEF Walks

\* A call that changes nothing of V and keeps the roots is part of a walk.
LEMMA WalksKept ==
    ASSUME NEW s, Sound(s), NEW V, WholeTrees(s.heap, V), NEW t, Sound(t), NEW X,
           Kept(s.heap, t.heap, X), X \cap V = {}, Roots(t.heap) = Roots(s.heap)
    PROVE  Walks(s, V, t)
  <1>1. Good(s.heap) /\ Good(t.heap)
    BY DEF Sound
  <1>2. (\A m \in V : t.heap[m] = s.heap[m]) /\ WholeTrees(t.heap, V)
    <2> DEFINE h == s.heap
               g == t.heap
    <2>1. Good(h) /\ Good(g) /\ WholeTrees(h, V) /\ Kept(h, g, X) /\ X \cap V = {}
      BY <1>1
    <2> HIDE DEF h, g
    <2>2. Untouched(h, g, V)
      BY <2>1, ApartKept
    <2> QED BY <2>2 DEF Untouched, h, g
  <1> QED BY <1>2 DEF Walks

\* A walk that ends with another result
LEMMA WalkYields ==
    ASSUME NEW s, Sound(s), NEW V, WholeTrees(s.heap, V), NEW x
    PROVE  Walks(s, V, Yields(s, x)) /\ Yields(s, x).r = x /\ Yields(s, x).heap = s.heap
  <1> DEFINE u == Yields(s, x)
  <1> HIDE DEF u
  <1>1. Sound(u) /\ u.heap = s.heap /\ u.r = x
    BY SoundYields DEF u
  <1>2. Walks(s, V, u)
    BY <1>1, WalksSame
  <1> QED BY <1>1, <1>2 DEF u

\* No node was made.
LEMMA WalkUnmade ==
    ASSUME NEW s, Sound(s), NEW V, WholeTrees(s.heap, V), NEW made, Made(s, made), made.r = NULL
    PROVE  Walks(s, V, made)
  <1>1. Beyond(s, made) /\ Sound(made) /\ V \subseteq Live(s.heap)
    BY DEF Made, Beyond, WholeTrees
  <1>2. Good(s.heap) /\ Good(made.heap) /\ \A m \in V : made.heap[m] = s.heap[m]
    BY <1>1 DEF Beyond, Sound
  <1>3. WholeTrees(made.heap, V)
    BY <1>2, TreesKept
  <1>4. Roots(made.heap) = Roots(s.heap)
    <2>1. NULL \notin Live(made.heap)
      BY TreeConstants DEF Live
    <2> QED BY <2>1 DEF Made
  <1> QED BY <1>1, <1>2, <1>3, <1>4 DEF Walks

\* A node was made for a place; it is put there or freed.
MadeWalk(s, V, made, good, bad, t) ==
    /\ Walks(s, V, t)
    /\ t.r = bad \/ (t.r = good /\ made \in Live(t.heap) \ V)

\* A node made on the way is put in its place or freed.
LEMMA WalkMade ==
    ASSUME NEW s, Sound(s), NEW V, WholeTrees(s.heap, V), NEW made, Made(s, made), made.r # NULL,
           NEW put, NEW X, X \cap V = {}, Placed(made, put, made.r, X), NEW good, NEW bad
    PROVE  MadeWalk(s, V, made.r, good, bad, OrDrop(put, made.r, good, bad))
  <1> DEFINE c == made.r
             Y == X \cup {c}
             t == OrDrop(put, c, good, bad)
  <1>1. Beyond(s, made) /\ Sound(made) /\ V \subseteq Live(s.heap)
    BY DEF Made, Beyond, WholeTrees
  <1>2. Good(s.heap) /\ Good(made.heap) /\ \A m \in V : made.heap[m] = s.heap[m]
    BY <1>1 DEF Beyond, Sound
  <1>3. WholeTrees(made.heap, V)
    BY <1>2, TreesKept
  <1>4. /\ c \in Live(made.heap) /\ c \notin Live(s.heap)
        /\ Roots(made.heap) = Roots(s.heap) \cup {c}
    BY DEF Made
  <1>5. c \in Roots(made.heap) /\ c \notin Roots(s.heap) /\ c \notin V /\ Y \cap V = {}
    BY <1>1, <1>2, <1>4 DEF Roots
  <1>6. Placed(made, put, c, X)
    OBVIOUS
  <1> HIDE DEF c, t
  <1>7. PutOrFreed(made, c, put, X, good, bad, t)
    BY <1>1, <1>5, <1>6, PutOrDropped DEF t
  <1>8. Sound(t) /\ Roots(t.heap) = Roots(made.heap) \ {c} /\ Kept(made.heap, t.heap, Y)
    BY <1>7 DEF PutOrFreed
  <1>9. Roots(t.heap) = Roots(s.heap)
    BY <1>4, <1>5, <1>8
  <1> HIDE DEF Y
  <1>10. (\A m \in V : t.heap[m] = made.heap[m]) /\ WholeTrees(t.heap, V)
    <2> DEFINE h == made.heap
               g == t.heap
    <2>1. Good(h) /\ Good(g) /\ WholeTrees(h, V) /\ Kept(h, g, Y) /\ Y \cap V = {}
      BY <1>2, <1>3, <1>5, <1>8 DEF Sound
    <2> HIDE DEF h, g
    <2>2. Untouched(h, g, V)
      BY <2>1, ApartKept
    <2> QED BY <2>2 DEF Untouched, h, g
  <1>11. Walks(s, V, t)
    BY <1>2, <1>8, <1>9, <1>10 DEF Walks
  <1>12. t.r = bad \/ (t.r = good /\ c \in Live(t.heap))
    <2>1. CASE put.r = TRUE /\ t.r = good /\ t.heap = put.heap
      <3>1. put.r # FALSE
        BY <2>1
      <3>2. c \in Live(put.heap)
        BY <1>6, <3>1 DEF Placed
      <3> QED BY <2>1, <3>2
    <2> QED BY <1>7, <2>1 DEF PutOrFreed
  <1> QED BY <1>5, <1>11, <1>12 DEF MadeWalk, c, t

\* confignode_path_require_type
LEMMA RequireTypeIs ==
    ASSUME NEW s, Sound(s), NEW V, WholeTrees(s.heap, V), NEW n \in Live(s.heap) \ V,
           NEW type \in {"null", "value", "array", "map"}, NEW create
    PROVE  Walks(s, V, RequireType(s, n, type, create)) /\ AtOrNot(V, RequireType(s, n, type, create))
  <1> DEFINE t == RequireType(s, n, type, create)
             made == New(s, Blank(type, NoValue))
             put == Replace(made, n, made.r)
             a == Yields(s, n)
             b == Yields(s, NULL)
             c == IF made.r = NULL THEN made ELSE OrDrop(put, made.r, made.r, NULL)
  <1>1. t = IF s.heap[n].type = type THEN a
            ELSE IF ~create \/ s.heap[n].parent = NULL THEN b ELSE c
    BY DEF RequireType
  <1>2. Made(s, made)
    BY NewIs
  <1> HIDE DEF t, a, b
  <1>3. CASE t = a
    <2>1. Walks(s, V, t) /\ t.r = n /\ t.heap = s.heap
      BY <1>3, WalkYields DEF a
    <2> QED BY <2>1 DEF AtOrNot, At, t
  <1>4. CASE t = b
    <2>1. Walks(s, V, t) /\ t.r = NULL
      BY <1>4, WalkYields DEF b
    <2> QED BY <2>1 DEF AtOrNot, At, t
  <1>5. CASE t = c
    <2> HIDE DEF made, put
    <2>1. Sound(made) /\ Good(s.heap) /\ Beyond(s, made)
      BY <1>2 DEF Made, Beyond, Sound
    <2>2. made.heap[n] = s.heap[n]
      BY <2>1 DEF Beyond
    <2> DEFINE X == {made.heap[n].parent, made.r}
    <2>3. ASSUME made.r # NULL PROVE Placed(made, put, made.r, X) /\ X \cap V = {}
      <3>1. /\ made.r \in Live(made.heap) /\ made.r \notin Live(s.heap)
            /\ Roots(made.heap) = Roots(s.heap) \cup {made.r}
        BY <1>2, <2>3 DEF Made
      <3>2. made.r \in Roots(made.heap)
        BY <3>1
      <3>3. Up(made.heap, Live(s.heap)) /\ Live(s.heap) \subseteq Live(made.heap)
        BY <2>1, BeyondUp
      <3>4. made.heap[n].parent # NULL => made.heap[n].parent \in Live(s.heap)
        BY <2>1, <2>2, GoodAt
      <3> HIDE DEF X
      <3>5. Placed(made, put, made.r, X)
        <4> DEFINE U == Live(s.heap)
        <4>1. /\ Up(made.heap, U) /\ made.r \notin U /\ n \in Live(made.heap) /\ made.r \in Roots(made.heap)
              /\ made.heap[n].parent # NULL => made.heap[n].parent \in U
          BY <3>1, <3>2, <3>3, <3>4
        <4> HIDE DEF U
        <4> QED BY <2>1, <4>1, ReplaceIs DEF put, X
      <3>6. made.r \notin V /\ made.heap[n].parent \notin V
        <4>1. NULL \notin Live(s.heap)
          BY TreeConstants DEF Live
        <4> QED BY <2>2, <3>1, <4>1 DEF WholeTrees
      <3> QED BY <3>5, <3>6 DEF X
    <2> HIDE DEF X
    <2>4. CASE made.r = NULL
      <3>1. t = made
        BY <1>5, <2>4
      <3>2. Walks(s, V, made)
        BY <1>2, <2>4, WalkUnmade
      <3> QED BY <2>4, <3>1, <3>2 DEF AtOrNot, t
    <2>5. CASE made.r # NULL
      <3> DEFINE d == made.r
      <3>1. t = OrDrop(put, made.r, d, NULL) /\ X \cap V = {} /\ Placed(made, put, made.r, X)
        BY <1>5, <2>3, <2>5
      <3> HIDE DEF d
      <3>2. MadeWalk(s, V, made.r, d, NULL, t)
        BY <1>2, <2>5, <3>1, WalkMade
      <3> QED BY <3>2 DEF MadeWalk, AtOrNot, At, d, t
    <2> QED BY <2>4, <2>5
  <1> HIDE DEF c
  <1> QED BY <1>1, <1>3, <1>4, <1>5

\* A call within a node apart from V is part of a walk.
LEMMA WithinWalks ==
    ASSUME NEW s, Sound(s), NEW V, WholeTrees(s.heap, V), NEW n \in Live(s.heap) \ V,
           NEW t, Within(s, n, t)
    PROVE  Walks(s, V, t) /\ n \in Live(t.heap) \ V
  <1> DEFINE X == {n}
  <1>1. Sound(t) /\ Kept(s.heap, t.heap, X) /\ X \cap V = {} /\ Roots(t.heap) = Roots(s.heap)
    BY DEF Within
  <1> HIDE DEF X
  <1>2. Walks(s, V, t)
    BY <1>1, WalksKept
  <1> QED BY <1>2 DEF Within

\* A child of a node apart from V is apart from V.
LEMMA ChildApart ==
    ASSUME NEW h, NEW V, WholeTrees(h, V), NEW n \in Live(h) \ V,
           NEW c \in Live(h), h[c].parent = n
    PROVE  c \in Live(h) \ V
  <1>1. n # NULL
    BY TreeConstants DEF Live
  <1> QED BY <1>1 DEF WholeTrees

\* The element at an index, there or made
LEMMA IndexChildIs ==
    ASSUME NEW s, Sound(s), NEW V, WholeTrees(s.heap, V), NEW n \in Live(s.heap) \ V,
           NEW index \in Nat, NEW create
    PROVE  Walks(s, V, IndexChild(s, n, index, create)) /\ AtOrNot(V, IndexChild(s, n, index, create))
  <1> DEFINE t == IndexChild(s, n, index, create)
             x == ArrayGet(s.heap, n, index)
             e == ArrayExtend(s, n, index + 1)
             y == IF e.r THEN ArrayGet(e.heap, n, index) ELSE NULL
             a == Yields(s, x)
             b == Yields(e, y)
  <1>1. t = IF x # NULL \/ ~create THEN a ELSE b
    BY DEF IndexChild
  <1>2. Good(s.heap) /\ n \in Live(s.heap)
    BY DEF Sound
  <1> HIDE DEF t, a, b
  <1>3. CASE t = a
    <2>1. x = NULL \/ x \in Live(s.heap) \ V
      <3>1. x # NULL => x \in Live(s.heap) /\ s.heap[x].parent = n
        BY <1>2, ArrayGetIs
      <3> HIDE DEF x
      <3> QED BY <3>1, ChildApart
    <2> HIDE DEF x
    <2>2. Walks(s, V, t) /\ t.r = x /\ t.heap = s.heap
      BY <1>3, WalkYields DEF a
    <2> QED BY <2>1, <2>2 DEF AtOrNot, At, t
  <1>4. CASE t = b
    <2> DEFINE l == index + 1
    <2>1. l \in Nat
      OBVIOUS
    <2> HIDE DEF l
    <2>2. Within(s, n, e) /\ e.r \in BOOLEAN
      <3> DEFINE u == ArrayExtend(s, n, l)
      <3> HIDE DEF u
      <3>1. Within(s, n, u) /\ u.r \in BOOLEAN
        BY <1>2, <2>1, ArrayExtendIs DEF u
      <3> QED BY <3>1 DEF u, l
    <2> HIDE DEF e
    <2>3. Walks(s, V, e) /\ n \in Live(e.heap) \ V
      BY <2>2, WithinWalks
    <2>4. Sound(e) /\ WholeTrees(e.heap, V) /\ Good(e.heap) /\ n \in Live(e.heap)
      BY <2>3 DEF Walks, Sound
    <2>5. y = NULL \/ y \in Live(e.heap) \ V
      <3> DEFINE z == ArrayGet(e.heap, n, index)
      <3>1. z # NULL => z \in Live(e.heap) /\ e.heap[z].parent = n
        BY <2>4, ArrayGetIs
      <3>2. y = z \/ y = NULL
        OBVIOUS
      <3> HIDE DEF z, y
      <3>3. z = NULL \/ z \in Live(e.heap) \ V
        BY <2>3, <2>4, <3>1, ChildApart
      <3> QED BY <3>2, <3>3
    <2> HIDE DEF y
    <2>6. Walks(e, V, t) /\ t.r = y /\ t.heap = e.heap
      BY <1>4, <2>4, WalkYields DEF b
    <2>7. Walks(s, V, t)
      BY <2>3, <2>6, WalksTrans
    <2> QED BY <2>5, <2>6, <2>7 DEF AtOrNot, At, t
  <1> QED BY <1>1, <1>3, <1>4

\* The entry of a key, there or made
LEMMA KeyChildIs ==
    ASSUME NEW s, Sound(s), NEW V, WholeTrees(s.heap, V), NEW n \in Live(s.heap) \ V,
           NEW key \in Keys, NEW create
    PROVE  Walks(s, V, KeyChild(s, n, key, create)) /\ AtOrNot(V, KeyChild(s, n, key, create))
  <1> DEFINE t == KeyChild(s, n, key, create)
             x == MapGet(s.heap, n, key)
             made == New(s, Blank("null", NoValue))
             put == MapSet(made, n, key, made.r)
             a == Yields(s, x)
             c == IF made.r = NULL THEN made ELSE OrDrop(put, made.r, made.r, NULL)
  <1>1. t = IF x # NULL \/ ~create THEN a ELSE c
    BY DEF KeyChild
  <1>2. Good(s.heap) /\ n \in Live(s.heap)
    BY DEF Sound
  <1>3. Made(s, made)
    BY NewIs
  <1> HIDE DEF t, a
  <1>4. CASE t = a
    <2>1. x = NULL \/ x \in Live(s.heap) \ V
      <3>1. x # NULL => x \in Live(s.heap) /\ s.heap[x].parent = n
        BY <1>2, MapGetIs
      <3> HIDE DEF x
      <3> QED BY <3>1, ChildApart
    <2> HIDE DEF x
    <2>2. Walks(s, V, t) /\ t.r = x /\ t.heap = s.heap
      BY <1>4, WalkYields DEF a
    <2> QED BY <2>1, <2>2 DEF AtOrNot, At, t
  <1>5. CASE t = c
    <2> HIDE DEF made, put
    <2>1. CASE made.r = NULL
      <3>1. t = made
        BY <1>5, <2>1
      <3>2. Walks(s, V, made)
        BY <1>3, <2>1, WalkUnmade
      <3> QED BY <2>1, <3>1, <3>2 DEF AtOrNot, t
    <2>2. CASE made.r # NULL
      <3> DEFINE d == made.r
                 X == {n, d}
                 U == Live(s.heap)
      <3>1. Beyond(s, made) /\ Sound(made)
        BY <1>3 DEF Made, Beyond
      <3>2. /\ d \in Live(made.heap) /\ d \notin Live(s.heap)
            /\ Roots(made.heap) = Roots(s.heap) \cup {d}
        BY <1>3, <2>2 DEF Made
      <3>3. Up(made.heap, U) /\ n \in Live(made.heap) /\ n \in U /\ d \notin U /\ d \in Roots(made.heap)
        BY <3>1, <3>2, BeyondUp
      <3>4. X \cap V = {}
        BY <3>2 DEF WholeTrees
      <3> HIDE DEF d, U
      <3>5. PlacedUnder(made, put, n, d)
        BY <3>1, <3>3, MapSetIs DEF put, d
      <3>6. Placed(made, put, made.r, X) /\ t = OrDrop(put, made.r, d, NULL)
        BY <1>5, <2>2, <3>5 DEF PlacedUnder, d
      <3> HIDE DEF X
      <3>7. MadeWalk(s, V, made.r, d, NULL, t)
        BY <1>3, <2>2, <3>4, <3>6, WalkMade
      <3> QED BY <3>7 DEF MadeWalk, AtOrNot, At, d, t
    <2> QED BY <2>1, <2>2
  <1> HIDE DEF c
  <1> QED BY <1>1, <1>4, <1>5

\* confignode_path_lookup, step by step: from a node of the other trees to one of
\* the other trees, or to none.
LEMMA LookupStepIs ==
    ASSUME NEW s, Sound(s), NEW V, WholeTrees(s.heap, V), At(V, s), NEW step \in Step, NEW create
    PROVE  Walks(s, V, LookupStep(s, step, create)) /\ AtOrNot(V, LookupStep(s, step, create))
  <1> DEFINE t == LookupStep(s, step, create)
             Enter(inside) ==
               IF inside.r = NULL THEN inside
               ELSE IF IsKey(step) THEN KeyChild(inside, inside.r, step.key, create)
               ELSE IndexChild(inside, inside.r, step.index, create)
             a == Yields(s, NULL)
             p == RequireType(s, s.r, "array", create)
             u == Spent(s, 1)
             q == RequireType(u, s.r, "map", create)
  <1>1. t = IF step = Malformed THEN a
            ELSE IF ~IsKey(step) THEN Enter(p)
            ELSE IF ~CanTake(s, 1) THEN a ELSE Enter(q)
    BY DEF LookupStep
  <1> HIDE DEF t, a
  <1>2. CASE t = a
    <2>1. Walks(s, V, t) /\ t.r = NULL
      BY <1>2, WalkYields DEF a
    <2> QED BY <2>1 DEF AtOrNot, t
  <1>3. ASSUME NEW i, Walks(s, V, i), AtOrNot(V, i), step # Malformed
        PROVE  Walks(s, V, Enter(i)) /\ AtOrNot(V, Enter(i))
    <2>1. CASE i.r = NULL
      BY <1>3, <2>1
    <2>2. CASE i.r # NULL
      <3>1. Sound(i) /\ WholeTrees(i.heap, V) /\ i.r \in Live(i.heap) \ V
        BY <1>3, <2>2 DEF Walks, AtOrNot, At
      <3>2. CASE IsKey(step)
        <4> DEFINE v == KeyChild(i, i.r, step.key, create)
        <4>1. step.key \in Keys
          BY <1>3, <3>2, StepIs
        <4> HIDE DEF v
        <4>2. Walks(i, V, v) /\ AtOrNot(V, v)
          BY <3>1, <4>1, KeyChildIs DEF v
        <4>3. Walks(s, V, v)
          BY <1>3, <4>2, WalksTrans
        <4> QED BY <2>2, <3>2, <4>2, <4>3 DEF v
      <3>3. CASE ~IsKey(step)
        <4> DEFINE v == IndexChild(i, i.r, step.index, create)
        <4>1. step.index \in Nat
          BY <1>3, <3>3, StepIs
        <4> HIDE DEF v
        <4>2. Walks(i, V, v) /\ AtOrNot(V, v)
          BY <3>1, <4>1, IndexChildIs DEF v
        <4>3. Walks(s, V, v)
          BY <1>3, <4>2, WalksTrans
        <4> QED BY <2>2, <3>3, <4>2, <4>3 DEF v
      <3> QED BY <3>2, <3>3
    <2> QED BY <2>1, <2>2
  <1>4. s.r \in Live(s.heap) \ V
    BY DEF At
  <1>5. CASE step # Malformed /\ t = Enter(p)
    <2>1. Walks(s, V, p) /\ AtOrNot(V, p)
      BY <1>4, RequireTypeIs
    <2> HIDE DEF p, Enter
    <2> QED BY <1>3, <1>5, <2>1 DEF t
  <1>6. CASE step # Malformed /\ CanTake(s, 1) /\ t = Enter(q)
    <2>1. Sound(u) /\ u.heap = s.heap
      BY <1>6, SoundSpent
    <2> HIDE DEF u
    <2>2. WholeTrees(u.heap, V) /\ s.r \in Live(u.heap) \ V
      BY <1>4, <2>1
    <2>3. Walks(u, V, q) /\ AtOrNot(V, q)
      BY <2>1, <2>2, RequireTypeIs
    <2>4. Walks(s, V, u)
      BY <2>1, WalksSame
    <2> HIDE DEF q
    <2>5. Walks(s, V, q)
      BY <2>3, <2>4, WalksTrans
    <2> HIDE DEF Enter
    <2> QED BY <1>3, <1>6, <2>3, <2>5 DEF t
  <1> HIDE DEF Enter, p, q
  <1> QED BY <1>1, <1>2, <1>5, <1>6

Walk(s, V, t) == Walks(s, V, t) /\ AtOrNot(V, t)

\* A walk goes on by one step, unless it has ended.
WalkOn(t, step, create) == IF t.r = NULL THEN t ELSE LookupStep(t, step, create)

\* A step keeps a walk one.
LEMMA WalkOnIs ==
    ASSUME NEW s, NEW V, NEW t, Walk(s, V, t), NEW step \in Step, NEW create
    PROVE  Walk(s, V, WalkOn(t, step, create))
  <1> DEFINE u == LookupStep(t, step, create)
  <1>1. CASE t.r = NULL
    BY <1>1 DEF WalkOn
  <1>2. CASE t.r # NULL
    <2> HIDE DEF u
    <2>1. Sound(t) /\ WholeTrees(t.heap, V) /\ At(V, t) /\ Walks(s, V, t)
      BY <1>2 DEF Walk, Walks, AtOrNot
    <2>2. Walks(t, V, u) /\ AtOrNot(V, u)
      BY <2>1, LookupStepIs DEF u
    <2>3. Walks(s, V, u)
      BY <2>1, <2>2, WalksTrans
    <2> QED BY <1>2, <2>2, <2>3 DEF Walk, WalkOn, u
  <1> QED BY <1>1, <1>2

\* confignode_path_lookup takes the steps of the path one after the other.
LEMMA PathLookupIs ==
    ASSUME NEW s, Sound(s), NEW V, WholeTrees(s.heap, V), NEW n \in Live(s.heap) \ V,
           NEW path \in Seq(Step), NEW create
    PROVE  Walk(s, V, PathLookup(s, n, path, create))
  <1> DEFINE l == Len(path)
             X == {t \in [heap : Heaps, left : Nat, r : Ids \cup {NULL}] : Walk(s, V, t)}
             start == Yields(s, n)
             step == [p \in X \X (1..l) |-> WalkOn(p[1], path[p[2]], create)]
             rule(f, k) == LET t == f[k - 1]
                           IN  IF t.r = NULL THEN t ELSE LookupStep(t, path[k], create)
             Body(f) == [k \in 0..l |-> IF k = 0 THEN start ELSE rule(f, k)]
             f == CHOOSE g : g = Body(g)
             u == PathLookup(s, n, path, create)
  <1>1. u = IF ~Valid(path) THEN Yields(s, NULL) ELSE f[l]
    BY Zenon DEF PathLookup
  <1>2. \A g, k : rule(g, k) = WalkOn(g[k - 1], path[k], create)
    BY DEF WalkOn
  <1> HIDE DEF rule, u
  <1>3. l \in Nat /\ \A k \in 1..l : path[k] \in Step
    OBVIOUS
  <1>4. \A t : Walk(s, V, t) => t \in X
    <2> TAKE t
    <2> HAVE Walk(s, V, t)
    <2>1. Sound(t) /\ t.r \in Ids \cup {NULL}
      BY DEF Walk, Walks, AtOrNot, At, Live
    <2> DEFINE B == Ids \cup {NULL}
    <2>2. t.r \in B
      BY <2>1
    <2> HIDE DEF B
    <2>3. t \in [heap : Heaps, left : Nat, r : B]
      BY <2>1, <2>2, StoreIn
    <2> QED BY <2>3 DEF B
  <1>5. \A t \in X : Walk(s, V, t)
    OBVIOUS
  <1> HIDE DEF X, l
  <1>6. Walk(s, V, start)
    <2>1. Walks(s, V, start) /\ start.r = n /\ start.heap = s.heap
      BY WalkYields
    <2> QED BY <2>1 DEF Walk, AtOrNot, At
  <1> HIDE DEF start
  <1>7. \A t \in X, k \in 1..l : WalkOn(t, path[k], create) \in X
    BY <1>3, <1>4, <1>5, WalkOnIs
  <1>8. IsStep(step, X, l) /\ \A t \in X, k \in 1..l : step[<<t, k>>] = WalkOn(t, path[k], create)
    <2>1. ASSUME NEW p \in X \X (1..l) PROVE WalkOn(p[1], path[p[2]], create) \in X
      <3>1. p[1] \in X /\ p[2] \in 1..l
        OBVIOUS
      <3> QED BY <1>7, <3>1
    <2> QED BY <2>1 DEF IsStep
  <1> HIDE DEF step
  <1>9. start \in X
    BY <1>4, <1>6
  <1>10. PICK g : Iterates(g, X, l, start, step)
    BY <1>3, <1>8, <1>9, Iteration, Zenon
  <1>11. g = Body(g)
    <2>1. g \in [0..l -> X] /\ g[0] = start
      BY <1>10 DEF Iterates
    <2>2. \A k \in 1..l : g[k] = rule(g, k)
      <3> TAKE k \in 1..l
      <3>1. k - 1 \in 0..l
        BY <1>3
      <3>2. g[k - 1] \in X /\ g[k] = step[<<g[k - 1], k>>]
        BY <1>10, <2>1, <3>1 DEF Iterates
      <3> QED BY <1>2, <1>8, <3>2
    <2>3. \A k \in 0..l : g[k] = IF k = 0 THEN start ELSE rule(g, k)
      <3> TAKE k \in 0..l
      <3>1. k # 0 => k \in 1..l
        BY <1>3
      <3> QED BY <2>1, <2>2, <3>1
    <2>4. g = [k \in 0..l |-> g[k]]
      BY <2>1
    <2> QED BY <2>3, <2>4
  <1>12. f = Body(f)
    <2> HIDE DEF Body
    <2> QED BY <1>11, Zenon
  <1> HIDE DEF f
  <1>13. f[0] = start /\ \A k \in 1..l : f[k] = WalkOn(f[k - 1], path[k], create)
    <2> DEFINE B == Body(f)
    <2>1. B[0] = start /\ \A k \in 1..l : B[k] = rule(f, k)
      <3>1. 0 \in 0..l /\ \A k \in 1..l : k \in 0..l /\ k # 0
        BY <1>3
      <3> QED BY <3>1
    <2> HIDE DEF B
    <2>2. f = B
      BY <1>12 DEF B
    <2> QED BY <1>2, <2>1, <2>2
  <1> DEFINE S == {k \in 0..l : Walk(s, V, f[k])}
  <1>14. 0 \in S
    BY <1>3, <1>6, <1>13
  <1>15. ASSUME NEW k \in 0..(l - 1), k \in S PROVE k + 1 \in S
    <2>1. k + 1 \in 1..l /\ (k + 1) - 1 = k /\ k + 1 \in 0..l
      BY <1>3
    <2>2. f[k + 1] = WalkOn(f[k], path[k + 1], create) /\ path[k + 1] \in Step /\ Walk(s, V, f[k])
      BY <1>3, <1>13, <1>15, <2>1
    <2>3. Walk(s, V, f[k + 1])
      BY <2>2, WalkOnIs
    <2> QED BY <2>1, <2>3
  <1>16. \A k \in 0..l : k \in S
    <2> HIDE DEF S
    <2> QED BY <1>3, <1>14, <1>15, SetInduction
  <1>17. Walk(s, V, f[l])
    BY <1>3, <1>16
  <1>18. Walk(s, V, Yields(s, NULL))
    <2> DEFINE v == Yields(s, NULL)
    <2>1. Walks(s, V, v) /\ v.r = NULL
      BY WalkYields
    <2> QED BY <2>1 DEF Walk, AtOrNot
  <1>19. Walk(s, V, u)
    BY <1>1, <1>17, <1>18
  <1> QED BY <1>19 DEF u

ValueSetIn(h, n, value) == [h EXCEPT ![n].value = value]

\* What a node holds has nothing to do with the links.
LEMMA ValueChanged ==
    ASSUME NEW h, Good(h), NEW n \in Live(h), NEW value \in LeafValue
    PROVE  LET g == ValueSetIn(h, n, value) IN
           Good(g) /\ Roots(g) = Roots(h)
  <1> DEFINE g == ValueSetIn(h, n, value)
  <1>1. /\ h \in Heaps /\ n \in Ids /\ h \in [Ids -> Node \cup {FreeNode}]
    BY DEF Good, Live, Heaps
  <1>2. h[n] \in Node
    BY <1>1, NodeIs
  <1>3. /\ g[n] = [h[n] EXCEPT !.value = value]
        /\ \A m \in Ids : m # n => g[m] = h[m]
        /\ g = [m \in Ids |-> g[m]]
    BY <1>1 DEF ValueSetIn
  <1> HIDE DEF g
  <1>4. /\ g[n] \in Node /\ g[n].key = h[n].key /\ g[n].index = h[n].index
        /\ g[n].type = h[n].type /\ g[n].items = h[n].items /\ g[n].parent = h[n].parent
    <2>1. \A x \in Node : LET y == [x EXCEPT !.value = value] IN
             /\ y \in Node /\ y.key = x.key /\ y.index = x.index
             /\ y.type = x.type /\ y.items = x.items /\ y.parent = x.parent
      BY DEF Node
    <2> QED BY <1>2, <1>3, <2>1
  <1>5. \A m \in Ids : g[m] \in Node \cup {FreeNode} /\ g[m].type = h[m].type
    BY <1>1, <1>3, <1>4
  <1>6. g \in Heaps /\ Live(g) = Live(h)
    BY <1>3, <1>5 DEF Heaps, Live
  <1>7. \A m \in Live(h) : /\ g[m].type = h[m].type /\ g[m].items = h[m].items
                           /\ g[m].parent = h[m].parent /\ g[m].key = h[m].key
                           /\ g[m].index = h[m].index
    BY <1>1, <1>3, <1>4 DEF Live
  <1>8. ASSUME NEW m \in Live(h) PROVE LinkedDown(g, m) /\ LinkedUp(g, m)
    <2>1. LinkedDown(h, m) /\ LinkedUp(h, m)
      BY GoodLinks
    <2>2. \A i \in 1..Len(h[m].items) : h[m].items[i] \in Live(h) /\ h[h[m].items[i]].parent = m
      BY <2>1 DEF LinkedDown
    <2>5. \A i \in 1..Len(h[m].items) :
             LET c == h[m].items[i] IN
             /\ c \in Live(g) /\ g[c].parent = m /\ g[c].key = h[c].key /\ g[c].index = h[c].index
      BY <1>6, <1>7, <2>2
    <2>6. LinkedDown(g, m)
      BY <1>7, <2>1, <2>5, DownSame
    <2>7. h[m].parent # NULL => /\ h[m].parent \in Live(g)
                                /\ g[h[m].parent].items = h[h[m].parent].items
      BY <1>6, <1>7, <2>1 DEF LinkedUp
    <2>8. LinkedUp(g, m)
      BY <1>7, <2>1, <2>7, UpSame
    <2> QED BY <2>6, <2>8
  <1>9. Linked(g)
    BY <1>6, <1>8, LinkedBoth
  <1>10. Rooted(g)
    <2>1. Rooted(h)
      BY DEF Good
    <2> QED BY <1>6, <1>7, <2>1 DEF Rooted
  <1>11. Good(g) /\ Roots(g) = Roots(h)
    BY <1>6, <1>7, <1>9, <1>10 DEF Good, Roots
  <1> QED BY <1>11 DEF g

\* A call that keeps every tree, whatever it changes
Keeps(s, t) == Sound(t) /\ Roots(t.heap) = Roots(s.heap)

\* confignode_value_set
LEMMA ValueSetIs ==
    ASSUME NEW s, Sound(s), NEW n \in Live(s.heap), NEW value \in LeafValue
    PROVE  Keeps(s, ValueSet(s, n, value))
  <1> DEFINE t == ValueSet(s, n, value)
             g == ValueSetIn(s.heap, n, value)
             u == IF value.kind = "string" THEN Spent(s, 1) ELSE s
             no == FALSE
             yes == TRUE
             a == Yields(s, no)
             b == Return(u, g, yes)
  <1>1. t = IF s.heap[n].type # "value" \/ (value.kind = "string" /\ ~CanTake(s, 1)) THEN a ELSE b
    BY DEF ValueSet, ValueSetIn
  <1>2. Good(s.heap)
    BY DEF Sound
  <1>3. Good(g) /\ Roots(g) = Roots(s.heap)
    BY <1>2, ValueChanged
  <1> HIDE DEF t, a, b, yes, no
  <1>4. CASE t = a
    <2>1. Sound(t) /\ t.heap = s.heap
      BY <1>4, SoundYields DEF a
    <2> QED BY <2>1 DEF Keeps, t
  <1>5. CASE t = b /\ (value.kind = "string" => CanTake(s, 1))
    <2>1. Sound(u)
      <3>1. CASE value.kind = "string"
        <4>1. u = Spent(s, 1)
          BY <3>1
        <4> HIDE DEF u
        <4>2. CanTake(s, 1)
          BY <1>5, <3>1
        <4> DEFINE v == Spent(s, 1)
        <4>3. Sound(v)
          BY <4>2, SoundSpent
        <4> QED BY <4>1, <4>3
      <3>2. CASE value.kind # "string"
        BY <3>2
      <3> QED BY <3>1, <3>2
    <2> HIDE DEF u, g
    <2>2. Sound(b) /\ b.heap = g
      BY <1>3, <2>1, SoundReturn DEF b
    <2> QED BY <1>3, <1>5, <2>2 DEF Keeps, t
  <1> QED BY <1>1, <1>4, <1>5

\* Nothing is a whole tree.
LEMMA NoTree == \A h : WholeTrees(h, {}) BY DEF WholeTrees

\* confignode_path_set_value
LEMMA PathSetValueIs ==
    ASSUME NEW s, Sound(s), NEW n \in Live(s.heap), NEW path \in Seq(Step), NEW value \in LeafValue
    PROVE  Keeps(s, PathSetValue(s, n, path, value))
  <1> DEFINE t == PathSetValue(s, n, path, value)
             found == PathLookup(s, n, path, TRUE)
             made == NewValue(found, value)
             put == Replace(made, found.r, made.r)
             a == Yields(found, FALSE)
             b == ValueSet(found, found.r, value)
             c == IF made.r = NULL THEN Yields(made, FALSE) ELSE OrDrop(put, made.r, TRUE, FALSE)
             V == {}
  <1>1. t = IF found.r = NULL THEN a ELSE IF found.heap[found.r].type = "value" THEN b ELSE c
    BY DEF PathSetValue
  <1>2. WholeTrees(s.heap, V) /\ n \in Live(s.heap) \ V
    BY NoTree
  <1> HIDE DEF V
  <1>3. Walk(s, V, found)
    <2> DEFINE yes == TRUE
               u == PathLookup(s, n, path, yes)
    <2> HIDE DEF yes, u
    <2>1. Walk(s, V, u)
      BY <1>2, PathLookupIs DEF u
    <2> QED BY <2>1 DEF u, yes
  <1> HIDE DEF found
  <1>4. /\ Sound(found) /\ Roots(found.heap) = Roots(s.heap) /\ WholeTrees(found.heap, V)
        /\ found.r # NULL => found.r \in Live(found.heap)
    BY <1>3 DEF Walk, Walks, AtOrNot, At
  <1> HIDE DEF t, a, b, made, put
  <1>5. CASE t = a
    <2> DEFINE no == FALSE
               u == Yields(found, no)
    <2> HIDE DEF no, u
    <2>1. Sound(u) /\ u.heap = found.heap
      BY <1>4, SoundYields DEF u
    <2> QED BY <1>4, <1>5, <2>1 DEF Keeps, t, a, u, no
  <1>6. CASE found.r # NULL /\ t = b
    <2>1. Keeps(found, b)
      BY <1>4, <1>6, ValueSetIs DEF b
    <2> QED BY <1>4, <1>6, <2>1 DEF Keeps, t
  <1>7. CASE found.r # NULL /\ t = c
    <2>1. Made(found, made)
      <3>1. value \in LeafValue \cup {NoValue}
        OBVIOUS
      <3> QED BY <1>4, <3>1, NewValueIs DEF made
    <2>2. Beyond(found, made) /\ Sound(made) /\ found.r \in Live(found.heap)
      BY <1>4, <1>7, <2>1 DEF Made, Beyond
    <2>3. CASE made.r = NULL
      <3>1. Walks(found, V, made)
        BY <1>4, <2>1, <2>3, WalkUnmade
      <3> DEFINE no == FALSE
                 u == Yields(made, no)
      <3> HIDE DEF no, u
      <3>2. Sound(u) /\ u.heap = made.heap
        BY <2>2, SoundYields DEF u
      <3>3. t = u
        BY <1>7, <2>3 DEF u, no
      <3> QED BY <1>4, <3>1, <3>2, <3>3 DEF Walks, Keeps, t
    <2>4. CASE made.r # NULL
      <3> DEFINE X == {made.heap[found.r].parent, made.r}
                 U == Live(found.heap)
                 yes == TRUE
                 no == FALSE
      <3>1. /\ made.r \in Live(made.heap) /\ made.r \notin Live(found.heap)
            /\ Roots(made.heap) = Roots(found.heap) \cup {made.r}
        BY <2>1, <2>4 DEF Made
      <3>2. /\ Up(made.heap, U) /\ made.r \notin U /\ found.r \in Live(made.heap)
            /\ made.r \in Roots(made.heap)
        BY <1>4, <2>2, <3>1, BeyondUp
      <3>3. made.heap[found.r].parent # NULL => made.heap[found.r].parent \in U
        BY <2>2, <3>2 DEF Up
      <3>4. X \cap V = {}
        BY DEF V
      <3> HIDE DEF U, X
      <3>5. Placed(made, put, made.r, X)
        BY <2>2, <3>2, <3>3, ReplaceIs DEF put, X
      <3>6. t = OrDrop(put, made.r, yes, no)
        BY <1>7, <2>4
      <3> HIDE DEF yes, no
      <3>7. MadeWalk(found, V, made.r, yes, no, t)
        BY <1>4, <2>1, <2>4, <3>4, <3>5, <3>6, WalkMade
      <3> QED BY <1>4, <3>7 DEF MadeWalk, Walks, Keeps, t
    <2> QED BY <2>3, <2>4
  <1> HIDE DEF c
  <1> QED BY <1>1, <1>5, <1>6, <1>7

\* A call that takes over a tree after a walk
LEMMA GaveAfter ==
    ASSUME NEW s, NEW V, NEW found, Walks(s, V, found), NEW t, NEW sub, Gave(found, t, sub)
    PROVE  Gave(s, t, sub)
  BY DEF Walks, Gave

\* The node a walk found is apart from the tree of sub.
LEMMA FoundApart ==
    ASSUME NEW s, NEW V, NEW n, NEW sub, Apart(s.heap, V, n, sub),
           NEW found, Walk(s, V, found), found.r # NULL
    PROVE  Apart(found.heap, V, found.r, sub) /\ Sound(found) /\ Walks(s, V, found)
  BY DEF Apart, Walk, Walks, AtOrNot, At, Sound

\* The walk of confignode_path_map_set and of the array calls
LEMMA LookupApart ==
    ASSUME NEW s, Sound(s), NEW V, NEW n, NEW sub, Apart(s.heap, V, n, sub),
           NEW path \in Seq(Step)
    PROVE  Walk(s, V, PathLookup(s, n, path, TRUE))
  <1> DEFINE yes == TRUE
             u == PathLookup(s, n, path, yes)
  <1> HIDE DEF yes, u
  <1>1. WholeTrees(s.heap, V) /\ n \in Live(s.heap) \ V
    BY DEF Apart
  <1>2. Walk(s, V, u)
    BY <1>1, PathLookupIs DEF u
  <1> QED BY <1>2 DEF u, yes

\* A walk that found nothing ends the call with failure.
LEMMA LostWalk ==
    ASSUME NEW s, NEW V, NEW found, Walk(s, V, found), NEW sub
    PROVE  Gave(s, Yields(found, FALSE), sub)
  <1> DEFINE t == Yields(found, FALSE)
  <1> HIDE DEF t
  <1>1. Sound(found) /\ Walks(s, V, found) /\ t = Yields(found, FALSE)
    BY DEF Walk, Walks, t
  <1>2. Gave(found, t, sub)
    BY <1>1, GaveFalse
  <1>3. Gave(s, t, sub)
    BY <1>1, <1>2, GaveAfter
  <1> QED BY <1>3 DEF t

\* confignode_path_map_set
LEMMA PathMapSetIs ==
    ASSUME NEW s, Sound(s), NEW V, NEW n, NEW sub, Apart(s.heap, V, n, sub),
           NEW path \in Seq(Step)
    PROVE  Gave(s, PathMapSet(s, n, path, sub), sub)
  <1> DEFINE t == PathMapSet(s, n, path, sub)
             found == PathLookup(s, n, path, TRUE)
             a == Yields(s, FALSE)
             b == Yields(found, FALSE)
             c == Replace(found, found.r, sub)
  <1>1. t = IF s.heap[sub].parent # NULL THEN a ELSE IF found.r = NULL THEN b ELSE c
    BY DEF PathMapSet
  <1>2. Walk(s, V, found)
    BY LookupApart
  <1> HIDE DEF t, found, a, b, c
  <1>3. CASE t = a
    <2>1. t = Yields(s, FALSE)
      BY <1>3 DEF a
    <2>2. Gave(s, t, sub)
      BY <2>1, GaveFalse
    <2> QED BY <2>2 DEF t
  <1>4. CASE t = b
    <2>1. Gave(s, b, sub)
      BY <1>2, LostWalk DEF b
    <2> QED BY <1>4, <2>1 DEF t
  <1>5. CASE found.r # NULL /\ t = c
    <2>1. Apart(found.heap, V, found.r, sub) /\ Sound(found) /\ Walks(s, V, found)
      BY <1>2, <1>5, FoundApart
    <2>2. Gave(found, c, sub)
      BY <2>1, ReplaceGave DEF c
    <2>3. Gave(s, c, sub)
      BY <2>1, <2>2, GaveAfter
    <2> QED BY <1>5, <2>3 DEF t
  <1> QED BY <1>1, <1>3, <1>4, <1>5

\* The array a path names
LEMMA PathArrayIs ==
    ASSUME NEW s, Sound(s), NEW V, NEW n, NEW sub, Apart(s.heap, V, n, sub),
           NEW path \in Seq(Step)
    PROVE  Walk(s, V, PathArray(s, n, path))
  <1> DEFINE t == PathArray(s, n, path)
             found == PathLookup(s, n, path, TRUE)
             b == RequireType(found, found.r, "array", TRUE)
  <1>1. t = IF found.r = NULL THEN found ELSE b
    BY DEF PathArray
  <1>2. Walk(s, V, found)
    BY LookupApart
  <1> HIDE DEF t, found, b
  <1>3. CASE t = found
    BY <1>2, <1>3 DEF t
  <1>4. CASE found.r # NULL /\ t = b
    <2> DEFINE yes == TRUE
    <2>1. b = RequireType(found, found.r, "array", yes)
      BY DEF b
    <2> HIDE DEF yes
    <2>2. /\ Sound(found) /\ Walks(s, V, found) /\ WholeTrees(found.heap, V)
          /\ found.r \in Live(found.heap) \ V
      BY <1>2, <1>4 DEF Walk, Walks, AtOrNot, At
    <2>3. Walks(found, V, b) /\ AtOrNot(V, b)
      BY <2>1, <2>2, RequireTypeIs
    <2>4. Walks(s, V, b)
      BY <2>2, <2>3, WalksTrans
    <2> QED BY <1>4, <2>3, <2>4 DEF Walk, t
  <1> QED BY <1>1, <1>3, <1>4

\* confignode_path_array_append, _set, _insert
LEMMA PathArrayAppendIs ==
    ASSUME NEW s, Sound(s), NEW V, NEW n, NEW sub, Apart(s.heap, V, n, sub),
           NEW path \in Seq(Step)
    PROVE  Gave(s, PathArrayAppend(s, n, path, sub), sub)
  <1> DEFINE t == PathArrayAppend(s, n, path, sub)
             array == PathArray(s, n, path)
             b == Yields(array, FALSE)
             c == ArrayAppend(array, array.r, sub)
  <1>1. t = IF array.r = NULL THEN b ELSE c
    BY DEF PathArrayAppend
  <1>2. Walk(s, V, array)
    BY PathArrayIs
  <1> HIDE DEF t, array, b, c
  <1>3. CASE t = b
    <2>1. Gave(s, b, sub)
      BY <1>2, LostWalk DEF b
    <2> QED BY <1>3, <2>1 DEF t
  <1>4. CASE array.r # NULL /\ t = c
    <2>1. Apart(array.heap, V, array.r, sub) /\ Sound(array) /\ Walks(s, V, array)
      BY <1>2, <1>4, FoundApart
    <2>2. Gave(array, c, sub)
      BY <2>1, AppendGave DEF c
    <2>3. Gave(s, c, sub)
      BY <2>1, <2>2, GaveAfter
    <2> QED BY <1>4, <2>3 DEF t
  <1> QED BY <1>1, <1>3, <1>4

\* ... in place of an element
LEMMA PathArraySetIs ==
    ASSUME NEW s, Sound(s), NEW V, NEW n, NEW sub, Apart(s.heap, V, n, sub),
           NEW path \in Seq(Step), NEW index \in Nat
    PROVE  Gave(s, PathArraySet(s, n, path, index, sub), sub)
  <1> DEFINE t == PathArraySet(s, n, path, index, sub)
             array == PathArray(s, n, path)
             b == Yields(array, FALSE)
             c == ArraySet(array, array.r, index, sub)
  <1>1. t = IF array.r = NULL THEN b ELSE c
    BY DEF PathArraySet
  <1>2. Walk(s, V, array)
    BY PathArrayIs
  <1> HIDE DEF t, array, b, c
  <1>3. CASE t = b
    <2>1. Gave(s, b, sub)
      BY <1>2, LostWalk DEF b
    <2> QED BY <1>3, <2>1 DEF t
  <1>4. CASE array.r # NULL /\ t = c
    <2>1. Apart(array.heap, V, array.r, sub) /\ Sound(array) /\ Walks(s, V, array)
      BY <1>2, <1>4, FoundApart
    <2>2. Gave(array, c, sub)
      BY <2>1, ArraySetIs DEF c
    <2>3. Gave(s, c, sub)
      BY <2>1, <2>2, GaveAfter
    <2> QED BY <1>4, <2>3 DEF t
  <1> QED BY <1>1, <1>3, <1>4

\* ... in front of an element
LEMMA PathArrayInsertIs ==
    ASSUME NEW s, Sound(s), NEW V, NEW n, NEW sub, Apart(s.heap, V, n, sub),
           NEW path \in Seq(Step), NEW index \in Nat
    PROVE  Gave(s, PathArrayInsert(s, n, path, index, sub), sub)
  <1> DEFINE t == PathArrayInsert(s, n, path, index, sub)
             array == PathArray(s, n, path)
             b == Yields(array, FALSE)
             c == ArrayInsert(array, array.r, index, sub)
  <1>1. t = IF array.r = NULL THEN b ELSE c
    BY DEF PathArrayInsert
  <1>2. Walk(s, V, array)
    BY PathArrayIs
  <1> HIDE DEF t, array, b, c
  <1>3. CASE t = b
    <2>1. Gave(s, b, sub)
      BY <1>2, LostWalk DEF b
    <2> QED BY <1>3, <2>1 DEF t
  <1>4. CASE array.r # NULL /\ t = c
    <2>1. Apart(array.heap, V, array.r, sub) /\ Sound(array) /\ Walks(s, V, array)
      BY <1>2, <1>4, FoundApart
    <2>2. Gave(array, c, sub)
      BY <2>1, ArrayInsertIs DEF c
    <2>3. Gave(s, c, sub)
      BY <2>1, <2>2, GaveAfter
    <2> QED BY <1>4, <2>3 DEF t
  <1> QED BY <1>1, <1>3, <1>4

-----------------------------------------------------------------------------
(* Building containers *)

\* A container that was made
Built(s, t, type) == Made(s, t) /\ (t.r # NULL => t.heap[t.r].type = type)

\* A child joins the container, or both are freed.
LEMMA AddChildIs ==
    ASSUME NEW s, Sound(s), NEW type \in {"null", "value", "array", "map"}, NEW t, Built(s, t, type),
           NEW child, Made(t, child), NEW key, type = "map" => key \in Keys
    PROVE  Built(s, AddChild(t, type, key, child), type)
  <1> DEFINE u == AddChild(t, type, key, child)
             put == IF type = "array" THEN ArrayAppend(child, t.r, child.r)
                    ELSE MapSet(child, t.r, key, child.r)
             b == CleanIn(child, t.r, NULL)
             c == Yields(put, t.r)
             e == CleanIn(put, child.r, FALSE)
             d == CleanIn(e, t.r, NULL)
  <1>1. u = IF t.r = NULL THEN t ELSE IF child.r = NULL THEN b ELSE IF put.r THEN c ELSE d
    BY DEF AddChild
  <1>2. /\ Made(s, t) /\ Beyond(s, t) /\ Sound(t) /\ Beyond(t, child) /\ Sound(child)
    BY DEF Built, Made, Beyond
  <1>3. Beyond(s, child)
    BY <1>2, BeyondTrans
  <1>4. NULL \notin Live(child.heap) /\ NULL \notin Live(t.heap)
    BY TreeConstants DEF Live
  <1> HIDE DEF u, put, b, c, d, e
  <1>5. CASE t.r = NULL
    BY <1>1, <1>5 DEF u
  <1>6. CASE t.r # NULL
    <2>1. /\ t.r \in Live(t.heap) /\ t.r \notin Live(s.heap)
          /\ Roots(t.heap) = Roots(s.heap) \cup {t.r} /\ t.heap[t.r].type = type
      BY <1>2, <1>6 DEF Built, Made
    <2>2. t.r \in Roots(t.heap) /\ t.r \notin Roots(s.heap)
      BY <2>1 DEF Roots
    <2>3. CASE child.r = NULL
      <3>1. Roots(child.heap) = Roots(t.heap)
        BY <1>4, <2>3 DEF Made
      <3>2. Beyond(s, b) /\ b.r = NULL /\ Roots(b.heap) = Roots(child.heap) \ {t.r}
        BY <1>3, <2>1, <2>2, <3>1, MadeDropped DEF b
      <3>3. Roots(b.heap) = Roots(s.heap)
        BY <2>1, <2>2, <3>1, <3>2
      <3> QED BY <1>1, <1>6, <2>3, <3>2, <3>3 DEF Built, Made, u
    <2>4. CASE child.r # NULL
      <3>1. /\ child.r \in Live(child.heap) /\ child.r \notin Live(t.heap)
            /\ Roots(child.heap) = Roots(t.heap) \cup {child.r}
        BY <2>4 DEF Made
      <3> DEFINE U == Live(t.heap)
                 X == {t.r, child.r}
      <3>2. /\ t.r \in U /\ child.r \notin U /\ Up(child.heap, U) /\ t.r \in Live(child.heap)
            /\ child.r \in Roots(child.heap) /\ child.r \notin Roots(t.heap)
            /\ child.heap[t.r] = t.heap[t.r]
        BY <1>2, <2>1, <3>1, BeyondUp DEF Beyond, Roots
      <3>3. child.r \notin Live(s.heap) /\ X \cap Live(s.heap) = {}
        <4>1. Live(s.heap) \subseteq Live(t.heap)
          BY <1>2, BeyondUp
        <4> QED BY <2>1, <3>1, <4>1
      <3> HIDE DEF U
      <3>4. PlacedUnder(child, put, t.r, child.r)
        <4>1. CASE type = "array"
          <5>1. put = ArrayAppend(child, t.r, child.r)
            BY <4>1 DEF put
          <5> QED BY <1>2, <3>2, <5>1, ArrayAppended
        <4>2. CASE type # "array"
          <5>1. put = MapSet(child, t.r, key, child.r)
            BY <4>2 DEF put
          <5>2. child.heap[t.r].type = "map" => key \in Keys
            BY <2>1, <3>2
          <5> QED BY <1>2, <3>2, <5>1, <5>2, MapSetIs
        <4> QED BY <4>1, <4>2
      <3>5. Placed(child, put, child.r, X) /\ Sound(put)
        BY <3>4 DEF PlacedUnder, Placed
      <3> HIDE DEF X
      <3>6. CASE put.r = TRUE
        <4>1. Kept(child.heap, put.heap, X) /\ Roots(put.heap) = Roots(child.heap) \ {child.r}
          BY <3>5, <3>6 DEF Placed
        <4>2. Beyond(s, put)
          BY <1>3, <3>3, <3>5, <4>1, BeyondMore
        <4>3. t.r \in Live(put.heap) /\ put.heap[t.r].type = type
          BY <2>1, <3>2, <3>4, <3>6 DEF PlacedUnder, Live
        <4>4. Roots(put.heap) = Roots(s.heap) \cup {t.r}
          BY <2>1, <3>1, <3>2, <4>1
        <4>5. Sound(c) /\ c.heap = put.heap /\ c.r = t.r
          BY <3>5, SoundYields DEF c
        <4>6. u = c
          BY <1>1, <1>6, <2>4, <3>6
        <4>7. Built(s, c, type)
          BY <2>1, <4>2, <4>3, <4>4, <4>5 DEF Built, Made, Beyond
        <4> QED BY <4>6, <4>7 DEF u
      <3>7. CASE put.r = FALSE /\ put.heap = child.heap
        <4>1. Beyond(s, put)
          BY <1>3, <3>5, <3>7 DEF Beyond
        <4>2. Beyond(s, e) /\ Roots(e.heap) = Roots(put.heap) \ {child.r}
          <5> DEFINE no == FALSE
                     v == CleanIn(put, child.r, no)
          <5> HIDE DEF no, v
          <5>1. child.r \in Roots(put.heap)
            BY <3>2, <3>7
          <5>2. Beyond(s, v) /\ Roots(v.heap) = Roots(put.heap) \ {child.r}
            BY <3>3, <4>1, <5>1, MadeDropped DEF v
          <5> QED BY <5>2 DEF v, no, e
        <4>3. t.r \in Roots(e.heap) /\ Roots(e.heap) = Roots(t.heap)
          BY <2>2, <3>1, <3>2, <3>7, <4>2
        <4>4. Beyond(s, d) /\ d.r = NULL /\ Roots(d.heap) = Roots(e.heap) \ {t.r}
          BY <2>1, <4>2, <4>3, MadeDropped DEF d
        <4>5. Roots(d.heap) = Roots(s.heap)
          BY <2>1, <2>2, <4>3, <4>4
        <4>6. u = d
          BY <1>1, <1>6, <2>4, <3>7
        <4> QED BY <4>4, <4>5, <4>6 DEF Built, Made, u
      <3> QED BY <3>5, <3>6, <3>7 DEF Placed
    <2> QED BY <2>3, <2>4
  <1> QED BY <1>5, <1>6

\* copying copies trees of well-formed heaps.
CopiesTrees(copying) ==
    \A h, left, n : Good(h) /\ left \in Nat /\ n \in Live(h)
                       => Made(Store(h, left), copying[<<h, left, n>>])

\* Made depends on the heap of a store only.
LEMMA StoredAgain ==
    ASSUME NEW s, Sound(s), NEW t, Made(Store(s.heap, s.left), t)
    PROVE  Made(s, t)
  <1>1. Store(s.heap, s.left).heap = s.heap
    BY DEF Store
  <1> QED BY <1>1 DEF Made, Beyond

\* The loop of confignode_copy over the children
Copies(f, copying, s, n) ==
    /\ f[0] = New(s, Blank(s.heap[n].type, NoValue))
    /\ \A k \in 1..Len(s.heap[n].items) :
          f[k] = AddChild(f[k - 1], s.heap[n].type, s.heap[s.heap[n].items[k]].key,
                          copying[<<f[k - 1].heap, f[k - 1].left, s.heap[n].items[k]>>])
    /\ CopyNode(copying, s, n) =
          IF s.heap[n].type = "value" THEN NewValue(s, s.heap[n].value)
          ELSE f[Len(s.heap[n].items)]

\* The loop takes the children one after the other.
LEMMA CopySteps ==
    ASSUME NEW copying, NEW s, NEW n, Len(s.heap[n].items) \in Nat
    PROVE  \E f : Copies(f, copying, s, n)
  <1> DEFINE node == s.heap[n]
             l == Len(node.items)
             start == New(s, Blank(node.type, NoValue))
             CopyChild(t, c) ==
               AddChild(t, node.type, s.heap[c].key, copying[<<t.heap, t.left, c>>])
             rule(f, k) == CopyChild(f[k - 1], node.items[k])
             Body(f, m) == [k \in 0..m |-> IF k = 0 THEN start ELSE rule(f, k)]
             f == CHOOSE g : g = Body(g, l)
             S == {m \in 0..l : \E g : g = Body(g, m)}
  <1>1. CopyNode(copying, s, n) = IF node.type = "value" THEN NewValue(s, node.value) ELSE f[l]
    BY Zenon DEF CopyNode
  <1>2. \A g, k : rule(g, k) = AddChild(g[k - 1], node.type, s.heap[node.items[k]].key,
                                        copying[<<g[k - 1].heap, g[k - 1].left, node.items[k]>>])
    OBVIOUS
  <1>3. \A g, e, k : g[k - 1] = e[k - 1] => rule(g, k) = rule(e, k)
    OBVIOUS
  <1>4. l \in Nat
    OBVIOUS
  <1> HIDE DEF rule, start, l
  <1>5. 0 \in S
    <2> DEFINE g == [k \in 0..0 |-> start]
    <2>1. g = Body(g, 0)
      OBVIOUS
    <2>2. 0 \in 0..l
      BY <1>4
    <2> HIDE DEF Body, g
    <2> QED BY <2>1, <2>2
  <1>6. ASSUME NEW m \in 0..(l - 1), m \in S PROVE m + 1 \in S
    <2>1. PICK g : g = Body(g, m)
      BY <1>6
    <2> DEFINE e == [k \in 0..(m + 1) |-> IF k = m + 1 THEN rule(g, m + 1) ELSE g[k]]
    <2>2. \A k \in 0..m : g[k] = IF k = 0 THEN start ELSE rule(g, k)
      <3> DEFINE B == Body(g, m)
      <3>1. \A k \in 0..m : B[k] = IF k = 0 THEN start ELSE rule(g, k)
        OBVIOUS
      <3> HIDE DEF B
      <3> QED BY <2>1, <3>1 DEF B
    <2>3. m \in Nat /\ m + 1 \in 0..l /\ m + 1 # 0 /\ m + 1 \in 0..(m + 1)
      BY <1>4
    <2>4. /\ e[m + 1] = rule(g, m + 1)
          /\ \A k \in 0..m : e[k] = g[k]
      BY <2>3
    <2>5. \A k \in 0..(m + 1) : e[k] = IF k = 0 THEN start ELSE rule(e, k)
      <3> TAKE k \in 0..(m + 1)
      <3> HIDE DEF e
      <3>1. CASE k = 0
        <4>1. e[0] = g[0] /\ g[0] = start
          BY <2>2, <2>3, <2>4
        <4> QED BY <3>1, <4>1
      <3>2. CASE k # 0 /\ k # m + 1
        <4>1. k \in 0..m /\ k - 1 \in 0..m
          BY <2>3, <3>2
        <4>2. e[k] = rule(g, k) /\ g[k - 1] = e[k - 1]
          BY <2>2, <2>4, <3>2, <4>1
        <4> QED BY <1>3, <3>2, <4>2
      <3>3. CASE k = m + 1
        <4>1. k - 1 \in 0..m
          BY <2>3, <3>3
        <4>2. e[k] = rule(g, k) /\ g[k - 1] = e[k - 1]
          BY <2>4, <3>3, <4>1
        <4> QED BY <1>3, <2>3, <3>3, <4>2
      <3> QED BY <3>1, <3>2, <3>3
    <2>6. e = Body(e, m + 1)
      <3>1. e = [k \in 0..(m + 1) |-> e[k]]
        OBVIOUS
      <3> HIDE DEF e
      <3> QED BY <2>5, <3>1
    <2> HIDE DEF Body, e
    <2> QED BY <2>3, <2>6
  <1>7. \A k \in 0..l : k \in S
    <2> HIDE DEF S
    <2> QED BY <1>4, <1>5, <1>6, SetInduction
  <1>8. l \in S
    BY <1>4, <1>7
  <1>9. f = Body(f, l)
    <2>1. PICK g : g = Body(g, l)
      BY <1>8
    <2> HIDE DEF Body
    <2> QED BY <2>1, Zenon
  <1> HIDE DEF f, S
  <1>10. f[0] = start /\ \A k \in 1..l : f[k] = rule(f, k)
    <2> DEFINE B == Body(f, l)
    <2>1. B[0] = start /\ \A k \in 1..l : B[k] = rule(f, k)
      <3>1. 0 \in 0..l /\ \A k \in 1..l : k \in 0..l /\ k # 0
        BY <1>4
      <3> QED BY <3>1
    <2> HIDE DEF B
    <2>2. f = B
      BY <1>9 DEF B
    <2> QED BY <2>1, <2>2
  <1>11. Copies(f, copying, s, n)
    BY <1>1, <1>2, <1>10 DEF Copies, start, l
  <1> QED BY <1>11

\* confignode_copy, given the copies of the children
LEMMA CopyNodeIs ==
    ASSUME NEW copying, CopiesTrees(copying), NEW s, Sound(s), NEW n \in Live(s.heap)
    PROVE  Made(s, CopyNode(copying, s, n))
  <1> DEFINE type == s.heap[n].type
             l == Len(s.heap[n].items)
             key(k) == s.heap[s.heap[n].items[k]].key
             child(t, k) == copying[<<t.heap, t.left, s.heap[n].items[k]>>]
  <1>1. Good(s.heap)
    BY DEF Sound
  <1>2. /\ type \in {"null", "value", "array", "map"} /\ l \in Nat
        /\ s.heap[n].value \in LeafValue \cup {NoValue}
        /\ \A k \in 1..l : s.heap[n].items[k] \in Live(s.heap)
        /\ type = "map" => \A k \in 1..l : key(k) # NoKey
    BY <1>1, GoodAt
  <1>3. \A k \in 1..l : type = "map" => key(k) \in Keys
    <2> TAKE k \in 1..l
    <2>1. key(k) \in Keys \cup {NoKey}
      BY <1>1, <1>2, GoodAt
    <2> QED BY <1>2, <2>1
  <1>4. PICK f : Copies(f, copying, s, n)
    BY <1>2, CopySteps
  <1>5. /\ f[0] = New(s, Blank(type, NoValue))
        /\ \A k \in 1..l : f[k] = AddChild(f[k - 1], type, key(k), child(f[k - 1], k))
        /\ CopyNode(copying, s, n) = IF type = "value" THEN NewValue(s, s.heap[n].value) ELSE f[l]
    BY <1>4 DEF Copies
  <1>6. CASE type = "value"
    BY <1>2, <1>5, <1>6, NewValueIs
  <1>7. CASE type # "value"
    <2> DEFINE S == {k \in 0..l : Built(s, f[k], type)}
    <2> HIDE DEF type
    <2>1. 0 \in S
      <3> DEFINE v == New(s, Blank(type, NoValue))
      <3>1. NoValue \in LeafValue \cup {NoValue}
        OBVIOUS
      <3> HIDE DEF v
      <3>2. Made(s, v) /\ (v.r # NULL => v.heap[v.r].type = type)
        BY <1>2, <3>1, NewIs DEF v
      <3> QED BY <1>2, <1>5, <3>2 DEF Built, v
    <2>2. ASSUME NEW k \in 0..(l - 1), k \in S PROVE k + 1 \in S
      <3> DEFINE t == f[k]
                 c == child(t, k + 1)
                 m == s.heap[n].items[k + 1]
                 name == key(k + 1)
      <3>1. k + 1 \in 1..l /\ (k + 1) - 1 = k /\ k + 1 \in 0..l
        BY <1>2
      <3>2. f[k + 1] = AddChild(t, type, name, c) /\ Built(s, t, type)
        BY <1>5, <2>2, <3>1
      <3>3. (type = "map" => name \in Keys) /\ m \in Live(s.heap)
        BY <1>2, <1>3, <3>1
      <3> HIDE DEF t, name
      <3>4. Beyond(s, t) /\ Sound(t)
        BY <3>2 DEF Built, Made, Beyond
      <3>5. m \in Live(t.heap) /\ Good(t.heap) /\ t.left \in Nat
        BY <3>3, <3>4, BeyondUp DEF Sound
      <3>6. c = copying[<<t.heap, t.left, m>>]
        OBVIOUS
      <3> HIDE DEF m, c
      <3>7. Made(Store(t.heap, t.left), c)
        BY <3>5, <3>6 DEF CopiesTrees
      <3>8. Made(t, c)
        BY <3>4, <3>7, StoredAgain
      <3>9. Built(s, AddChild(t, type, name, c), type)
        BY <1>2, <3>2, <3>3, <3>8, AddChildIs
      <3> QED BY <3>1, <3>2, <3>9
    <2>3. \A k \in 0..l : k \in S
      <3> HIDE DEF S, l
      <3> QED BY <1>2, <2>1, <2>2, SetInduction
    <2>4. Built(s, f[l], type)
      BY <1>2, <2>3
    <2> QED BY <1>5, <1>7, <2>4 DEF Built
  <1> QED BY <1>6, <1>7

\* One level of copying on top of another
CopyLevel(k, copying) ==
    [call \in Heaps \X Nat \X Ids |->
        IF k = 0 THEN Store(call[1], call[2])
        ELSE CopyNode(copying, Store(call[1], call[2]), call[3])]

\* A level of copying copies trees when the level below it does.
LEMMA CopyLevelIs ==
    ASSUME NEW k, NEW copying, k # 0 => CopiesTrees(copying)
    PROVE  CopiesTrees(CopyLevel(k, copying))
  <1> DEFINE f == CopyLevel(k, copying)
  <1> SUFFICES ASSUME NEW h, NEW left, NEW n, Good(h), left \in Nat, n \in Live(h)
               PROVE  Made(Store(h, left), f[<<h, left, n>>])
    BY DEF CopiesTrees
  <1> DEFINE s == Store(h, left)
             call == <<h, left, n>>
  <1>1. call \in Heaps \X Nat \X Ids
    BY DEF Good, Live
  <1>2. f[call] = IF k = 0 THEN s ELSE CopyNode(copying, s, n)
    BY <1>1 DEF CopyLevel
  <1>3. Sound(s) /\ s.heap = h /\ s.r = NULL
    BY SoundStore
  <1> HIDE DEF f, call, s
  <1>4. CASE k = 0
    <2>1. Made(s, s)
      BY <1>3 DEF Made, Beyond
    <2> QED BY <1>2, <1>4, <2>1 DEF s, call
  <1>5. CASE k # 0
    <2>1. Made(s, CopyNode(copying, s, n))
      BY <1>3, <1>5, CopyNodeIs
    <2> QED BY <1>2, <1>5, <2>1 DEF s, call
  <1> QED BY <1>4, <1>5

\* Copying is defined level by level.
LEMMA CopyingSteps ==
    \A k \in 0..MaxNodes : Copying[k] = CopyLevel(k, Copying[k - 1])
  <1> DEFINE l == MaxNodes
             Body(g, m) == [k \in 0..m |->
               [call \in Heaps \X Nat \X Ids |->
                 LET s == Store(call[1], call[2]) IN
                 IF k = 0 THEN s ELSE CopyNode(g[k - 1], s, call[3])]]
             S == {m \in 0..l : \E g : g = Body(g, m)}
             f == CHOOSE g : g = Body(g, l)
  <1>1. Copying = f
    BY Zenon DEF Copying
  <1>2. l \in Nat
    BY TreeConstants
  <1>3. \A g, m : Body(g, m) = [k \in 0..m |-> CopyLevel(k, g[k - 1])]
    BY DEF CopyLevel
  <1>4. \A x, y : CopyLevel(0, x) = CopyLevel(0, y)
    BY DEF CopyLevel
  <1> HIDE DEF Body, l
  <1>5. 0 \in S
    <2> DEFINE g == [k \in 0..0 |-> CopyLevel(0, 0)]
    <2>1. g = [k \in 0..0 |-> CopyLevel(k, g[k - 1])]
      <3>1. \A k \in 0..0 : k = 0
        OBVIOUS
      <3>2. \A k \in 0..0 : g[k] = CopyLevel(k, g[k - 1])
        BY <1>4, <3>1
      <3> QED BY <3>2
    <2> HIDE DEF g
    <2>2. g = Body(g, 0)
      BY <1>3, <2>1
    <2> QED BY <1>2, <2>2
  <1>6. ASSUME NEW m \in 0..(l - 1), m \in S PROVE m + 1 \in S
    <2>1. PICK g : g = [k \in 0..m |-> CopyLevel(k, g[k - 1])]
      BY <1>3, <1>6
    <2> DEFINE e == [k \in 0..(m + 1) |-> IF k = m + 1 THEN CopyLevel(m + 1, g[m]) ELSE g[k]]
    <2>2. m \in Nat /\ m + 1 \in 0..l /\ m + 1 # 0 /\ (m + 1) - 1 = m /\ m \in 0..m
      BY <1>2
    <2>3. \A k \in 0..m : g[k] = CopyLevel(k, g[k - 1])
      <3> DEFINE B == [k \in 0..m |-> CopyLevel(k, g[k - 1])]
      <3>1. \A k \in 0..m : B[k] = CopyLevel(k, g[k - 1])
        OBVIOUS
      <3> HIDE DEF B
      <3> QED BY <2>1, <3>1 DEF B
    <2>4. /\ e[m + 1] = CopyLevel(m + 1, g[m])
          /\ \A k \in 0..m : e[k] = g[k]
      BY <2>2
    <2>5. \A k \in 0..(m + 1) : e[k] = CopyLevel(k, e[k - 1])
      <3> TAKE k \in 0..(m + 1)
      <3> HIDE DEF e
      <3>1. CASE k = 0
        <4>1. e[0] = CopyLevel(0, g[0 - 1])
          BY <2>2, <2>3, <2>4
        <4> QED BY <1>4, <3>1, <4>1
      <3>2. CASE k # 0 /\ k # m + 1
        <4>1. k \in 0..m /\ k - 1 \in 0..m
          BY <2>2, <3>2
        <4> QED BY <2>3, <2>4, <4>1
      <3>3. CASE k = m + 1
        BY <2>2, <2>4, <3>3
      <3> QED BY <3>1, <3>2, <3>3
    <2>6. e = [k \in 0..(m + 1) |-> CopyLevel(k, e[k - 1])]
      <3>1. e = [k \in 0..(m + 1) |-> e[k]]
        OBVIOUS
      <3> HIDE DEF e
      <3> QED BY <2>5, <3>1
    <2> HIDE DEF e
    <2>7. e = Body(e, m + 1)
      BY <1>3, <2>6
    <2> QED BY <2>2, <2>7
  <1>7. \A k \in 0..l : k \in S
    <2> HIDE DEF S
    <2> QED BY <1>2, <1>5, <1>6, SetInduction
  <1>8. f = Body(f, l)
    <2>1. l \in 0..l
      BY <1>2
    <2>2. PICK g : g = Body(g, l)
      BY <1>7, <2>1
    <2> QED BY <2>2, Zenon
  <1> HIDE DEF f
  <1>9. \A k \in 0..l : f[k] = CopyLevel(k, f[k - 1])
    <2> DEFINE B == [k \in 0..l |-> CopyLevel(k, f[k - 1])]
    <2>1. \A k \in 0..l : B[k] = CopyLevel(k, f[k - 1])
      OBVIOUS
    <2> HIDE DEF B
    <2>2. f = B
      BY <1>3, <1>8 DEF B
    <2> QED BY <2>1, <2>2
  <1> QED BY <1>1, <1>9 DEF l

\* confignode_copy makes a tree of its own, or leaves everything as it was.
LEMMA CopyIs ==
    ASSUME NEW s, Sound(s), NEW n \in Live(s.heap)
    PROVE  Made(s, Copy(s, n))
  <1> DEFINE S == {k \in 0..MaxNodes : CopiesTrees(Copying[k])}
  <1>0. MaxNodes \in Nat
    BY TreeConstants
  <1>1. 0 \in S
    <2>1. 0 \in 0..MaxNodes /\ Copying[0] = CopyLevel(0, Copying[0 - 1])
      BY <1>0, CopyingSteps
    <2> DEFINE prev == Copying[0 - 1]
    <2> HIDE DEF prev
    <2>2. CopiesTrees(CopyLevel(0, prev))
      BY CopyLevelIs
    <2> QED BY <2>1, <2>2 DEF prev
  <1>2. ASSUME NEW k \in 0..(MaxNodes - 1), k \in S PROVE k + 1 \in S
    <2>1. k + 1 \in 0..MaxNodes /\ (k + 1) - 1 = k
      BY <1>0
    <2>2. Copying[k + 1] = CopyLevel(k + 1, Copying[k]) /\ CopiesTrees(Copying[k])
      BY <1>2, <2>1, CopyingSteps
    <2> DEFINE prev == Copying[k]
               j == k + 1
    <2> HIDE DEF prev, j
    <2>3. CopiesTrees(CopyLevel(j, prev))
      BY <2>2, CopyLevelIs DEF prev
    <2> QED BY <2>1, <2>2, <2>3 DEF prev, j
  <1>3. \A k \in 0..MaxNodes : k \in S
    <2> HIDE DEF S
    <2> QED BY <1>0, <1>1, <1>2, SetInduction
  <1>4. CopiesTrees(Copying[MaxNodes])
    BY <1>0, <1>3
  <1>5. Good(s.heap) /\ s.left \in Nat
    BY DEF Sound
  <1> DEFINE t == Copy(s, n)
  <1>6. t = Copying[MaxNodes][<<s.heap, s.left, n>>]
    BY DEF Copy
  <1> HIDE DEF t
  <1>7. Made(Store(s.heap, s.left), t)
    BY <1>4, <1>5, <1>6 DEF CopiesTrees
  <1>8. Made(s, t)
    BY <1>7, StoredAgain
  <1> QED BY <1>8 DEF t

\* Documents of one more level
DocumentLevel(k, nodes) == IF k = 0 THEN {} ELSE DocumentsOver(nodes)

\* Document is defined level by level.
LEMMA DocumentSteps ==
    \A k \in 0..Levels : Document[k] = DocumentLevel(k, Document[k - 1])
  <1> DEFINE l == Levels
             Body(g, m) == [k \in 0..m |-> IF k = 0 THEN {} ELSE DocumentsOver(g[k - 1])]
             S == {m \in 0..l : \E g : g = Body(g, m)}
             f == CHOOSE g : g = Body(g, l)
  <1>1. Document = f
    BY Zenon DEF Document
  <1>2. l \in Nat
    BY ConfigSpecAssumption
  <1>3. \A g, m : Body(g, m) = [k \in 0..m |-> DocumentLevel(k, g[k - 1])]
    BY DEF DocumentLevel
  <1>4. \A x, y : DocumentLevel(0, x) = DocumentLevel(0, y)
    BY DEF DocumentLevel
  <1> HIDE DEF Body, l
  <1>5. 0 \in S
    <2> DEFINE g == [k \in 0..0 |-> DocumentLevel(0, 0)]
    <2>1. g = [k \in 0..0 |-> DocumentLevel(k, g[k - 1])]
      <3>1. \A k \in 0..0 : k = 0
        OBVIOUS
      <3>2. \A k \in 0..0 : g[k] = DocumentLevel(k, g[k - 1])
        BY <1>4, <3>1
      <3> QED BY <3>2
    <2> HIDE DEF g
    <2>2. g = Body(g, 0)
      BY <1>3, <2>1
    <2> QED BY <1>2, <2>2
  <1>6. ASSUME NEW m \in 0..(l - 1), m \in S PROVE m + 1 \in S
    <2>1. PICK g : g = [k \in 0..m |-> DocumentLevel(k, g[k - 1])]
      BY <1>3, <1>6
    <2> DEFINE e == [k \in 0..(m + 1) |-> IF k = m + 1 THEN DocumentLevel(m + 1, g[m]) ELSE g[k]]
    <2>2. m \in Nat /\ m + 1 \in 0..l /\ m + 1 # 0 /\ (m + 1) - 1 = m /\ m \in 0..m
      BY <1>2
    <2>3. \A k \in 0..m : g[k] = DocumentLevel(k, g[k - 1])
      <3> DEFINE B == [k \in 0..m |-> DocumentLevel(k, g[k - 1])]
      <3>1. \A k \in 0..m : B[k] = DocumentLevel(k, g[k - 1])
        OBVIOUS
      <3> HIDE DEF B
      <3> QED BY <2>1, <3>1 DEF B
    <2>4. /\ e[m + 1] = DocumentLevel(m + 1, g[m])
          /\ \A k \in 0..m : e[k] = g[k]
      BY <2>2
    <2>5. \A k \in 0..(m + 1) : e[k] = DocumentLevel(k, e[k - 1])
      <3> TAKE k \in 0..(m + 1)
      <3> HIDE DEF e
      <3>1. CASE k = 0
        <4>1. e[0] = DocumentLevel(0, g[0 - 1])
          BY <2>2, <2>3, <2>4
        <4> QED BY <1>4, <3>1, <4>1
      <3>2. CASE k # 0 /\ k # m + 1
        <4>1. k \in 0..m /\ k - 1 \in 0..m
          BY <2>2, <3>2
        <4> QED BY <2>3, <2>4, <4>1
      <3>3. CASE k = m + 1
        BY <2>2, <2>4, <3>3
      <3> QED BY <3>1, <3>2, <3>3
    <2>6. e = [k \in 0..(m + 1) |-> DocumentLevel(k, e[k - 1])]
      <3>1. e = [k \in 0..(m + 1) |-> e[k]]
        OBVIOUS
      <3> HIDE DEF e
      <3> QED BY <2>5, <3>1
    <2> HIDE DEF e
    <2>7. e = Body(e, m + 1)
      BY <1>3, <2>6
    <2> QED BY <2>2, <2>7
  <1>7. \A k \in 0..l : k \in S
    <2> HIDE DEF S
    <2> QED BY <1>2, <1>5, <1>6, SetInduction
  <1>8. f = Body(f, l)
    <2>1. l \in 0..l
      BY <1>2
    <2>2. PICK g : g = Body(g, l)
      BY <1>7, <2>1
    <2> QED BY <2>2, Zenon
  <1> HIDE DEF f
  <1>9. \A k \in 0..l : f[k] = DocumentLevel(k, f[k - 1])
    <2> DEFINE B == [k \in 0..l |-> DocumentLevel(k, f[k - 1])]
    <2>1. \A k \in 0..l : B[k] = DocumentLevel(k, f[k - 1])
      OBVIOUS
    <2> HIDE DEF B
    <2>2. f = B
      BY <1>3, <1>8 DEF B
    <2> QED BY <2>1, <2>2
  <1> QED BY <1>1, <1>9 DEF l

\* building builds the documents of a set.
BuildsTrees(docs, building) ==
    \A h, left, doc : Good(h) /\ left \in Nat /\ doc \in docs
                         => Made(Store(h, left), building[<<h, left, doc>>])

\* The loop of confignode_from_json and parse_yaml_node over the items
ItemBuilt(building, t, type, item) ==
    IF type = "map" THEN AddChild(t, "map", item.key, building[<<t.heap, t.left, item.node>>])
    ELSE AddChild(t, "array", NoKey, building[<<t.heap, t.left, item>>])

Builds(f, building, s, doc) ==
    /\ f[0] = New(s, Blank(doc.type, NoValue))
    /\ \A k \in 1..Len(doc.items) : f[k] = ItemBuilt(building, f[k - 1], doc.type, doc.items[k])
    /\ BuildNode(building, s, doc) =
          IF doc.type = "value" THEN NewValue(s, doc.value)
          ELSE IF doc.type = "null" THEN New(s, Blank("null", NoValue))
          ELSE f[Len(doc.items)]

\* The loop takes the items one after the other.
LEMMA BuildSteps ==
    ASSUME NEW building, NEW s, NEW doc, Len(doc.items) \in Nat
    PROVE  \E f : Builds(f, building, s, doc)
  <1> DEFINE l == Len(doc.items)
             start == New(s, Blank(doc.type, NoValue))
             BuildChild(t, item) ==
               IF doc.type = "map"
               THEN AddChild(t, "map", item.key, building[<<t.heap, t.left, item.node>>])
               ELSE AddChild(t, "array", NoKey, building[<<t.heap, t.left, item>>])
             rule(f, k) == BuildChild(f[k - 1], doc.items[k])
             Body(f, m) == [k \in 0..m |-> IF k = 0 THEN start ELSE rule(f, k)]
             f == CHOOSE g : g = Body(g, l)
             S == {m \in 0..l : \E g : g = Body(g, m)}
  <1>1. BuildNode(building, s, doc) =
          IF doc.type = "value" THEN NewValue(s, doc.value)
          ELSE IF doc.type = "null" THEN New(s, Blank("null", NoValue)) ELSE f[l]
    BY Zenon DEF BuildNode
  <1>2. \A g, k : rule(g, k) = ItemBuilt(building, g[k - 1], doc.type, doc.items[k])
    BY DEF ItemBuilt
  <1>3. \A g, e, k : g[k - 1] = e[k - 1] => rule(g, k) = rule(e, k)
    OBVIOUS
  <1>4. l \in Nat
    OBVIOUS
  <1> HIDE DEF rule, start, l
  <1>5. 0 \in S
    <2> DEFINE g == [k \in 0..0 |-> start]
    <2>1. g = Body(g, 0)
      OBVIOUS
    <2>2. 0 \in 0..l
      BY <1>4
    <2> HIDE DEF Body, g
    <2> QED BY <2>1, <2>2
  <1>6. ASSUME NEW m \in 0..(l - 1), m \in S PROVE m + 1 \in S
    <2>1. PICK g : g = Body(g, m)
      BY <1>6
    <2> DEFINE e == [k \in 0..(m + 1) |-> IF k = m + 1 THEN rule(g, m + 1) ELSE g[k]]
    <2>2. \A k \in 0..m : g[k] = IF k = 0 THEN start ELSE rule(g, k)
      <3> DEFINE B == Body(g, m)
      <3>1. \A k \in 0..m : B[k] = IF k = 0 THEN start ELSE rule(g, k)
        OBVIOUS
      <3> HIDE DEF B
      <3> QED BY <2>1, <3>1 DEF B
    <2>3. m \in Nat /\ m + 1 \in 0..l /\ m + 1 # 0 /\ m + 1 \in 0..(m + 1)
      BY <1>4
    <2>4. /\ e[m + 1] = rule(g, m + 1)
          /\ \A k \in 0..m : e[k] = g[k]
      BY <2>3
    <2>5. \A k \in 0..(m + 1) : e[k] = IF k = 0 THEN start ELSE rule(e, k)
      <3> TAKE k \in 0..(m + 1)
      <3> HIDE DEF e
      <3>1. CASE k = 0
        <4>1. e[0] = g[0] /\ g[0] = start
          BY <2>2, <2>3, <2>4
        <4> QED BY <3>1, <4>1
      <3>2. CASE k # 0 /\ k # m + 1
        <4>1. k \in 0..m /\ k - 1 \in 0..m
          BY <2>3, <3>2
        <4>2. e[k] = rule(g, k) /\ g[k - 1] = e[k - 1]
          BY <2>2, <2>4, <3>2, <4>1
        <4> QED BY <1>3, <3>2, <4>2
      <3>3. CASE k = m + 1
        <4>1. k - 1 \in 0..m
          BY <2>3, <3>3
        <4>2. e[k] = rule(g, k) /\ g[k - 1] = e[k - 1]
          BY <2>4, <3>3, <4>1
        <4> QED BY <1>3, <2>3, <3>3, <4>2
      <3> QED BY <3>1, <3>2, <3>3
    <2>6. e = Body(e, m + 1)
      <3>1. e = [k \in 0..(m + 1) |-> e[k]]
        OBVIOUS
      <3> HIDE DEF e
      <3> QED BY <2>5, <3>1
    <2> HIDE DEF Body, e
    <2> QED BY <2>3, <2>6
  <1>7. \A k \in 0..l : k \in S
    <2> HIDE DEF S
    <2> QED BY <1>4, <1>5, <1>6, SetInduction
  <1>8. l \in S
    BY <1>4, <1>7
  <1>9. f = Body(f, l)
    <2>1. PICK g : g = Body(g, l)
      BY <1>8
    <2> HIDE DEF Body
    <2> QED BY <2>1, Zenon
  <1> HIDE DEF f, S
  <1>10. f[0] = start /\ \A k \in 1..l : f[k] = rule(f, k)
    <2> DEFINE B == Body(f, l)
    <2>1. B[0] = start /\ \A k \in 1..l : B[k] = rule(f, k)
      <3>1. 0 \in 0..l /\ \A k \in 1..l : k \in 0..l /\ k # 0
        BY <1>4
      <3> QED BY <3>1
    <2> HIDE DEF B
    <2>2. f = B
      BY <1>9 DEF B
    <2> QED BY <2>1, <2>2
  <1>11. Builds(f, building, s, doc)
    BY <1>1, <1>2, <1>10 DEF Builds, start, l
  <1> QED BY <1>11

\* One level of building on top of another
BuildLevel(k, building) ==
    [call \in Heaps \X Nat \X Document[k] |->
        BuildNode(building, Store(call[1], call[2]), call[3])]

\* Building is defined level by level.
LEMMA BuildingSteps ==
    \A k \in 0..Levels : Building[k] = BuildLevel(k, Building[k - 1])
  <1> DEFINE l == Levels
             Body(g, m) == [k \in 0..m |->
               [call \in Heaps \X Nat \X Document[k] |->
                 BuildNode(g[k - 1], Store(call[1], call[2]), call[3])]]
             S == {m \in 0..l : \E g : g = Body(g, m)}
             f == CHOOSE g : g = Body(g, l)
  <1>1. Building = f
    BY Zenon DEF Building
  <1>2. l \in Nat
    BY ConfigSpecAssumption
  <1>3. \A g, m : Body(g, m) = [k \in 0..m |-> BuildLevel(k, g[k - 1])]
    BY DEF BuildLevel
  <1>4. \A x, y : BuildLevel(0, x) = BuildLevel(0, y)
    <2>1. Document[0] = {}
      <3>1. 0 \in 0..Levels /\ Document[0] = DocumentLevel(0, Document[0 - 1])
        BY <1>2, DocumentSteps DEF l
      <3> QED BY <3>1 DEF DocumentLevel
    <2>2. Heaps \X Nat \X Document[0] = {}
      BY <2>1
    <2> QED BY <2>2 DEF BuildLevel
  <1> HIDE DEF Body, l
  <1>5. 0 \in S
    <2> DEFINE g == [k \in 0..0 |-> BuildLevel(0, 0)]
    <2>1. g = [k \in 0..0 |-> BuildLevel(k, g[k - 1])]
      <3>1. \A k \in 0..0 : k = 0
        OBVIOUS
      <3>2. \A k \in 0..0 : g[k] = BuildLevel(k, g[k - 1])
        BY <1>4, <3>1
      <3> QED BY <3>2
    <2> HIDE DEF g
    <2>2. g = Body(g, 0)
      BY <1>3, <2>1
    <2> QED BY <1>2, <2>2
  <1>6. ASSUME NEW m \in 0..(l - 1), m \in S PROVE m + 1 \in S
    <2>1. PICK g : g = [k \in 0..m |-> BuildLevel(k, g[k - 1])]
      BY <1>3, <1>6
    <2> DEFINE e == [k \in 0..(m + 1) |-> IF k = m + 1 THEN BuildLevel(m + 1, g[m]) ELSE g[k]]
    <2>2. m \in Nat /\ m + 1 \in 0..l /\ m + 1 # 0 /\ (m + 1) - 1 = m /\ m \in 0..m
      BY <1>2
    <2>3. \A k \in 0..m : g[k] = BuildLevel(k, g[k - 1])
      <3> DEFINE B == [k \in 0..m |-> BuildLevel(k, g[k - 1])]
      <3>1. \A k \in 0..m : B[k] = BuildLevel(k, g[k - 1])
        OBVIOUS
      <3> HIDE DEF B
      <3> QED BY <2>1, <3>1 DEF B
    <2>4. /\ e[m + 1] = BuildLevel(m + 1, g[m])
          /\ \A k \in 0..m : e[k] = g[k]
      BY <2>2
    <2>5. \A k \in 0..(m + 1) : e[k] = BuildLevel(k, e[k - 1])
      <3> TAKE k \in 0..(m + 1)
      <3> HIDE DEF e
      <3>1. CASE k = 0
        <4>1. e[0] = BuildLevel(0, g[0 - 1])
          BY <2>2, <2>3, <2>4
        <4> QED BY <1>4, <3>1, <4>1
      <3>2. CASE k # 0 /\ k # m + 1
        <4>1. k \in 0..m /\ k - 1 \in 0..m
          BY <2>2, <3>2
        <4> QED BY <2>3, <2>4, <4>1
      <3>3. CASE k = m + 1
        BY <2>2, <2>4, <3>3
      <3> QED BY <3>1, <3>2, <3>3
    <2>6. e = [k \in 0..(m + 1) |-> BuildLevel(k, e[k - 1])]
      <3>1. e = [k \in 0..(m + 1) |-> e[k]]
        OBVIOUS
      <3> HIDE DEF e
      <3> QED BY <2>5, <3>1
    <2> HIDE DEF e
    <2>7. e = Body(e, m + 1)
      BY <1>3, <2>6
    <2> QED BY <2>2, <2>7
  <1>7. \A k \in 0..l : k \in S
    <2> HIDE DEF S
    <2> QED BY <1>2, <1>5, <1>6, SetInduction
  <1>8. f = Body(f, l)
    <2>1. l \in 0..l
      BY <1>2
    <2>2. PICK g : g = Body(g, l)
      BY <1>7, <2>1
    <2> QED BY <2>2, Zenon
  <1> HIDE DEF f
  <1>9. \A k \in 0..l : f[k] = BuildLevel(k, f[k - 1])
    <2> DEFINE B == [k \in 0..l |-> BuildLevel(k, f[k - 1])]
    <2>1. \A k \in 0..l : B[k] = BuildLevel(k, f[k - 1])
      OBVIOUS
    <2> HIDE DEF B
    <2>2. f = B
      BY <1>3, <1>8 DEF B
    <2> QED BY <2>1, <2>2
  <1> QED BY <1>1, <1>9 DEF l

\* An item joins the container.
LEMMA ItemBuiltIs ==
    ASSUME NEW nodes, NEW building, BuildsTrees(nodes, building), NEW s, Sound(s),
           NEW type \in {"array", "map"}, NEW t, Built(s, t, type), NEW item,
           type = "map" => item.key \in Keys /\ item.node \in nodes,
           type = "array" => item \in nodes
    PROVE  Built(s, ItemBuilt(building, t, type, item), type)
  <1> DEFINE name == IF type = "map" THEN item.key ELSE NoKey
             node == IF type = "map" THEN item.node ELSE item
             c == building[<<t.heap, t.left, node>>]
  <1>1. ItemBuilt(building, t, type, item) = AddChild(t, type, name, c)
    BY DEF ItemBuilt
  <1>2. node \in nodes /\ (type = "map" => name \in Keys)
    OBVIOUS
  <1>3. Sound(t) /\ Good(t.heap) /\ t.left \in Nat
    BY DEF Built, Made, Beyond, Sound
  <1> HIDE DEF name
  <1>4. c = building[<<t.heap, t.left, node>>]
    OBVIOUS
  <1> HIDE DEF node, c
  <1>5. Made(Store(t.heap, t.left), c)
    BY <1>2, <1>3, <1>4 DEF BuildsTrees
  <1>6. Made(t, c)
    BY <1>3, <1>5, StoredAgain
  <1>7. type \in {"null", "value", "array", "map"}
    OBVIOUS
  <1>8. Built(s, AddChild(t, type, name, c), type)
    BY <1>2, <1>6, <1>7, AddChildIs
  <1> QED BY <1>1, <1>8

\* confignode_from_json, parse_yaml_node, given the trees of the items
LEMMA BuildNodeIs ==
    ASSUME NEW nodes, NEW building, BuildsTrees(nodes, building), NEW s, Sound(s),
           NEW doc \in DocumentsOver(nodes)
    PROVE  Made(s, BuildNode(building, s, doc))
  <1>1. CASE doc.type = "value"
    <2>1. doc.value \in LeafValue \cup {NoValue}
      BY <1>1 DEF DocumentsOver
    <2>2. BuildNode(building, s, doc) = NewValue(s, doc.value)
      BY <1>1, Zenon DEF BuildNode
    <2> QED BY <2>1, <2>2, NewValueIs
  <1>2. CASE doc.type = "null"
    <2>1. BuildNode(building, s, doc) = New(s, Blank("null", NoValue))
      <3>1. doc.type # "value"
        BY <1>2
      <3> QED BY <1>2, <3>1, Zenon DEF BuildNode
    <2> DEFINE type == "null"
    <2>2. type \in {"null", "value", "array", "map"} /\ NoValue \in LeafValue \cup {NoValue}
      OBVIOUS
    <2> HIDE DEF type
    <2>3. Made(s, New(s, Blank(type, NoValue)))
      BY <2>2, NewIs
    <2> QED BY <2>1, <2>3 DEF type
  <1>3. CASE doc.type \in {"array", "map"}
    <2> DEFINE type == doc.type
               l == Len(doc.items)
    <2>1. /\ l \in Nat
          /\ type = "map" => \A k \in 1..l : doc.items[k].key \in Keys /\ doc.items[k].node \in nodes
          /\ type = "array" => \A k \in 1..l : doc.items[k] \in nodes
      <3>1. CASE doc.type = "map"
        <4> DEFINE Items == [key : Keys, node : nodes]
        <4>1. doc.items \in Seq(Items)
          BY <3>1 DEF DocumentsOver
        <4>2. \A e \in Items : e.key \in Keys /\ e.node \in nodes
          OBVIOUS
        <4> HIDE DEF Items
        <4>3. l \in Nat /\ \A k \in 1..l : doc.items[k] \in Items
          BY <4>1
        <4> QED BY <3>1, <4>2, <4>3
      <3>2. CASE doc.type = "array"
        <4>1. doc.items \in Seq(nodes)
          BY <3>2 DEF DocumentsOver
        <4> QED BY <3>2, <4>1
      <3> QED BY <1>3, <3>1, <3>2
    <2>2. PICK f : Builds(f, building, s, doc)
      BY <2>1, BuildSteps
    <2>3. /\ f[0] = New(s, Blank(type, NoValue))
          /\ \A k \in 1..l : f[k] = ItemBuilt(building, f[k - 1], type, doc.items[k])
          /\ BuildNode(building, s, doc) = f[l]
      BY <1>3, <2>2 DEF Builds
    <2> DEFINE S == {k \in 0..l : Built(s, f[k], type)}
    <2>4. type \in {"array", "map"}
      BY <1>3
    <2> HIDE DEF type
    <2>5. 0 \in S
      <3> DEFINE v == New(s, Blank(type, NoValue))
      <3>1. type \in {"null", "value", "array", "map"} /\ NoValue \in LeafValue \cup {NoValue}
        BY <2>4
      <3> HIDE DEF v
      <3>2. Made(s, v) /\ (v.r # NULL => v.heap[v.r].type = type)
        BY <3>1, NewIs DEF v
      <3> QED BY <2>1, <2>3, <3>2 DEF Built, v
    <2>6. ASSUME NEW k \in 0..(l - 1), k \in S PROVE k + 1 \in S
      <3> DEFINE t == f[k]
                 item == doc.items[k + 1]
      <3>1. k + 1 \in 1..l /\ (k + 1) - 1 = k /\ k + 1 \in 0..l
        BY <2>1
      <3>2. f[k + 1] = ItemBuilt(building, t, type, item) /\ Built(s, t, type)
        BY <2>3, <2>6, <3>1
      <3>3. /\ type = "map" => item.key \in Keys /\ item.node \in nodes
            /\ type = "array" => item \in nodes
        BY <2>1, <3>1
      <3> HIDE DEF t, item
      <3>4. Built(s, ItemBuilt(building, t, type, item), type)
        BY <2>4, <3>2, <3>3, ItemBuiltIs
      <3> QED BY <3>1, <3>2, <3>4
    <2>7. \A k \in 0..l : k \in S
      <3> HIDE DEF S, l
      <3> QED BY <2>1, <2>5, <2>6, SetInduction
    <2>8. Built(s, f[l], type)
      BY <2>1, <2>7
    <2> QED BY <2>3, <2>8 DEF Built
  <1>4. doc.type \in {"null", "value", "array", "map"}
    BY DEF DocumentsOver
  <1> QED BY <1>1, <1>2, <1>3, <1>4

\* A document is built into a tree of its own, or leaves everything as it was.
LEMMA BuildIs ==
    ASSUME NEW s, Sound(s), NEW doc \in Document[Levels]
    PROVE  Made(s, Build(s, doc))
  <1> DEFINE S == {k \in 0..Levels : BuildsTrees(Document[k], Building[k])}
  <1>0. Levels \in Nat
    BY ConfigSpecAssumption
  <1>1. 0 \in S
    <2>1. 0 \in 0..Levels /\ Document[0] = DocumentLevel(0, Document[0 - 1])
      BY <1>0, DocumentSteps
    <2> QED BY <2>1 DEF BuildsTrees, DocumentLevel
  <1>2. ASSUME NEW k \in 0..(Levels - 1), k \in S PROVE k + 1 \in S
    <2> DEFINE j == k + 1
               nodes == Document[k]
               prev == Building[k]
    <2>1. j \in 0..Levels /\ j - 1 = k /\ j # 0 /\ BuildsTrees(nodes, prev)
      BY <1>0, <1>2
    <2> HIDE DEF j
    <2>2. Document[j] = DocumentLevel(j, nodes) /\ Building[j] = BuildLevel(j, prev)
      BY <2>1, DocumentSteps, BuildingSteps
    <2> HIDE DEF nodes, prev
    <2>3. Document[j] = DocumentsOver(nodes)
      BY <2>1, <2>2 DEF DocumentLevel
    <2>4. ASSUME NEW h, NEW left, NEW d, Good(h), left \in Nat, d \in Document[j]
          PROVE  Made(Store(h, left), Building[j][<<h, left, d>>])
      <3> DEFINE u == Store(h, left)
                 call == <<h, left, d>>
                 f == BuildLevel(j, prev)
      <3>1. call \in Heaps \X Nat \X Document[j]
        BY <2>4 DEF Good
      <3>2. f[call] = BuildNode(prev, u, d)
        BY <3>1 DEF BuildLevel
      <3>3. Sound(u)
        BY <2>4, SoundStore
      <3> HIDE DEF u, call, f
      <3>4. Made(u, BuildNode(prev, u, d))
        BY <2>1, <2>3, <2>4, <3>3, BuildNodeIs
      <3> QED BY <2>2, <3>2, <3>4 DEF u, call, f
    <2>5. BuildsTrees(Document[j], Building[j])
      BY <2>4 DEF BuildsTrees
    <2> QED BY <2>1, <2>5 DEF j
  <1>3. \A k \in 0..Levels : k \in S
    <2> HIDE DEF S
    <2> QED BY <1>0, <1>1, <1>2, SetInduction
  <1>4. BuildsTrees(Document[Levels], Building[Levels])
    BY <1>0, <1>3
  <1>5. Good(s.heap) /\ s.left \in Nat
    BY DEF Sound
  <1> DEFINE t == Build(s, doc)
  <1>6. t = Building[Levels][<<s.heap, s.left, doc>>]
    BY DEF Build
  <1> HIDE DEF t
  <1>7. Made(Store(s.heap, s.left), t)
    BY <1>4, <1>5, <1>6 DEF BuildsTrees
  <1>8. Made(s, t)
    BY <1>7, StoredAgain
  <1> QED BY <1>8 DEF t

-----------------------------------------------------------------------------
(* Merging *)

\* What ReplaceContents does before it frees the node with the old contents
Swapped(h, n, sub) ==
    [m \in Ids |->
        IF m = n
        THEN [h[sub] EXCEPT !.key = h[n].key, !.index = h[n].index, !.parent = h[n].parent]
        ELSE IF m = sub
        THEN [h[n] EXCEPT !.key = h[sub].key, !.index = -1, !.parent = NULL]
        ELSE IF h[m].type = "free" THEN h[m]
        ELSE [h[m] EXCEPT !.parent = IF Contains(h[sub].items, m) THEN n
                                     ELSE IF Contains(h[n].items, m) THEN sub
                                     ELSE h[m].parent]]

\* Who is whose child then
LEMMA SwappedIs ==
    ASSUME NEW h, Good(h), NEW n \in Live(h), NEW sub \in Roots(h), n # sub, h[n].parent # sub
    PROVE  LET g == Swapped(h, n, sub) IN
           /\ g \in Heaps /\ Live(g) = Live(h)
           /\ g[n].type = h[sub].type /\ g[n].items = h[sub].items /\ g[n].key = h[n].key
           /\ g[n].index = h[n].index /\ g[n].parent = h[n].parent
           /\ g[sub].type = h[n].type /\ g[sub].items = h[n].items /\ g[sub].parent = NULL
           /\ \A m \in Live(h) \ {n, sub} :
                 /\ g[m].type = h[m].type /\ g[m].items = h[m].items
                 /\ g[m].key = h[m].key /\ g[m].index = h[m].index
                 /\ g[m].parent = IF h[m].parent = sub THEN n
                                  ELSE IF h[m].parent = n THEN sub ELSE h[m].parent
                 /\ h[m].parent \notin {n, sub} => g[m] = h[m]
  <1> DEFINE g == Swapped(h, n, sub)
             above(m) == IF Contains(h[sub].items, m) THEN n
                         ELSE IF Contains(h[n].items, m) THEN sub ELSE h[m].parent
  <1>1. /\ h \in Heaps /\ sub \in Live(h) /\ h[sub].parent = NULL /\ sub \in Ids /\ n \in Ids
        /\ h \in [Ids -> Node \cup {FreeNode}]
    BY DEF Good, Roots, Live, Heaps
  <1>2. \A m \in Live(h) : h[m] \in Node /\ m \in Ids
    BY <1>1, NodeIs DEF Live
  <1>3. /\ g[n] = [h[sub] EXCEPT !.key = h[n].key, !.index = h[n].index, !.parent = h[n].parent]
        /\ g[sub] = [h[n] EXCEPT !.key = h[sub].key, !.index = -1, !.parent = NULL]
        /\ \A m \in Ids : m \notin {n, sub} =>
              g[m] = IF h[m].type = "free" THEN h[m] ELSE [h[m] EXCEPT !.parent = above(m)]
        /\ g = [m \in Ids |-> g[m]]
    BY <1>1 DEF Swapped
  <1> HIDE DEF g
  <1>4. \A m \in Live(h) : above(m) = IF h[m].parent = sub THEN n
                                      ELSE IF h[m].parent = n THEN sub ELSE h[m].parent
    <2> TAKE m \in Live(h)
    <2>1. \A x \in Live(h) : Contains(h[x].items, m) <=> h[m].parent = x
      <3> TAKE x \in Live(h)
      <3>1. h[x].items \in Seq(Ids)
        BY GoodAt
      <3>2. Contains(h[x].items, m) <=> \E i \in 1..Len(h[x].items) : h[x].items[i] = m
        BY <3>1 DEF Contains
      <3> QED BY <3>2, OffspringIs
    <2> QED BY <1>1, <2>1
  <1>5. \A m \in Live(h) : above(m) \in Ids \cup {NULL}
    BY <1>1, <1>2, <1>4 DEF Node
  <1> HIDE DEF above
  <1>6. /\ g[n] \in Node /\ g[n].type = h[sub].type /\ g[n].items = h[sub].items
        /\ g[n].key = h[n].key /\ g[n].index = h[n].index /\ g[n].parent = h[n].parent
    <2> DEFINE placed(a, b) == [a EXCEPT !.key = b.key, !.index = b.index, !.parent = b.parent]
    <2>1. ASSUME NEW a \in Node, NEW b \in Node
          PROVE  /\ placed(a, b) \in Node /\ placed(a, b).type = a.type
                 /\ placed(a, b).items = a.items /\ placed(a, b).key = b.key
                 /\ placed(a, b).index = b.index /\ placed(a, b).parent = b.parent
      BY DEF Node
    <2>2. h[sub] \in Node /\ h[n] \in Node
      BY <1>1, <1>2
    <2> DEFINE x == h[sub]
               y == h[n]
    <2>3. x \in Node /\ y \in Node
      BY <2>2
    <2>4. g[n] = placed(x, y)
      BY <1>3
    <2> HIDE DEF x, y, placed
    <2>5. /\ g[n] \in Node /\ g[n].type = x.type /\ g[n].items = x.items
          /\ g[n].key = y.key /\ g[n].index = y.index /\ g[n].parent = y.parent
      BY <2>1, <2>3, <2>4
    <2> QED BY <2>5 DEF x, y
  <1>7. /\ g[sub] \in Node /\ g[sub].type = h[n].type /\ g[sub].items = h[n].items
        /\ g[sub].parent = NULL
    <2>0. -1 \in -1..MaxNodes
      BY TreeConstants
    <2> DEFINE placed(a, b) == [a EXCEPT !.key = b.key, !.index = -1, !.parent = NULL]
    <2>1. ASSUME NEW a \in Node, NEW b \in Node
          PROVE  /\ placed(a, b) \in Node /\ placed(a, b).type = a.type
                 /\ placed(a, b).items = a.items /\ placed(a, b).parent = NULL
      BY <2>0 DEF Node
    <2>2. h[sub] \in Node /\ h[n] \in Node
      BY <1>1, <1>2
    <2> DEFINE x == h[sub]
               y == h[n]
    <2>3. x \in Node /\ y \in Node
      BY <2>2
    <2>4. g[sub] = placed(y, x)
      BY <1>3
    <2> HIDE DEF x, y, placed
    <2>5. /\ g[sub] \in Node /\ g[sub].type = y.type /\ g[sub].items = y.items
          /\ g[sub].parent = NULL
      BY <2>1, <2>3, <2>4
    <2> QED BY <2>5 DEF x, y
  <1>8. ASSUME NEW m \in Live(h) \ {n, sub}
        PROVE  /\ g[m] \in Node /\ g[m].type = h[m].type /\ g[m].items = h[m].items
               /\ g[m].key = h[m].key /\ g[m].index = h[m].index
               /\ g[m].parent = above(m)
               /\ above(m) = h[m].parent => g[m] = h[m]
    <2>1. g[m] = [h[m] EXCEPT !.parent = above(m)] /\ h[m] \in Node
      BY <1>2, <1>3 DEF Live
    <2>2. \A x \in Node, y \in Ids \cup {NULL} :
             LET z == [x EXCEPT !.parent = y] IN
             /\ z \in Node /\ z.type = x.type /\ z.items = x.items
             /\ z.key = x.key /\ z.index = x.index /\ z.parent = y
             /\ y = x.parent => z = x
      BY DEF Node
    <2> QED BY <1>5, <2>1, <2>2
  <1>9. \A m \in Ids : g[m] \in Node \cup {FreeNode} /\ (g[m].type = "free" <=> h[m].type = "free")
    <2> TAKE m \in Ids
    <2>1. CASE m \notin Live(h)
      <3>1. h[m] = FreeNode /\ m \notin {n, sub}
        BY <1>1, <2>1, NodeIs
      <3>2. h[m].type = "free"
        BY <3>1 DEF FreeNode
      <3> QED BY <1>3, <3>1, <3>2
    <2>2. CASE m \in Live(h)
      <3>1. g[m] \in Node
        BY <1>6, <1>7, <1>8, <2>2
      <3> QED BY <1>2, <2>2, <3>1 DEF Node
    <2> QED BY <2>1, <2>2
  <1>10. g \in Heaps /\ Live(g) = Live(h)
    BY <1>3, <1>9 DEF Heaps, Live
  <1> QED BY <1>4, <1>6, <1>7, <1>8, <1>10 DEF g

\* Two nodes that swap what they hold are well-formed both.
LEMMA SwappedGood ==
    ASSUME NEW h, Good(h), NEW n \in Live(h), NEW sub \in Roots(h),
           NEW U, Up(h, U), n \in U, sub \notin U
    PROVE  LET g == Swapped(h, n, sub) IN
           Good(g) /\ Live(g) = Live(h) /\ Roots(g) = Roots(h) /\ Kept(h, g, {n, sub})
  <1> DEFINE g == Swapped(h, n, sub)
  <1>1. /\ sub \in Live(h) /\ h[sub].parent = NULL /\ n # sub
        /\ h[n].parent # sub /\ h[n].parent # n /\ n # NULL /\ sub # NULL
    <2>1. sub \in Live(h) /\ h[sub].parent = NULL /\ n # sub /\ (h[n].parent \in U \/ h[n].parent = NULL)
      BY DEF Roots, Up
    <2>2. h[n].parent # n
      BY ParentOther
    <2>3. NULL \notin Live(h)
      BY TreeConstants DEF Live
    <2> QED BY <2>1, <2>2, <2>3
  <1>2. /\ g \in Heaps /\ Live(g) = Live(h)
        /\ g[n].type = h[sub].type /\ g[n].items = h[sub].items /\ g[n].key = h[n].key
        /\ g[n].index = h[n].index /\ g[n].parent = h[n].parent
        /\ g[sub].type = h[n].type /\ g[sub].items = h[n].items /\ g[sub].parent = NULL
        /\ \A m \in Live(h) \ {n, sub} :
              /\ g[m].type = h[m].type /\ g[m].items = h[m].items
              /\ g[m].key = h[m].key /\ g[m].index = h[m].index
              /\ g[m].parent = IF h[m].parent = sub THEN n
                               ELSE IF h[m].parent = n THEN sub ELSE h[m].parent
              /\ h[m].parent \notin {n, sub} => g[m] = h[m]
    BY <1>1, SwappedIs
  <1> HIDE DEF g
  <1>3. \A m \in Live(h) : LinkedDown(h, m) /\ LinkedUp(h, m)
    BY GoodLinks
  <1>4. \A m \in Live(h) \ {sub} : g[m].key = h[m].key /\ g[m].index = h[m].index
    BY <1>2
  <1>5. ASSUME NEW m \in Live(h) PROVE LinkedDown(g, m)
    <2>1. \A i \in 1..Len(h[m].items) : h[m].items[i] \in Live(h) /\ h[h[m].items[i]].parent = m
      BY <1>3 DEF LinkedDown
    <2>2. CASE m = n
      <3>1. LinkedDown(h, sub) /\ g[n].items = h[sub].items /\ g[n].type = h[sub].type
        BY <1>1, <1>2, <1>3
      <3>2. \A i \in 1..Len(h[sub].items) :
               LET c == h[sub].items[i] IN
               /\ c \in Live(g) /\ g[c].parent = n /\ g[c].key = h[c].key /\ g[c].index = h[c].index
        <4> TAKE i \in 1..Len(h[sub].items)
        <4> DEFINE c == h[sub].items[i]
        <4>1. c \in Live(h) /\ h[c].parent = sub
          BY <3>1 DEF LinkedDown
        <4> HIDE DEF c
        <4>2. c \in Live(h) \ {n, sub}
          BY <1>1, <4>1
        <4>3. c \in Live(g) /\ g[c].parent = n /\ g[c].key = h[c].key /\ g[c].index = h[c].index
          BY <1>2, <4>1, <4>2
        <4> QED BY <4>3 DEF c
      <3>3. LinkedDown(g, n)
        BY <3>1, <3>2 DEF LinkedDown
      <3> QED BY <2>2, <3>3
    <2>3. CASE m = sub
      <3>1. LinkedDown(h, n) /\ g[sub].items = h[n].items /\ g[sub].type = h[n].type
        BY <1>1, <1>2, <1>3
      <3>2. \A i \in 1..Len(h[n].items) :
               LET c == h[n].items[i] IN
               /\ c \in Live(g) /\ g[c].parent = sub /\ g[c].key = h[c].key /\ g[c].index = h[c].index
        <4> TAKE i \in 1..Len(h[n].items)
        <4> DEFINE c == h[n].items[i]
        <4>1. c \in Live(h) /\ h[c].parent = n
          BY <3>1 DEF LinkedDown
        <4> HIDE DEF c
        <4>2. c \in Live(h) \ {n, sub}
          BY <1>1, <4>1
        <4>3. c \in Live(g) /\ g[c].parent = sub /\ g[c].key = h[c].key /\ g[c].index = h[c].index
          BY <1>1, <1>2, <4>1, <4>2
        <4> QED BY <4>3 DEF c
      <3>3. LinkedDown(g, sub)
        BY <3>1, <3>2 DEF LinkedDown
      <3> QED BY <2>3, <3>3
    <2>4. CASE m \notin {n, sub}
      <3>1. LinkedDown(h, m) /\ g[m].items = h[m].items /\ g[m].type = h[m].type
        BY <1>2, <1>3, <2>4
      <3>2. \A c \in Live(h) : h[c].parent = m =>
               c \in Live(g) /\ g[c].parent = m /\ g[c].key = h[c].key /\ g[c].index = h[c].index
        <4> TAKE c \in Live(h)
        <4> HAVE h[c].parent = m
        <4>1. m # NULL /\ c # sub
          BY <1>1, TreeConstants DEF Live
        <4>2. CASE c = n
          BY <1>2, <4>2
        <4>3. CASE c # n
          BY <1>2, <2>4, <4>1, <4>3
        <4> QED BY <4>2, <4>3
      <3>3. \A i \in 1..Len(h[m].items) :
               LET c == h[m].items[i] IN
               /\ c \in Live(g) /\ g[c].parent = m /\ g[c].key = h[c].key /\ g[c].index = h[c].index
        BY <2>1, <3>2
      <3> QED BY <3>1, <3>3, DownSame
    <2> QED BY <2>2, <2>3, <2>4
  <1>6. ASSUME NEW m \in Live(h) PROVE LinkedUp(g, m)
    <2>1. LinkedUp(h, m)
      BY <1>3
    <2>2. CASE m = sub
      BY <1>2, <2>2 DEF LinkedUp
    <2>3. CASE m = n
      <3>1. h[n].parent # NULL => /\ h[n].parent \in Live(g)
                                  /\ g[h[n].parent].items = h[h[n].parent].items
        BY <1>1, <1>2, <2>1, <2>3 DEF LinkedUp
      <3> QED BY <1>2, <2>1, <2>3, <3>1, UpSame
    <2>4. CASE m \notin {n, sub} /\ h[m].parent = sub
      <3>1. g[m].parent = n /\ g[n].items = h[sub].items /\ n \in Live(g)
        BY <1>2, <2>4
      <3>2. \E i \in 1..Len(h[sub].items) : h[sub].items[i] = m
        BY <1>1, <2>1, <2>4 DEF LinkedUp
      <3> QED BY <3>1, <3>2 DEF LinkedUp
    <2>5. CASE m \notin {n, sub} /\ h[m].parent = n
      <3>1. g[m].parent = sub /\ g[sub].items = h[n].items /\ sub \in Live(g)
        BY <1>1, <1>2, <2>5
      <3>2. \E i \in 1..Len(h[n].items) : h[n].items[i] = m
        BY <1>1, <2>1, <2>5 DEF LinkedUp
      <3> QED BY <3>1, <3>2 DEF LinkedUp
    <2>6. CASE m \notin {n, sub} /\ h[m].parent \notin {n, sub}
      <3>1. g[m].parent = h[m].parent
        BY <1>2, <2>6
      <3>2. h[m].parent # NULL => /\ h[m].parent \in Live(g)
                                  /\ g[h[m].parent].items = h[h[m].parent].items
        BY <1>2, <2>1, <2>6 DEF LinkedUp
      <3> QED BY <2>1, <3>1, <3>2, UpSame
    <2> QED BY <2>2, <2>3, <2>4, <2>5, <2>6
  <1>7. Linked(g)
    BY <1>2, <1>5, <1>6, LinkedBoth
  <1>8. Rooted(g)
    <2>1. Rooted(h) /\ U \in SUBSET Live(g)
      BY <1>2 DEF Good, Up
    <2>2. ASSUME NEW m \in Live(g), g[m].parent # NULL
          PROVE  \/ g[g[m].parent].parent = NULL
                 \/ m \in U /\ g[m].parent \in U /\ m \in Live(h) /\ h[m].parent = g[m].parent
                 \/ m \notin U /\ g[m].parent \in U
                 \/ m \notin U /\ m \in Live(h) /\ h[m].parent = g[m].parent
      <3>1. m \in Live(h) /\ m # sub
        BY <1>2, <2>2
      <3>2. m \in U => h[m].parent \in U \/ h[m].parent = NULL
        BY DEF Up
      <3>3. CASE m = n
        BY <1>2, <2>2, <3>1, <3>2, <3>3
      <3>4. CASE m # n /\ h[m].parent = sub
        BY <1>1, <1>2, <3>1, <3>2, <3>4
      <3>5. CASE m # n /\ h[m].parent = n
        BY <1>1, <1>2, <3>1, <3>5
      <3>6. CASE m # n /\ h[m].parent \notin {n, sub}
        BY <1>2, <2>2, <3>1, <3>2, <3>6
      <3> QED BY <3>3, <3>4, <3>5, <3>6
    <2> QED BY <2>1, <2>2, RootedBy
  <1>9. Roots(g) = Roots(h)
    BY <1>1, <1>2 DEF Roots
  <1>10. Kept(h, g, {n, sub})
    <2>1. \A m \in Live(h) : \/ g[m] = h[m] \/ m \in {n, sub}
                             \/ h[m].parent # NULL /\ h[m].parent \in {n, sub}
      BY <1>1, <1>2
    <2> QED BY <2>1, KeptBy
  <1> QED BY <1>2, <1>7, <1>8, <1>9, <1>10 DEF Good, g

\* The contents of a root take the place of those of a node, which are freed.
Replaced(s, n, sub, t) ==
    /\ Sound(t) /\ t.r = TRUE /\ Roots(t.heap) = Roots(s.heap) \ {sub}
    /\ n \in Live(t.heap) /\ Kept(s.heap, t.heap, {n, sub})

\* replace_contents frees the old contents and keeps every other tree.
LEMMA ReplaceContentsIs ==
    ASSUME NEW s, Sound(s), NEW n \in Live(s.heap), NEW sub \in Roots(s.heap),
           NEW U, Up(s.heap, U), n \in U, sub \notin U
    PROVE  Replaced(s, n, sub, ReplaceContents(s, n, sub))
  <1> DEFINE h == s.heap
             g == Swapped(h, n, sub)
             u == [s EXCEPT !.heap = g]
             yes == TRUE
             t == CleanIn(u, sub, yes)
             below == Subtree(h, n)
             W == (U \ below) \cup {n}
  <1>1. ReplaceContents(s, n, sub) = t
    BY DEF ReplaceContents, Swapped
  <1>2. Good(h) /\ IsStore(s) /\ s.left \in Nat
    BY DEF Sound
  <1>3. Good(g) /\ Live(g) = Live(h) /\ Roots(g) = Roots(h) /\ Kept(h, g, {n, sub})
    BY <1>2, SwappedGood
  <1>4. sub \in Live(h) /\ h[sub].parent = NULL /\ n # sub /\ h[n].parent # sub
    <2>1. NULL \notin Live(h)
      BY TreeConstants DEF Live
    <2> QED BY <2>1 DEF Roots, Up
  <1>5. /\ g[n].parent = h[n].parent
        /\ \A m \in Live(h) \ {n, sub} :
              h[m].parent \notin {n, sub} => g[m] = h[m]
    BY <1>2, <1>4, SwappedIs
  <1> HIDE DEF g
  <1>6. Sound(u) /\ u.heap = g
    <2>1. u = [heap |-> g, left |-> s.left, r |-> s.r]
      BY <1>2 DEF IsStore
    <2> QED BY <1>2, <1>3, <2>1 DEF Sound, IsStore
  <1> HIDE DEF u, yes, t
  <1>7. /\ Sound(t) /\ t.r = yes /\ Roots(t.heap) = Roots(h) \ {sub} /\ Kept(g, t.heap, {sub})
    <2>1. sub \in Roots(u.heap)
      BY <1>3, <1>6
    <2>2. Sound(t) /\ t.r = yes /\ Roots(t.heap) = Roots(u.heap) \ {sub} /\ Kept(u.heap, t.heap, {sub})
      BY <1>6, <2>1, CleanedIn DEF t
    <2> QED BY <1>3, <1>6, <2>2
  <1>8. Kept(h, t.heap, {n, sub})
    <2> DEFINE Y == {sub}
               X == {n, sub}
    <2>1. \A m \in Y : m \in Live(h) => m \in X \/ (h[m].parent # NULL /\ h[m].parent \in X)
      OBVIOUS
    <2>2. Kept(h, g, X) /\ Kept(g, t.heap, Y)
      BY <1>3, <1>7
    <2> HIDE DEF Y, X
    <2>3. Kept(h, t.heap, X)
      BY <2>1, <2>2, KeptTrans
    <2> QED BY <2>3 DEF X
  <1>9. n \in Live(t.heap)
    <2>1. /\ n \in below
          /\ \A m \in Live(h) : h[m].parent \in below => m \in below
          /\ h[n].parent # NULL => h[n].parent \notin below
      BY <1>2, SubtreeGood, TreeOf
    <2> HIDE DEF below
    <2>2. ASSUME NEW m \in W PROVE m \in Live(g) /\ g[m].parent \in W \cup {NULL}
      <3>1. m \in U /\ m \in Live(h) /\ m # sub /\ (h[m].parent \in U \/ h[m].parent = NULL)
        BY DEF Up
      <3>2. CASE m = n
        BY <1>3, <1>5, <2>1, <3>1, <3>2
      <3>3. CASE m # n
        <4>1. m \notin below
          BY <3>3
        <4>2. h[m].parent \notin below /\ h[m].parent # n /\ h[m].parent # sub
          <5>1. NULL \notin Live(h)
            BY TreeConstants DEF Live
          <5> QED BY <1>4, <2>1, <3>1, <4>1, <5>1
        <4>3. g[m] = h[m]
          BY <1>5, <3>1, <3>3, <4>2
        <4> QED BY <1>3, <3>1, <4>2, <4>3
      <3> QED BY <3>2, <3>3
    <2>3. Up(g, W) /\ W \cap {sub} = {} /\ n \in W
      BY <1>4, <2>2 DEF Up
    <2> HIDE DEF W
    <2> DEFINE k == t.heap
    <2> HIDE DEF k
    <2>4. Kept(g, k, {sub})
      BY <1>7 DEF k
    <2>5. k[n] = g[n]
      BY <2>3, <2>4, KeptUp
    <2>6. n \in Live(g)
      BY <1>3
    <2> QED BY <2>5, <2>6 DEF Live, k
  <1>10. Replaced(s, n, sub, t)
    BY <1>7, <1>8, <1>9 DEF Replaced, yes
  <1> QED BY <1>1, <1>10

\* What changes nothing but a child of n and what is below it
LEMMA WithinChild ==
    ASSUME NEW s, Sound(s), NEW n \in Live(s.heap), NEW c \in Live(s.heap), s.heap[c].parent = n,
           NEW t, Within(s, c, t)
    PROVE  Within(s, n, t) /\ t.heap[n] = s.heap[n]
  <1> DEFINE h == s.heap
             g == t.heap
             W == Live(h) \ Subtree(h, c)
  <1>1. Good(h) /\ Sound(t) /\ Roots(g) = Roots(h) /\ Kept(h, g, {c})
    BY DEF Within, Sound
  <1>2. n # NULL
    BY TreeConstants DEF Live
  <1>3. Up(h, W) /\ n \in W /\ c \notin W
    <2>1. Up(h, W) /\ n \notin Subtree(h, c) /\ c \in Subtree(h, c)
      BY <1>1, <1>2, TreeOf, SubtreeGood
    <2> QED BY <2>1
  <1> HIDE DEF W
  <1>4. g[n] = h[n]
    <2>1. Up(h, W) /\ W \cap {c} = {} /\ n \in W
      BY <1>3
    <2> HIDE DEF h, g
    <2> QED BY <1>1, <2>1, KeptUp
  <1>5. n \in Live(g)
    BY <1>4 DEF Live
  <1>6. Kept(h, g, {n})
    <2> SUFFICES ASSUME NEW U \in SUBSET Ids, Up(h, U), U \cap {n} = {}
                 PROVE  \A m \in U : g[m] = h[m]
      BY DEF Kept
    <2>1. c \notin U
      BY <1>2 DEF Up
    <2>2. U \cap {c} = {}
      BY <2>1
    <2> QED BY <1>1, <2>2 DEF Kept
  <1> QED BY <1>1, <1>4, <1>5, <1>6 DEF Within

\* merging merges trees of V into a node apart from V.
MergesTrees(merging) ==
    \A h, left, V, n, new :
        Good(h) /\ left \in Nat /\ WholeTrees(h, V) /\ n \in Live(h) \ V /\ new \in V
            => Within(Store(h, left), n, merging[<<h, left, n, new>>])

\* Within depends on the heap of a store only.
LEMMA WithinStored ==
    ASSUME NEW s, Sound(s), NEW n, NEW t, Within(Store(s.heap, s.left), n, t)
    PROVE  Within(s, n, t)
  <1>1. Store(s.heap, s.left).heap = s.heap
    BY DEF Store
  <1> QED BY <1>1 DEF Within

\* A copy joins the children of n, or is freed.
LEMMA AttachCopyIs ==
    ASSUME NEW s, Sound(s), NEW n \in Live(s.heap), NEW copy, Made(s, copy),
           NEW key, s.heap[n].type = "map" => key \in Keys
    PROVE  LET t == AttachCopy(n, key, copy) IN
           Within(s, n, t) /\ t.heap[n].type = s.heap[n].type
  <1> DEFINE t == AttachCopy(n, key, copy)
             put == IF copy.heap[n].type = "array" THEN ArrayAppend(copy, n, copy.r)
                    ELSE MapSet(copy, n, key, copy.r)
             yes == TRUE
             no == FALSE
  <1>1. t = IF copy.r = NULL THEN Yields(copy, no) ELSE OrDrop(put, copy.r, yes, no)
    BY DEF AttachCopy
  <1>2. Beyond(s, copy) /\ Sound(copy) /\ copy.heap[n] = s.heap[n]
    BY DEF Made, Beyond
  <1> HIDE DEF t, put, yes, no
  <1>3. CASE copy.r = NULL
    <2>1. Roots(copy.heap) = Roots(s.heap)
      <3>1. NULL \notin Live(copy.heap)
        BY TreeConstants DEF Live
      <3> QED BY <1>3, <3>1 DEF Made
    <2>2. Within(s, n, copy)
      BY <1>2, <2>1, BeyondWithin
    <2> DEFINE v == Yields(copy, no)
    <2>3. t = v
      BY <1>1, <1>3
    <2> HIDE DEF v
    <2>4. Sound(v) /\ v.heap = copy.heap
      BY <1>2, SoundYields DEF v
    <2> QED BY <1>2, <2>2, <2>3, <2>4 DEF Within, t
  <1>4. CASE copy.r # NULL
    <2> DEFINE U == Live(s.heap)
    <2>1. /\ copy.r \in Live(copy.heap) /\ copy.r \notin Live(s.heap)
          /\ Roots(copy.heap) = Roots(s.heap) \cup {copy.r}
      BY <1>4 DEF Made
    <2>2. /\ Up(copy.heap, U) /\ n \in Live(copy.heap) /\ n \in U /\ copy.r \notin U
          /\ copy.r \in Roots(copy.heap)
      BY <1>2, <2>1, BeyondUp
    <2> HIDE DEF U
    <2>3. PlacedUnder(copy, put, n, copy.r)
      <3>1. CASE copy.heap[n].type = "array"
        <4>1. put = ArrayAppend(copy, n, copy.r)
          BY <3>1 DEF put
        <4> QED BY <1>2, <2>2, <4>1, ArrayAppended
      <3>2. CASE copy.heap[n].type # "array"
        <4>1. put = MapSet(copy, n, key, copy.r)
          BY <3>2 DEF put
        <4>2. copy.heap[n].type = "map" => key \in Keys
          BY <1>2
        <4> QED BY <1>2, <2>2, <4>1, <4>2, MapSetIs
      <3> QED BY <3>1, <3>2
    <2>4. PutUnder(s, n, put, yes, no, OrDrop(put, copy.r, yes, no))
      BY <1>4, <2>3, MadeWithin
    <2> QED BY <1>1, <1>4, <2>4 DEF PutUnder, t
  <1> QED BY <1>3, <1>4

\* A child of the new tree is merged into n.
LEMMA MergeChildIs ==
    ASSUME NEW merging, MergesTrees(merging), NEW s, Sound(s), NEW V, WholeTrees(s.heap, V),
           NEW n \in Live(s.heap) \ V, NEW c \in V, NEW key, NEW type,
           s.heap[n].type = "map" => key \in Keys
    PROVE  LET t == MergeChild(merging, s, n, type, c, key) IN
           Within(s, n, t) /\ t.heap[n].type = s.heap[n].type
  <1> DEFINE t == MergeChild(merging, s, n, type, c, key)
             target == MapGet(s.heap, n, key)
             a == merging[<<s.heap, s.left, target, c>>]
             b == AttachCopy(n, key, Copy(s, c))
  <1>1. t = IF ~s.r THEN s ELSE IF type = "map" /\ target # NULL THEN a ELSE b
    BY DEF MergeChild
  <1>2. Good(s.heap) /\ s.left \in Nat /\ n \in Live(s.heap) /\ c \in Live(s.heap)
    BY DEF Sound, WholeTrees
  <1> HIDE DEF t, a, b
  <1>3. CASE t = s
    <2>1. Within(s, n, s)
      BY <1>2, WithinSame
    <2> QED BY <1>3, <2>1 DEF t
  <1>4. CASE target # NULL /\ t = a
    <2>1. target \in Live(s.heap) /\ s.heap[target].parent = n
      BY <1>2, <1>4, MapGetIs
    <2> HIDE DEF target
    <2>2. target \in Live(s.heap) \ V
      BY <2>1, ChildApart
    <2>3. Within(Store(s.heap, s.left), target, a)
      BY <1>2, <2>2 DEF MergesTrees, a
    <2>4. Within(s, target, a)
      BY <2>3, WithinStored
    <2>5. Within(s, n, a) /\ a.heap[n] = s.heap[n]
      BY <1>2, <2>1, <2>4, WithinChild
    <2> QED BY <1>4, <2>5 DEF t
  <1>5. CASE t = b
    <2> DEFINE copy == Copy(s, c)
    <2>1. Made(s, copy)
      BY <1>2, CopyIs
    <2> HIDE DEF copy
    <2>2. Within(s, n, b) /\ b.heap[n].type = s.heap[n].type
      BY <1>2, <2>1, AttachCopyIs DEF b, copy
    <2> QED BY <1>5, <2>2 DEF t
  <1> QED BY <1>1, <1>3, <1>4, <1>5

\* The copied contents take the place of those of n.
LEMMA OverwriteIs ==
    ASSUME NEW s, Sound(s), NEW n \in Live(s.heap), NEW copied, Made(s, copied)
    PROVE  Within(s, n, Overwrite(n, copied))
  <1> DEFINE t == Overwrite(n, copied)
             no == FALSE
             a == Yields(copied, no)
             b == ReplaceContents(copied, n, copied.r)
  <1>1. t = IF copied.r = NULL THEN a ELSE b
    BY DEF Overwrite
  <1>2. Beyond(s, copied) /\ Sound(copied)
    BY DEF Made, Beyond
  <1> HIDE DEF t, a, b, no
  <1>3. CASE copied.r = NULL
    <2>1. Roots(copied.heap) = Roots(s.heap)
      <3>1. NULL \notin Live(copied.heap)
        BY TreeConstants DEF Live
      <3> QED BY <1>3, <3>1 DEF Made
    <2>2. Within(s, n, copied)
      BY <1>2, <2>1, BeyondWithin
    <2>3. Sound(a) /\ a.heap = copied.heap
      BY <1>2, SoundYields DEF a
    <2> QED BY <1>1, <1>3, <2>2, <2>3 DEF Within, t
  <1>4. CASE copied.r # NULL
    <2> DEFINE U == Live(s.heap)
               c == copied.r
    <2>1. c \in Live(copied.heap) /\ c \notin Live(s.heap) /\ Roots(copied.heap) = Roots(s.heap) \cup {c}
      BY <1>4 DEF Made
    <2>2. /\ Up(copied.heap, U) /\ n \in U /\ c \notin U /\ n \in Live(copied.heap)
          /\ c \in Roots(copied.heap) /\ c \notin Roots(s.heap)
      BY <1>2, <2>1, BeyondUp DEF Roots
    <2> HIDE DEF U, c
    <2>3. Replaced(copied, n, c, b)
      BY <1>2, <2>2, ReplaceContentsIs DEF b, c
    <2>4. /\ Sound(b) /\ Roots(b.heap) = Roots(copied.heap) \ {c} /\ n \in Live(b.heap)
          /\ Kept(copied.heap, b.heap, {n, c})
      BY <2>3 DEF Replaced
    <2>5. Kept(s.heap, b.heap, {n})
      <3> DEFINE X == {n}
                 Y == {n, c}
      <3>1. Kept(s.heap, copied.heap, X)
        BY <1>2, BeyondKept
      <3>2. \A m \in Y : m \in Live(s.heap) => m \in X \/ (s.heap[m].parent # NULL /\ s.heap[m].parent \in X)
        BY <2>1
      <3>3. Kept(copied.heap, b.heap, Y)
        BY <2>4
      <3> HIDE DEF X, Y
      <3>4. Kept(s.heap, b.heap, X)
        BY <3>1, <3>2, <3>3, KeptTrans
      <3> QED BY <3>4 DEF X
    <2>6. Roots(b.heap) = Roots(s.heap)
      BY <2>1, <2>2, <2>4
    <2> QED BY <1>1, <1>4, <2>4, <2>5, <2>6 DEF Within, t
  <1> QED BY <1>3, <1>4

\* The loop of confignode_merge_in_place over the children
Merges(f, merging, s, n, new) ==
    /\ f[0] = Yields(s, TRUE)
    /\ \A k \in 1..Len(s.heap[new].items) :
          f[k] = MergeChild(merging, f[k - 1], n, s.heap[n].type, s.heap[new].items[k],
                            s.heap[s.heap[new].items[k]].key)
    /\ MergeNode(merging, s, n, new) =
          IF n = new THEN Yields(s, TRUE)
          ELSE IF s.heap[n].type # s.heap[new].type \/ s.heap[n].type \notin {"map", "array"}
          THEN Overwrite(n, Copy(s, new))
          ELSE f[Len(s.heap[new].items)]

\* The loop takes the children of the new tree one after the other.
LEMMA MergeSteps ==
    ASSUME NEW merging, NEW s, NEW n, NEW new, Len(s.heap[new].items) \in Nat
    PROVE  \E f : Merges(f, merging, s, n, new)
  <1> DEFINE h == s.heap
             l == Len(h[new].items)
             start == Yields(s, TRUE)
             rule(f, k) == MergeChild(merging, f[k - 1], n, h[n].type, h[new].items[k],
                                      h[h[new].items[k]].key)
             Body(f, m) == [k \in 0..m |-> IF k = 0 THEN start ELSE rule(f, k)]
             f == CHOOSE g : g = Body(g, l)
             S == {m \in 0..l : \E g : g = Body(g, m)}
             end(x) == IF n = new THEN start
                       ELSE IF h[n].type # h[new].type \/ h[n].type \notin {"map", "array"}
                       THEN Overwrite(n, Copy(s, new))
                       ELSE x
  <1>1. MergeNode(merging, s, n, new) = end(f[l])
    BY Zenon DEF MergeNode
  <1>2. \A g, k : rule(g, k) = MergeChild(merging, g[k - 1], n, h[n].type, h[new].items[k],
                                          h[h[new].items[k]].key)
    OBVIOUS
  <1>3. \A g, e, k : g[k - 1] = e[k - 1] => rule(g, k) = rule(e, k)
    OBVIOUS
  <1>4. l \in Nat
    OBVIOUS
  <1> HIDE DEF rule, start, l
  <1>5. 0 \in S
    <2> DEFINE g == [k \in 0..0 |-> start]
    <2>1. g = Body(g, 0)
      OBVIOUS
    <2>2. 0 \in 0..l
      BY <1>4
    <2> HIDE DEF Body, g
    <2> QED BY <2>1, <2>2
  <1>6. ASSUME NEW m \in 0..(l - 1), m \in S PROVE m + 1 \in S
    <2>1. PICK g : g = Body(g, m)
      BY <1>6
    <2> DEFINE e == [k \in 0..(m + 1) |-> IF k = m + 1 THEN rule(g, m + 1) ELSE g[k]]
    <2>2. \A k \in 0..m : g[k] = IF k = 0 THEN start ELSE rule(g, k)
      <3> DEFINE B == Body(g, m)
      <3>1. \A k \in 0..m : B[k] = IF k = 0 THEN start ELSE rule(g, k)
        OBVIOUS
      <3> HIDE DEF B
      <3> QED BY <2>1, <3>1 DEF B
    <2>3. m \in Nat /\ m + 1 \in 0..l /\ m + 1 # 0 /\ m + 1 \in 0..(m + 1)
      BY <1>4
    <2>4. /\ e[m + 1] = rule(g, m + 1)
          /\ \A k \in 0..m : e[k] = g[k]
      BY <2>3
    <2>5. \A k \in 0..(m + 1) : e[k] = IF k = 0 THEN start ELSE rule(e, k)
      <3> TAKE k \in 0..(m + 1)
      <3> HIDE DEF e
      <3>1. CASE k = 0
        <4>1. e[0] = g[0] /\ g[0] = start
          BY <2>2, <2>3, <2>4
        <4> QED BY <3>1, <4>1
      <3>2. CASE k # 0 /\ k # m + 1
        <4>1. k \in 0..m /\ k - 1 \in 0..m
          BY <2>3, <3>2
        <4>2. e[k] = rule(g, k) /\ g[k - 1] = e[k - 1]
          BY <2>2, <2>4, <3>2, <4>1
        <4> QED BY <1>3, <3>2, <4>2
      <3>3. CASE k = m + 1
        <4>1. k - 1 \in 0..m
          BY <2>3, <3>3
        <4>2. e[k] = rule(g, k) /\ g[k - 1] = e[k - 1]
          BY <2>4, <3>3, <4>1
        <4> QED BY <1>3, <2>3, <3>3, <4>2
      <3> QED BY <3>1, <3>2, <3>3
    <2>6. e = Body(e, m + 1)
      <3>1. e = [k \in 0..(m + 1) |-> e[k]]
        OBVIOUS
      <3> HIDE DEF e
      <3> QED BY <2>5, <3>1
    <2> HIDE DEF Body, e
    <2> QED BY <2>3, <2>6
  <1>7. \A k \in 0..l : k \in S
    <2> HIDE DEF S
    <2> QED BY <1>4, <1>5, <1>6, SetInduction
  <1>8. l \in S
    BY <1>4, <1>7
  <1>9. f = Body(f, l)
    <2>1. PICK g : g = Body(g, l)
      BY <1>8
    <2> HIDE DEF Body
    <2> QED BY <2>1, Zenon
  <1> HIDE DEF f, S
  <1>10. f[0] = start /\ \A k \in 1..l : f[k] = rule(f, k)
    <2> DEFINE B == Body(f, l)
    <2>1. B[0] = start /\ \A k \in 1..l : B[k] = rule(f, k)
      <3>1. 0 \in 0..l /\ \A k \in 1..l : k \in 0..l /\ k # 0
        BY <1>4
      <3> QED BY <3>1
    <2> HIDE DEF B
    <2>2. f = B
      BY <1>9 DEF B
    <2> QED BY <2>1, <2>2
  <1>11. Merges(f, merging, s, n, new)
    BY <1>1, <1>2, <1>10 DEF Merges, start, l
  <1> QED BY <1>11

\* confignode_merge_in_place, given the merging of the children
LEMMA MergeNodeIs ==
    ASSUME NEW merging, MergesTrees(merging), NEW s, Sound(s), NEW V, WholeTrees(s.heap, V),
           NEW n \in Live(s.heap) \ V, NEW new \in V
    PROVE  Within(s, n, MergeNode(merging, s, n, new))
  <1> DEFINE h == s.heap
             l == Len(h[new].items)
             type == h[n].type
             child(k) == h[new].items[k]
             key(k) == h[child(k)].key
             u == MergeNode(merging, s, n, new)
             yes == TRUE
  <1>1. Good(h) /\ n \in Live(h) /\ new \in Live(h) /\ n # new
    BY DEF Sound, WholeTrees
  <1>2. l \in Nat /\ \A k \in 1..l : child(k) \in Live(h) /\ h[child(k)].parent = new
    BY <1>1, GoodAt
  <1>3. \A k \in 1..l : child(k) \in V
    <2>1. new # NULL
      BY <1>1, TreeConstants DEF Live
    <2> QED BY <1>2, <2>1 DEF WholeTrees
  <1>4. PICK f : Merges(f, merging, s, n, new)
    BY <1>2, MergeSteps
  <1>5. /\ f[0] = Yields(s, yes)
        /\ \A k \in 1..l : f[k] = MergeChild(merging, f[k - 1], n, type, child(k), key(k))
        /\ u = IF type # h[new].type \/ type \notin {"map", "array"} THEN Overwrite(n, Copy(s, new))
               ELSE f[l]
    BY <1>1, <1>4 DEF Merges
  <1> HIDE DEF u, yes
  <1>6. CASE type # h[new].type \/ type \notin {"map", "array"}
    <2> DEFINE copied == Copy(s, new)
    <2>1. Made(s, copied)
      BY <1>1, CopyIs
    <2> HIDE DEF copied
    <2>2. Within(s, n, Overwrite(n, copied))
      BY <1>1, <2>1, OverwriteIs
    <2> QED BY <1>5, <1>6, <2>2 DEF copied, u
  <1>7. CASE type = h[new].type /\ type \in {"map", "array"}
    <2>1. type = "map" => \A k \in 1..l : key(k) \in Keys
      <3> HAVE type = "map"
      <3> TAKE k \in 1..l
      <3>1. key(k) # NoKey
        BY <1>1, <1>7, GoodAt
      <3>2. key(k) \in Keys \cup {NoKey}
        BY <1>1, <1>2, GoodAt
      <3> QED BY <3>1, <3>2
    <2> DEFINE S == {k \in 0..l : Within(s, n, f[k]) /\ f[k].heap[n].type = type}
    <2>2. 0 \in S
      <3> DEFINE v == Yields(s, yes)
      <3>1. Sound(v) /\ v.heap = h
        BY SoundYields
      <3> HIDE DEF v
      <3>2. Within(s, n, v)
        BY <1>1, <3>1, WithinSame
      <3>3. Within(s, n, v) /\ v.heap[n].type = type
        BY <3>1, <3>2
      <3> QED BY <1>2, <1>5, <3>3 DEF v
    <2>3. ASSUME NEW k \in 0..(l - 1), k \in S PROVE k + 1 \in S
      <3> DEFINE t == f[k]
                 c == child(k + 1)
                 name == key(k + 1)
                 w == MergeChild(merging, t, n, type, c, name)
      <3>1. k + 1 \in 1..l /\ (k + 1) - 1 = k /\ k + 1 \in 0..l
        BY <1>2
      <3>2. f[k + 1] = w /\ Within(s, n, t) /\ t.heap[n].type = type
        BY <1>5, <2>3, <3>1
      <3>3. c \in V /\ (type = "map" => name \in Keys)
        BY <1>3, <2>1, <3>1
      <3> HIDE DEF t, c, name, w
      <3>4. Walks(s, V, t) /\ n \in Live(t.heap) \ V
        BY <3>2, WithinWalks
      <3>5. Sound(t) /\ WholeTrees(t.heap, V)
        BY <3>4 DEF Walks
      <3>6. t.heap[n].type = "map" => name \in Keys
        BY <3>2, <3>3
      <3> HIDE DEF type
      <3>7. Within(t, n, w) /\ w.heap[n].type = t.heap[n].type
        BY <3>3, <3>4, <3>5, <3>6, MergeChildIs DEF w
      <3>8. Within(s, n, w)
        BY <3>2, <3>7, WithinTrans
      <3> QED BY <3>1, <3>2, <3>7, <3>8
    <2>4. \A k \in 0..l : k \in S
      <3> HIDE DEF S, l
      <3> QED BY <1>2, <2>2, <2>3, SetInduction
    <2>5. Within(s, n, f[l])
      BY <1>2, <2>4
    <2> QED BY <1>5, <1>7, <2>5 DEF u
  <1> QED BY <1>6, <1>7

\* One level of merging on top of another
MergeLevel(k, merging) ==
    [call \in Heaps \X Nat \X Ids \X Ids |->
        IF k = 0 THEN Yields(Store(call[1], call[2]), FALSE)
        ELSE MergeNode(merging, Store(call[1], call[2]), call[3], call[4])]

\* A level of merging merges trees when the level below it does.
LEMMA MergeLevelIs ==
    ASSUME NEW k, NEW merging, k # 0 => MergesTrees(merging)
    PROVE  MergesTrees(MergeLevel(k, merging))
  <1> DEFINE f == MergeLevel(k, merging)
             no == FALSE
  <1> SUFFICES ASSUME NEW h, NEW left, NEW V, NEW n, NEW new,
                      Good(h), left \in Nat, WholeTrees(h, V), n \in Live(h) \ V, new \in V
               PROVE  Within(Store(h, left), n, f[<<h, left, n, new>>])
    BY DEF MergesTrees
  <1> DEFINE s == Store(h, left)
             call == <<h, left, n, new>>
  <1>1. call \in Heaps \X Nat \X Ids \X Ids
    BY DEF Good, Live, WholeTrees
  <1>2. f[call] = IF k = 0 THEN Yields(s, no) ELSE MergeNode(merging, s, n, new)
    BY <1>1 DEF MergeLevel
  <1>3. Sound(s) /\ s.heap = h
    BY SoundStore
  <1> HIDE DEF f, call, s, no
  <1>4. CASE k = 0
    <2> DEFINE v == Yields(s, no)
    <2>1. Sound(v) /\ v.heap = s.heap
      BY <1>3, SoundYields
    <2>2. n \in Live(s.heap)
      BY <1>3
    <2> HIDE DEF v
    <2>3. Within(s, n, v)
      BY <1>3, <2>1, <2>2, WithinSame
    <2> QED BY <1>2, <1>4, <2>3 DEF s, call, v
  <1>5. CASE k # 0
    <2>1. WholeTrees(s.heap, V) /\ n \in Live(s.heap) \ V /\ MergesTrees(merging)
      BY <1>3, <1>5
    <2>2. Within(s, n, MergeNode(merging, s, n, new))
      BY <1>3, <2>1, MergeNodeIs
    <2> QED BY <1>2, <1>5, <2>2 DEF s, call
  <1> QED BY <1>4, <1>5

\* MergingInPlace is defined level by level.
LEMMA MergingSteps ==
    \A k \in 0..MaxNodes : MergingInPlace[k] = MergeLevel(k, MergingInPlace[k - 1])
  <1> DEFINE l == MaxNodes
             Body(g, m) == [k \in 0..m |->
               [call \in Heaps \X Nat \X Ids \X Ids |->
                 LET s == Store(call[1], call[2]) IN
                 IF k = 0 THEN Yields(s, FALSE)
                 ELSE MergeNode(g[k - 1], s, call[3], call[4])]]
             S == {m \in 0..l : \E g : g = Body(g, m)}
             f == CHOOSE g : g = Body(g, l)
  <1>1. MergingInPlace = f
    BY Zenon DEF MergingInPlace
  <1>2. l \in Nat
    BY TreeConstants
  <1>3. \A g, m : Body(g, m) = [k \in 0..m |-> MergeLevel(k, g[k - 1])]
    BY DEF MergeLevel
  <1>4. \A x, y : MergeLevel(0, x) = MergeLevel(0, y)
    BY DEF MergeLevel
  <1> HIDE DEF Body, l
  <1>5. 0 \in S
    <2> DEFINE g == [k \in 0..0 |-> MergeLevel(0, 0)]
    <2>1. g = [k \in 0..0 |-> MergeLevel(k, g[k - 1])]
      <3>1. \A k \in 0..0 : k = 0
        OBVIOUS
      <3>2. \A k \in 0..0 : g[k] = MergeLevel(k, g[k - 1])
        BY <1>4, <3>1
      <3> QED BY <3>2
    <2> HIDE DEF g
    <2>2. g = Body(g, 0)
      BY <1>3, <2>1
    <2> QED BY <1>2, <2>2
  <1>6. ASSUME NEW m \in 0..(l - 1), m \in S PROVE m + 1 \in S
    <2>1. PICK g : g = [k \in 0..m |-> MergeLevel(k, g[k - 1])]
      BY <1>3, <1>6
    <2> DEFINE e == [k \in 0..(m + 1) |-> IF k = m + 1 THEN MergeLevel(m + 1, g[m]) ELSE g[k]]
    <2>2. m \in Nat /\ m + 1 \in 0..l /\ m + 1 # 0 /\ (m + 1) - 1 = m /\ m \in 0..m
      BY <1>2
    <2>3. \A k \in 0..m : g[k] = MergeLevel(k, g[k - 1])
      <3> DEFINE B == [k \in 0..m |-> MergeLevel(k, g[k - 1])]
      <3>1. \A k \in 0..m : B[k] = MergeLevel(k, g[k - 1])
        OBVIOUS
      <3> HIDE DEF B
      <3> QED BY <2>1, <3>1 DEF B
    <2>4. /\ e[m + 1] = MergeLevel(m + 1, g[m])
          /\ \A k \in 0..m : e[k] = g[k]
      BY <2>2
    <2>5. \A k \in 0..(m + 1) : e[k] = MergeLevel(k, e[k - 1])
      <3> TAKE k \in 0..(m + 1)
      <3> HIDE DEF e
      <3>1. CASE k = 0
        <4>1. e[0] = MergeLevel(0, g[0 - 1])
          BY <2>2, <2>3, <2>4
        <4> QED BY <1>4, <3>1, <4>1
      <3>2. CASE k # 0 /\ k # m + 1
        <4>1. k \in 0..m /\ k - 1 \in 0..m
          BY <2>2, <3>2
        <4> QED BY <2>3, <2>4, <4>1
      <3>3. CASE k = m + 1
        BY <2>2, <2>4, <3>3
      <3> QED BY <3>1, <3>2, <3>3
    <2>6. e = [k \in 0..(m + 1) |-> MergeLevel(k, e[k - 1])]
      <3>1. e = [k \in 0..(m + 1) |-> e[k]]
        OBVIOUS
      <3> HIDE DEF e
      <3> QED BY <2>5, <3>1
    <2> HIDE DEF e
    <2>7. e = Body(e, m + 1)
      BY <1>3, <2>6
    <2> QED BY <2>2, <2>7
  <1>7. \A k \in 0..l : k \in S
    <2> HIDE DEF S
    <2> QED BY <1>2, <1>5, <1>6, SetInduction
  <1>8. f = Body(f, l)
    <2>1. l \in 0..l
      BY <1>2
    <2>2. PICK g : g = Body(g, l)
      BY <1>7, <2>1
    <2> QED BY <2>2, Zenon
  <1> HIDE DEF f
  <1>9. \A k \in 0..l : f[k] = MergeLevel(k, f[k - 1])
    <2> DEFINE B == [k \in 0..l |-> MergeLevel(k, f[k - 1])]
    <2>1. \A k \in 0..l : B[k] = MergeLevel(k, f[k - 1])
      OBVIOUS
    <2> HIDE DEF B
    <2>2. f = B
      BY <1>3, <1>8 DEF B
    <2> QED BY <2>1, <2>2
  <1> QED BY <1>1, <1>9 DEF l

\* confignode_merge_in_place changes n and what is below it, and keeps every tree.
LEMMA MergeInPlaceIs ==
    ASSUME NEW s, Sound(s), NEW V, WholeTrees(s.heap, V), NEW n \in Live(s.heap) \ V, NEW new \in V
    PROVE  Within(s, n, MergeInPlace(s, n, new))
  <1> DEFINE S == {k \in 0..MaxNodes : MergesTrees(MergingInPlace[k])}
  <1>0. MaxNodes \in Nat
    BY TreeConstants
  <1>1. 0 \in S
    <2>1. 0 \in 0..MaxNodes /\ MergingInPlace[0] = MergeLevel(0, MergingInPlace[0 - 1])
      BY <1>0, MergingSteps
    <2> DEFINE prev == MergingInPlace[0 - 1]
    <2> HIDE DEF prev
    <2>2. MergesTrees(MergeLevel(0, prev))
      BY MergeLevelIs
    <2> QED BY <2>1, <2>2 DEF prev
  <1>2. ASSUME NEW k \in 0..(MaxNodes - 1), k \in S PROVE k + 1 \in S
    <2>1. k + 1 \in 0..MaxNodes /\ (k + 1) - 1 = k
      BY <1>0
    <2>2. /\ MergingInPlace[k + 1] = MergeLevel(k + 1, MergingInPlace[k])
          /\ MergesTrees(MergingInPlace[k])
      BY <1>2, <2>1, MergingSteps
    <2> DEFINE prev == MergingInPlace[k]
               j == k + 1
    <2> HIDE DEF prev, j
    <2>3. MergesTrees(MergeLevel(j, prev))
      BY <2>2, MergeLevelIs DEF prev
    <2> QED BY <2>1, <2>2, <2>3 DEF prev, j
  <1>3. \A k \in 0..MaxNodes : k \in S
    <2> HIDE DEF S
    <2> QED BY <1>0, <1>1, <1>2, SetInduction
  <1>4. MergesTrees(MergingInPlace[MaxNodes])
    BY <1>0, <1>3
  <1>5. Good(s.heap) /\ s.left \in Nat
    BY DEF Sound
  <1> DEFINE t == MergeInPlace(s, n, new)
  <1>6. t = MergingInPlace[MaxNodes][<<s.heap, s.left, n, new>>]
    BY DEF MergeInPlace
  <1> HIDE DEF t
  <1>7. Within(Store(s.heap, s.left), n, t)
    BY <1>4, <1>5, <1>6 DEF MergesTrees
  <1>8. Within(s, n, t)
    BY <1>7, WithinStored
  <1> QED BY <1>8 DEF t

\* confignode_merge keeps every tree: its working copy is put in place or freed.
LEMMA MergeIs ==
    ASSUME NEW s, Sound(s), NEW n \in Live(s.heap), NEW new \in Live(s.heap)
    PROVE  Keeps(s, Merge(s, n, new))
  <1> DEFINE t == Merge(s, n, new)
             working == Copy(s, n)
             c == working.r
             merged == MergeInPlace(working, c, new)
             yes == TRUE
             no == FALSE
             a == ReplaceContents(merged, n, c)
             b == CleanIn(merged, c, no)
             V == Live(s.heap)
  <1>1. t = IF n = new THEN Yields(s, yes)
            ELSE IF c = NULL THEN Yields(working, no)
            ELSE IF merged.r THEN a ELSE b
    BY DEF Merge
  <1>2. Made(s, working)
    BY CopyIs
  <1> HIDE DEF t, working, merged, a, b, yes, no, V
  <1>3. Beyond(s, working) /\ Sound(working)
    BY <1>2 DEF Made, Beyond
  <1>4. CASE t = Yields(s, yes)
    <2>1. Sound(t) /\ t.heap = s.heap
      BY <1>4, SoundYields
    <2> QED BY <2>1 DEF Keeps, t
  <1>5. CASE c = NULL /\ t = Yields(working, no)
    <2>1. NULL \notin Live(working.heap)
      BY TreeConstants DEF Live
    <2>2. Roots(working.heap) = Roots(s.heap)
      BY <1>2, <1>5, <2>1 DEF Made
    <2>3. Sound(t) /\ t.heap = working.heap
      BY <1>3, <1>5, SoundYields
    <2> QED BY <2>2, <2>3 DEF Keeps, t
  <1>6. CASE c # NULL /\ (t = a \/ t = b)
    <2>1. /\ c \in Live(working.heap) /\ c \notin V /\ Roots(working.heap) = Roots(s.heap) \cup {c}
          /\ c \notin Roots(s.heap)
      BY <1>2, <1>6 DEF Made, Roots, V
    <2>2. WholeTrees(working.heap, V) /\ n \in V /\ new \in V
      BY <1>3, BeyondUp DEF V
    <2>3. c \in Live(working.heap) \ V
      BY <2>1
    <2> HIDE DEF c
    <2>4. Within(working, c, merged)
      BY <1>3, <2>2, <2>3, MergeInPlaceIs DEF merged
    <2>5. Walks(working, V, merged)
      BY <1>3, <2>2, <2>3, <2>4, WithinWalks
    <2>6. /\ Sound(merged) /\ Good(merged.heap) /\ WholeTrees(merged.heap, V)
          /\ Roots(merged.heap) = Roots(s.heap) \cup {c} /\ c \in Roots(merged.heap)
      BY <2>1, <2>5 DEF Walks, Sound
    <2>7. Up(merged.heap, V) /\ n \in Live(merged.heap)
      <3>1. Up(merged.heap, V)
        BY <2>6, TreesUp
      <3> QED BY <2>2, <3>1 DEF Up
    <2>8. CASE t = a
      <3>1. Replaced(merged, n, c, a)
        BY <2>2, <2>3, <2>6, <2>7, ReplaceContentsIs DEF a
      <3> QED BY <2>1, <2>6, <2>8, <3>1 DEF Replaced, Keeps, t
    <2>9. CASE t = b
      <3>1. Sound(b) /\ Roots(b.heap) = Roots(merged.heap) \ {c}
        BY <2>6, CleanedIn DEF b
      <3> QED BY <2>1, <2>6, <2>9, <3>1 DEF Keeps, t
    <2> QED BY <1>6, <2>8, <2>9
  <1> QED BY <1>1, <1>4, <1>5, <1>6

-----------------------------------------------------------------------------
(* Freeing a node *)

\* A node is taken out of the list of its parent.
TakenOut(h, n) == [h EXCEPT ![h[n].parent].items = RemoveFirst(@, n)]

\* The list is shorter by that node, and nothing else has changed.
LEMMA TakenOutIs ==
    ASSUME NEW h, Good(h), NEW n \in Live(h), NEW p, p = h[n].parent, p # NULL
    PROVE  LET k == TakenOut(h, n) IN
           /\ k \in Heaps /\ Live(k) = Live(h) /\ p \in Live(h) /\ p # n
           /\ \A m \in Ids : m # p => k[m] = h[m]
           /\ k[p].type = h[p].type /\ k[p].parent = h[p].parent
           /\ k[p].key = h[p].key /\ k[p].index = h[p].index
           /\ \A i, j \in 1..Len(k[p].items) : k[p].items[i] = k[p].items[j] => i = j
           /\ \A i \in 1..Len(k[p].items) :
                 k[p].items[i] # n /\ \E j \in 1..Len(h[p].items) : k[p].items[i] = h[p].items[j]
           /\ \A j \in 1..Len(h[p].items) :
                 h[p].items[j] # n => \E i \in 1..Len(k[p].items) : k[p].items[i] = h[p].items[j]
  <1> DEFINE list == h[p].items
             new == RemoveFirst(list, n)
             k == TakenOut(h, n)
  <1>1. /\ h \in Heaps /\ h \in [Ids -> Node \cup {FreeNode}] /\ p \in Live(h) /\ p # n /\ p \in Ids
        /\ \E i \in 1..Len(list) : list[i] = n
    BY GoodAt, ParentOther DEF Heaps
  <1>2. /\ h[p] \in Node /\ list \in Seq(Ids)
        /\ \A i, j \in 1..Len(list) : list[i] = list[j] => i = j
    BY <1>1, GoodAt
  <1> HIDE DEF list
  <1>3. /\ new \in Seq(Ids)
        /\ \A i, j \in 1..Len(new) : new[i] = new[j] => i = j
        /\ \A i \in 1..Len(new) : new[i] # n /\ \E j \in 1..Len(list) : new[i] = list[j]
        /\ \A j \in 1..Len(list) : list[j] # n => \E i \in 1..Len(new) : new[i] = list[j]
    <2>1. PICK x \in 1..Len(list) : list[x] = n
      BY <1>1
    <2> DEFINE t == RemoveFirst(list, list[x])
    <2>2. /\ t \in Seq(Ids)
          /\ \A i, j \in 1..Len(t) : t[i] = t[j] => i = j
          /\ \A i \in 1..Len(t) : \E j \in 1..Len(list) : t[i] = list[j] /\ j # x
          /\ \A j \in 1..Len(list) : j # x => \E i \in 1..Len(t) : t[i] = list[j]
      BY <1>2, Removed
    <2>3. t = new
      BY <2>1
    <2> HIDE DEF t
    <2>4. \A j \in 1..Len(list) : j # x <=> list[j] # n
      BY <1>2, <2>1
    <2>5. \A i \in 1..Len(t) : t[i] # n /\ \E j \in 1..Len(list) : t[i] = list[j]
      <3> TAKE i \in 1..Len(t)
      <3>1. PICK j \in 1..Len(list) : t[i] = list[j] /\ j # x
        BY <2>2
      <3>2. list[j] # n
        BY <2>4, <3>1
      <3> QED BY <3>1, <3>2
    <2>6. \A j \in 1..Len(list) : list[j] # n => \E i \in 1..Len(t) : t[i] = list[j]
      BY <2>2, <2>4
    <2> HIDE DEF new
    <2> QED BY <2>2, <2>3, <2>5, <2>6
  <1>4. k = [h EXCEPT ![p].items = new]
    BY DEF TakenOut, list
  <1> HIDE DEF new
  <1>5. k[p] = [h[p] EXCEPT !.items = new] /\ (\A m \in Ids : m # p => k[m] = h[m])
        /\ k = [m \in Ids |-> k[m]]
    BY <1>1, <1>4
  <1> HIDE DEF k
  <1>6. /\ k[p] \in Node /\ k[p].items = new
        /\ k[p].type = h[p].type /\ k[p].parent = h[p].parent
        /\ k[p].key = h[p].key /\ k[p].index = h[p].index
    <2>1. \A x \in Node, y \in Seq(Ids) :
             LET z == [x EXCEPT !.items = y] IN
             /\ z \in Node /\ z.items = y /\ z.type = x.type /\ z.parent = x.parent
             /\ z.key = x.key /\ z.index = x.index
      BY DEF Node
    <2> QED BY <1>2, <1>3, <1>5, <2>1
  <1>7. k \in Heaps /\ Live(k) = Live(h)
    <2>1. \A m \in Ids : k[m] \in Node \cup {FreeNode} /\ k[m].type = h[m].type
      BY <1>1, <1>5, <1>6
    <2> QED BY <1>5, <2>1 DEF Heaps, Live
  <1>8. /\ \A i, j \in 1..Len(k[p].items) : k[p].items[i] = k[p].items[j] => i = j
        /\ \A i \in 1..Len(k[p].items) :
              k[p].items[i] # n /\ \E j \in 1..Len(h[p].items) : k[p].items[i] = h[p].items[j]
        /\ \A j \in 1..Len(h[p].items) :
              h[p].items[j] # n => \E i \in 1..Len(k[p].items) : k[p].items[i] = h[p].items[j]
    BY <1>3, <1>6 DEF list
  <1> QED BY <1>1, <1>5, <1>6, <1>7, <1>8 DEF k

\* A node that left its parent's list, with the renumbering, as a root
CutOff(h, n) == [Detach(h, n) EXCEPT ![n].parent = NULL]

\* Cutting a node off leaves well-formed trees, one more than before.
LEMMA CutOffIs ==
    ASSUME NEW h, Good(h), NEW n \in Live(h), h[n].parent # NULL
    PROVE  LET d == Detach(h, n)
               g == CutOff(h, n) IN
           /\ Good(g) /\ Live(g) = Live(h) /\ Live(d) = Live(h) /\ Roots(g) = Roots(h) \cup {n}
           /\ \A m \in Ids \ {n} : g[m] = d[m]
           /\ \A m \in Live(h) : Offspring(g, m) = Offspring(d, m) /\ Offspring(g, m) \subseteq Live(h)
  <1> DEFINE p == h[n].parent
             k == TakenOut(h, n)
             d == Fixup(k, p)
             g == [d EXCEPT ![n].parent = NULL]
  <1>1. Detach(h, n) = d /\ CutOff(h, n) = g
    BY DEF Detach, TakenOut, CutOff
  <1> HIDE DEF d, g, k
  <1>2. /\ k \in Heaps /\ Live(k) = Live(h) /\ p \in Live(h) /\ p # n
        /\ \A m \in Ids : m # p => k[m] = h[m]
        /\ k[p].type = h[p].type /\ k[p].parent = h[p].parent
        /\ k[p].key = h[p].key /\ k[p].index = h[p].index
        /\ \A i, j \in 1..Len(k[p].items) : k[p].items[i] = k[p].items[j] => i = j
        /\ \A i \in 1..Len(k[p].items) :
              k[p].items[i] # n /\ \E j \in 1..Len(h[p].items) : k[p].items[i] = h[p].items[j]
        /\ \A j \in 1..Len(h[p].items) :
              h[p].items[j] # n => \E i \in 1..Len(k[p].items) : k[p].items[i] = h[p].items[j]
    BY TakenOutIs DEF k
  <1>3. \A m \in Live(h) : LinkedDown(h, m) /\ LinkedUp(h, m)
    BY GoodLinks
  <1>4. \A m \in Live(h) : /\ k[m].type = h[m].type /\ k[m].parent = h[m].parent
                           /\ k[m].key = h[m].key /\ k[m].index = h[m].index
                           /\ m # p => k[m].items = h[m].items
    BY <1>2 DEF Live
  <1>5. n \in Ids /\ n # NULL /\ p # NULL /\ p \in Ids
    BY <1>2, TreeConstants DEF Live
  <1> HIDE DEF p
  <1>6. \A i \in 1..Len(k[p].items) :
           k[p].items[i] \in Live(k) /\ k[k[p].items[i]].parent = p /\ k[p].items[i] # n
    <2> TAKE i \in 1..Len(k[p].items)
    <2>1. PICK j \in 1..Len(h[p].items) : k[p].items[i] = h[p].items[j]
      BY <1>2
    <2>2. h[p].items[j] \in Live(h) /\ h[h[p].items[j]].parent = p
      BY <1>2, <1>3 DEF LinkedDown
    <2> QED BY <1>2, <1>4, <2>1, <2>2
  <1>7. /\ d \in Heaps /\ Live(d) = Live(k)
        /\ \A m \in Live(k) : /\ d[m].type = k[m].type /\ d[m].items = k[m].items
                              /\ d[m].parent = k[m].parent /\ d[m].key = k[m].key
        /\ \A m \in Live(k) : k[m].parent # p => d[m] = k[m]
        /\ k[p].type = "array" => \A i \in 1..Len(k[p].items) : d[k[p].items[i]].index = i - 1
    <2>1. p \in Live(k)
      BY <1>2
    <2>2. \A i \in 1..Len(k[p].items) : k[p].items[i] \in Live(k) /\ k[k[p].items[i]].parent = p
      BY <1>6
    <2>3. \A i, j \in 1..Len(k[p].items) : k[p].items[i] = k[p].items[j] => i = j
      BY <1>2
    <2> QED BY <1>2, <2>1, <2>2, <2>3, Renumbered DEF d
  <1>8. /\ g[n] = [d[n] EXCEPT !.parent = NULL] /\ (\A m \in Ids : m # n => g[m] = d[m])
        /\ g = [m \in Ids |-> g[m]]
    <2>1. d = [m \in Ids |-> d[m]]
      BY <1>7 DEF Heaps
    <2> QED BY <1>5, <2>1 DEF g
  <1>9. /\ g[n] \in Node /\ g[n].parent = NULL /\ g[n].type = d[n].type /\ g[n].items = d[n].items
        /\ g[n].key = d[n].key
    <2>1. d[n] \in Node
      BY <1>2, <1>5, <1>7, NodeIs
    <2>2. \A x \in Node : LET z == [x EXCEPT !.parent = NULL] IN
             /\ z \in Node /\ z.parent = NULL /\ z.type = x.type /\ z.items = x.items /\ z.key = x.key
      BY DEF Node
    <2> QED BY <1>8, <2>1, <2>2
  <1>10. g \in Heaps /\ Live(g) = Live(h)
    <2>1. \A m \in Ids : g[m] \in Node \cup {FreeNode} /\ g[m].type = d[m].type
      BY <1>7, <1>8, <1>9 DEF Heaps
    <2> QED BY <1>2, <1>7, <1>8, <2>1 DEF Heaps, Live
  <1>11. \A m \in Live(h) : /\ g[m].type = h[m].type /\ g[m].key = h[m].key
                            /\ g[m].parent = IF m = n THEN NULL ELSE h[m].parent
                            /\ m # p => g[m].items = h[m].items
                            /\ m # n /\ h[m].parent # p => g[m].index = h[m].index
    <2> TAKE m \in Live(h)
    <2>1. m \in Ids /\ m \in Live(k)
      BY <1>2 DEF Live
    <2>2. CASE m = n
      BY <1>4, <1>7, <1>9, <2>1, <2>2
    <2>3. CASE m # n
      BY <1>4, <1>7, <1>8, <2>1, <2>3
    <2> QED BY <2>2, <2>3
  <1>12. g[p].items = k[p].items
    BY <1>2, <1>5, <1>7, <1>8
  <1>13. ASSUME NEW m \in Live(h) PROVE LinkedDown(g, m)
    <2>1. LinkedDown(h, m)
      BY <1>3
    <2>2. CASE m = p
      <3>1. \A i \in 1..Len(k[p].items) :
               LET c == k[p].items[i] IN
               /\ c \in Live(g) /\ g[c].parent = p /\ g[c].index = d[c].index /\ g[c].key = h[c].key
        <4> TAKE i \in 1..Len(k[p].items)
        <4> DEFINE c == k[p].items[i]
        <4>1. c \in Live(k) /\ k[c].parent = p /\ c # n
          BY <1>6
        <4> HIDE DEF c
        <4>2. c \in Live(h) /\ h[c].parent = p /\ c \in Ids
          BY <1>2, <1>4, <4>1 DEF Live
        <4>3. c \in Live(g) /\ g[c].parent = p /\ g[c].index = d[c].index /\ g[c].key = h[c].key
          BY <1>8, <1>10, <1>11, <4>1, <4>2
        <4> QED BY <4>3 DEF c
      <3>2. g[p].type = h[p].type /\ k[p].type = h[p].type
        BY <1>2, <1>11
      <3>3. h[p].type = "map" =>
               /\ \A i \in 1..Len(k[p].items) : g[k[p].items[i]].key # NoKey
               /\ \A i, j \in 1..Len(k[p].items) :
                     g[k[p].items[i]].key = g[k[p].items[j]].key => i = j
        <4> HAVE h[p].type = "map"
        <4>1. /\ \A i \in 1..Len(h[p].items) : h[h[p].items[i]].key # NoKey
              /\ \A i, j \in 1..Len(h[p].items) :
                    h[h[p].items[i]].key = h[h[p].items[j]].key => i = j
          BY <2>1, <2>2 DEF LinkedDown
        <4>2. \A i \in 1..Len(k[p].items) : \E j \in 1..Len(h[p].items) : k[p].items[i] = h[p].items[j]
          BY <1>2
        <4>3. \A i, j \in 1..Len(k[p].items) : k[p].items[i] = k[p].items[j] => i = j
          BY <1>2
        <4>4. \A i \in 1..Len(k[p].items) : g[k[p].items[i]].key = h[k[p].items[i]].key
          BY <3>1
        <4>5. \A i \in 1..Len(k[p].items) : g[k[p].items[i]].key # NoKey
          <5> TAKE i \in 1..Len(k[p].items)
          <5>1. PICK x \in 1..Len(h[p].items) : k[p].items[i] = h[p].items[x]
            BY <4>2
          <5> QED BY <4>1, <4>4, <5>1
        <4>6. ASSUME NEW i \in 1..Len(k[p].items), NEW j \in 1..Len(k[p].items),
                     g[k[p].items[i]].key = g[k[p].items[j]].key
              PROVE  i = j
          <5>1. PICK x \in 1..Len(h[p].items) : k[p].items[i] = h[p].items[x]
            BY <4>2
          <5>2. PICK y \in 1..Len(h[p].items) : k[p].items[j] = h[p].items[y]
            BY <4>2
          <5>3. h[h[p].items[x]].key = h[h[p].items[y]].key
            BY <4>4, <4>6, <5>1, <5>2
          <5>4. x = y
            BY <4>1, <5>3
          <5> QED BY <4>3, <5>1, <5>2, <5>4
        <4> QED BY <4>5, <4>6
      <3>4. LinkedDown(g, p)
        BY <1>2, <1>7, <1>12, <3>1, <3>2, <3>3 DEF LinkedDown
      <3> QED BY <2>2, <3>4
    <2>3. CASE m # p
      <3>1. g[m].items = h[m].items /\ g[m].type = h[m].type
        BY <1>11, <2>3
      <3>2. \A i \in 1..Len(h[m].items) :
               LET c == h[m].items[i] IN
               /\ c \in Live(g) /\ g[c].parent = m /\ g[c].key = h[c].key /\ g[c].index = h[c].index
        <4> TAKE i \in 1..Len(h[m].items)
        <4> DEFINE c == h[m].items[i]
        <4>1. c \in Live(h) /\ h[c].parent = m
          BY <2>1 DEF LinkedDown
        <4> HIDE DEF c
        <4>2. c # n /\ h[c].parent # p
          BY <2>3, <4>1 DEF p
        <4>3. c \in Live(g) /\ g[c].parent = m /\ g[c].key = h[c].key /\ g[c].index = h[c].index
          BY <1>10, <1>11, <4>1, <4>2
        <4> QED BY <4>3 DEF c
      <3> QED BY <2>1, <3>1, <3>2, DownSame
    <2> QED BY <2>2, <2>3
  <1>14. ASSUME NEW m \in Live(h) PROVE LinkedUp(g, m)
    <2>1. LinkedUp(h, m)
      BY <1>3
    <2>2. CASE m = n
      BY <1>11, <2>2 DEF LinkedUp
    <2>3. CASE m # n /\ h[m].parent = p
      <3>1. g[m].parent = p
        BY <1>11, <2>3
      <3>2. PICK j \in 1..Len(h[p].items) : h[p].items[j] = m
        BY <1>5, <2>1, <2>3 DEF LinkedUp
      <3>3. \E i \in 1..Len(k[p].items) : k[p].items[i] = m
        BY <1>2, <2>3, <3>2
      <3> QED BY <1>2, <1>10, <1>12, <3>1, <3>3 DEF LinkedUp
    <2>4. CASE m # n /\ h[m].parent # p
      <3>1. g[m].parent = h[m].parent
        BY <1>11, <2>4
      <3>2. h[m].parent # NULL => /\ h[m].parent \in Live(g)
                                  /\ g[h[m].parent].items = h[h[m].parent].items
        BY <1>10, <1>11, <2>1, <2>4 DEF LinkedUp
      <3> QED BY <2>1, <3>1, <3>2, UpSame
    <2> QED BY <2>2, <2>3, <2>4
  <1>15. Linked(g)
    BY <1>10, <1>13, <1>14, LinkedBoth
  <1>16. Rooted(g)
    <2> DEFINE U == {}
    <2>1. Rooted(h) /\ U \in SUBSET Live(g)
      BY DEF Good
    <2>2. \A m \in Live(g) : g[m].parent # NULL => m \notin U /\ m \in Live(h) /\ h[m].parent = g[m].parent
      BY <1>10, <1>11
    <2> HIDE DEF U
    <2> QED BY <2>1, <2>2, RootedBy
  <1>17. Good(g)
    BY <1>10, <1>15, <1>16 DEF Good
  <1>18. Roots(g) = Roots(h) \cup {n}
    BY <1>10, <1>11 DEF Roots
  <1>19. ASSUME NEW m \in Live(h) PROVE Offspring(g, m) = Offspring(d, m) /\ Offspring(g, m) \subseteq Live(h)
    <2>1. g[m].items = d[m].items
      BY <1>8, <1>9 DEF Live
    <2>2. n \notin ToSet(g[m].items)
      <3>1. g[m].items \in Seq(Ids)
        BY <1>10, <1>17, GoodAt
      <3>2. \A i \in 1..Len(g[m].items) : g[m].items[i] # n
        <4>1. \A i \in 1..Len(g[m].items) : g[g[m].items[i]].parent = m
          BY <1>13 DEF LinkedDown
        <4>2. m # NULL /\ g[n].parent = NULL
          BY <1>9, TreeConstants DEF Live
        <4> QED BY <4>1, <4>2
      <3> QED BY <3>1, <3>2 DEF ToSet
    <2>3. \A c \in ToSet(g[m].items) : g[c] = d[c]
      <3>1. ToSet(g[m].items) \subseteq Ids
        BY <1>10, <1>17, GoodAt DEF ToSet
      <3> QED BY <1>8, <2>2, <3>1
    <2>4. Offspring(g, m) = Offspring(d, m)
      BY <2>1, <2>3 DEF Offspring
    <2>5. Offspring(g, m) \subseteq Live(h)
      BY <1>10, <1>17, OffspringIs
    <2> QED BY <2>4, <2>5
  <1>20. Live(d) = Live(h) /\ \A m \in Ids \ {n} : g[m] = d[m]
    BY <1>2, <1>7, <1>8
  <1> QED BY <1>1, <1>10, <1>17, <1>18, <1>19, <1>20

-----------------------------------------------------------------------------
(* The invariant *)

\* confignode_clean frees the tree below a node and keeps every other tree.
LEMMA CleanIs ==
    ASSUME NEW h, Good(h), NEW n \in Live(h)
    PROVE  LET g == Clean(h, n) IN Good(g) /\ Roots(g) = Roots(h) \ {n}
  <1>1. CASE h[n].parent = NULL
    <2>1. n \in Roots(h)
      BY <1>1 DEF Roots
    <2> QED BY <2>1, CleanRoot
  <1>2. CASE h[n].parent # NULL
    <2> DEFINE d == Detach(h, n)
               k == CutOff(h, n)
               T == Subtree(d, n)
               W == Subtree(k, n)
               L == Live(h)
               g == Clean(h, n)
    <2>1. /\ Good(k) /\ Live(k) = L /\ Live(d) = L /\ Roots(k) = Roots(h) \cup {n}
          /\ \A m \in Ids \ {n} : k[m] = d[m]
          /\ \A m \in L : Offspring(k, m) = Offspring(d, m) /\ Offspring(k, m) \subseteq L
      BY <1>2, CutOffIs
    <2>2. g = [m \in Ids |-> IF m \in T THEN FreeNode ELSE d[m]]
      BY Zenon DEF Clean
    <2>3. L \in SUBSET Ids /\ n \in L /\ n \in Ids
      BY DEF Live
    <2> HIDE DEF d, k, L, g
    <2>4. /\ n \in T /\ T \subseteq L /\ (\A m \in T : Offspring(d, m) \subseteq T)
          /\ \A C : n \in C /\ (\A m \in C \cap L : Offspring(d, m) \subseteq C) => T \subseteq C
      BY <2>1, <2>3, SubtreeIs
    <2>5. /\ n \in W /\ W \subseteq L /\ (\A m \in W : Offspring(k, m) \subseteq W)
          /\ \A C : n \in C /\ (\A m \in C \cap L : Offspring(k, m) \subseteq C) => W \subseteq C
      BY <2>1, <2>3, SubtreeIs
    <2> HIDE DEF T, W
    <2>6. T = W
      <3>1. \A m \in W \cap L : Offspring(d, m) \subseteq W
        BY <2>1, <2>5
      <3>2. \A m \in T \cap L : Offspring(k, m) \subseteq T
        BY <2>1, <2>4
      <3>3. T \subseteq W
        BY <2>4, <2>5, <3>1
      <3>4. W \subseteq T
        BY <2>4, <2>5, <3>2
      <3> QED BY <3>3, <3>4
    <2>7. g = [m \in Ids |-> IF m \in Subtree(k, n) THEN FreeNode ELSE k[m]]
      <3>1. \A m \in Ids : (IF m \in T THEN FreeNode ELSE d[m]) = IF m \in W THEN FreeNode ELSE k[m]
        BY <2>1, <2>4, <2>6
      <3> QED BY <2>2, <3>1 DEF W
    <2>8. n \in Roots(k)
      BY <2>1
    <2>9. Good(g) /\ Roots(g) = Roots(k) \ {n}
      BY <2>1, <2>7, <2>8, RootDropped
    <2>10. n \notin Roots(h)
      BY <1>2 DEF Roots
    <2>11. Roots(g) = Roots(h) \ {n}
      BY <2>1, <2>9, <2>10
    <2> QED BY <2>9, <2>11 DEF g
  <1> QED BY <1>1, <1>2

\* What the calls keep: the trees of a well-formed heap are those of the clients.
TreeInv ==
    /\ Good(heap) /\ held = Roots(heap) /\ Main \in held
    /\ calls \in 0..MaxCalls

\* A well-formed heap whose roots the clients hold is what WellFormed says.
LEMMA InvWellFormed == TreeInv => WellFormed
  <1> SUFFICES ASSUME TreeInv PROVE WellFormed
    OBVIOUS
  <1>1. Good(heap) /\ held = Roots(heap) /\ calls \in 0..MaxCalls
    BY DEF TreeInv
  <1>2. TreeTypeOK
    BY <1>1 DEF TreeTypeOK, Good, Roots
  <1>3. Linked(heap)
    BY <1>1 DEF Good
  <1>4. NothingLost
    <2>1. \A n \in held : heap[n].parent = NULL
      BY <1>1 DEF Roots
    <2>2. Live(heap) = UNION {Subtree(heap, n) : n \in held}
      BY <1>1, RootAbove
    <2> QED BY <2>1, <2>2 DEF NothingLost
  <1> QED BY <1>2, <1>3, <1>4 DEF WellFormed

\* One empty map, which the main client holds
LEMMA InitTrees == TreeInit => TreeInv
  <1> SUFFICES ASSUME TreeInit PROVE TreeInv
    OBVIOUS
  <1> DEFINE node == Blank("map", NoValue)
  <1>1. /\ heap = [n \in Ids |-> IF n = Main THEN node ELSE FreeNode]
        /\ held = {Main} /\ calls = 0
    BY DEF TreeInit
  <1>2. Main \in Ids /\ MaxNodes \in Nat /\ MaxCalls \in Nat /\ NoKey \notin Keys
    BY TreeConstants, ConfigAssumption DEF Main, Ids
  <1>3. /\ node = [type |-> "map", value |-> NoValue, key |-> NoKey, index |-> -1,
                   parent |-> NULL, items |-> <<>>]
        /\ node.type = "map" /\ node.parent = NULL /\ node.items = <<>>
    BY DEF Blank
  <1>4. node \in Node
    <2>1. /\ NoValue \in LeafValue \cup {NoValue} /\ NoKey \in Keys \cup {NoKey}
          /\ -1 \in -1..MaxNodes /\ NULL \in Ids \cup {NULL} /\ <<>> \in Seq(Ids)
          /\ "map" \in {"null", "value", "array", "map"}
      BY <1>2
    <2> DEFINE x == NoValue
               y == <<>>
               z == NULL
               w == NoKey
               i == -1
    <2>2. x \in LeafValue \cup {NoValue} /\ w \in Keys \cup {NoKey} /\ i \in -1..MaxNodes
          /\ z \in Ids \cup {NULL} /\ y \in Seq(Ids)
      BY <2>1
    <2>3. node = [type |-> "map", value |-> x, key |-> w, index |-> i, parent |-> z, items |-> y]
      BY <1>3
    <2> HIDE DEF x, y, z, w, i, node
    <2> QED BY <2>2, <2>3, NodeMade
  <1> HIDE DEF node
  <1>5. heap \in Heaps
    BY <1>1, <1>4 DEF Heaps
  <1>6. FreeNode.type = "free"
    BY DEF FreeNode
  <1>7. Live(heap) = {Main} /\ heap[Main] = node
    BY <1>1, <1>2, <1>3, <1>6 DEF Live
  <1>8. Linked(heap)
    <2>1. Len(heap[Main].items) = 0
      BY <1>3, <1>7
    <2>2. LinkedDown(heap, Main) /\ LinkedUp(heap, Main)
      BY <1>3, <1>7, <2>1 DEF LinkedDown, LinkedUp
    <2> QED BY <1>5, <1>7, <2>2, LinkedBoth
  <1>9. Rooted(heap)
    <2>1. NULL \notin Ids
      BY TreeConstants
    <2>2. Live(heap) \subseteq Ids /\ heap[Main].parent = NULL
      BY <1>3, <1>7 DEF Live
    <2> SUFFICES ASSUME NEW S \in SUBSET Live(heap), S # {}
                 PROVE  \E n \in S : heap[n].parent \notin S
      BY DEF Rooted
    <2>3. Main \in S
      BY <1>7
    <2> QED BY <2>1, <2>2, <2>3
  <1>10. Roots(heap) = {Main}
    BY <1>3, <1>7 DEF Roots
  <1> QED BY <1>1, <1>2, <1>5, <1>8, <1>9, <1>10 DEF TreeInv, Good

\* What a call is given
LEMMA Arguments ==
    /\ Budgets \subseteq Nat /\ Values \subseteq LeafValue /\ Paths \subseteq Seq(Step)
    /\ Documents \subseteq Document[Levels]
  BY ConfigAssumption DEF Step

\* The store a call starts with
LEMMA Started ==
    ASSUME TreeInv, NEW b \in Budgets
    PROVE  LET s == Store(heap, b) IN Sound(s) /\ s.heap = heap
  BY Arguments, SoundStore DEF TreeInv

\* A tree to hand over is apart from the nodes it may be put under, and from
\* the main tree.
LEMMA OthersApart ==
    ASSUME TreeInv, NEW sub \in Detached
    PROVE  /\ \A n \in Elsewhere(sub) : Apart(heap, Subtree(heap, sub), n, sub)
           /\ Apart(heap, Subtree(heap, sub), Main, sub)
  <1> DEFINE V == Subtree(heap, sub)
  <1>1. Good(heap) /\ sub \in Roots(heap) /\ Main \in Roots(heap) /\ sub # Main
    BY DEF TreeInv, Detached
  <1>2. sub \in Live(heap) /\ heap[sub].parent = NULL /\ Main \in Live(heap) /\ heap[Main].parent = NULL
    BY <1>1 DEF Roots
  <1>3. /\ sub \in V /\ V \subseteq Live(heap) /\ WholeTrees(heap, V)
        /\ \A m \in V : m = sub \/ heap[m].parent \in V
    BY <1>1, <1>2, SubtreeGood, TreeOf
  <1>4. Main \notin V
    <2>1. NULL \notin Live(heap)
      BY TreeConstants DEF Live
    <2> QED BY <1>1, <1>2, <1>3, <2>1
  <1> HIDE DEF V
  <1>5. \A n \in Live(heap) \ V : Apart(heap, V, n, sub)
    BY <1>1, <1>3 DEF Apart
  <1>6. Elsewhere(sub) = Live(heap) \ V
    BY DEF Elsewhere, V
  <1> QED BY <1>2, <1>4, <1>5, <1>6 DEF V

\* A call that ends with the trees its clients hold
LEMMA EndsIs ==
    ASSUME TreeInv, NEW s, NEW gone, NEW made, Ends(s, gone, made), Good(s.heap),
           (held \ gone) \cup made = Roots(s.heap), Main \notin gone
    PROVE  TreeInv'
  <1>1. /\ calls < MaxCalls /\ calls' = calls + 1 /\ heap' = s.heap /\ held' = (held \ gone) \cup made
    BY DEF Ends
  <1>2. Main \in held /\ calls \in 0..MaxCalls /\ MaxCalls \in Nat
    BY ConfigAssumption DEF TreeInv
  <1>3. calls' \in 0..MaxCalls
    BY <1>1, <1>2
  <1>4. Good(heap') /\ held' = Roots(heap') /\ Main \in held'
    BY <1>1, <1>2
  <1> QED BY <1>3, <1>4 DEF TreeInv

\* A call that takes over a tree, or fails
LEMMA GivesIs ==
    ASSUME TreeInv, NEW b \in Budgets, NEW sub \in Detached, NEW s, Gave(Store(heap, b), s, sub),
           Gives(s, sub)
    PROVE  TreeInv'
  <1> DEFINE gone == IF s.r THEN {sub} ELSE {}
             none == {}
  <1>1. Ends(s, gone, none)
    BY DEF Gives
  <1>2. held = Roots(heap) /\ sub # Main
    BY DEF TreeInv, Detached
  <1>3. Store(heap, b).heap = heap
    BY Started
  <1>4. /\ Good(s.heap)
        /\ \/ s.r = FALSE /\ Roots(s.heap) = held
           \/ s.r = TRUE /\ Roots(s.heap) = held \ {sub}
    BY <1>2, <1>3 DEF Gave, Sound
  <1>5. (held \ gone) \cup none = Roots(s.heap) /\ Main \notin gone
    BY <1>2, <1>4
  <1> HIDE DEF gone, none
  <1> QED BY <1>1, <1>4, <1>5, EndsIs

\* A call that makes a tree, or fails
LEMMA MakesIs ==
    ASSUME TreeInv, NEW b \in Budgets, NEW s, Made(Store(heap, b), s), Makes(s)
    PROVE  TreeInv'
  <1> DEFINE none == {}
             made == {s.r} \ {NULL}
  <1>1. Ends(s, none, made)
    BY DEF Makes
  <1>2. held = Roots(heap) /\ Store(heap, b).heap = heap
    BY Started DEF TreeInv
  <1>3. Good(s.heap)
    BY DEF Made, Beyond, Sound
  <1>4. Roots(s.heap) = held \cup made
    <2>1. NULL \notin Live(s.heap)
      BY TreeConstants DEF Live
    <2> QED BY <1>2, <2>1 DEF Made
  <1>5. (held \ none) \cup made = Roots(s.heap) /\ Main \notin none
    BY <1>4
  <1> HIDE DEF none, made
  <1> QED BY <1>1, <1>3, <1>5, EndsIs

\* A call that keeps every tree
LEMMA KeepsIs ==
    ASSUME TreeInv, NEW b \in Budgets, NEW s, Keeps(Store(heap, b), s), Ends(s, {}, {})
    PROVE  TreeInv'
  <1> DEFINE none == {}
  <1>1. held = Roots(heap) /\ Store(heap, b).heap = heap
    BY Started DEF TreeInv
  <1>2. Good(s.heap) /\ Roots(s.heap) = held
    BY <1>1 DEF Keeps, Sound
  <1>3. (held \ none) \cup none = Roots(s.heap) /\ Main \notin none /\ Ends(s, none, none)
    BY <1>2
  <1> HIDE DEF none
  <1> QED BY <1>2, <1>3, EndsIs

\* The calls that make trees
LEMMA MakingCalls ==
    ASSUME TreeInv, NEW b \in Budgets, CallNew(b) \/ CallNewValue(b) \/ CallCopy(b) \/ CallLoad(b)
    PROVE  TreeInv'
  <1> DEFINE s == Store(heap, b)
  <1>1. Sound(s) /\ s.heap = heap
    BY Started
  <1> HIDE DEF s
  <1>2. CASE CallNew(b)
    <2>1. PICK type \in {"null", "map", "array"} : Makes(New(s, Blank(type, NoValue)))
      BY <1>2 DEF CallNew, s
    <2> DEFINE v == NoValue
               t == New(s, Blank(type, v))
    <2>2. v \in LeafValue \cup {NoValue} /\ type \in {"null", "value", "array", "map"}
      OBVIOUS
    <2> HIDE DEF v
    <2>3. Made(s, t)
      BY <1>1, <2>2, NewIs
    <2>4. Makes(t)
      BY <2>1 DEF v
    <2> HIDE DEF t
    <2> QED BY <2>3, <2>4, MakesIs DEF s
  <1>3. CASE CallNewValue(b)
    <2>1. PICK v \in Values : Makes(NewValue(s, v))
      BY <1>3 DEF CallNewValue, s
    <2>2. v \in LeafValue \cup {NoValue}
      BY Arguments
    <2>3. Made(s, NewValue(s, v))
      BY <1>1, <2>2, NewValueIs
    <2> QED BY <2>1, <2>3, MakesIs DEF s
  <1>4. CASE CallCopy(b)
    <2>1. PICK n \in Live(heap) : Makes(Copy(s, n))
      BY <1>4 DEF CallCopy, s
    <2>2. Made(s, Copy(s, n))
      BY <1>1, CopyIs
    <2> QED BY <2>1, <2>2, MakesIs DEF s
  <1>5. CASE CallLoad(b)
    <2>1. PICK doc \in Documents : Makes(Build(s, doc))
      BY <1>5 DEF CallLoad, s
    <2>2. doc \in Document[Levels]
      BY Arguments
    <2>3. Made(s, Build(s, doc))
      BY <1>1, <2>2, BuildIs
    <2> QED BY <2>1, <2>3, MakesIs DEF s
  <1> QED BY <1>2, <1>3, <1>4, <1>5

\* The calls that put a tree under a node
LEMMA GivingCalls ==
    ASSUME TreeInv, NEW b \in Budgets,
           \/ CallMapSet(b) \/ CallArrayAppend(b) \/ CallArrayInsert(b) \/ CallArraySet(b)
           \/ CallReplace(b)
    PROVE  TreeInv'
  <1> DEFINE s == Store(heap, b)
             V(sub) == Subtree(heap, sub)
  <1>1. Sound(s) /\ s.heap = heap
    BY Started
  <1>2. ASSUME NEW sub \in Detached, NEW n \in Elsewhere(sub)
        PROVE  Apart(s.heap, V(sub), n, sub)
    BY <1>1, OthersApart
  <1> HIDE DEF s, V
  <1>3. \A index \in 0..1 : index \in Nat
    OBVIOUS
  <1>4. CASE CallMapSet(b)
    <2>0. PICK sub \in Detached, key \in Keys :
             \E n \in Elsewhere(sub) : Gives(MapSet(s, n, key, sub), sub)
      BY <1>4, Zenon DEF CallMapSet, s
    <2>1. PICK n \in Elsewhere(sub) : Gives(MapSet(s, n, key, sub), sub)
      BY <2>0
    <2>2. Gave(s, MapSet(s, n, key, sub), sub)
      BY <1>1, <1>2, MapSetGave
    <2> QED BY <2>1, <2>2, GivesIs DEF s
  <1>5. CASE CallArrayAppend(b)
    <2>0. PICK sub \in Detached :
             \E n \in Elsewhere(sub) : Gives(ArrayAppend(s, n, sub), sub)
      BY <1>5 DEF CallArrayAppend, s
    <2>1. PICK n \in Elsewhere(sub) : Gives(ArrayAppend(s, n, sub), sub)
      BY <2>0
    <2>2. Gave(s, ArrayAppend(s, n, sub), sub)
      BY <1>1, <1>2, AppendGave
    <2> QED BY <2>1, <2>2, GivesIs DEF s
  <1>6. CASE CallArrayInsert(b)
    <2>0. PICK sub \in Detached, index \in 0..1 :
             \E n \in Elsewhere(sub) : Gives(ArrayInsert(s, n, index, sub), sub)
      BY <1>6 DEF CallArrayInsert, s
    <2>1. PICK n \in Elsewhere(sub) : Gives(ArrayInsert(s, n, index, sub), sub)
      BY <2>0
    <2>2. Gave(s, ArrayInsert(s, n, index, sub), sub)
      BY <1>1, <1>2, <1>3, ArrayInsertIs
    <2> QED BY <2>1, <2>2, GivesIs DEF s
  <1>7. CASE CallArraySet(b)
    <2>0. PICK sub \in Detached, index \in 0..1 :
             \E n \in Elsewhere(sub) : Gives(ArraySet(s, n, index, sub), sub)
      BY <1>7 DEF CallArraySet, s
    <2>1. PICK n \in Elsewhere(sub) : Gives(ArraySet(s, n, index, sub), sub)
      BY <2>0
    <2>2. Gave(s, ArraySet(s, n, index, sub), sub)
      BY <1>1, <1>2, <1>3, ArraySetIs
    <2> QED BY <2>1, <2>2, GivesIs DEF s
  <1>8. CASE CallReplace(b)
    <2>0. PICK sub \in Detached :
             \E n \in Elsewhere(sub) : Gives(Replace(s, n, sub), sub)
      BY <1>8 DEF CallReplace, s
    <2>1. PICK n \in Elsewhere(sub) : Gives(Replace(s, n, sub), sub)
      BY <2>0
    <2>2. Gave(s, Replace(s, n, sub), sub)
      BY <1>1, <1>2, ReplaceGave
    <2> QED BY <2>1, <2>2, GivesIs DEF s
  <1> QED BY <1>4, <1>5, <1>6, <1>7, <1>8

\* The calls that take a path
LEMMA PathCalls ==
    ASSUME TreeInv, NEW b \in Budgets, CallPathSet(b) \/ CallPathMapSet(b) \/ CallPathArray(b)
    PROVE  TreeInv'
  <1> DEFINE s == Store(heap, b)
             V(sub) == Subtree(heap, sub)
             one == 1
             zero == 0
  <1>1. Sound(s) /\ s.heap = heap
    BY Started
  <1>2. ASSUME NEW sub \in Detached
        PROVE  Apart(s.heap, V(sub), Main, sub)
    BY <1>1, OthersApart
  <1>3. Main \in Live(s.heap)
    BY <1>1 DEF TreeInv, Roots
  <1>4. \A path \in Paths : path \in Seq(Step)
    BY Arguments
  <1>5. one \in Nat /\ zero \in Nat
    OBVIOUS
  <1> HIDE DEF s, V, one, zero
  <1>6. CASE CallPathSet(b)
    <2>1. PICK path \in Paths, v \in Values : Ends(PathSetValue(s, Main, path, v), {}, {})
      BY <1>6 DEF CallPathSet, s
    <2>2. v \in LeafValue /\ path \in Seq(Step)
      BY <1>4, Arguments
    <2>3. Keeps(s, PathSetValue(s, Main, path, v))
      BY <1>1, <1>3, <2>2, PathSetValueIs
    <2> QED BY <2>1, <2>3, KeepsIs DEF s
  <1>7. CASE CallPathMapSet(b)
    <2>1. PICK sub \in Detached, path \in Paths : Gives(PathMapSet(s, Main, path, sub), sub)
      BY <1>7 DEF CallPathMapSet, s
    <2>2. Gave(s, PathMapSet(s, Main, path, sub), sub)
      BY <1>1, <1>2, <1>4, PathMapSetIs
    <2> QED BY <2>1, <2>2, GivesIs DEF s
  <1>8. CASE CallPathArray(b)
    <2>1. PICK sub \in Detached, path \in Paths :
             \/ Gives(PathArrayAppend(s, Main, path, sub), sub)
             \/ Gives(PathArraySet(s, Main, path, one, sub), sub)
             \/ Gives(PathArrayInsert(s, Main, path, zero, sub), sub)
      BY <1>8 DEF CallPathArray, s, one, zero
    <2>2. Gave(s, PathArrayAppend(s, Main, path, sub), sub)
      BY <1>1, <1>2, <1>4, PathArrayAppendIs
    <2>3. Gave(s, PathArraySet(s, Main, path, one, sub), sub)
      BY <1>1, <1>2, <1>4, <1>5, PathArraySetIs
    <2>4. Gave(s, PathArrayInsert(s, Main, path, zero, sub), sub)
      BY <1>1, <1>2, <1>4, <1>5, PathArrayInsertIs
    <2> QED BY <2>1, <2>2, <2>3, <2>4, GivesIs DEF s
  <1> QED BY <1>6, <1>7, <1>8

\* confignode_merge into a node of another tree
LEMMA MergeCall ==
    ASSUME TreeInv, NEW b \in Budgets, CallMerge(b)
    PROVE  TreeInv'
  <1> DEFINE s == Store(heap, b)
  <1>1. Sound(s) /\ s.heap = heap
    BY Started
  <1> HIDE DEF s
  <1>0. PICK new \in Detached :
           \E n \in Elsewhere(new) : Ends(Merge(s, n, new), {}, {})
    BY DEF CallMerge, s
  <1>2. PICK n \in Elsewhere(new) : Ends(Merge(s, n, new), {}, {})
    BY <1>0
  <1>3. n \in Live(s.heap) /\ new \in Live(s.heap)
    BY <1>1 DEF Elsewhere, Detached, TreeInv, Roots
  <1>4. Keeps(s, Merge(s, n, new))
    BY <1>1, <1>3, MergeIs
  <1> QED BY <1>2, <1>4, KeepsIs DEF s

\* confignode_clean of any node but the main one
LEMMA CleanCall ==
    ASSUME TreeInv, CallClean
    PROVE  TreeInv'
  <1>1. PICK n \in Live(heap) \ {Main} : Ends(Return(Store(heap, 0), Clean(heap, n), TRUE), {n}, {})
    BY DEF CallClean
  <1> DEFINE g == Clean(heap, n)
             t == Return(Store(heap, 0), g, TRUE)
             gone == {n}
             none == {}
  <1>2. Good(heap) /\ held = Roots(heap)
    BY DEF TreeInv
  <1>3. Good(g) /\ Roots(g) = Roots(heap) \ {n}
    BY <1>2, CleanIs
  <1> HIDE DEF g
  <1>4. t.heap = g
    BY DEF Return
  <1>5. Good(t.heap) /\ (held \ gone) \cup none = Roots(t.heap) /\ Main \notin gone /\ Ends(t, gone, none)
    BY <1>1, <1>2, <1>3, <1>4 DEF g
  <1> HIDE DEF t, gone, none
  <1> QED BY <1>5, EndsIs

\* Every call keeps TreeInv.
LEMMA NextTrees == TreeInv /\ [TreeNext]_treeVars => TreeInv'
  <1> SUFFICES ASSUME TreeInv, [TreeNext]_treeVars PROVE TreeInv'
    OBVIOUS
  <1>1. CASE UNCHANGED treeVars
    BY <1>1 DEF TreeInv, treeVars
  <1>2. CASE CallClean
    BY <1>2, CleanCall
  <1>3. ASSUME NEW b \in Budgets,
               \/ CallNew(b) \/ CallNewValue(b) \/ CallMapSet(b) \/ CallArrayAppend(b)
               \/ CallArrayInsert(b) \/ CallArraySet(b) \/ CallReplace(b)
               \/ CallPathSet(b) \/ CallPathMapSet(b) \/ CallPathArray(b)
               \/ CallCopy(b) \/ CallMerge(b) \/ CallLoad(b)
        PROVE  TreeInv'
    BY <1>3, MakingCalls, GivingCalls, PathCalls, MergeCall
  <1> QED BY <1>1, <1>2, <1>3 DEF TreeNext

\* Whatever calls the clients of the configuration library make, and wherever
\* memory runs out in them, memory holds well-formed trees, the ones the
\* clients hold, and nothing else: no call leaks a node, frees one that is
\* still in a tree, or leaves a link that does not agree with the others.
THEOREM TreesWellFormed == TreeSpec => []WellFormed
  <1>1. TreeInit => TreeInv
    BY InitTrees
  <1>2. TreeInv /\ [TreeNext]_treeVars => TreeInv'
    BY NextTrees
  <1>3. TreeInv => WellFormed
    BY InvWellFormed
  <1> QED BY <1>1, <1>2, <1>3, PTL DEF TreeSpec

=============================================================================
