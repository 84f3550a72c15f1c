------------------------ MODULE ConfigurationProofs -------------------------
(***************************************************************************)
(* Reading the configuration, for every set of files, every tree they hold  *)
(* up to the depth Levels, every firmware and every number of failed        *)
(* allocations:                                                            *)
(*  - the folder is the first one there is, and the configuration is what  *)
(*    its files say together, the later ones over the earlier ones         *)
(*    (FilesAreInOrder);                                                   *)
(*  - the overlays of dtbo.txt are taken all or none (OverlaysTogether);   *)
(*  - the device, its profiles and the entries of the menu belong together *)
(*    (MenuIsForDevice).                                                   *)
(*                                                                         *)
(* The lemmas about trees come first: what a merge, a new entry and a path  *)
(* by keys give, by induction over the levels or over the steps of a path.  *)
(***************************************************************************)
EXTENDS Configuration, Recursion, FiniteSetTheorems, TLAPS

-----------------------------------------------------------------------------
(* The trees *)

\* The trees of one level more are those over the trees of one level less.
LEMMA TreesBuilt ==
    \A n \in 0..Levels : Trees[n] = IF n = 0 THEN {} ELSE TreesOver(Trees[n - 1])
  <1> DEFINE Body(g, m) == [n \in 0..m |-> IF n = 0 THEN {} ELSE TreesOver(g[n - 1])]
             S == {m \in 0..Levels : \E g : g = Body(g, m)}
  <1>0. Levels \in Nat
    BY ConfigSpecAssumption
  <1>1. 0 \in S
    <2> DEFINE g == [n \in 0..0 |-> {}]
    <2>1. g = Body(g, 0)
      OBVIOUS
    <2> HIDE DEF g, Body
    <2> QED BY <1>0, <2>1
  <1>2. ASSUME NEW m \in 0..(Levels - 1), m \in S PROVE m + 1 \in S
    <2>1. PICK g : g = Body(g, m)
      BY <1>2
    <2> DEFINE h == [n \in 0..(m + 1) |-> IF n = 0 THEN {} ELSE TreesOver(g[n - 1])]
    <2>2. \A n \in 0..m : h[n] = g[n]
      <3>1. \A n \in 0..m : h[n] = Body(g, m)[n]
        BY <1>0
      <3> HIDE DEF h, Body
      <3> QED BY <2>1, <3>1
    <2>3. h = Body(h, m + 1)
      <3>1. \A n \in 0..(m + 1) : n # 0 => h[n - 1] = g[n - 1]
        BY <2>2, <1>0
      <3> DEFINE k == h
      <3>2. \A n \in 0..(m + 1) : n # 0 => k[n - 1] = g[n - 1]
        BY <3>1
      <3>3. k = [n \in 0..(m + 1) |-> IF n = 0 THEN {} ELSE TreesOver(g[n - 1])]
        OBVIOUS
      <3> HIDE DEF k
      <3>4. k = Body(k, m + 1)
        BY <3>2, <3>3
      <3> QED BY <3>4 DEF k
    <2>4. m + 1 \in 0..Levels
      BY <1>0
    <2> HIDE DEF h, Body
    <2> QED BY <2>3, <2>4
  <1>3. Levels \in S
    <2> HIDE DEF S
    <2> QED BY <1>0, <1>1, <1>2, SetInduction
  <1>4. \E g : g = Body(g, Levels)
    BY <1>3
  <1>5. Trees = CHOOSE g : g = Body(g, Levels)
    BY Zenon DEF Trees
  <1>6. Trees = Body(Trees, Levels)
    <2> HIDE DEF Body
    <2> QED BY <1>4, <1>5, Zenon
  <1> DEFINE T == Trees
  <1>7. T = Body(T, Levels)
    BY <1>6, Zenon
  <1> HIDE DEF T
  <1>8. \A n \in 0..Levels : T[n] = IF n = 0 THEN {} ELSE TreesOver(T[n - 1])
    BY <1>7
  <1> QED BY <1>8, Zenon DEF T

\* What a tree is, by its type.
NodesBelow(n) == Trees[n - 1]
Items(n) == Seq([key : Keys, node : NodesBelow(n)])
IsMapTree(t, n) == /\ t = MapTree(t.items)
                   /\ t.items \in Items(n)
                   /\ DistinctKeys(t.items)

\* A tree is null, a leaf, an array of trees or a map of trees.
LEMMA TreeIs ==
    ASSUME NEW n \in 1..Levels, NEW t
    PROVE  t \in Trees[n] <=>
             \/ t = NullTree
             \/ t = ValueTree(t.value) /\ t.value \in LeafValue
             \/ t = ArrayTree(t.items) /\ t.items \in Seq(NodesBelow(n))
             \/ IsMapTree(t, n)
  <1>0. Levels \in Nat
    BY ConfigSpecAssumption
  <1>1. Trees[n] = TreesOver(NodesBelow(n))
    BY <1>0, TreesBuilt DEF NodesBelow
  <1> DEFINE N == NodesBelow(n)
             V == LeafValue
             I == {items \in Seq([key : Keys, node : N]) : DistinctKeys(items)}
  <1>2. TreesOver(N) = [type : {"null"}] \cup [type : {"value"}, value : V]
                       \cup [type : {"array"}, items : Seq(N)] \cup [type : {"map"}, items : I]
    BY Zenon DEF TreesOver
  <1>3. I = {items \in Items(n) : DistinctKeys(items)}
    BY Zenon DEF Items
  <1> HIDE DEF N, V, I
  <1>4. t \in [type : {"null"}] <=> t = NullTree
    BY DEF NullTree
  <1>5. t \in [type : {"value"}, value : V] <=> t = ValueTree(t.value) /\ t.value \in V
    BY DEF ValueTree
  <1>6. t \in [type : {"array"}, items : Seq(N)]
          <=> t = ArrayTree(t.items) /\ t.items \in Seq(N)
    <2> DEFINE Q == Seq(N)
    <2> HIDE DEF Q
    <2>1. t \in [type : {"array"}, items : Q] <=> t = ArrayTree(t.items) /\ t.items \in Q
      BY DEF ArrayTree
    <2> QED BY <2>1, Zenon DEF Q
  <1>7. t \in [type : {"map"}, items : I] <=> t = MapTree(t.items) /\ t.items \in I
    BY DEF MapTree
  <1>8. t = MapTree(t.items) /\ t.items \in I <=> IsMapTree(t, n)
    BY <1>3, Zenon DEF IsMapTree
  <1>9. t \in TreesOver(N) <=> \/ t \in [type : {"null"}]
                               \/ t \in [type : {"value"}, value : V]
                               \/ t \in [type : {"array"}, items : Seq(N)]
                               \/ t \in [type : {"map"}, items : I]
    BY <1>2, Zenon
  <1> QED BY <1>1, <1>4, <1>5, <1>6, <1>7, <1>8, <1>9, Zenon DEF N, V

\* The maps among the trees of n levels
Maps(n) == {t \in Trees[n] : t.type = "map"}

\* A map is a tree with entries of its own.
LEMMA MapIs ==
    ASSUME NEW n \in 1..Levels, NEW t
    PROVE  t \in Maps(n) <=> IsMapTree(t, n)
  <1>1. t = NullTree \/ t = ValueTree(t.value) \/ t = ArrayTree(t.items) => t.type # "map"
    BY DEF NullTree, ValueTree, ArrayTree
  <1>2. IsMapTree(t, n) => t.type = "map"
    BY DEF IsMapTree, MapTree
  <1> QED BY <1>1, <1>2, TreeIs DEF Maps

\* The entries of a map, each under a key of its own.
LEMMA ItemsOf ==
    ASSUME NEW n \in 1..Levels, NEW t \in Maps(n)
    PROVE  /\ t.type = "map" /\ t = MapTree(t.items)
           /\ t.items \in Seq([key : Keys, node : NodesBelow(n)])
           /\ Len(t.items) \in Nat /\ DOMAIN t.items = 1..Len(t.items)
           /\ \A i \in 1..Len(t.items) :
                /\ t.items[i] = Entry(t.items[i].key, t.items[i].node)
                /\ t.items[i].key \in Keys /\ t.items[i].node \in NodesBelow(n)
           /\ \A i, j \in 1..Len(t.items) : t.items[i].key = t.items[j].key => i = j
  <1>1. IsMapTree(t, n)
    BY MapIs
  <1>2. t.items \in Seq([key : Keys, node : NodesBelow(n)]) /\ DistinctKeys(t.items)
        /\ t = MapTree(t.items)
    BY <1>1, Zenon DEF IsMapTree, Items
  <1> DEFINE N == NodesBelow(n)
  <1> HIDE DEF N
  <1>3. \A s \in Seq([key : Keys, node : N]) :
          /\ Len(s) \in Nat /\ DOMAIN s = 1..Len(s)
          /\ \A i \in 1..Len(s) : /\ s[i] = Entry(s[i].key, s[i].node)
                                  /\ s[i].key \in Keys /\ s[i].node \in N
    <2> TAKE s \in Seq([key : Keys, node : N])
    <2>1. Len(s) \in Nat /\ DOMAIN s = 1..Len(s)
      OBVIOUS
    <2>2. ASSUME NEW i \in 1..Len(s)
          PROVE  s[i] = Entry(s[i].key, s[i].node) /\ s[i].key \in Keys /\ s[i].node \in N
      <3> DEFINE R == [key : Keys, node : N]
      <3>1. s \in Seq(R)
        OBVIOUS
      <3> HIDE DEF R
      <3>2. s[i] \in R
        BY <2>1, <3>1
      <3>3. s[i] \in [key : Keys, node : N]
        BY <3>2 DEF R
      <3> QED BY <3>3 DEF Entry
    <2> QED BY <2>1, <2>2
  <1>4. t.items \in Seq([key : Keys, node : N])
    BY <1>2, Zenon DEF N
  <1>5. t.type = "map"
    BY DEF Maps
  <1> QED BY <1>2, <1>3, <1>4, <1>5, Zenon DEF N, DistinctKeys

\* PositionOf finds the first entry with a key.
LEMMA PositionIs ==
    ASSUME NEW t, Len(t.items) \in Nat, NEW key
    PROVE  \/ /\ PositionOf(t, key) = 0
              /\ \A i \in 1..Len(t.items) : t.items[i].key # key
           \/ /\ PositionOf(t, key) \in 1..Len(t.items)
              /\ t.items[PositionOf(t, key)].key = key
  <1> DEFINE I == {i \in 1..Len(t.items) : t.items[i].key = key}
  <1>1. PositionOf(t, key) = IF I # {} THEN Min(I) ELSE 0
    BY Zenon DEF PositionOf, SelectInSeq
  <1>2. I \in SUBSET Nat
    OBVIOUS
  <1>3. CASE I = {}
    BY <1>1, <1>3
  <1>4. CASE I # {}
    <2>1. \E m \in I : \A k \in I : m <= k
      BY <1>2, <1>4, LeastMember
    <2>2. Min(I) \in I
      <3> HIDE DEF I
      <3> QED BY <2>1, Zenon DEF Min
    <2> QED BY <1>1, <1>4, <2>2
  <1> QED BY <1>3, <1>4

\* The position of a key in a map.
LEMMA PositionInMap ==
    ASSUME NEW n \in 1..Levels, NEW t \in Maps(n), NEW i \in 1..Len(t.items)
    PROVE  PositionOf(t, t.items[i].key) = i
  <1>1. /\ Len(t.items) \in Nat
        /\ \A j, k \in 1..Len(t.items) : t.items[j].key = t.items[k].key => j = k
    BY ItemsOf
  <1> QED BY <1>1, PositionIs

\* What a key of a map names.
LEMMA LookupKeyIs ==
    ASSUME NEW t, NEW key
    PROVE  LookupKey(t, key) =
             IF t.type = "map" /\ PositionOf(t, key) # 0
             THEN t.items[PositionOf(t, key)].node ELSE Absent
  <1>1. IsKey(KeyStep(key)) /\ KeyStep(key).key = key
    BY DEF IsKey, KeyStep
  <1> QED BY <1>1 DEF LookupKey, Child

\* A key of a tree names a node one level down, or nothing.
LEMMA LookupKeyTyped ==
    ASSUME NEW n \in 1..Levels, NEW t \in Trees[n], NEW key
    PROVE  LookupKey(t, key) \in NodesBelow(n) \cup {Absent}
  <1>1. CASE t.type = "map" /\ PositionOf(t, key) # 0
    <2>1. t \in Maps(n)
      BY <1>1 DEF Maps
    <2>2. PositionOf(t, key) \in 1..Len(t.items)
      BY <1>1, <2>1, ItemsOf, PositionIs
    <2> QED BY <1>1, <2>1, <2>2, ItemsOf, LookupKeyIs
  <1>2. CASE ~(t.type = "map" /\ PositionOf(t, key) # 0)
    BY <1>2, LookupKeyIs
  <1> QED BY <1>1, <1>2

\* A key that is in a map names a node.
LEMMA LookupKeyFound ==
    ASSUME NEW n \in 1..Levels, NEW t \in Maps(n), NEW key, PositionOf(t, key) # 0
    PROVE  LookupKey(t, key) \in NodesBelow(n)
  <1>1. t.type = "map"
    BY DEF Maps
  <1>2. PositionOf(t, key) \in 1..Len(t.items)
    BY ItemsOf, PositionIs
  <1> QED BY <1>1, <1>2, ItemsOf, LookupKeyIs

\* Maps from their entries.
LEMMA MapMade ==
    ASSUME NEW n \in 1..Levels, NEW items \in Seq([key : Keys, node : NodesBelow(n)]),
           \A i, j \in 1..Len(items) : items[i].key = items[j].key => i = j
    PROVE  MapTree(items) \in Maps(n)
  <1>1. MapTree(items).items = items
    BY DEF MapTree
  <1>2. DistinctKeys(items)
    BY DEF DistinctKeys
  <1>3. IsMapTree(MapTree(items), n)
    BY <1>1, <1>2, Zenon DEF IsMapTree, Items
  <1> QED BY <1>3, MapIs

\* A map may be empty.
LEMMA EmptyMap ==
    ASSUME NEW n \in 1..Levels PROVE MapTree(<<>>) \in Maps(n)
  <1>1. <<>> \in Seq([key : Keys, node : NodesBelow(n)])
    OBVIOUS
  <1>2. \A i \in 1..Len(<<>>) : FALSE
    OBVIOUS
  <1> QED BY <1>1, <1>2, MapMade

\* What WithKey puts into a map.
LEMMA WithKeyIs ==
    ASSUME NEW n \in 1..Levels, NEW t \in Maps(n), NEW key \in Keys, NEW node \in NodesBelow(n)
    PROVE  /\ WithKey(t, key, node) \in Maps(n)
           /\ \E i \in 1..Len(WithKey(t, key, node).items) :
                 WithKey(t, key, node).items[i] = Entry(key, node)
           /\ \A k : k # key => LookupKey(WithKey(t, key, node), k) = LookupKey(t, k)
           /\ LookupKey(WithKey(t, key, node), key) = node
  <1> DEFINE N == NodesBelow(n)
             s == t.items
             p == PositionOf(t, key)
             w == WithKey(t, key, node)
  <1>1. /\ t.type = "map" /\ t = MapTree(s) /\ s \in Seq([key : Keys, node : N])
        /\ Len(s) \in Nat /\ DOMAIN s = 1..Len(s)
        /\ \A i \in 1..Len(s) : /\ s[i] = Entry(s[i].key, s[i].node)
                                /\ s[i].key \in Keys /\ s[i].node \in N
        /\ \A i, j \in 1..Len(s) : s[i].key = s[j].key => i = j
    BY ItemsOf
  <1>2. \/ p = 0 /\ \A i \in 1..Len(s) : s[i].key # key
        \/ p \in 1..Len(s) /\ s[p].key = key
    BY <1>1, PositionIs
  <1>e. Entry(key, node) \in [key : Keys, node : N] /\ Entry(key, node).key = key
        /\ Entry(key, node).node = node
    BY DEF Entry
  <1> DEFINE items == IF p = 0 THEN Append(s, Entry(key, node))
                      ELSE [s EXCEPT ![p].node = node]
             spot == IF p = 0 THEN Len(s) + 1 ELSE p
  <1>3. w = MapTree(items)
    BY DEF WithKey
  <1>4. /\ items \in Seq([key : Keys, node : N])
        /\ spot \in 1..Len(items) /\ items[spot] = Entry(key, node)
        /\ Len(items) \in Nat /\ Len(s) <= Len(items)
        /\ \A i \in 1..Len(items) : i # spot => i \in 1..Len(s) /\ items[i] = s[i]
        /\ \A i \in 1..Len(s) : i # spot => items[i] = s[i]
        /\ \A i \in 1..Len(s) : i # spot => s[i].key # key
    <2>1. CASE p = 0
      <3> DEFINE R == [key : Keys, node : N]
                 e == Entry(key, node)
      <3>1. s \in Seq(R) /\ e \in R
        BY <1>1, <1>e
      <3> HIDE DEF R, e, s, p
      <3>2. Append(s, e) \in Seq(R) /\ Len(Append(s, e)) = Len(s) + 1
            /\ Append(s, e)[Len(s) + 1] = e /\ \A i \in 1..Len(s) : Append(s, e)[i] = s[i]
        BY <3>1
      <3>3. \A i \in 1..Len(s) : s[i].key # key
        BY <1>2, <2>1
      <3>4. Len(s) \in Nat
        BY <3>1
      <3>5. items = Append(s, e) /\ spot = Len(s) + 1
        BY <2>1 DEF e
      <3> HIDE DEF items, spot
      <3> QED BY <3>2, <3>3, <3>4, <3>5 DEF R, e
    <2>2. CASE p # 0
      <3>1. p \in 1..Len(s) /\ s[p].key = key /\ spot = p
        BY <1>2, <2>2
      <3>2. [s[p] EXCEPT !.node = node] = Entry(key, node)
        <4>1. s[p] = Entry(key, s[p].node)
          BY <1>1, <3>1
        <4> QED BY <4>1 DEF Entry
      <3>3. items = [s EXCEPT ![p] = Entry(key, node)]
        <4>1. items = [s EXCEPT ![p].node = node]
          BY <2>2
        <4>2. [s EXCEPT ![p].node = node] = [s EXCEPT ![p] = [s[p] EXCEPT !.node = node]]
          OBVIOUS
        <4> QED BY <3>2, <4>1, <4>2
      <3> DEFINE R == [key : Keys, node : N]
                 e == Entry(key, node)
      <3>4. s \in Seq(R) /\ e \in R /\ items = [s EXCEPT ![p] = e]
        BY <1>1, <1>e, <3>3
      <3>5. \A i \in 1..Len(s) : i # p => s[i].key # key
        BY <1>1, <3>1
      <3> HIDE DEF R, e, s, p, items, spot
      <3>6. items \in Seq(R) /\ Len(items) = Len(s) /\ items[p] = e
            /\ \A i \in 1..Len(s) : i # p => items[i] = s[i]
        BY <3>1, <3>4
      <3>7. Len(s) \in Nat
        BY <3>4
      <3> QED BY <3>1, <3>5, <3>6, <3>7 DEF R, e
    <2> QED BY <2>1, <2>2
  <1> HIDE DEF items, spot, p
  <1>5. ASSUME NEW i \in 1..Len(items), NEW j \in 1..Len(items), items[i].key = items[j].key
        PROVE  i = j
    <2>1. \A l \in 1..Len(items) : l # spot => items[l].key # key
      BY <1>4
    <2>2. CASE i = spot \/ j = spot
      BY <1>4, <1>5, <1>e, <2>1, <2>2
    <2>3. CASE i # spot /\ j # spot
      <3>1. i \in 1..Len(s) /\ j \in 1..Len(s) /\ items[i] = s[i] /\ items[j] = s[j]
        BY <1>4, <2>3
      <3> QED BY <1>1, <1>5, <3>1
    <2> QED BY <2>2, <2>3
  <1>6. w \in Maps(n)
    BY <1>3, <1>4, <1>5, MapMade
  <1>7. w.items = items /\ w.type = "map"
    BY <1>3 DEF MapTree
  <1> HIDE DEF w
  <1>8. \E i \in 1..Len(w.items) : w.items[i] = Entry(key, node)
    BY <1>4, <1>7
  <1>9. LookupKey(w, key) = node
    <2>1. PositionOf(w, key) = spot
      <3>1. PositionOf(w, w.items[spot].key) = spot
        BY <1>4, <1>6, <1>7, PositionInMap
      <3> QED BY <1>4, <1>7, <1>e, <3>1
    <2> QED BY <1>4, <1>7, <1>e, <2>1, LookupKeyIs
  <1>10. ASSUME NEW k, k # key PROVE LookupKey(w, k) = LookupKey(t, k)
    <2>1. \/ PositionOf(w, k) = 0 /\ \A i \in 1..Len(items) : items[i].key # k
          \/ PositionOf(w, k) \in 1..Len(items) /\ items[PositionOf(w, k)].key = k
      BY <1>4, <1>7, PositionIs
    <2>2. \/ PositionOf(t, k) = 0 /\ \A i \in 1..Len(s) : s[i].key # k
          \/ PositionOf(t, k) \in 1..Len(s) /\ s[PositionOf(t, k)].key = k
      BY <1>1, PositionIs
    <2>3. CASE PositionOf(t, k) = 0
      <3>1. PositionOf(w, k) = 0
        <4> SUFFICES ASSUME PositionOf(w, k) # 0 PROVE FALSE
          OBVIOUS
        <4> DEFINE q == PositionOf(w, k)
        <4>1. q \in 1..Len(items) /\ items[q].key = k
          BY <2>1
        <4>2. q # spot
          BY <1>4, <1>10, <1>e, <4>1
        <4>3. q \in 1..Len(s) /\ s[q].key = k
          BY <1>4, <4>1, <4>2
        <4> QED BY <2>2, <2>3, <4>3
      <3> QED BY <2>3, <3>1, LookupKeyIs
    <2>4. CASE PositionOf(t, k) # 0
      <3> DEFINE q == PositionOf(t, k)
      <3>1. q \in 1..Len(s) /\ s[q].key = k
        BY <2>2, <2>4
      <3>2. q # spot
        <4> SUFFICES ASSUME q = spot PROVE FALSE
          OBVIOUS
        <4>1. spot \in 1..Len(s) /\ s[spot].key = k
          BY <3>1
        <4>2. spot = p /\ p # 0
          BY <1>1, <4>1 DEF spot, p
        <4>3. s[p].key = key
          BY <1>2, <4>2 DEF p
        <4> QED BY <1>10, <4>1, <4>2, <4>3
      <3>3. q \in 1..Len(items) /\ items[q] = s[q]
        BY <1>1, <1>4, <3>1, <3>2
      <3>4. PositionOf(w, k) = q
        <4>1. PositionOf(w, w.items[q].key) = q
          BY <1>6, <1>7, <3>3, PositionInMap
        <4> QED BY <1>7, <3>1, <3>3, <4>1
      <3>5. q # 0 /\ w.items[q] = t.items[q]
        BY <1>7, <2>4, <3>3
      <3> HIDE DEF q
      <3>6. LookupKey(w, k) = w.items[q].node
        BY <1>7, <3>4, <3>5, LookupKeyIs
      <3>7. LookupKey(t, k) = t.items[q].node
        BY <1>1, <3>5, LookupKeyIs DEF q
      <3> QED BY <3>5, <3>6, <3>7
    <2> QED BY <2>3, <2>4
  <1> QED BY <1>6, <1>8, <1>9, <1>10 DEF w

-----------------------------------------------------------------------------
(* Merging maps *)

\* A node is there, so it is not Absent.
LEMMA PresentNode ==
    ASSUME NEW n \in 0..Levels PROVE Absent \notin Trees[n]
  <1>0. Levels \in Nat
    BY ConfigSpecAssumption
  <1>1. CASE n = 0
    BY <1>0, <1>1, TreesBuilt
  <1>2. CASE n # 0
    <2>1. n \in 1..Levels
      BY <1>0, <1>2
    <2>2. Absent.type = "absent"
      BY DEF Absent
    <2>3. NullTree.type = "null" /\ \A x : ValueTree(x).type = "value"
          /\ ArrayTree(x).type = "array" /\ MapTree(x).type = "map"
      BY DEF NullTree, ValueTree, ArrayTree, MapTree
    <2> QED BY <2>1, <2>2, <2>3, TreeIs, Zenon DEF IsMapTree
  <1> QED BY <1>1, <1>2

\* A key is in a map when it names a node.
LEMMA KeyPresent ==
    ASSUME NEW n \in 1..Levels, NEW t \in Maps(n), NEW key
    PROVE  PositionOf(t, key) = 0 <=> LookupKey(t, key) = Absent
  <1>0. Levels \in Nat
    BY ConfigSpecAssumption
  <1>1. PositionOf(t, key) = 0 => LookupKey(t, key) = Absent
    BY LookupKeyIs
  <1>2. ASSUME PositionOf(t, key) # 0 PROVE LookupKey(t, key) # Absent
    <2>1. LookupKey(t, key) \in NodesBelow(n)
      BY <1>2, LookupKeyFound
    <2>2. n - 1 \in 0..Levels
      BY <1>0
    <2> QED BY <2>1, <2>2, PresentNode DEF NodesBelow
  <1> QED BY <1>1, <1>2

\* What becomes of a node when one is merged into it or is added.
Joined(merge, old, new) == IF old = Absent THEN new ELSE merge[<<old, new>>]

Merges(merge, n) == \A a, b \in NodesBelow(n) : merge[<<a, b>>] \in NodesBelow(n)

\* The steps of MergeEntries.
MergeStep(merge, new, t, i) ==
    WithKey(t, new.items[i].key, Joined(merge, LookupKey(t, new.items[i].key), new.items[i].node))

\* A step of a merge leaves a map.
LEMMA MergeStepTyped ==
    ASSUME NEW n \in 1..Levels, NEW merge, Merges(merge, n),
           NEW new \in Maps(n), NEW i \in 1..Len(new.items), NEW t \in Maps(n)
    PROVE  /\ Joined(merge, LookupKey(t, new.items[i].key), new.items[i].node) \in NodesBelow(n)
           /\ MergeStep(merge, new, t, i) \in Maps(n)
  <1> DEFINE key == new.items[i].key
             node == new.items[i].node
  <1>1. key \in Keys /\ node \in NodesBelow(n)
    BY ItemsOf
  <1>2. Joined(merge, LookupKey(t, key), node) \in NodesBelow(n)
    <2>1. CASE LookupKey(t, key) = Absent
      BY <1>1, <2>1 DEF Joined
    <2>2. CASE LookupKey(t, key) # Absent
      <3>1. LookupKey(t, key) \in NodesBelow(n)
        BY <2>2, KeyPresent, LookupKeyFound
      <3>2. merge[<<LookupKey(t, key), node>>] \in NodesBelow(n)
        BY <1>1, <3>1 DEF Merges
      <3> QED BY <2>2, <3>2 DEF Joined
    <2> QED BY <2>1, <2>2
  <1>3. MergeStep(merge, new, t, i) = WithKey(t, key, Joined(merge, LookupKey(t, key), node))
    BY DEF MergeStep
  <1> HIDE DEF key, node
  <1>4. WithKey(t, key, Joined(merge, LookupKey(t, key), node)) \in Maps(n)
    BY <1>1, <1>2, WithKeyIs
  <1> QED BY <1>2, <1>3, <1>4 DEF key, node

\* The maps MergeEntries goes through.
IsMerging(m, merge, tree, new) ==
    /\ m[0] = tree
    /\ \A i \in 1..Len(new.items) : m[i] = MergeStep(merge, new, m[i - 1], i)

\* MergeEntries goes through maps, one for each entry.
LEMMA MergeEntriesSteps ==
    ASSUME NEW n \in 1..Levels, NEW merge, Merges(merge, n),
           NEW tree \in Maps(n), NEW new \in Maps(n)
    PROVE  \E m : /\ m \in [0..Len(new.items) -> Maps(n)]
                  /\ IsMerging(m, merge, tree, new)
                  /\ MergeEntries(merge, tree, new) = m[Len(new.items)]
  <1> DEFINE l == Len(new.items)
             X == Maps(n)
             step == [p \in X \X (1..l) |-> MergeStep(merge, new, p[1], p[2])]
             rule(f, i) == LET t == f[i - 1] IN
                 WithKey(t, new.items[i].key,
                         IF PositionOf(t, new.items[i].key) = 0 THEN new.items[i].node
                         ELSE merge[<<LookupKey(t, new.items[i].key), new.items[i].node>>])
             Body(f) == [i \in 0..l |-> IF i = 0 THEN tree ELSE rule(f, i)]
             m == CHOOSE f : f = Body(f)
  <1>0. l \in Nat
    BY ItemsOf
  <1>1. MergeEntries(merge, tree, new) = m[l]
    BY Zenon DEF MergeEntries
  <1>2. IsStep(step, X, l)
    <2>1. ASSUME NEW p \in X \X (1..l) PROVE MergeStep(merge, new, p[1], p[2]) \in X
      <3>1. p[1] \in Maps(n) /\ p[2] \in 1..Len(new.items)
        OBVIOUS
      <3> QED BY <3>1, MergeStepTyped
    <2> HIDE DEF X, l
    <2>2. step \in [X \X (1..l) -> X]
      BY <2>1
    <2> QED BY <2>2 DEF IsStep
  <1>3. \A t \in X, i \in 1..l : step[<<t, i>>] = MergeStep(merge, new, t, i)
    <2> HIDE DEF X, l
    <2> QED OBVIOUS
  <1> HIDE DEF step
  <1>4. PICK g : Iterates(g, X, l, tree, step)
    BY <1>0, <1>2, Iteration, Zenon
  <1>5. /\ g \in [0..l -> X] /\ g[0] = tree
        /\ \A i \in 1..l : g[i] = MergeStep(merge, new, g[i - 1], i)
    <2>1. /\ g \in [0..l -> X] /\ g[0] = tree
          /\ \A i \in 1..l : g[i] = step[<<g[i - 1], i>>]
      BY <1>4 DEF Iterates
    <2>2. \A i \in 1..l : g[i - 1] \in X
      <3> HIDE DEF l, X
      <3> QED BY <1>0, <2>1
    <2> QED BY <1>3, <2>1, <2>2, Zenon
  <1>6. \A f, i : f[i - 1] \in X => rule(f, i) = MergeStep(merge, new, f[i - 1], i)
    <2> TAKE f, i
    <2> HAVE f[i - 1] \in X
    <2> DEFINE t == f[i - 1]
               key == new.items[i].key
    <2>1. PositionOf(t, key) = 0 <=> LookupKey(t, key) = Absent
      BY KeyPresent
    <2> HIDE DEF t
    <2>2. (IF PositionOf(t, key) = 0 THEN new.items[i].node
           ELSE merge[<<LookupKey(t, key), new.items[i].node>>])
          = Joined(merge, LookupKey(t, key), new.items[i].node)
      BY <2>1, Zenon DEF Joined
    <2> QED BY <2>2, Zenon DEF MergeStep, t
  <1>7. \A i \in 1..l : i - 1 \in 0..l
    BY <1>0
  <1>8. g = Body(g)
    <2>1. \A i \in 1..l : g[i] = rule(g, i)
      BY <1>5, <1>6, <1>7
    <2> HIDE DEF rule, X, l
    <2>2. \A i \in 0..l : g[i] = IF i = 0 THEN tree ELSE rule(g, i)
      BY <1>0, <1>5, <2>1
    <2> QED BY <1>5, <2>2
  <1>9. m = Body(m)
    <2> HIDE DEF Body
    <2> QED BY <1>8, Zenon
  <1> HIDE DEF m
  <1>10. m[0] = tree /\ DOMAIN m = 0..l /\ \A i \in 1..l : m[i] = rule(m, i)
    <2> HIDE DEF rule, X, l
    <2> DEFINE B == Body(m)
    <2>1. B[0] = tree /\ DOMAIN B = 0..l /\ \A i \in 1..l : B[i] = rule(m, i)
      BY <1>0
    <2> HIDE DEF B
    <2> QED BY <1>9, <2>1 DEF B
  <1> DEFINE S == {i \in 0..l : m[i] \in X}
  <1>11. \A i \in 0..l : i \in S
    <2>1. 0 \in S
      BY <1>0, <1>10
    <2>2. ASSUME NEW i \in 0..(l - 1), i \in S PROVE i + 1 \in S
      <3>1. i + 1 \in 1..l /\ (i + 1) - 1 = i /\ m[i] \in X
        BY <1>0, <2>2
      <3>2. m[i + 1] = MergeStep(merge, new, m[i], i + 1)
        BY <1>6, <1>10, <3>1
      <3>3. m[i + 1] \in X
        BY <3>1, <3>2, MergeStepTyped
      <3> QED BY <1>0, <3>1, <3>3
    <2> HIDE DEF S, l
    <2> QED BY <1>0, <2>1, <2>2, SetInduction
  <1>12. m \in [0..l -> X]
    <2> HIDE DEF X, l
    <2>1. m = [i \in 0..l |-> m[i]]
      <3> HIDE DEF rule
      <3> DEFINE B == Body(m)
      <3>1. B = [i \in 0..l |-> B[i]]
        OBVIOUS
      <3> HIDE DEF B
      <3> QED BY <1>9, <3>1 DEF B
    <2> QED BY <1>11, <2>1
  <1>13. \A i \in 1..l : m[i] = MergeStep(merge, new, m[i - 1], i)
    BY <1>6, <1>7, <1>10, <1>12
  <1>14. IsMerging(m, merge, tree, new)
    BY <1>10, <1>13 DEF IsMerging
  <1> QED BY <1>1, <1>12, <1>14

\* A merged map has the entries of both maps, and under a key of both what
\* merging the two nodes gives.
LEMMA MergedEntries ==
    ASSUME NEW n \in 1..Levels, NEW merge, Merges(merge, n),
           NEW tree \in Maps(n), NEW new \in Maps(n)
    PROVE  /\ MergeEntries(merge, tree, new) \in Maps(n)
           /\ \A k : LookupKey(MergeEntries(merge, tree, new), k)
                       = IF LookupKey(new, k) = Absent THEN LookupKey(tree, k)
                         ELSE Joined(merge, LookupKey(tree, k), LookupKey(new, k))
  <1> DEFINE l == Len(new.items)
             key(i) == new.items[i].key
             new1(i) == new.items[i].node
             both(k) == Joined(merge, LookupKey(tree, k), LookupKey(new, k))
  <1>0. /\ l \in Nat
        /\ \A i \in 1..l : key(i) \in Keys /\ new1(i) \in NodesBelow(n)
        /\ \A i, j \in 1..l : key(i) = key(j) => i = j
    BY ItemsOf
  <1>1. PICK m : /\ m \in [0..l -> Maps(n)]
                 /\ IsMerging(m, merge, tree, new)
                 /\ MergeEntries(merge, tree, new) = m[l]
    BY MergeEntriesSteps
  <1>2. m[0] = tree /\ \A i \in 1..l : m[i] = MergeStep(merge, new, m[i - 1], i)
    BY <1>1 DEF IsMerging
  <1>3. \A i \in 1..l : LookupKey(new, key(i)) = new1(i)
    <2> TAKE i \in 1..l
    <2>1. PositionOf(new, key(i)) = i /\ new.type = "map"
      BY PositionInMap, ItemsOf
    <2> QED BY <1>0, <2>1, LookupKeyIs
  <1> DEFINE S == {i \in 0..l : \A k : LookupKey(m[i], k)
                                         = IF \E j \in 1..i : key(j) = k THEN both(k)
                                           ELSE LookupKey(tree, k)}
  <1>4. 0 \in S
    BY <1>0, <1>2
  <1>5. ASSUME NEW i \in 0..(l - 1), i \in S PROVE i + 1 \in S
    <2> DEFINE j == i + 1
               node == Joined(merge, LookupKey(m[i], key(j)), new1(j))
    <2>1. j \in 1..l /\ j - 1 = i /\ i \in 0..l /\ j \in 0..l
      BY <1>0
    <2>2. m[i] \in Maps(n)
      BY <1>1, <2>1
    <2>3. m[j] = MergeStep(merge, new, m[i], j)
      BY <1>2, <2>1
    <2>4. m[j] = WithKey(m[i], key(j), node) /\ node \in NodesBelow(n)
      <3>1. node \in NodesBelow(n)
        BY <2>1, <2>2, MergeStepTyped
      <3> QED BY <2>3, <3>1 DEF MergeStep
    <2>5. \A k : LookupKey(m[i], k) = IF \E h \in 1..i : key(h) = k THEN both(k)
                                       ELSE LookupKey(tree, k)
      BY <1>5
    <2>6. ~\E h \in 1..i : key(h) = key(j)
      BY <1>0, <2>1
    <2>7. node = both(key(j))
      <3>1. LookupKey(m[i], key(j)) = LookupKey(tree, key(j))
        BY <2>5, <2>6, Zenon
      <3> QED BY <1>3, <2>1, <3>1, Zenon
    <2>8. key(j) \in Keys
      BY <1>0, <2>1
    <2>9. \A h : h \in 1..j <=> h \in 1..i \/ h = j
      BY <2>1
    <2> HIDE DEF j, node, key, both, new1
    <2>10. /\ LookupKey(m[j], key(j)) = both(key(j))
           /\ \A k : k # key(j) => LookupKey(m[j], k) = LookupKey(m[i], k)
      BY <2>2, <2>4, <2>7, <2>8, WithKeyIs
    <2>11. ASSUME NEW k
           PROVE  LookupKey(m[j], k) = IF \E h \in 1..j : key(h) = k THEN both(k)
                                       ELSE LookupKey(tree, k)
      <3>1. CASE k = key(j)
        BY <2>1, <2>10, <3>1
      <3>2. CASE k # key(j)
        <4>1. (\E h \in 1..j : key(h) = k) <=> (\E h \in 1..i : key(h) = k)
          BY <2>9, <3>2, Zenon
        <4> QED BY <2>5, <2>10, <3>2, <4>1, Zenon
      <3> QED BY <3>1, <3>2
    <2>12. j \in S
      BY <2>1, <2>11
    <2> QED BY <2>12 DEF j
  <1>6. \A i \in 0..l : i \in S
    <2> HIDE DEF S, l
    <2> QED BY <1>0, <1>4, <1>5, SetInduction
  <1>7. \A k : LookupKey(m[l], k) = IF \E j \in 1..l : key(j) = k THEN both(k)
                                     ELSE LookupKey(tree, k)
    <2>1. l \in S
      BY <1>0, <1>6
    <2> HIDE DEF both, key, l
    <2> QED BY <2>1
  <1>8. \A k : LookupKey(new, k) = Absent <=> ~\E j \in 1..l : key(j) = k
    <2> TAKE k
    <2>1. \/ PositionOf(new, k) = 0 /\ \A i \in 1..l : key(i) # k
          \/ PositionOf(new, k) \in 1..l /\ key(PositionOf(new, k)) = k
      BY <1>0, PositionIs
    <2>2. PositionOf(new, k) = 0 <=> LookupKey(new, k) = Absent
      BY KeyPresent
    <2> QED BY <1>0, <2>1, <2>2
  <1>9. \A k : LookupKey(m[l], k) = IF LookupKey(new, k) = Absent THEN LookupKey(tree, k)
                                     ELSE both(k)
    <2> HIDE DEF both, key
    <2> QED BY <1>7, <1>8
  <1>10. m[l] \in Maps(n)
    BY <1>0, <1>1
  <1> QED BY <1>1, <1>9, <1>10

\* Merging by levels.
MergedAt(merge, tree, new) ==
    IF tree.type # new.type \/ tree.type \notin {"map", "array"} THEN new
    ELSE IF tree.type = "array" THEN ArrayTree(tree.items \o new.items)
    ELSE MergeEntries(merge, tree, new)

\* Merging on one level uses merging on the level below.
LEMMA MergingBuilt ==
    \A n \in 0..Levels :
        Merging[n] = [pair \in Trees[n] \X Trees[n] |-> MergedAt(Merging[n - 1], pair[1], pair[2])]
  <1> DEFINE level(n, merge) ==
                 [pair \in Trees[n] \X Trees[n] |-> MergedAt(merge, pair[1], pair[2])]
             Body(g, m) == [n \in 0..m |-> level(n, g[n - 1])]
             S == {m \in 0..Levels : \E g : g = Body(g, m)}
  <1>0. Levels \in Nat
    BY ConfigSpecAssumption
  <1>1. 0 \in S
    <2> DEFINE g == [n \in 0..0 |-> [pair \in {} |-> pair]]
    <2>1. Trees[0] = {}
      BY <1>0, TreesBuilt
    <2>2. level(0, g[-1]) = [pair \in {} |-> pair]
      BY <2>1
    <2> DEFINE e == [pair \in {} |-> pair]
    <2> HIDE DEF level, e
    <2>3. g = Body(g, 0)
      BY <2>2 DEF e
    <2> HIDE DEF g, Body
    <2> QED BY <1>0, <2>3
  <1>2. ASSUME NEW m \in 0..(Levels - 1), m \in S PROVE m + 1 \in S
    <2>1. PICK g : g = Body(g, m)
      BY <1>2
    <2> DEFINE h == [n \in 0..(m + 1) |-> level(n, g[n - 1])]
    <2> HIDE DEF level
    <2>2. \A n \in 0..m : h[n] = g[n]
      <3>1. \A n \in 0..m : h[n] = Body(g, m)[n]
        BY <1>0
      <3> HIDE DEF h, Body
      <3> QED BY <2>1, <3>1
    <2>3. h = Body(h, m + 1)
      <3>1. \A n \in 0..(m + 1) : n # 0 => h[n - 1] = g[n - 1]
        BY <2>2, <1>0
      <3>2. \A a, b : level(0, a) = level(0, b)
        <4>1. Trees[0] = {}
          BY <1>0, TreesBuilt
        <4> QED BY <4>1 DEF level
      <3> DEFINE k == h
      <3>3. \A n \in 0..(m + 1) : level(n, k[n - 1]) = level(n, g[n - 1])
        BY <3>1, <3>2
      <3>4. k = [n \in 0..(m + 1) |-> level(n, g[n - 1])]
        OBVIOUS
      <3> HIDE DEF k
      <3>5. k = Body(k, m + 1)
        BY <3>3, <3>4
      <3> QED BY <3>5 DEF k
    <2>4. m + 1 \in 0..Levels
      BY <1>0
    <2> HIDE DEF h, Body
    <2> QED BY <2>3, <2>4
  <1>3. Levels \in S
    <2> HIDE DEF S
    <2> QED BY <1>0, <1>1, <1>2, SetInduction
  <1>4. \E g : g = Body(g, Levels)
    BY <1>3
  <1>5. Merging = CHOOSE g : g = Body(g, Levels)
    BY Zenon DEF Merging, MergedAt
  <1>6. Merging = Body(Merging, Levels)
    <2> HIDE DEF Body
    <2> QED BY <1>4, <1>5, Zenon
  <1> DEFINE M == Merging
  <1>7. M = Body(M, Levels)
    BY <1>6, Zenon
  <1> HIDE DEF M
  <1>8. \A n \in 0..Levels : M[n] = level(n, M[n - 1])
    <2> HIDE DEF level
    <2> QED BY <1>7
  <1> QED BY <1>8, Zenon DEF M

\* Merging two trees, by their types.
LEMMA MergingIs ==
    ASSUME NEW n \in 0..Levels, NEW a \in Trees[n], NEW b \in Trees[n]
    PROVE  Merging[n][<<a, b>>] = MergedAt(Merging[n - 1], a, b)
  <1> DEFINE f == [pair \in Trees[n] \X Trees[n] |-> MergedAt(Merging[n - 1], pair[1], pair[2])]
  <1>1. Merging[n] = f
    BY MergingBuilt
  <1>2. <<a, b>> \in Trees[n] \X Trees[n]
    OBVIOUS
  <1>3. f[<<a, b>>] = MergedAt(Merging[n - 1], a, b)
    <2> DEFINE X == Trees[n] \X Trees[n]
               g(p) == MergedAt(Merging[n - 1], p[1], p[2])
    <2>1. f = [p \in X |-> g(p)] /\ <<a, b>> \in X
      BY <1>2
    <2>2. g(<<a, b>>) = MergedAt(Merging[n - 1], a, b)
      OBVIOUS
    <2> HIDE DEF X, g, f
    <2>3. f[<<a, b>>] = g(<<a, b>>)
      BY <2>1
    <2> QED BY <2>2, <2>3
  <1> HIDE DEF f
  <1> QED BY <1>1, <1>3

\* Merging two trees gives a tree.
LEMMA MergingTyped ==
    \A n \in 0..Levels : \A a, b \in Trees[n] : Merging[n][<<a, b>>] \in Trees[n]
  <1> DEFINE S == {n \in 0..Levels : \A a, b \in Trees[n] : Merging[n][<<a, b>>] \in Trees[n]}
  <1>0. Levels \in Nat
    BY ConfigSpecAssumption
  <1>1. 0 \in S
    BY <1>0, TreesBuilt
  <1>2. ASSUME NEW m \in 0..(Levels - 1), m \in S PROVE m + 1 \in S
    <2> DEFINE n == m + 1
    <2>1. n \in 1..Levels /\ n - 1 = m /\ n \in 0..Levels
      BY <1>0
    <2> HIDE DEF n
    <2>2. Merges(Merging[m], n)
      BY <1>2, <2>1 DEF Merges, NodesBelow
    <2>3. ASSUME NEW a \in Trees[n], NEW b \in Trees[n]
          PROVE  Merging[n][<<a, b>>] \in Trees[n]
      <3>1. Merging[n][<<a, b>>] = MergedAt(Merging[m], a, b)
        BY <2>1, MergingIs
      <3>2. CASE a.type # b.type \/ a.type \notin {"map", "array"}
        BY <3>1, <3>2 DEF MergedAt
      <3>3. CASE a.type = b.type /\ a.type = "map"
        <4>1. a \in Maps(n) /\ b \in Maps(n)
          BY <3>3 DEF Maps
        <4>2. MergeEntries(Merging[m], a, b) \in Maps(n)
          BY <2>1, <2>2, <4>1, MergedEntries
        <4> QED BY <3>1, <3>3, <4>2 DEF MergedAt, Maps
      <3>4. CASE a.type = b.type /\ a.type = "array"
        <4>1. \A t \in Trees[n] : t.type = "array" => t.items \in Seq(NodesBelow(n))
          <5> TAKE t \in Trees[n]
          <5>1. \/ t = NullTree
                \/ t = ValueTree(t.value) /\ t.value \in LeafValue
                \/ t = ArrayTree(t.items) /\ t.items \in Seq(NodesBelow(n))
                \/ IsMapTree(t, n)
            BY <2>1, TreeIs
          <5>2. NullTree.type = "null" /\ \A x : ValueTree(x).type = "value" /\ MapTree(x).type = "map"
            BY DEF NullTree, ValueTree, MapTree
          <5> QED BY <5>1, <5>2 DEF IsMapTree
        <4>2. a.items \o b.items \in Seq(NodesBelow(n))
          <5> DEFINE Q == NodesBelow(n)
          <5>1. a.items \in Seq(Q) /\ b.items \in Seq(Q)
            BY <3>4, <4>1
          <5> HIDE DEF Q
          <5>2. a.items \o b.items \in Seq(Q)
            BY <5>1
          <5> QED BY <5>2 DEF Q
        <4> DEFINE c == ArrayTree(a.items \o b.items)
        <4>3. c.items = a.items \o b.items
          BY DEF ArrayTree
        <4>4. c = ArrayTree(c.items) /\ c.items \in Seq(NodesBelow(n))
          BY <4>2, <4>3
        <4> HIDE DEF c
        <4>5. c \in Trees[n]
          BY <2>1, <4>4, TreeIs
        <4> QED BY <3>1, <3>4, <4>5 DEF MergedAt, c
      <3> QED BY <3>2, <3>3, <3>4
    <2>4. n \in S
      BY <2>1, <2>3
    <2> QED BY <2>4 DEF n
  <1>3. \A n \in 0..Levels : n \in S
    <2> HIDE DEF S
    <2> QED BY <1>0, <1>1, <1>2, SetInduction
  <1> QED BY <1>3

\* So does TreeMerge.
LEMMA TreeMergeTyped ==
    ASSUME NEW tree \in Trees[Levels], NEW new \in Trees[Levels]
    PROVE  TreeMerge(tree, new) \in Trees[Levels]
  <1>1. Levels \in 0..Levels
    BY ConfigSpecAssumption
  <1> QED BY <1>1, MergingTyped DEF TreeMerge

-----------------------------------------------------------------------------
(* Paths and walks *)

\* The nodes a path goes through.
IsWalk(g, tree, path) ==
    /\ DOMAIN g = 0..Len(path) /\ g[0] = tree
    /\ \A i \in 1..Len(path) : g[i] = Child(g[i - 1], path[i])

\* Lookup gives the last node of a walk.
LEMMA LookupWalks ==
    ASSUME NEW tree, NEW path, Len(path) \in Nat
    PROVE  \E g : IsWalk(g, tree, path) /\ Lookup(tree, path) = g[Len(path)]
  <1> DEFINE l == Len(path)
             rule(f, i) == Child(f[i - 1], path[i])
             Body(f, m) == [i \in 0..m |-> IF i = 0 THEN tree ELSE rule(f, i)]
             S == {m \in 0..l : \E f : f = Body(f, m)}
  <1>0. l \in Nat
    OBVIOUS
  <1>1. 0 \in S
    <2> DEFINE f == [i \in 0..0 |-> tree]
    <2> HIDE DEF rule
    <2>1. f = Body(f, 0)
      OBVIOUS
    <2> HIDE DEF f, Body
    <2> QED BY <1>0, <2>1
  <1>2. ASSUME NEW m \in 0..(l - 1), m \in S PROVE m + 1 \in S
    <2>1. PICK f : f = Body(f, m)
      BY <1>2
    <2> DEFINE h == [i \in 0..(m + 1) |-> IF i = 0 THEN tree ELSE rule(f, i)]
    <2>2. \A i \in 0..m : h[i] = f[i]
      <3>1. \A i \in 0..m : h[i] = Body(f, m)[i]
        <4> HIDE DEF rule
        <4> QED BY <1>0
      <3> HIDE DEF h, Body
      <3> QED BY <2>1, <3>1
    <2>3. h = Body(h, m + 1)
      <3>1. \A i \in 0..(m + 1) : i # 0 => h[i - 1] = f[i - 1]
        <4> HIDE DEF h
        <4> QED BY <2>2, <1>0
      <3> DEFINE k == h
      <3>2. \A i \in 0..(m + 1) : i # 0 => rule(k, i) = rule(f, i)
        BY <3>1
      <3> HIDE DEF rule
      <3>3. k = [i \in 0..(m + 1) |-> IF i = 0 THEN tree ELSE rule(f, i)]
        OBVIOUS
      <3> HIDE DEF k
      <3>4. k = Body(k, m + 1)
        BY <3>2, <3>3
      <3> QED BY <3>4 DEF k
    <2>4. m + 1 \in 0..l
      BY <1>0
    <2> HIDE DEF h, Body
    <2> QED BY <2>3, <2>4
  <1>3. l \in S
    <2> HIDE DEF S, l
    <2> QED BY <1>0, <1>1, <1>2, SetInduction, SMTT(60)
  <1>4. \E f : f = Body(f, l)
    BY <1>3
  <1> DEFINE g == CHOOSE f : f = Body(f, l)
  <1>5. Lookup(tree, path) = g[l]
    BY Zenon DEF Lookup
  <1>6. g = Body(g, l)
    <2> HIDE DEF Body
    <2> QED BY <1>4, Zenon
  <1> HIDE DEF g
  <1>7. DOMAIN g = 0..l /\ g[0] = tree /\ \A i \in 1..l : g[i] = rule(g, i)
    <2> HIDE DEF rule, l
    <2> DEFINE B == Body(g, l)
    <2>1. DOMAIN B = 0..l /\ B[0] = tree /\ \A i \in 1..l : B[i] = rule(g, i)
      BY <1>0
    <2> HIDE DEF B
    <2> QED BY <1>6, <2>1 DEF B
  <1>8. IsWalk(g, tree, path)
    BY <1>7 DEF IsWalk
  <1> QED BY <1>5, <1>8

\* A walk has only one way to go.
LEMMA WalkIs ==
    ASSUME NEW tree, NEW path, Len(path) \in Nat, NEW g, IsWalk(g, tree, path)
    PROVE  Lookup(tree, path) = g[Len(path)]
  <1>1. PICK f : IsWalk(f, tree, path) /\ Lookup(tree, path) = f[Len(path)]
    BY LookupWalks
  <1> DEFINE l == Len(path)
             S == {i \in 0..l : f[i] = g[i]}
  <1>0. l \in Nat
    OBVIOUS
  <1>2. /\ f[0] = tree /\ g[0] = tree
        /\ \A i \in 1..l : f[i] = Child(f[i - 1], path[i]) /\ g[i] = Child(g[i - 1], path[i])
    BY <1>1 DEF IsWalk
  <1>3. 0 \in S
    BY <1>0, <1>2
  <1>4. ASSUME NEW i \in 0..(l - 1), i \in S PROVE i + 1 \in S
    <2>1. i + 1 \in 1..l /\ (i + 1) - 1 = i /\ f[i] = g[i] /\ i + 1 \in 0..l
      BY <1>0, <1>4
    <2>2. f[i + 1] = g[i + 1]
      BY <1>2, <2>1
    <2> QED BY <2>1, <2>2
  <1>5. \A i \in 0..l : i \in S
    <2> HIDE DEF S, l
    <2> QED BY <1>0, <1>3, <1>4, SetInduction
  <1>6. l \in 0..l
    BY <1>0
  <1>7. l \in S
    BY <1>5, <1>6
  <1> QED BY <1>1, <1>7

\* A step by key.
LEMMA ChildByKey ==
    ASSUME NEW tree, NEW step, IsKey(step)
    PROVE  Child(tree, step) = LookupKey(tree, step.key)
  <1>1. IsKey(KeyStep(step.key)) /\ KeyStep(step.key).key = step.key
    BY DEF IsKey, KeyStep
  <1> QED BY <1>1, Zenon DEF Child, LookupKey

\* The node on the way down both trees and their merge.
OnTheWay(n, i, a, b, c, parted) ==
    \/ /\ i < n /\ a \in Trees[n - i] /\ b \in Trees[n - i]
       /\ c = Merging[n - i][<<a, b>>]
    \/ b # Absent /\ b \in Trees[n - i] /\ i < n /\ c = b /\ (parted => a = Absent)
    \/ b = Absent /\ c = a
    \/ b = Absent /\ c = Absent /\ (parted => a = Absent)

\* The nodes of b above i are maps or not there.
MapsAbove(b, i) == \A h \in 0..(i - 1) : b[h] = Absent \/ b[h].type = "map"

\* Walking down two trees and their merge at the same time.
LEMMA MergedWalks ==
    ASSUME NEW n \in 0..Levels, NEW x \in Trees[n], NEW y \in Trees[n],
           NEW path, Len(path) \in Nat, \A i \in 1..Len(path) : IsKey(path[i]),
           NEW a, NEW b, NEW c,
           IsWalk(a, x, path), IsWalk(b, y, path), IsWalk(c, Merging[n][<<x, y>>], path)
    PROVE  \A i \in 0..Len(path) : OnTheWay(n, i, a[i], b[i], c[i], MapsAbove(b, i))
  <1> DEFINE l == Len(path)
             P(i) == OnTheWay(n, i, a[i], b[i], c[i], MapsAbove(b, i))
             S == {i \in 0..l : P(i)}
  <1>0. l \in Nat /\ Levels \in Nat /\ n \in Nat
    BY ConfigSpecAssumption
  <1>1. /\ a[0] = x /\ b[0] = y /\ c[0] = Merging[n][<<x, y>>]
        /\ \A i \in 1..l : /\ a[i] = LookupKey(a[i - 1], path[i].key)
                           /\ b[i] = LookupKey(b[i - 1], path[i].key)
                           /\ c[i] = LookupKey(c[i - 1], path[i].key)
    <2>1. \A i \in 1..l : /\ a[i] = Child(a[i - 1], path[i])
                          /\ b[i] = Child(b[i - 1], path[i])
                          /\ c[i] = Child(c[i - 1], path[i])
      BY DEF IsWalk
    <2>2. a[0] = x /\ b[0] = y /\ c[0] = Merging[n][<<x, y>>]
      BY DEF IsWalk
    <2> QED BY <2>1, <2>2, ChildByKey
  <1>2. 0 \in S
    <2>1. n # 0
      BY <1>0, TreesBuilt
    <2>2. P(0)
      BY <1>0, <1>1, <2>1 DEF OnTheWay
    <2> QED BY <1>0, <2>2
  <1>3. ASSUME NEW i \in 0..(l - 1), i \in S PROVE i + 1 \in S
    <2> DEFINE j == i + 1
               k == path[j].key
               m == n - i
    <2>1. j \in 1..l /\ j - 1 = i /\ i \in 0..l /\ j \in 0..l
      BY <1>0
    <2>2. /\ a[j] = LookupKey(a[i], k) /\ b[j] = LookupKey(b[i], k)
          /\ c[j] = LookupKey(c[i], k)
      BY <1>1, <2>1
    <2>3. OnTheWay(n, i, a[i], b[i], c[i], MapsAbove(b, i))
      BY <1>3
    <2>4. MapsAbove(b, j) => MapsAbove(b, i) /\ (b[i] = Absent \/ b[i].type = "map")
      BY <2>1 DEF MapsAbove
    <2>5. LookupKey(Absent, k) = Absent
      <3>1. Absent.type = "absent"
        BY DEF Absent
      <3> QED BY <3>1, LookupKeyIs
    <2>6. \A t : t.type # "map" => LookupKey(t, k) = Absent
      BY LookupKeyIs
    <2>7. i < n => m \in 1..Levels /\ NodesBelow(m) = Trees[n - j] /\ n - j = m - 1
      BY <1>0, <2>1 DEF NodesBelow
    <2>8. \A t \in Trees[m] : i < n => LookupKey(t, k) = Absent \/ (j < n /\ LookupKey(t, k) \in Trees[n - j])
      <3> TAKE t \in Trees[m]
      <3> HAVE i < n
      <3>1. LookupKey(t, k) \in NodesBelow(m) \cup {Absent}
        BY <2>7, LookupKeyTyped
      <3>2. j >= n => Trees[n - j] = {}
        <4>1. j >= n => n - j = 0
          BY <1>0, <2>1
        <4>2. Trees[0] = {}
          BY <1>0, TreesBuilt
        <4> QED BY <4>1, <4>2
      <3>3. j < n \/ j >= n
        BY <1>0, <2>1
      <3>4. LookupKey(t, k) \in Trees[n - j] \cup {Absent}
        BY <2>7, <3>1
      <3> QED BY <3>2, <3>3, <3>4
    <2>9. ASSUME i < n, a[i] \in Trees[m], b[i] \in Trees[m], c[i] = Merging[m][<<a[i], b[i]>>]
          PROVE  P(j)
      <3> DEFINE u == a[i]
                 v == b[i]
                 merge == Merging[m - 1]
      <3>1. c[i] = MergedAt(merge, u, v) /\ m \in 1..Levels
        <4>1. m \in 0..Levels /\ m \in 1..Levels
          BY <1>0, <2>7, <2>9
        <4> QED BY <2>9, <4>1, MergingIs
      <3>2. CASE u.type = v.type /\ u.type = "map"
        <4>1. u \in Maps(m) /\ v \in Maps(m)
          BY <2>9, <3>2 DEF Maps
        <4>2. c[i] = MergeEntries(merge, u, v)
          BY <3>1, <3>2 DEF MergedAt
        <4>3. Merges(merge, m)
          <5>1. m - 1 \in 0..Levels
            BY <1>0, <3>1
          <5> QED BY <5>1, MergingTyped DEF Merges, NodesBelow
        <4>4. c[j] = IF b[j] = Absent THEN a[j] ELSE Joined(merge, a[j], b[j])
          <5>1. \A q : LookupKey(MergeEntries(merge, u, v), q)
                       = IF LookupKey(v, q) = Absent THEN LookupKey(u, q)
                         ELSE Joined(merge, LookupKey(u, q), LookupKey(v, q))
            BY <3>1, <4>1, <4>3, MergedEntries
          <5> QED BY <2>2, <4>2, <5>1
        <4>5. CASE b[j] = Absent
          BY <4>4, <4>5 DEF OnTheWay
        <4>6. CASE b[j] # Absent /\ a[j] = Absent
          <5>1. c[j] = b[j]
            BY <4>4, <4>6 DEF Joined
          <5>2. j < n /\ b[j] \in Trees[n - j]
            BY <2>2, <2>8, <2>9, <4>6
          <5> QED BY <4>6, <5>1, <5>2 DEF OnTheWay
        <4>7. CASE b[j] # Absent /\ a[j] # Absent
          <5>1. c[j] = Merging[n - j][<<a[j], b[j]>>]
            BY <2>7, <2>9, <4>4, <4>7 DEF Joined
          <5>2. j < n /\ b[j] \in Trees[n - j] /\ a[j] \in Trees[n - j]
            BY <2>2, <2>8, <2>9, <4>7
          <5> QED BY <5>1, <5>2 DEF OnTheWay
        <4> QED BY <4>5, <4>6, <4>7
      <3>3. CASE u.type = v.type /\ u.type = "array"
        <4>1. c[i].type = "array"
          BY <3>1, <3>3 DEF MergedAt, ArrayTree
        <4>2. a[j] = Absent /\ b[j] = Absent /\ c[j] = Absent
          BY <2>2, <2>6, <3>3, <4>1
        <4> QED BY <4>2 DEF OnTheWay
      <3>4. CASE u.type # v.type \/ u.type \notin {"map", "array"}
        <4>1. c[i] = v
          BY <3>1, <3>4 DEF MergedAt
        <4>2. c[j] = b[j]
          BY <2>2, <4>1
        <4>3. MapsAbove(b, j) => a[j] = Absent
          <5>1. v # Absent
            <6>1. m \in 0..Levels
              BY <1>0, <2>7, <2>9
            <6> QED BY <2>9, <6>1, PresentNode
          <5> QED BY <2>2, <2>4, <2>6, <3>4, <5>1
        <4>4. CASE b[j] = Absent
          BY <4>2, <4>3, <4>4 DEF OnTheWay
        <4>5. CASE b[j] # Absent
          <5>1. j < n /\ b[j] \in Trees[n - j]
            BY <2>2, <2>8, <2>9, <4>5
          <5> QED BY <4>2, <4>3, <4>5, <5>1 DEF OnTheWay
        <4> QED BY <4>4, <4>5
      <3> QED BY <3>2, <3>3, <3>4
    <2>10. ASSUME b[i] # Absent, b[i] \in Trees[m], i < n, c[i] = b[i],
                  MapsAbove(b, i) => a[i] = Absent
           PROVE  P(j)
      <3>1. c[j] = b[j]
        BY <2>2, <2>10
      <3>2. MapsAbove(b, j) => a[j] = Absent
        BY <2>2, <2>4, <2>5, <2>10
      <3>3. CASE b[j] = Absent
        BY <3>1, <3>2, <3>3 DEF OnTheWay
      <3>4. CASE b[j] # Absent
        <4>1. j < n /\ b[j] \in Trees[n - j]
          BY <2>2, <2>8, <2>10, <3>4
        <4> QED BY <3>1, <3>2, <3>4, <4>1 DEF OnTheWay
      <3> QED BY <3>3, <3>4
    <2>11. ASSUME b[i] = Absent, c[i] = a[i] PROVE P(j)
      BY <2>2, <2>5, <2>11 DEF OnTheWay
    <2>12. ASSUME b[i] = Absent, c[i] = Absent, MapsAbove(b, i) => a[i] = Absent
           PROVE  P(j)
      BY <2>2, <2>4, <2>5, <2>12 DEF OnTheWay
    <2>13. P(j)
      <3> HIDE DEF P
      <3> QED BY <2>3, <2>9, <2>10, <2>11, <2>12 DEF OnTheWay
    <2>14. j \in S
      <3> HIDE DEF P
      <3> QED BY <2>1, <2>13
    <2> QED BY <2>14
  <1>4. \A i \in 0..l : i \in S
    <2> HIDE DEF S, l
    <2> QED BY <1>0, <1>2, <1>3, SetInduction
  <1> QED BY <1>4

\* The first steps of a path are a walk of their own.
LEMMA PrefixWalks ==
    ASSUME NEW tree, NEW X, NEW path \in Seq(X), NEW g, IsWalk(g, tree, path),
           NEW i \in 0..Len(path)
    PROVE  Lookup(tree, SubSeq(path, 1, i)) = g[i]
  <1> DEFINE p == SubSeq(path, 1, i)
             f == [h \in 0..i |-> g[h]]
  <1>0. Len(path) \in Nat /\ i \in Nat /\ i <= Len(path)
    OBVIOUS
  <1>1. Len(p) = i /\ \A h \in 1..i : p[h] = path[h]
    BY <1>0
  <1>2. /\ g[0] = tree /\ \A h \in 1..Len(path) : g[h] = Child(g[h - 1], path[h])
    BY DEF IsWalk
  <1> HIDE DEF p
  <1>3. /\ DOMAIN f = 0..i /\ f[0] = tree /\ f[i] = g[i]
        /\ \A h \in 1..i : f[h] = g[h] /\ f[h - 1] = g[h - 1]
    BY <1>0, <1>2
  <1> HIDE DEF f
  <1>4. \A h \in 1..i : f[h] = Child(f[h - 1], p[h])
    <2> TAKE h \in 1..i
    <2>1. h \in 1..Len(path)
      BY <1>0
    <2> QED BY <1>1, <1>2, <1>3, <2>1
  <1>5. IsWalk(f, tree, p)
    BY <1>1, <1>3, <1>4 DEF IsWalk
  <1>6. Lookup(tree, p) = f[Len(p)]
    BY <1>0, <1>1, <1>5, WalkIs
  <1> QED BY <1>1, <1>3, <1>6 DEF p

\* Nothing but maps above the end of a path.
OpenTo(tree, path) ==
    \A n \in 0..(Len(path) - 1) :
        \/ Lookup(tree, SubSeq(path, 1, n)) = Absent
        \/ Lookup(tree, SubSeq(path, 1, n)).type = "map"

\* A path is open when its walk meets nothing but maps.
LEMMA OpenWalk ==
    ASSUME NEW tree, NEW X, NEW path \in Seq(X), NEW g, IsWalk(g, tree, path)
    PROVE  OpenTo(tree, path) <=> MapsAbove(g, Len(path))
  <1>1. \A n \in 0..(Len(path) - 1) : Lookup(tree, SubSeq(path, 1, n)) = g[n]
    <2> TAKE n \in 0..(Len(path) - 1)
    <2>1. n \in 0..Len(path)
      OBVIOUS
    <2> QED BY <2>1, PrefixWalks
  <1> QED BY <1>1, Zenon DEF OpenTo, MapsAbove

ByKeys(path) == \A i \in 1..Len(path) : IsKey(path[i])

\* Two nodes at the end of a path, merged.
AtTheEnd(a, b, c, open0) ==
    \/ /\ a # Absent /\ b # Absent
       /\ IF a.type # b.type \/ a.type \notin {"map", "array"} THEN c = b
          ELSE a.type = "array" => c = ArrayTree(a.items \o b.items)
    \/ b # Absent /\ c = b /\ (open0 => a = Absent)
    \/ b = Absent /\ c = a
    \/ b = Absent /\ c = Absent /\ (open0 => a = Absent)

\* What a path reads after a merge.
LEMMA MergedLookup ==
    ASSUME NEW x \in Trees[Levels], NEW y \in Trees[Levels],
           NEW X, NEW path \in Seq(X), ByKeys(path)
    PROVE  AtTheEnd(Lookup(x, path), Lookup(y, path), Lookup(TreeMerge(x, y), path),
                    OpenTo(y, path))
  <1> DEFINE z == TreeMerge(x, y)
             l == Len(path)
  <1>0. l \in Nat /\ Levels \in Nat /\ Levels \in 0..Levels
    BY ConfigSpecAssumption
  <1>1. PICK a : IsWalk(a, x, path) /\ Lookup(x, path) = a[l]
    BY <1>0, LookupWalks
  <1>2. PICK b : IsWalk(b, y, path) /\ Lookup(y, path) = b[l]
    BY <1>0, LookupWalks
  <1>3. PICK c : IsWalk(c, z, path) /\ Lookup(z, path) = c[l]
    BY <1>0, LookupWalks
  <1>4. IsWalk(c, Merging[Levels][<<x, y>>], path)
    BY <1>3 DEF TreeMerge
  <1>5. \A i \in 1..Len(path) : IsKey(path[i])
    BY DEF ByKeys
  <1>6. OnTheWay(Levels, l, a[l], b[l], c[l], MapsAbove(b, l))
    <2>1. \A i \in 0..Len(path) : OnTheWay(Levels, i, a[i], b[i], c[i], MapsAbove(b, i))
      BY <1>0, <1>1, <1>2, <1>4, <1>5, MergedWalks
    <2> QED BY <1>0, <2>1
  <1>7. OpenTo(y, path) <=> MapsAbove(b, l)
    BY <1>2, OpenWalk
  <1>8. ASSUME l < Levels, a[l] \in Trees[Levels - l], b[l] \in Trees[Levels - l],
               c[l] = Merging[Levels - l][<<a[l], b[l]>>]
        PROVE  /\ a[l] # Absent /\ b[l] # Absent
               /\ IF a[l].type # b[l].type \/ a[l].type \notin {"map", "array"} THEN c[l] = b[l]
                  ELSE a[l].type = "array" => c[l] = ArrayTree(a[l].items \o b[l].items)
    <2>1. Levels - l \in 0..Levels
      BY <1>0, <1>8
    <2>2. c[l] = MergedAt(Merging[Levels - l - 1], a[l], b[l])
      BY <1>8, <2>1, MergingIs
    <2>3. a[l] # Absent /\ b[l] # Absent
      BY <1>8, <2>1, PresentNode
    <2> QED BY <2>2, <2>3 DEF MergedAt
  <1> QED BY <1>1, <1>2, <1>3, <1>6, <1>7, <1>8 DEF OnTheWay, AtTheEnd

-----------------------------------------------------------------------------
(* dtbo.txt and cmdline.txt *)

\* Texts, switches and empty maps at any level but the lowest.
LEMMA Leaf ==
    ASSUME NEW n \in 1..Levels
    PROVE  /\ \A s \in Strings : Str(s) \in Trees[n]
           /\ \A b \in BOOLEAN : Bool(b) \in Trees[n]
  <1>1. \A v \in LeafValue : ValueTree(v) \in Trees[n]
    <2> TAKE v \in LeafValue
    <2>1. ValueTree(v).value = v
      BY DEF ValueTree
    <2> QED BY <2>1, TreeIs
  <1>2. \A s \in Strings : [kind |-> "string", s |-> s] \in LeafValue
    BY DEF LeafValue
  <1>3. \A b \in BOOLEAN : [kind |-> "bool", b |-> b] \in LeafValue
    BY DEF LeafValue
  <1> QED BY <1>1, <1>2, <1>3 DEF Str, Bool

\* MapOrEmpty gives a map.
LEMMA MapOrEmptyTyped ==
    ASSUME NEW n \in 1..Levels, NEW t \in Trees[n] \cup {Absent}
    PROVE  MapOrEmpty(t) \in Maps(n)
  <1>1. Absent.type # "map"
    BY DEF Absent
  <1> QED BY <1>1, EmptyMap DEF MapOrEmpty, Maps

\* A node that was there is still there, as far as other keys are concerned.
LEMMA MapOrEmptyOf ==
    ASSUME NEW t, NEW k
    PROVE  LookupKey(MapOrEmpty(t), k) = LookupKey(t, k)
  <1>1. MapTree(<<>>).type = "map" /\ MapTree(<<>>).items = <<>>
    BY DEF MapTree
  <1>2. PositionOf(MapTree(<<>>), k) = 0
    <2>1. Len(MapTree(<<>>).items) = 0
      BY <1>1
    <2> QED BY <2>1, PositionIs
  <1>3. LookupKey(MapTree(<<>>), k) = Absent
    BY <1>2, LookupKeyIs
  <1> QED BY <1>3, LookupKeyIs DEF MapOrEmpty

\* The parameters of an overlay are set under its key "params" only.
LEMMA ParamsSet ==
    ASSUME NEW n \in 3..Levels, NEW overlay \in Maps(n),
           NEW params \in Seq([name : Keys, value : Strings])
    PROVE  /\ SetParams(overlay, params) \in Maps(n)
           /\ \A k : k # "params" => LookupKey(SetParams(overlay, params), k) = LookupKey(overlay, k)
  <1> DEFINE l == Len(params)
             X == Maps(n - 1)
             start == MapOrEmpty(LookupKey(overlay, "params"))
             rule(t, i) == WithKey(t, params[i].name, Str(params[i].value))
             step == [p \in X \X (1..l) |-> rule(p[1], p[2])]
             Body(f) == [i \in 0..l |-> IF i = 0 THEN start ELSE rule(f[i - 1], i)]
             m == CHOOSE f : f = Body(f)
  <1>0. /\ l \in Nat /\ Levels \in Nat /\ n - 1 \in 1..Levels /\ n - 2 \in 1..Levels
        /\ n \in 1..Levels /\ NodesBelow(n) = Trees[n - 1] /\ NodesBelow(n - 1) = Trees[n - 2]
    BY ConfigSpecAssumption DEF NodesBelow
  <1>a. \A i \in 1..l : params[i].name \in Keys /\ params[i].value \in Strings
    <2> DEFINE R == [name : Keys, value : Strings]
    <2>1. params \in Seq(R)
      OBVIOUS
    <2>2. \A r \in R : r.name \in Keys /\ r.value \in Strings
      OBVIOUS
    <2> HIDE DEF R
    <2>3. \A i \in 1..l : params[i] \in R
      BY <2>1
    <2> QED BY <2>2, <2>3
  <1>1. SetParams(overlay, params) = WithKey(overlay, "params", m[l])
    BY Zenon DEF SetParams
  <1>2. \A t \in X, i \in 1..l : rule(t, i) \in X
    <2> TAKE t \in X, i \in 1..l
    <2>1. params[i].name \in Keys /\ Str(params[i].value) \in NodesBelow(n - 1)
      BY <1>0, <1>a, Leaf
    <2> QED BY <1>0, <2>1, WithKeyIs
  <1>3. start \in X
    <2>1. LookupKey(overlay, "params") \in Trees[n - 1] \cup {Absent}
      BY <1>0, LookupKeyTyped DEF Maps
    <2> QED BY <1>0, <2>1, MapOrEmptyTyped
  <1> HIDE DEF rule, X, start, l
  <1>4. IsStep(step, X, l)
    <2>1. step \in [X \X (1..l) -> X]
      BY <1>2
    <2> QED BY <2>1 DEF IsStep
  <1>5. \A t \in X, i \in 1..l : step[<<t, i>>] = rule(t, i)
    OBVIOUS
  <1> HIDE DEF step
  <1>6. PICK g : Iterates(g, X, l, start, step)
    BY <1>0, <1>3, <1>4, Iteration, Zenon
  <1>7. g \in [0..l -> X] /\ g[0] = start /\ \A i \in 1..l : g[i] = step[<<g[i - 1], i>>]
    BY <1>6 DEF Iterates
  <1>8. g = Body(g)
    <2>1. \A i \in 1..l : g[i - 1] \in X
      BY <1>0, <1>7
    <2>2. \A i \in 1..l : g[i] = rule(g[i - 1], i)
      BY <1>5, <1>7, <2>1
    <2>3. \A i \in 0..l : g[i] = IF i = 0 THEN start ELSE rule(g[i - 1], i)
      BY <1>0, <1>7, <2>2
    <2> QED BY <1>7, <2>3
  <1>9. m = Body(m)
    <2> HIDE DEF Body
    <2> QED BY <1>8, Zenon
  <1> HIDE DEF m
  <1>10. m[0] = start /\ \A i \in 1..l : m[i] = rule(m[i - 1], i)
    <2> DEFINE B == Body(m)
    <2>1. B[0] = start /\ \A i \in 1..l : B[i] = rule(m[i - 1], i)
      BY <1>0
    <2> HIDE DEF B
    <2> QED BY <1>9, <2>1 DEF B
  <1> DEFINE S == {i \in 0..l : m[i] \in X}
  <1>11. 0 \in S
    BY <1>0, <1>3, <1>10
  <1>12. ASSUME NEW i \in 0..(l - 1), i \in S PROVE i + 1 \in S
    <2>1. i + 1 \in 1..l /\ (i + 1) - 1 = i /\ m[i] \in X /\ i + 1 \in 0..l
      BY <1>0, <1>12
    <2> QED BY <1>2, <1>10, <2>1
  <1>13. l \in S
    <2> HIDE DEF S
    <2>1. \A i \in 0..l : i \in S
      BY <1>0, <1>11, <1>12, SetInduction
    <2> QED BY <1>0, <2>1
  <1>14. m[l] \in NodesBelow(n)
    BY <1>0, <1>13 DEF X, Maps
  <1>15. "params" \in Keys
    BY KeysAssumption
  <1> QED BY <1>0, <1>1, <1>14, <1>15, WithKeyIs

\* The node a line of dtbo.txt configures: enabled, with its profile; the
\* other overlays stay.
StoresOverlay(overlays, new, name, profile) ==
    /\ \A k : k # name => LookupKey(new, k) = LookupKey(overlays, k)
    /\ LookupKey(LookupKey(new, name), "enabled") = Bool(TRUE)
    /\ profile # None => LookupKey(LookupKey(new, name), "profile") = Str(profile)

ProfileOf(line, section) == IF line.profile # None THEN line.profile ELSE section

\* StoreOverlay configures the overlay of its line and no other.
LEMMA OverlayStored ==
    ASSUME NEW n \in 4..Levels, NEW overlays \in Maps(n), NEW line, IsLine(line),
           line.kind = "overlay", NEW section \in Strings \cup {None}
    PROVE  /\ StoreOverlay(overlays, line, section) \in Maps(n)
           /\ StoresOverlay(overlays, StoreOverlay(overlays, line, section), line.name,
                            ProfileOf(line, section))
  <1> DEFINE name == line.name
             profile == ProfileOf(line, section)
             old == MapOrEmpty(LookupKey(overlays, name))
             enabled == WithKey(old, "enabled", Bool(TRUE))
             scoped == IF profile = None THEN enabled ELSE WithKey(enabled, "profile", Str(profile))
             node == IF line.params = <<>> THEN scoped ELSE SetParams(scoped, line.params)
  <1>0. /\ Levels \in Nat /\ n \in 1..Levels /\ n - 1 \in 1..Levels /\ n - 2 \in 1..Levels
        /\ n - 1 \in 3..Levels
        /\ NodesBelow(n) = Trees[n - 1] /\ NodesBelow(n - 1) = Trees[n - 2]
    BY ConfigSpecAssumption DEF NodesBelow
  <1>1. StoreOverlay(overlays, line, section) = WithKey(overlays, name, node)
    BY Zenon DEF StoreOverlay, ProfileOf
  <1>2. /\ name \in Keys /\ line.params \in Seq([name : Keys, value : Strings])
        /\ profile \in Strings \cup {None}
    BY DEF IsLine, ProfileOf
  <1>3. {"enabled", "profile"} \subseteq Keys
    BY KeysAssumption
  <1>4. old \in Maps(n - 1)
    <2>1. LookupKey(overlays, name) \in Trees[n - 1] \cup {Absent}
      BY <1>0, LookupKeyTyped DEF Maps
    <2> QED BY <1>0, <2>1, MapOrEmptyTyped
  <1> HIDE DEF old, profile
  <1>5. enabled \in Maps(n - 1) /\ LookupKey(enabled, "enabled") = Bool(TRUE)
    <2>1. Bool(TRUE) \in NodesBelow(n - 1)
      BY <1>0, Leaf
    <2> QED BY <1>0, <1>3, <1>4, <2>1, WithKeyIs
  <1> HIDE DEF enabled
  <1>6. /\ scoped \in Maps(n - 1) /\ LookupKey(scoped, "enabled") = Bool(TRUE)
        /\ profile # None => LookupKey(scoped, "profile") = Str(profile)
    <2>1. CASE profile = None
      BY <1>5, <2>1 DEF scoped
    <2>2. CASE profile # None
      <3>1. Str(profile) \in NodesBelow(n - 1)
        BY <1>0, <1>2, <2>2, Leaf
      <3>2. WithKey(enabled, "profile", Str(profile)) \in Maps(n - 1)
            /\ LookupKey(WithKey(enabled, "profile", Str(profile)), "profile") = Str(profile)
            /\ LookupKey(WithKey(enabled, "profile", Str(profile)), "enabled")
                 = LookupKey(enabled, "enabled")
        BY <1>0, <1>3, <1>5, <3>1, WithKeyIs
      <3> QED BY <1>5, <2>2, <3>2 DEF scoped
    <2> QED BY <2>1, <2>2
  <1> HIDE DEF scoped
  <1>7. /\ node \in Maps(n - 1) /\ LookupKey(node, "enabled") = Bool(TRUE)
        /\ profile # None => LookupKey(node, "profile") = Str(profile)
    <2>1. CASE line.params = <<>>
      BY <1>6, <2>1
    <2>2. CASE line.params # <<>>
      <3>1. /\ SetParams(scoped, line.params) \in Maps(n - 1)
            /\ \A k : k # "params" =>
                  LookupKey(SetParams(scoped, line.params), k) = LookupKey(scoped, k)
        BY <1>0, <1>2, <1>6, ParamsSet
      <3> QED BY <1>6, <2>2, <3>1
    <2> QED BY <2>1, <2>2
  <1> HIDE DEF node
  <1>8. node \in NodesBelow(n)
    BY <1>0, <1>7 DEF Maps
  <1>9. /\ WithKey(overlays, name, node) \in Maps(n)
        /\ \A k : k # name => LookupKey(WithKey(overlays, name, node), k) = LookupKey(overlays, k)
        /\ LookupKey(WithKey(overlays, name, node), name) = node
    BY <1>0, <1>2, <1>8, WithKeyIs
  <1> QED BY <1>1, <1>7, <1>9 DEF StoresOverlay, profile

\* What is known of dtbo.txt after some of its lines.
Reading == [ok : BOOLEAN, section : Strings \cup {None}, overlays : Maps(Levels - 2)]

\* A line that is read leaves something of the same kind.
LEMMA LineRead ==
    ASSUME NEW t \in Reading, NEW line, IsLine(line)
    PROVE  ReadOverlayLine(t, line) \in Reading
  <1>0. Levels \in Nat /\ Levels - 2 \in 4..Levels
    BY ConfigSpecAssumption, KeysAssumption
  <1> DEFINE M == Maps(Levels - 2)
             stored == StoreOverlay(t.overlays, line, t.section)
  <1>1. t.ok \in BOOLEAN /\ t.section \in Strings \cup {None} /\ t.overlays \in M
        /\ t = [ok |-> t.ok, section |-> t.section, overlays |-> t.overlays]
    BY DEF Reading
  <1>2. line.kind = "overlay" => stored \in M
    BY <1>0, <1>1, OverlayStored
  <1>3. line.kind \in {"ignored", "malformed", "section", "overlay"}
        /\ (line.kind \in {"section", "overlay"} => line.profile \in Strings \cup {None})
    BY DEF IsLine
  <1> DEFINE new == ReadOverlayLine(t, line)
  <1>4. CASE ~t.ok \/ line.kind = "ignored"
    <2>1. new = t
      BY <1>4 DEF ReadOverlayLine
    <2> QED BY <2>1
  <1>5. CASE t.ok /\ line.kind = "malformed"
    <2>1. new = [t EXCEPT !.ok = FALSE]
      BY <1>5 DEF ReadOverlayLine
    <2> HIDE DEF M, new
    <2> QED BY <1>1, <2>1 DEF Reading, M, new
  <1>6. CASE t.ok /\ line.kind = "section"
    <2>1. new = [t EXCEPT !.section = line.profile]
      BY <1>6 DEF ReadOverlayLine
    <2> HIDE DEF M, new
    <2> QED BY <1>1, <1>3, <1>6, <2>1 DEF Reading, M, new
  <1>7. CASE t.ok /\ line.kind = "overlay"
    <2>1. new = [t EXCEPT !.overlays = stored]
      BY <1>7 DEF ReadOverlayLine
    <2> HIDE DEF M, new, stored
    <2> QED BY <1>1, <1>2, <1>7, <2>1 DEF Reading, M, new
  <1> QED BY <1>1, <1>3, <1>4, <1>5, <1>6, <1>7

\* What dtbo.txt adds to.
ReadingStart(tree) ==
    [ok |-> TRUE, section |-> None,
     overlays |-> MapOrEmpty(LookupKey(MapOrEmpty(LookupKey(tree, "devicetree")), "overlays"))]

IsReading(m, tree, lines) ==
    /\ m \in [0..Len(lines) -> Reading] /\ m[0] = ReadingStart(tree)
    /\ \A i \in 1..Len(lines) : m[i] = ReadOverlayLine(m[i - 1], lines[i])

\* A subtree two levels down.
LEMMA DevicetreeTyped ==
    ASSUME NEW tree \in Trees[Levels]
    PROVE  /\ MapOrEmpty(LookupKey(tree, "devicetree")) \in Maps(Levels - 1)
           /\ ReadingStart(tree) \in Reading
           /\ MapOrEmpty(LookupKey(tree, "menu")) \in Maps(Levels - 1)
  <1>0. /\ Levels \in Nat /\ Levels \in 1..Levels /\ Levels - 1 \in 1..Levels
        /\ Levels - 2 \in 1..Levels
        /\ NodesBelow(Levels) = Trees[Levels - 1] /\ NodesBelow(Levels - 1) = Trees[Levels - 2]
    BY ConfigSpecAssumption, KeysAssumption DEF NodesBelow
  <1>1. \A k : MapOrEmpty(LookupKey(tree, k)) \in Maps(Levels - 1)
    <2> TAKE k
    <2>1. LookupKey(tree, k) \in Trees[Levels - 1] \cup {Absent}
      BY <1>0, LookupKeyTyped
    <2> QED BY <1>0, <2>1, MapOrEmptyTyped
  <1> DEFINE d == MapOrEmpty(LookupKey(tree, "devicetree"))
             o == MapOrEmpty(LookupKey(d, "overlays"))
  <1>2. o \in Maps(Levels - 2)
    <2>1. d \in Trees[Levels - 1]
      BY <1>1 DEF Maps
    <2>2. LookupKey(d, "overlays") \in Trees[Levels - 2] \cup {Absent}
      BY <1>0, <2>1, LookupKeyTyped
    <2> QED BY <1>0, <2>2, MapOrEmptyTyped
  <1>3. ReadingStart(tree) = [ok |-> TRUE, section |-> None, overlays |-> o]
    BY DEF ReadingStart
  <1> HIDE DEF o
  <1>5. ReadingStart(tree) \in Reading
    BY <1>2, <1>3 DEF Reading
  <1> QED BY <1>1, <1>5

\* OverlayLines reads line by line.
LEMMA LinesRead ==
    ASSUME NEW tree \in Trees[Levels], NEW lines, IsSequence(lines),
           \A i \in 1..Len(lines) : IsLine(lines[i])
    PROVE  \E m : IsReading(m, tree, lines) /\ OverlayLines(tree, lines) = m[Len(lines)]
  <1> DEFINE l == Len(lines)
             X == Reading
             start == ReadingStart(tree)
             rule(t, i) == ReadOverlayLine(t, lines[i])
             step == [p \in X \X (1..l) |-> rule(p[1], p[2])]
             Body(f) == [i \in 0..l |-> IF i = 0 THEN start ELSE rule(f[i - 1], i)]
             m == CHOOSE f : f = Body(f)
  <1>0. l \in Nat
    BY DEF IsSequence
  <1>1. OverlayLines(tree, lines) = m[l]
    BY Zenon DEF OverlayLines, ReadingStart
  <1>2. \A t \in X, i \in 1..l : rule(t, i) \in X
    BY LineRead
  <1>3. start \in X
    BY DevicetreeTyped
  <1> HIDE DEF rule, X, start, l
  <1>4. IsStep(step, X, l)
    <2>1. step \in [X \X (1..l) -> X]
      BY <1>2
    <2> QED BY <2>1 DEF IsStep
  <1>5. \A t \in X, i \in 1..l : step[<<t, i>>] = rule(t, i)
    OBVIOUS
  <1> HIDE DEF step
  <1>6. PICK g : Iterates(g, X, l, start, step)
    BY <1>0, <1>3, <1>4, Iteration, Zenon
  <1>7. g \in [0..l -> X] /\ g[0] = start /\ \A i \in 1..l : g[i] = step[<<g[i - 1], i>>]
    BY <1>6 DEF Iterates
  <1>8. g = Body(g)
    <2>1. \A i \in 1..l : g[i - 1] \in X
      BY <1>0, <1>7
    <2>2. \A i \in 1..l : g[i] = rule(g[i - 1], i)
      BY <1>5, <1>7, <2>1
    <2>3. \A i \in 0..l : g[i] = IF i = 0 THEN start ELSE rule(g[i - 1], i)
      BY <1>0, <1>7, <2>2
    <2> QED BY <1>7, <2>3
  <1>9. m = Body(m)
    <2> HIDE DEF Body
    <2> QED BY <1>8, Zenon
  <1> HIDE DEF m
  <1>10. m = [i \in 0..l |-> m[i]] /\ m[0] = start /\ \A i \in 1..l : m[i] = rule(m[i - 1], i)
    <2> DEFINE B == Body(m)
    <2>1. B = [i \in 0..l |-> B[i]] /\ B[0] = start /\ \A i \in 1..l : B[i] = rule(m[i - 1], i)
      BY <1>0
    <2> HIDE DEF B
    <2> QED BY <1>9, <2>1 DEF B
  <1> DEFINE S == {i \in 0..l : m[i] \in X}
  <1>11. 0 \in S
    BY <1>0, <1>3, <1>10
  <1>12. ASSUME NEW i \in 0..(l - 1), i \in S PROVE i + 1 \in S
    <2>1. i + 1 \in 1..l /\ (i + 1) - 1 = i /\ m[i] \in X /\ i + 1 \in 0..l
      BY <1>0, <1>12
    <2> QED BY <1>2, <1>10, <2>1
  <1>13. \A i \in 0..l : m[i] \in X
    <2>1. \A i \in 0..l : i \in S
      <3> HIDE DEF S
      <3> QED BY <1>0, <1>11, <1>12, SetInduction
    <2> QED BY <1>0, <2>1
  <1>14. m \in [0..l -> X]
    BY <1>10, <1>13
  <1>15. IsReading(m, tree, lines)
    BY <1>10, <1>14 DEF IsReading, X, l, start, rule
  <1> QED BY <1>1, <1>15 DEF l

\* Keys the loader writes.
LEMMA OwnKeys ==
    {"devicetree", "overlays", "menu", "bootargs"} \subseteq Keys
  BY KeysAssumption

\* Overlays put in their place.
LEMMA WithOverlaysIs ==
    ASSUME NEW tree \in Maps(Levels), NEW overlays \in Maps(Levels - 2)
    PROVE  /\ WithOverlays(tree, overlays) \in Maps(Levels)
           /\ \A k : k # "devicetree" => LookupKey(WithOverlays(tree, overlays), k) = LookupKey(tree, k)
           /\ LookupKey(LookupKey(WithOverlays(tree, overlays), "devicetree"), "overlays") = overlays
  <1>0. /\ Levels \in Nat /\ Levels \in 1..Levels /\ Levels - 1 \in 1..Levels
        /\ NodesBelow(Levels) = Trees[Levels - 1] /\ NodesBelow(Levels - 1) = Trees[Levels - 2]
    BY ConfigSpecAssumption, KeysAssumption DEF NodesBelow
  <1> DEFINE old == MapOrEmpty(LookupKey(tree, "devicetree"))
             d == WithKey(old, "overlays", overlays)
  <1>1. old \in Maps(Levels - 1)
    BY DevicetreeTyped DEF Maps
  <1> HIDE DEF old
  <1>2. overlays \in NodesBelow(Levels - 1)
    BY <1>0 DEF Maps
  <1>3. d \in Maps(Levels - 1) /\ LookupKey(d, "overlays") = overlays
    BY <1>0, <1>1, <1>2, OwnKeys, WithKeyIs
  <1> HIDE DEF d
  <1>4. d \in NodesBelow(Levels)
    BY <1>0, <1>3 DEF Maps
  <1>5. WithOverlays(tree, overlays) = WithKey(tree, "devicetree", d)
    BY DEF WithOverlays, d, old
  <1>6. /\ WithKey(tree, "devicetree", d) \in Maps(Levels)
        /\ \A k : k # "devicetree" => LookupKey(WithKey(tree, "devicetree", d), k) = LookupKey(tree, k)
        /\ LookupKey(WithKey(tree, "devicetree", d), "devicetree") = d
    BY <1>0, <1>4, OwnKeys, WithKeyIs
  <1> QED BY <1>3, <1>5, <1>6

\* dtbo.txt changes nothing but `devicetree`.
LEMMA DtboLoaded ==
    ASSUME NEW tree \in Trees[Levels], NEW lines, IsSequence(lines),
           \A i \in 1..Len(lines) : IsLine(lines[i])
    PROVE  /\ LoadDtbo(tree, lines) \in Trees[Levels]
           /\ LoadDtbo(tree, lines).type = tree.type
           /\ \A k : k # "devicetree" => LookupKey(LoadDtbo(tree, lines), k) = LookupKey(tree, k)
           /\ tree.type = "map" /\ OverlayLines(tree, lines).ok =>
                LookupKey(LookupKey(LoadDtbo(tree, lines), "devicetree"), "overlays")
                  = OverlayLines(tree, lines).overlays
           /\ ~(tree.type = "map" /\ OverlayLines(tree, lines).ok) => LoadDtbo(tree, lines) = tree
  <1> DEFINE o == OverlayLines(tree, lines)
  <1>1. o \in Reading
    <2>1. PICK m : IsReading(m, tree, lines) /\ o = m[Len(lines)]
      BY LinesRead
    <2>2. Len(lines) \in 0..Len(lines)
      BY DEF IsSequence
    <2> QED BY <2>1, <2>2 DEF IsReading
  <1>2. o.overlays \in Maps(Levels - 2)
    BY <1>1 DEF Reading
  <1> HIDE DEF o
  <1>3. CASE tree.type = "map" /\ o.ok
    <2>1. LoadDtbo(tree, lines) = WithOverlays(tree, o.overlays)
      BY <1>3 DEF LoadDtbo, o
    <2>2. tree \in Maps(Levels)
      BY <1>3 DEF Maps
    <2>3. /\ WithOverlays(tree, o.overlays) \in Maps(Levels)
          /\ \A k : k # "devicetree" =>
               LookupKey(WithOverlays(tree, o.overlays), k) = LookupKey(tree, k)
          /\ LookupKey(LookupKey(WithOverlays(tree, o.overlays), "devicetree"), "overlays")
               = o.overlays
      BY <1>2, <2>2, WithOverlaysIs
    <2> QED BY <1>3, <2>1, <2>3 DEF Maps, o
  <1>4. CASE ~(tree.type = "map" /\ o.ok)
    <2>1. LoadDtbo(tree, lines) = tree
      BY <1>4 DEF LoadDtbo, o
    <2> QED BY <1>4, <2>1 DEF o
  <1> QED BY <1>3, <1>4

\* The words of cmdline.txt after those that were known.
KnownArgs(tree) ==
    LET bootargs == LookupKey(LookupKey(tree, "menu"), "bootargs")
    IN  IF bootargs.type = "array" THEN bootargs.items ELSE <<>>

\* cmdline.txt changes nothing but the arguments of the menu.
LEMMA CmdlineLoaded ==
    ASSUME NEW tree \in Trees[Levels], NEW words \in Seq(Strings)
    PROVE  /\ LoadCmdline(tree, words) \in Trees[Levels]
           /\ LoadCmdline(tree, words).type = tree.type
           /\ \A k : k # "menu" => LookupKey(LoadCmdline(tree, words), k) = LookupKey(tree, k)
           /\ tree.type = "map" =>
                /\ LookupKey(LoadCmdline(tree, words), "menu").type = "map"
                /\ \A k : k # "bootargs" => LookupKey(LookupKey(LoadCmdline(tree, words), "menu"), k)
                                             = LookupKey(LookupKey(tree, "menu"), k)
                /\ LookupKey(LookupKey(LoadCmdline(tree, words), "menu"), "bootargs")
                     = ArrayTree(KnownArgs(tree) \o [i \in DOMAIN words |-> Str(words[i])])
           /\ tree.type # "map" => LoadCmdline(tree, words) = tree
  <1>0. /\ Levels \in Nat /\ Levels \in 1..Levels /\ Levels - 1 \in 1..Levels
        /\ Levels - 2 \in 1..Levels /\ Levels - 3 \in 1..Levels
        /\ NodesBelow(Levels) = Trees[Levels - 1] /\ NodesBelow(Levels - 1) = Trees[Levels - 2]
        /\ NodesBelow(Levels - 2) = Trees[Levels - 3]
    BY ConfigSpecAssumption, KeysAssumption DEF NodesBelow
  <1> DEFINE settings == MapOrEmpty(LookupKey(tree, "menu"))
             bootargs == LookupKey(settings, "bootargs")
             known == IF bootargs.type = "array" THEN bootargs.items ELSE <<>>
             new == [i \in DOMAIN words |-> Str(words[i])]
             list == ArrayTree(known \o new)
             N == NodesBelow(Levels - 2)
  <1>1. CASE tree.type # "map"
    BY <1>1 DEF LoadCmdline
  <1>2. CASE tree.type = "map"
    <2>1. settings \in Maps(Levels - 1)
      BY DevicetreeTyped
    <2>2. \A k : LookupKey(settings, k) = LookupKey(LookupKey(tree, "menu"), k)
      BY MapOrEmptyOf
    <2>3. known = KnownArgs(tree)
      <3>1. bootargs = LookupKey(LookupKey(tree, "menu"), "bootargs")
        BY <2>2, Zenon
      <3> HIDE DEF bootargs
      <3> QED BY <3>1, Zenon DEF KnownArgs
    <2>4. LoadCmdline(tree, words) = WithKey(tree, "menu", WithKey(settings, "bootargs", list))
      BY <1>2, Zenon DEF LoadCmdline
    <2>5. new \in Seq(N)
      <3>1. \A s \in Strings : Str(s) \in N
        BY <1>0, Leaf
      <3> HIDE DEF N
      <3>2. Len(words) \in Nat /\ DOMAIN words = 1..Len(words)
            /\ \A i \in 1..Len(words) : words[i] \in Strings
        OBVIOUS
      <3>3. new \in [1..Len(words) -> N]
        BY <3>1, <3>2
      <3> HIDE DEF new
      <3> QED BY <3>2, <3>3
    <2>6. known \in Seq(N)
      <3>1. CASE bootargs.type = "array"
        <4>1. settings \in Trees[Levels - 1]
          BY <2>1 DEF Maps
        <4>2. bootargs \in Trees[Levels - 2]
          <5>1. bootargs \in Trees[Levels - 2] \cup {Absent}
            BY <1>0, <4>1, LookupKeyTyped
          <5>2. Absent.type # "array"
            BY DEF Absent
          <5> HIDE DEF bootargs
          <5> QED BY <3>1, <5>1, <5>2
        <4> HIDE DEF bootargs
        <4>3. bootargs.items \in Seq(N)
          <5>1. \/ bootargs = NullTree
                \/ bootargs = ValueTree(bootargs.value) /\ bootargs.value \in LeafValue
                \/ bootargs = ArrayTree(bootargs.items) /\ bootargs.items \in Seq(N)
                \/ IsMapTree(bootargs, Levels - 2)
            BY <1>0, <4>2, TreeIs
          <5>2. NullTree.type = "null" /\ \A x : ValueTree(x).type = "value" /\ MapTree(x).type = "map"
            BY DEF NullTree, ValueTree, MapTree
          <5> QED BY <3>1, <5>1, <5>2 DEF IsMapTree
        <4> QED BY <3>1, <4>3
      <3>2. CASE bootargs.type # "array"
        <4>1. known = <<>>
          BY <3>2
        <4>2. <<>> \in Seq(N)
          OBVIOUS
        <4> HIDE DEF known, N
        <4> QED BY <4>1, <4>2
      <3> QED BY <3>1, <3>2
    <2> HIDE DEF known, new, N
    <2>7. known \o new \in Seq(N)
      BY <2>5, <2>6
    <2>8. list \in NodesBelow(Levels - 1)
      <3>1. list.items = known \o new
        BY DEF ArrayTree
      <3>2. list = ArrayTree(list.items) /\ list.items \in Seq(NodesBelow(Levels - 2))
        BY <2>7, <3>1 DEF N
      <3> HIDE DEF list
      <3> QED BY <1>0, <3>2, TreeIs
    <2> HIDE DEF settings, list
    <2> DEFINE s == WithKey(settings, "bootargs", list)
    <2>9. /\ s \in Maps(Levels - 1) /\ LookupKey(s, "bootargs") = list
          /\ \A k : k # "bootargs" => LookupKey(s, k) = LookupKey(settings, k)
      BY <1>0, <2>1, <2>8, OwnKeys, WithKeyIs
    <2> HIDE DEF s
    <2>10. tree \in Maps(Levels) /\ s \in NodesBelow(Levels)
      BY <1>0, <1>2, <2>9 DEF Maps
    <2> DEFINE t == WithKey(tree, "menu", s)
    <2>11. /\ t \in Maps(Levels) /\ LookupKey(t, "menu") = s
           /\ \A k : k # "menu" => LookupKey(t, k) = LookupKey(tree, k)
      BY <1>0, <2>10, OwnKeys, WithKeyIs
    <2>12. LoadCmdline(tree, words) = t
      BY <2>4 DEF s
    <2> HIDE DEF t
    <2>13. t \in Trees[Levels] /\ t.type = "map" /\ s.type = "map"
      BY <2>9, <2>11 DEF Maps
    <2>14. list = ArrayTree(KnownArgs(tree) \o new)
      BY <2>3 DEF list
    <2>15. new = [i \in DOMAIN words |-> Str(words[i])]
      BY DEF new
    <2> QED BY <1>2, <2>2, <2>9, <2>11, <2>12, <2>13, <2>14, <2>15
  <1> QED BY <1>1, <1>2

-----------------------------------------------------------------------------
(* Reading nodes *)

\* What a node has below it.
LEMMA ChildrenTyped ==
    ASSUME NEW n \in 1..Levels, NEW t \in Trees[n] \cup {Absent}
    PROVE  Children(t) \in Seq(NodesBelow(n))
  <1> DEFINE N == NodesBelow(n)
  <1>1. CASE t.type = "map"
    <2>1. t \in Maps(n)
      <3>1. Absent.type # "map"
        BY DEF Absent
      <3> QED BY <1>1, <3>1 DEF Maps
    <2>2. /\ Len(t.items) \in Nat /\ DOMAIN t.items = 1..Len(t.items)
          /\ \A i \in 1..Len(t.items) : t.items[i].node \in N
      BY <2>1, ItemsOf
    <2>3. Children(t) = [i \in DOMAIN t.items |-> t.items[i].node]
      BY <1>1 DEF Children
    <2> HIDE DEF N
    <2>4. [i \in 1..Len(t.items) |-> t.items[i].node] \in [1..Len(t.items) -> N]
      BY <2>2
    <2> DEFINE f == [i \in 1..Len(t.items) |-> t.items[i].node]
    <2>5. Children(t) = f /\ f \in [1..Len(t.items) -> N]
      BY <2>2, <2>3, <2>4
    <2> HIDE DEF f
    <2> QED BY <2>2, <2>5 DEF N
  <1>2. CASE t.type = "array"
    <2>1. t \in Trees[n]
      <3>1. Absent.type # "array"
        BY DEF Absent
      <3> QED BY <1>2, <3>1
    <2>2. \/ t = NullTree
          \/ t = ValueTree(t.value) /\ t.value \in LeafValue
          \/ t = ArrayTree(t.items) /\ t.items \in Seq(N)
          \/ IsMapTree(t, n)
      BY <2>1, TreeIs
    <2>3. NullTree.type = "null" /\ \A x : ValueTree(x).type = "value" /\ MapTree(x).type = "map"
      BY DEF NullTree, ValueTree, MapTree
    <2>4. t.items \in Seq(N)
      BY <1>2, <2>2, <2>3, Zenon DEF IsMapTree
    <2> QED BY <1>2, <2>4 DEF Children
  <1>3. CASE t.type \notin {"map", "array"}
    <2>1. Children(t) = <<>>
      BY <1>3 DEF Children
    <2> HIDE DEF N
    <2>2. <<>> \in Seq(N)
      OBVIOUS
    <2> QED BY <2>1, <2>2 DEF N
  <1> QED BY <1>1, <1>2, <1>3

\* A leaf holds one of the leaf values.
LEMMA LeafOf ==
    ASSUME NEW n \in 1..Levels, NEW t \in Trees[n] \cup {Absent}, t.type = "value"
    PROVE  t.value \in LeafValue
  <1>1. t \in Trees[n]
    <2>1. Absent.type # "value"
      BY DEF Absent
    <2> QED BY <2>1
  <1>2. \/ t = NullTree
        \/ t = ValueTree(t.value) /\ t.value \in LeafValue
        \/ t = ArrayTree(t.items) /\ t.items \in Seq(NodesBelow(n))
        \/ IsMapTree(t, n)
    BY <1>1, TreeIs
  <1>3. NullTree.type = "null" /\ \A x : ArrayTree(x).type = "array" /\ MapTree(x).type = "map"
    BY DEF NullTree, ArrayTree, MapTree
  <1> QED BY <1>2, <1>3, Zenon DEF IsMapTree

\* A leaf read as a number is one an int64_t holds, or the default.
LEMMA IntegerRead ==
    ASSUME NEW n \in 1..Levels, NEW t \in Trees[n] \cup {Absent}, NEW def, InRange(def)
    PROVE  InRange(GetInt(t, def).v)
  <1>0. IntMin \in Int /\ IntMin < 0
    BY ConfigSpecAssumption
  <1>d. Def(def).v = def /\ \A x : Ok(x).v = x
    BY DEF Def, Ok
  <1>1. CASE t.type # "value"
    BY <1>1, <1>d DEF GetInt
  <1>2. CASE t.type = "value"
    <2> DEFINE v == t.value
    <2>1. v \in LeafValue
      BY <1>2, LeafOf
    <2>2. GetInt(t, def) =
             CASE v.kind = "int" -> Ok(v.i)
               [] v.kind = "bool" -> Ok(IF v.b THEN 1 ELSE 0)
               [] v.kind = "string" /\ v.s \in DOMAIN Numerals /\ InRange(Numerals[v.s]) ->
                    Ok(Numerals[v.s])
               [] v.kind = "float" /\ FitsInteger(v) -> Ok(Truncated(v.f))
               [] OTHER -> Def(def)
      BY <1>2, Zenon DEF GetInt
    <2> HIDE DEF v
    <2>3. CASE v.kind = "int"
      <3>1. GetInt(t, def) = Ok(v.i)
        BY <2>2, <2>3
      <3>2. v.i \in IntMin..(-IntMin - 1)
        BY <2>1, <2>3 DEF LeafValue
      <3> QED BY <1>d, <3>1, <3>2 DEF InRange
    <2>4. CASE v.kind = "bool"
      <3>1. GetInt(t, def) = Ok(IF v.b THEN 1 ELSE 0)
        BY <2>2, <2>4
      <3>2. Cardinality(Keys) \in Nat /\ Cardinality(Keys) # 0
        <4>1. IsFiniteSet(Keys) /\ Keys # {}
          BY KeysAssumption
        <4> QED BY <4>1, FS_EmptySet, FS_CardinalityType
      <3>3. IntMin < -1
        BY <1>0, <3>2, KeysAssumption
      <3>4. InRange(1) /\ InRange(0)
        BY <1>0, <3>3 DEF InRange
      <3> QED BY <1>d, <3>1, <3>4
    <2>5. CASE v.kind = "string"
      <3>1. \/ InRange(Numerals[v.s]) /\ GetInt(t, def) = Ok(Numerals[v.s])
            \/ GetInt(t, def) = Def(def)
        BY <2>2, <2>5
      <3> QED BY <1>d, <3>1
    <2>6. CASE v.kind = "float" /\ FitsInteger(v)
      <3>1. GetInt(t, def) = Ok(Truncated(v.f))
        BY <2>2, <2>6
      <3>2. v.f \in Int
        BY <2>1, <2>6 DEF LeafValue
      <3>3. v.f >= 2 * IntMin /\ v.f < -2 * IntMin
        BY <2>6 DEF FitsInteger
      <3>4. InRange(Truncated(v.f))
        BY <1>0, <3>2, <3>3 DEF InRange, Truncated
      <3> QED BY <1>d, <3>1, <3>4
    <2>7. CASE v.kind \notin {"int", "bool", "string"} /\ ~(v.kind = "float" /\ FitsInteger(v))
      <3>1. GetInt(t, def) = Def(def)
        BY <2>2, <2>7
      <3> QED BY <1>d, <3>1
    <2> QED BY <2>3, <2>4, <2>5, <2>6, <2>7
  <1> QED BY <1>1, <1>2

\* A leaf read as a switch is TRUE or FALSE.
LEMMA SwitchRead ==
    ASSUME NEW n \in 1..Levels, NEW t \in Trees[n] \cup {Absent}, NEW def \in BOOLEAN
    PROVE  GetBool(t, def).v \in BOOLEAN
  <1>d. Def(def).v = def /\ \A x : Ok(x).v = x
    BY DEF Def, Ok
  <1>1. CASE t.type # "value"
    BY <1>1, <1>d DEF GetBool
  <1>2. CASE t.type = "value"
    <2> DEFINE v == t.value
    <2>1. v \in LeafValue
      BY <1>2, LeafOf
    <2>2. GetBool(t, def) =
             CASE v.kind = "bool" -> Ok(v.b)
               [] v.kind = "string" /\ v.s \in TrueWords \cup FalseWords -> Ok(v.s \in TrueWords)
               [] v.kind = "int" -> Ok(v.i # 0)
               [] v.kind = "float" -> Ok(~v.finite \/ v.f # 0)
               [] OTHER -> Def(def)
      BY <1>2, Zenon DEF GetBool
    <2> HIDE DEF v
    <2>3. CASE v.kind = "bool"
      <3>1. GetBool(t, def) = Ok(v.b)
        BY <2>2, <2>3
      <3>2. v.b \in BOOLEAN
        BY <2>1, <2>3 DEF LeafValue
      <3> QED BY <1>d, <3>1, <3>2
    <2>4. CASE v.kind # "bool"
      <3>1. \/ GetBool(t, def) = Ok(v.s \in TrueWords)
            \/ GetBool(t, def) = Ok(v.i # 0)
            \/ GetBool(t, def) = Ok(~v.finite \/ v.f # 0)
            \/ GetBool(t, def) = Def(def)
        BY <2>2, <2>4
      <3>2. \A p \in BOOLEAN : Ok(p).v \in BOOLEAN
        BY <1>d
      <3>3. /\ (v.s \in TrueWords) \in BOOLEAN /\ (v.i # 0) \in BOOLEAN
            /\ (~v.finite \/ v.f # 0) \in BOOLEAN
        OBVIOUS
      <3> QED BY <1>d, <3>1, <3>2, <3>3, Zenon
    <2> QED BY <2>3, <2>4
  <1> QED BY <1>1, <1>2

\* A file that is loaded leaves a tree.
LEMMA LoadsTyped ==
    ASSUME NEW tree \in Trees[Levels], NEW name, sit \in DOMAIN Situations,
           File(name).state = "whole"
    PROVE  Loads(name, tree) \in Trees[Levels]
  <1>1. name \in DOMAIN cf.files /\ File(name) = cf.files[name]
    <2>1. Missing.state # "whole"
      BY DEF Missing
    <2> QED BY <2>1 DEF File
  <1>2. Readable(name, File(name))
    BY <1>1, SituationAssumption DEF cf
  <1>3. CASE name = "dtbo.txt"
    <2>1. IsSequence(File(name).lines) /\ \A i \in 1..Len(File(name).lines) : IsLine(File(name).lines[i])
      BY <1>2, <1>3 DEF Readable
    <2>2. Loads(name, tree) = LoadDtbo(tree, File(name).lines)
      BY <1>3 DEF Loads
    <2> QED BY <2>1, <2>2, DtboLoaded
  <1>4. CASE name = "cmdline.txt"
    <2>1. File(name).words \in Seq(Strings)
      BY <1>2, <1>4 DEF Readable
    <2>2. Loads(name, tree) = LoadCmdline(tree, File(name).words)
      BY <1>4 DEF Loads
    <2> QED BY <2>1, <2>2, CmdlineLoaded
  <1>5. CASE name \notin {"dtbo.txt", "cmdline.txt"}
    <2>1. File(name).doc \in Trees[Levels]
      BY <1>2, <1>5 DEF Readable
    <2>2. Loads(name, tree) = TreeMerge(tree, File(name).doc)
      BY <1>5 DEF Loads
    <2> QED BY <2>1, <2>2, TreeMergeTyped
  <1> QED BY <1>3, <1>4, <1>5

-----------------------------------------------------------------------------
(* The invariants *)

\* The steps of efi_main follow each other.
StepInv ==
    /\ sit \in DOMAIN Situations
    /\ pc \in {"folder", "configs", "device", "settings", "menu", "done"}
    /\ at \in Nat
    /\ failures \in 0..MaxFailures
    /\ config \in Trees[Levels]

\* The volumes with a folder, and what find_embloader_folder makes of them.
With == {v \in DOMAIN cf.volumes : cf.volumes[v] = "folder"}

FolderFound ==
    /\ dir = IF With = {} THEN NoVolume
             ELSE IF cf.image \in With THEN cf.image
             ELSE CHOOSE v \in With : \A w \in With : v <= w
    /\ open = IF dir = NoVolume THEN {} ELSE {<<dir, "root">>, <<dir, "dir">>}

\* The volumes that were tried had no folder.
FolderInv ==
    IF pc = "folder"
    THEN /\ dir = NoVolume /\ open = {}
         /\ at > 0 => cf.image \notin With
         /\ \A v \in 1..(at - 1) : v \notin With
    ELSE FolderFound

\* The devices that were passed over did not match, memory permitting.
DeviceInv ==
    /\ pc \in {"folder", "configs", "device"} =>
          device = None /\ profiles = <<>> /\ missed = {}
    /\ pc = "device" =>
          at >= 1 /\ (failures = 0 => \A d \in 1..(at - 1) : ~Matched(Devices[d]))
    /\ DeviceWhole

\* Entry number e was accepted without what its lookups missed.
TakenEntry(e) ==
    \E lost \in SUBSET LoaderKeys :
       /\ \A key \in lost : <<"menu", e, key>> \in missed
       /\ AcceptsBut(Entries[e], lost)

\* The entries that were taken, in the order of the configuration
Taken(name, upto) ==
    \E e \in 1..Len(Entries) : e < upto /\ TakenEntry(e) /\ Entries[e].key = name

Ahead(a, b) ==
    \E d, e \in DOMAIN Entries : d < e /\ Entries[d].key = a /\ Entries[e].key = b

MenuInv ==
    /\ menu.timeout \in CIntMin..(-CIntMin - 1) /\ menu.save_default \in BOOLEAN
    /\ IsSequence(loaders)
    /\ \A i \in 1..Len(loaders) : loaders[i].type \in LoaderTypes /\ InRange(loaders[i].priority)
    /\ \A i, j \in 1..Len(loaders) : loaders[i].name = loaders[j].name => i = j
    /\ pc \in {"folder", "configs", "device", "settings"} => loaders = <<>>
    /\ pc = "settings" => at = 1
    /\ pc = "menu" =>
          /\ Len(loaders) < at
          /\ \A i \in 1..Len(loaders) : Taken(loaders[i].name, at)
          /\ \A i, j \in 1..Len(loaders) : i < j => Ahead(loaders[i].name, loaders[j].name)
          /\ failures = 0 =>
                \A e \in 1..Len(Entries) : e < at /\ Accepts(Entries[e]) =>
                    \E i \in 1..Len(loaders) : loaders[i].name = Entries[e].key
    /\ EntriesForDevice

-----------------------------------------------------------------------------
(* The steps, and the folder *)

\* What the situation is made of.
LEMMA VolumesAre ==
    ASSUME sit \in DOMAIN Situations
    PROVE  /\ Len(cf.volumes) \in Nat /\ DOMAIN cf.volumes = 1..Len(cf.volumes)
           /\ \A v \in 1..Len(cf.volumes) :
                cf.volumes[v] \in {"no filesystem", "no folder", "folder"}
           /\ cf.image \in 0..Len(cf.volumes)
  <1>1. /\ cf.volumes \in Seq({"no filesystem", "no folder", "folder"})
        /\ cf.image \in 0..Len(cf.volumes)
    BY SituationAssumption DEF cf
  <1>2. \A X : \A s \in Seq(X) : /\ Len(s) \in Nat /\ DOMAIN s = 1..Len(s)
                                /\ \A i \in 1..Len(s) : s[i] \in X
    OBVIOUS
  <1> QED BY <1>1, <1>2, Zenon

\* A step of efi_main finds and leaves trees.
LEMMA StepInit == Init => StepInv
  <1> SUFFICES ASSUME Init PROVE StepInv
    OBVIOUS
  <1>1. Levels \in 1..Levels
    BY ConfigSpecAssumption, KeysAssumption
  <1>2. MapTree(<<>>) \in Trees[Levels]
    BY <1>1, EmptyMap DEF Maps
  <1>3. MaxFailures \in Nat
    BY BoundAssumption
  <1> QED BY <1>2, <1>3 DEF Init, StepInv

\* All that a lookup can miss
LookedUp == LoaderKeys \cup {"profiles", "timeout", "save-default", "default"}

\* A lookup that is lost counts as a failure.
LEMMA LostCounts ==
    ASSUME NEW lost \in SUBSET LookedUp, LookupsFail(lost), failures \in 0..MaxFailures
    PROVE  failures' \in 0..MaxFailures /\ (failures' = 0 => failures = 0)
  <1>1. IsFiniteSet(LookedUp)
    <2>1. \A S, x : IsFiniteSet(S) => IsFiniteSet(S \cup {x})
      BY FS_AddElement
    <2>2. IsFiniteSet({})
      BY FS_EmptySet
    <2> DEFINE S1 == {} \cup {"priority"}
               S2 == S1 \cup {"match"}
               S3 == S2 \cup {"allowed"}
               S4 == S3 \cup {"disallowed"}
               S5 == S4 \cup {"bootargs"}
               S6 == S5 \cup {"cmdline"}
               S7 == S6 \cup {"profiles"}
               S8 == S7 \cup {"timeout"}
               S9 == S8 \cup {"save-default"}
               S10 == S9 \cup {"default"}
    <2>3. LookedUp = S10
      BY DEF LookedUp, LoaderKeys
    <2>4. IsFiniteSet(S1) /\ (IsFiniteSet(S1) => IsFiniteSet(S2))
          /\ (IsFiniteSet(S2) => IsFiniteSet(S3)) /\ (IsFiniteSet(S3) => IsFiniteSet(S4))
          /\ (IsFiniteSet(S4) => IsFiniteSet(S5)) /\ (IsFiniteSet(S5) => IsFiniteSet(S6))
          /\ (IsFiniteSet(S6) => IsFiniteSet(S7)) /\ (IsFiniteSet(S7) => IsFiniteSet(S8))
          /\ (IsFiniteSet(S8) => IsFiniteSet(S9)) /\ (IsFiniteSet(S9) => IsFiniteSet(S10))
      BY <2>1, <2>2, Zenon
    <2> HIDE DEF S1, S2, S3, S4, S5, S6, S7, S8, S9, S10
    <2> QED BY <2>3, <2>4
  <1>2. IsFiniteSet(lost)
    BY <1>1, FS_Subset
  <1>3. Cardinality(lost) \in Nat
    BY <1>2, FS_CardinalityType
  <1> QED BY <1>3, BoundAssumption DEF LookupsFail

\* The count of failures, for every step
LEMMA FailuresNext ==
    ASSUME failures \in 0..MaxFailures, [Next]_vars
    PROVE  failures' \in 0..MaxFailures /\ (failures' = 0 => failures = 0)
  <1>1. CASE OutOfMemory \/ UNCHANGED failures
    BY <1>1, BoundAssumption DEF OutOfMemory
  <1>2. CASE \E lost \in SUBSET LookedUp : LookupsFail(lost)
    BY <1>2, LostCounts
  <1>3. CASE ChooseDevice
    BY <1>2, <1>3 DEF ChooseDevice, LookedUp, LoaderKeys
  <1>4. CASE LoadSettings
    BY <1>2, <1>4 DEF LoadSettings, LookedUp
  <1>5. CASE LoadLoader
    BY <1>2, <1>5 DEF LoadLoader, LookedUp
  <1>6. CASE ~(ChooseDevice \/ LoadSettings \/ LoadLoader)
    BY <1>1, <1>6 DEF Next, vars, FindFolder, FolderNotFound, LoadFile, SkipFile,
       ConfigsLoaded, NextDevice, NoDevice, NoMenu, DropLoader, MenuLoaded
  <1> QED BY <1>3, <1>4, <1>5, <1>6

\* Every step of efi_main leaves it so.
LEMMA StepNext == StepInv /\ [Next]_vars => StepInv'
  <1> SUFFICES ASSUME StepInv, [Next]_vars PROVE StepInv'
    OBVIOUS
  <1>0. /\ MaxFailures \in Nat /\ at \in Nat /\ failures \in 0..MaxFailures
        /\ sit \in DOMAIN Situations /\ config \in Trees[Levels]
        /\ pc \in {"folder", "configs", "device", "settings", "menu", "done"}
    BY BoundAssumption DEF StepInv
  <1>o. failures' \in 0..MaxFailures
    BY <1>0, FailuresNext
  <1>1. CASE FindFolder
    <2>1. \/ pc' = "configs" /\ at' = 1
          \/ pc' = pc /\ at' = at + 1
      BY <1>1 DEF FindFolder
    <2> QED BY <1>0, <1>1, <2>1 DEF FindFolder, StepInv
  <1>2. CASE FolderNotFound
    BY <1>0, <1>2 DEF FolderNotFound, StepInv
  <1>3. CASE LoadFile
    <2>1. config' \in Trees[Levels]
      BY <1>0, <1>3, LoadsTyped DEF LoadFile
    <2> QED BY <1>0, <1>3, <2>1 DEF LoadFile, StepInv
  <1>4. CASE SkipFile
    BY <1>0, <1>o, <1>4 DEF SkipFile, StepInv
  <1>5. CASE ConfigsLoaded
    BY <1>0, <1>5 DEF ConfigsLoaded, StepInv
  <1>6. CASE ChooseDevice
    BY <1>0, <1>o, <1>6 DEF ChooseDevice, StepInv
  <1>7. CASE NextDevice
    BY <1>0, <1>o, <1>7 DEF NextDevice, StepInv
  <1>8. CASE NoDevice
    BY <1>0, <1>o, <1>8 DEF NoDevice, StepInv
  <1>9. CASE LoadSettings \/ NoMenu
    <2>1. /\ pc' \in {"menu", "done"} /\ at' \in {at, 0}
          /\ sit' = sit /\ config' = config
      BY <1>9, Zenon DEF LoadSettings, NoMenu
    <2> QED BY <1>0, <1>o, <2>1 DEF StepInv
  <1>10. CASE LoadLoader
    BY <1>0, <1>o, <1>10 DEF LoadLoader, StepInv
  <1>11. CASE DropLoader
    BY <1>0, <1>o, <1>11 DEF DropLoader, StepInv
  <1>12. CASE MenuLoaded
    BY <1>0, <1>o, <1>12 DEF MenuLoaded, StepInv
  <1>13. CASE UNCHANGED vars
    BY <1>0, <1>13 DEF vars, StepInv
  <1> QED
    BY <1>1, <1>2, <1>3, <1>4, <1>5, <1>6, <1>7, <1>8, <1>9, <1>10, <1>11, <1>12, <1>13
    DEF Next

\* The folder that is found is the first one.
LEMMA FolderStep == StepInv /\ FolderInv /\ FindFolder => FolderInv'
  <1> SUFFICES ASSUME StepInv, FolderInv, FindFolder PROVE FolderInv'
    OBVIOUS
  <1> DEFINE n == Len(cf.volumes)
             v0 == cf.image
  <1>0. /\ sit \in DOMAIN Situations /\ at \in Nat /\ at <= n /\ pc = "folder"
        /\ sit' = sit /\ cf' = cf
    BY DEF StepInv, FindFolder, cf
  <1>1. /\ n \in Nat /\ DOMAIN cf.volumes = 1..n /\ v0 \in 0..n
        /\ \A v \in 1..n : cf.volumes[v] \in {"no filesystem", "no folder", "folder"}
    BY <1>0, VolumesAre
  <1> HIDE DEF n
  <1>n. n \in Nat /\ at \in Nat /\ at <= n
    BY <1>0, <1>1 DEF n
  <1>2. /\ dir = NoVolume /\ open = {} /\ (at > 0 => v0 \notin With)
        /\ \A v \in 1..(at - 1) : v \notin With
    BY <1>0 DEF FolderInv
  <1>3. \A v : v \in With <=> v \in 1..n /\ cf.volumes[v] = "folder"
    BY <1>1 DEF With
  <1>4. With' = With
    BY <1>0 DEF With
  <1>5. Candidate = IF at = 0 THEN v0 ELSE at
    BY DEF Candidate
  <1>6. CASE Candidate \in With
    <2>1. Candidate \in 1..n /\ cf.volumes[Candidate] = "folder" /\ Candidate # NoVolume
      BY <1>3, <1>6 DEF NoVolume
    <2>2. dir' = Candidate /\ open' = open \cup {<<Candidate, "root">>, <<Candidate, "dir">>}
      <3>1. CheckFs(Candidate)
        BY <2>1 DEF FindFolder
      <3> QED BY <2>1, <3>1 DEF CheckFs
    <2>3. pc' = "configs"
      BY <2>1, <2>2 DEF FindFolder
    <2>4. Candidate = IF v0 \in With THEN v0 ELSE CHOOSE v \in With : \A w \in With : v <= w
      <3>1. CASE at = 0
        BY <1>5, <1>6, <3>1
      <3>2. CASE at # 0
        <4>1. v0 \notin With /\ Candidate = at
          BY <1>0, <1>2, <1>5, <3>2
        <4>2. \A w \in With : at <= w
          <5> TAKE w \in With
          <5>1. w \in 1..n
            BY <1>3
          <5>2. w \notin 1..(at - 1)
            BY <1>2
          <5> QED BY <1>n, <5>1, <5>2
        <4>3. \A x \in With : (\A w \in With : x <= w) => x = at
          <5> TAKE x \in With
          <5>1. x \in Nat
            <6>1. x \in 1..n
              BY <1>3
            <6> QED BY <1>n, <6>1
          <5> QED BY <1>0, <1>6, <4>1, <4>2, <5>1
        <4>4. at = CHOOSE v \in With : \A w \in With : v <= w
          <5>1. at \in With
            BY <1>6, <4>1
          <5> QED BY <4>2, <4>3, <5>1
        <4> QED BY <4>1, <4>4
      <3> QED BY <3>1, <3>2
    <2>5. With # {}
      BY <1>6
    <2> HIDE DEF v0
    <2>6. dir' = IF With' = {} THEN NoVolume
                 ELSE IF cf'.image \in With' THEN cf'.image
                 ELSE CHOOSE v \in With' : \A w \in With' : v <= w
      BY <1>0, <1>4, <2>2, <2>4, <2>5 DEF v0
    <2>7. open' = IF dir' = NoVolume THEN {} ELSE {<<dir', "root">>, <<dir', "dir">>}
      BY <1>2, <2>1, <2>2
    <2> QED BY <2>3, <2>6, <2>7 DEF FolderInv, FolderFound
  <1>7. CASE Candidate \notin With
    <2>1. dir' = NoVolume /\ open' = {}
      <3>1. CASE Candidate = NoVolume
        BY <1>2, <3>1 DEF FindFolder
      <3>2. CASE Candidate # NoVolume
        <4>1. Candidate \in 1..n
          <5>1. v0 \in 0..n
            BY <1>1
          <5>2. CASE at = 0
            BY <1>n, <1>5, <3>2, <5>1, <5>2 DEF NoVolume
          <5>3. CASE at # 0
            BY <1>n, <1>5, <3>2, <5>3
          <5> QED BY <5>2, <5>3
        <4>2. CheckFs(Candidate)
          BY <3>2 DEF FindFolder
        <4>3. cf.volumes[Candidate] \in {"no filesystem", "no folder"}
          BY <1>1, <1>3, <1>7, <4>1
        <4> QED BY <1>2, <4>2, <4>3 DEF CheckFs, AfterMissingFolder
      <3> QED BY <3>1, <3>2
    <2>2. pc' = "folder" /\ at' = at + 1
      BY <1>0, <2>1 DEF FindFolder
    <2>3. v0 \notin With
      <3>1. CASE at = 0
        BY <1>5, <1>7, <3>1
      <3>2. CASE at # 0
        BY <1>0, <1>2, <3>2
      <3> QED BY <3>1, <3>2
    <2>4. \A v \in 1..at : v \notin With
      <3> TAKE v \in 1..at
      <3>1. CASE v = at
        BY <1>0, <1>5, <1>7, <3>1
      <3>2. CASE v # at
        <4>1. v \in 1..(at - 1)
          BY <1>0, <3>2
        <4> QED BY <1>2, <4>1
      <3> QED BY <3>1, <3>2
    <2>5. \A v \in 1..(at' - 1) : v \notin With'
      BY <1>0, <1>4, <2>2, <2>4
    <2>6. cf'.image \notin With'
      BY <1>0, <1>4, <2>3
    <2> QED BY <2>1, <2>2, <2>5, <2>6 DEF FolderInv
  <1> QED BY <1>6, <1>7

\* No volume has a folder when none was found.
LEMMA NoFolderStep == StepInv /\ FolderInv /\ FolderNotFound => FolderInv'
  <1> SUFFICES ASSUME StepInv, FolderInv, FolderNotFound PROVE FolderInv'
    OBVIOUS
  <1> DEFINE n == Len(cf.volumes)
  <1>0. /\ sit \in DOMAIN Situations /\ at \in Nat /\ at > n /\ pc = "folder"
        /\ sit' = sit /\ cf' = cf /\ pc' = "device" /\ dir' = dir /\ open' = open
    BY DEF StepInv, FolderNotFound, cf
  <1>1. n \in Nat /\ DOMAIN cf.volumes = 1..n
    BY <1>0, VolumesAre
  <1>2. dir = NoVolume /\ open = {} /\ \A v \in 1..(at - 1) : v \notin With
    BY <1>0 DEF FolderInv
  <1>3. With = {}
    <2>1. \A v \in With : v \in 1..(at - 1)
      BY <1>0, <1>1 DEF With
    <2> QED BY <1>2, <2>1
  <1>4. With' = {}
    BY <1>0, <1>3 DEF With
  <1> QED BY <1>0, <1>2, <1>4 DEF FolderInv, FolderFound

\* Every step keeps what is known of the volumes.
LEMMA FolderNext == StepInv /\ FolderInv /\ [Next]_vars => FolderInv'
  <1> SUFFICES ASSUME StepInv, FolderInv, [Next]_vars PROVE FolderInv'
    OBVIOUS
  <1>1. CASE FindFolder
    BY <1>1, FolderStep
  <1>2. CASE FolderNotFound
    BY <1>2, NoFolderStep
  <1>3. CASE UNCHANGED vars
    BY <1>3 DEF vars, FolderInv, FolderFound, With, cf
  <1>4. CASE pc # "folder" /\ pc' # "folder" /\ UNCHANGED <<sit, dir, open>>
    <2>1. cf' = cf
      BY <1>4 DEF cf
    <2>2. With' = With
      BY <2>1 DEF With
    <2>3. FolderFound
      BY <1>4 DEF FolderInv
    <2>4. FolderFound'
      BY <1>4, <2>1, <2>2, <2>3 DEF FolderFound
    <2> QED BY <1>4, <2>4 DEF FolderInv
  <1>5. LoadFile \/ SkipFile \/ ConfigsLoaded \/ ChooseDevice \/ NextDevice \/ NoDevice
        \/ LoadSettings \/ NoMenu \/ LoadLoader \/ DropLoader \/ MenuLoaded
        => pc # "folder" /\ pc' # "folder" /\ UNCHANGED <<sit, dir, open>>
    BY DEF LoadFile, SkipFile, ConfigsLoaded, ChooseDevice, NextDevice, NoDevice, LoadSettings,
           NoMenu, LoadLoader, DropLoader, MenuLoaded
  <1> QED BY <1>1, <1>2, <1>3, <1>4, <1>5 DEF Next

\* It holds before any volume was tried.
LEMMA FolderInit == Init => FolderInv
  BY DEF Init, FolderInv

-----------------------------------------------------------------------------
(* The device *)

\* The devices are a list.
LEMMA DevicesAre ==
    ASSUME config \in Trees[Levels]
    PROVE  Len(Devices) \in Nat /\ DOMAIN Devices = 1..Len(Devices)
  <1>0. /\ Levels \in Nat /\ Levels \in 1..Levels /\ Levels - 1 \in 1..Levels
        /\ NodesBelow(Levels) = Trees[Levels - 1]
    BY ConfigSpecAssumption, KeysAssumption DEF NodesBelow
  <1>1. LookupKey(config, "devices") \in Trees[Levels - 1] \cup {Absent}
    BY <1>0, LookupKeyTyped
  <1>2. Devices \in Seq(NodesBelow(Levels - 1))
    BY <1>0, <1>1, ChildrenTyped DEF Devices
  <1> QED BY <1>2

\* What the choice of a device reads stays.
LEMMA SameDevices ==
    ASSUME sit' = sit, config' = config
    PROVE  Devices' = Devices /\ \A node : Matched(node)' <=> Matched(node)
  <1>1. cf' = cf
    BY DEF cf
  <1>2. \A node : TryMatch(node)' <=> TryMatch(node)
    BY <1>1 DEF TryMatch
  <1>3. \A node : TryMatches(node)' <=> TryMatches(node)
    BY <1>2 DEF TryMatches
  <1> QED BY <1>3 DEF Devices, Matched, MatchedBut

\* A condition holds as long as the system information stays.
LEMMA SameTries ==
    ASSUME sit' = sit
    PROVE  \A node : (TryMatch(node)' <=> TryMatch(node)) /\ (TryMatches(node)' <=> TryMatches(node))
  <1>1. cf' = cf
    BY DEF cf
  <1>2. \A node : TryMatch(node)' <=> TryMatch(node)
    BY <1>1 DEF TryMatch
  <1>3. \A node : TryMatches(node)' <=> TryMatches(node)
    BY <1>2 DEF TryMatches
  <1> QED BY <1>2, <1>3

\* All of the conditions hold when they do as a list.
LEMMA ConditionsHold ==
    ASSUME NEW m, m # Absent => TryMatches(m)
    PROVE  \A c \in DOMAIN Children(m) : TryMatch(Children(m)[c])
  <1>1. CASE m = Absent
    <2>1. Children(m) = <<>>
      BY <1>1 DEF Children, Absent
    <2> QED BY <2>1
  <1>2. CASE m # Absent
    <2>1. m.type = "array" /\ \A i \in DOMAIN m.items : TryMatch(m.items[i])
      BY <1>2 DEF TryMatches
    <2>2. Children(m) = m.items
      BY <2>1 DEF Children
    <2> QED BY <2>1, <2>2
  <1> QED BY <1>1, <1>2

\* No device is chosen in the beginning.
LEMMA DeviceInit == Init => DeviceInv
  BY DEF Init, DeviceInv, DeviceWhole

\* The device and its profiles are taken together.
LEMMA DeviceNext == StepInv /\ DeviceInv /\ [Next]_vars => DeviceInv'
  <1> SUFFICES ASSUME StepInv, DeviceInv, [Next]_vars PROVE DeviceInv'
    OBVIOUS
  <1>0. /\ config \in Trees[Levels] /\ at \in Nat /\ failures \in Nat
        /\ pc \in {"folder", "configs", "device", "settings", "menu", "done"}
        /\ failures \in 0..MaxFailures
    BY BoundAssumption DEF StepInv
  <1>f. failures' = 0 => failures = 0
    BY <1>0, FailuresNext
  <1>1. Len(Devices) \in Nat /\ DOMAIN Devices = 1..Len(Devices)
    BY <1>0, DevicesAre
  <1>2. /\ pc \in {"folder", "configs", "device"} =>
             device = None /\ profiles = <<>> /\ missed = {}
        /\ pc = "device" =>
             at >= 1 /\ (failures = 0 => \A d \in 1..(at - 1) : ~Matched(Devices[d]))
        /\ DeviceWhole
    BY DEF DeviceInv
  <1>3. CASE FindFolder \/ LoadFile \/ SkipFile
    <2>1. pc \in {"folder", "configs"} /\ pc' \in {"folder", "configs"}
          /\ UNCHANGED <<device, profiles, missed>>
      BY <1>3 DEF FindFolder, LoadFile, SkipFile
    <2> QED BY <1>2, <2>1 DEF DeviceInv, DeviceWhole
  <1>4. CASE FolderNotFound \/ ConfigsLoaded
    <2>1. pc \in {"folder", "configs"} /\ pc' = "device" /\ at' = 1
          /\ UNCHANGED <<device, profiles, missed>>
      BY <1>4 DEF FolderNotFound, ConfigsLoaded
    <2>2. \A d \in 1..(at' - 1) : FALSE
      BY <2>1
    <2>3. DeviceWhole'
      BY <2>1 DEF DeviceWhole
    <2> QED BY <1>2, <2>1, <2>2, <2>3 DEF DeviceInv
  <1>5. CASE ChooseDevice
    <2>0. /\ pc = "device" /\ at <= Len(Devices)
          /\ device' = GetString(LookupKey(Devices[at], "name"), None).v
          /\ pc' = "settings" /\ sit' = sit /\ config' = config
      BY <1>5 DEF ChooseDevice
    <2>p. PICK lost \in SUBSET {"match", "profiles"} :
             /\ MatchedBut(Devices[at], lost)
             /\ profiles' = ProfileList(SeenKey(Devices[at], "profiles", lost))
             /\ missed' = missed \cup {<<"device", at, key>> : key \in lost}
      BY <1>5 DEF ChooseDevice
    <2>1. Devices' = Devices /\ \A node : Matched(node)' <=> Matched(node)
      BY <2>0, SameDevices
    <2>2. \A node : TryMatch(node)' <=> TryMatch(node)
      BY <2>0, SameTries
    <2>3. at \in DOMAIN Devices
      BY <1>0, <1>1, <1>2, <2>0
    <2>m. missed = {}
      BY <1>2, <2>0
    <2>r. /\ <<"device", at, "profiles">> \in missed' <=> "profiles" \in lost
          /\ "match" \in lost => <<"device", at, "match">> \in missed'
      <3>1. missed' = {<<"device", at, key>> : key \in lost}
        BY <2>p, <2>m
      <3> QED BY <3>1
    <2>4. \/ "match" \in lost
          \/ \A c \in DOMAIN Children(LookupKey(Devices[at], "match")) :
               TryMatch(Children(LookupKey(Devices[at], "match"))[c])
      <3> DEFINE m == LookupKey(Devices[at], "match")
      <3>1. "match" \notin lost => (m # Absent => TryMatches(m))
        BY <2>p DEF MatchedBut, SeenKey
      <3> HIDE DEF m
      <3>2. "match" \notin lost => \A c \in DOMAIN Children(m) : TryMatch(Children(m)[c])
        BY <3>1, ConditionsHold
      <3> QED BY <3>2 DEF m
    <2>q. profiles' = ProfileList(IF "profiles" \in lost THEN Absent
                                  ELSE LookupKey(Devices[at], "profiles"))
      BY <2>p DEF SeenKey
    <2>5. failures' = 0 => \A e \in 1..(at - 1) : ~Matched(Devices[e])
      BY <1>2, <1>f, <2>0
    <2>6. DeviceWhole'
      <3>1. PICK d \in DOMAIN Devices : d = at
        BY <2>3
      <3>2. /\ d \in DOMAIN Devices'
            /\ GetString(LookupKey(Devices'[d], "name"), None).v = device'
            /\ profiles' = ProfileList(IF <<"device", d, "profiles">> \in missed' THEN Absent
                                       ELSE LookupKey(Devices'[d], "profiles"))
        BY <2>0, <2>1, <2>q, <2>r, <3>1
      <3>3. \/ <<"device", d, "match">> \in missed'
            \/ \A c \in DOMAIN Children(LookupKey(Devices'[d], "match")) :
                  TryMatch(Children(LookupKey(Devices[d], "match"))[c])'
        BY <2>1, <2>2, <2>4, <2>r, <3>1
      <3>4. failures' = 0 => \A e \in 1..(d - 1) : ~Matched(Devices[e])'
        BY <2>0, <2>1, <2>5, <3>1
      <3> QED BY <3>2, <3>3, <3>4 DEF DeviceWhole
    <2> QED BY <2>0, <2>6 DEF DeviceInv
  <1>6. CASE NextDevice
    <2>0. /\ pc = "device" /\ pc' = pc /\ at <= Len(Devices) /\ at' = at + 1
          /\ UNCHANGED <<sit, config, device, profiles, missed>>
          /\ IF Matched(Devices[at]) THEN OutOfMemory ELSE UNCHANGED failures
      BY <1>6 DEF NextDevice
    <2>1. Devices' = Devices /\ \A node : Matched(node)' <=> Matched(node)
      BY <2>0, SameDevices
    <2>2. failures' = 0 => failures = 0 /\ ~Matched(Devices[at])
      BY <1>0, <2>0 DEF OutOfMemory
    <2>3. ASSUME failures' = 0, NEW d \in 1..(at' - 1) PROVE ~Matched(Devices[d])'
      <3>1. d = at \/ d \in 1..(at - 1)
        BY <1>0, <2>0
      <3>2. ~Matched(Devices[d])
        BY <1>2, <2>0, <2>2, <2>3, <3>1
      <3> QED BY <2>1, <3>2
    <2>4. DeviceWhole'
      BY <2>0 DEF DeviceWhole
    <2>5. at' >= 1
      BY <1>0, <2>0
    <2> QED BY <1>2, <2>0, <2>3, <2>4, <2>5 DEF DeviceInv
  <1>7. CASE NoDevice
    <2>0. /\ pc = "device" /\ pc' = "settings"
          /\ UNCHANGED <<sit, config, device, profiles>>
          /\ failures' = 0 => failures = 0 /\ at > Len(Devices)
      BY <1>0, <1>7 DEF NoDevice, OutOfMemory
    <2>1. Devices' = Devices /\ \A node : Matched(node)' <=> Matched(node)
      BY <2>0, SameDevices
    <2>2. failures' = 0 => \A d \in DOMAIN Devices : d \in 1..(at - 1)
      BY <1>0, <1>1, <2>0
    <2>3. failures' = 0 => \A d \in DOMAIN Devices' : ~Matched(Devices[d])'
      BY <1>2, <2>0, <2>1, <2>2
    <2>4. DeviceWhole'
      BY <1>2, <2>0, <2>3 DEF DeviceWhole
    <2> QED BY <2>0, <2>4 DEF DeviceInv
  <1>8. CASE LoadSettings \/ NoMenu \/ LoadLoader \/ DropLoader \/ MenuLoaded
             \/ UNCHANGED vars
    <2>0. /\ UNCHANGED <<sit, config, device, profiles>>
          /\ \A d, key : <<"device", d, key>> \in missed' <=> <<"device", d, key>> \in missed
          /\ \/ pc \in {"settings", "menu"} /\ pc' \in {"menu", "done"}
             \/ UNCHANGED <<pc, at, failures, missed>>
      <3>1. CASE LoadLoader
        <4>1. PICK lost : missed' = missed \cup {<<"menu", at, key>> : key \in lost}
          BY <3>1 DEF LoadLoader
        <4> QED BY <3>1, <4>1 DEF LoadLoader
      <3>2. CASE LoadSettings \/ NoMenu \/ DropLoader \/ MenuLoaded \/ UNCHANGED vars
        BY <3>2 DEF LoadSettings, NoMenu, DropLoader, MenuLoaded, vars
      <3> QED BY <1>8, <3>1, <3>2
    <2>1. Devices' = Devices /\ \A node : Matched(node)' <=> Matched(node)
      BY <2>0, SameDevices
    <2>2. \A node : TryMatch(node)' <=> TryMatch(node)
      BY <2>0, SameTries
    <2>3. CASE pc \in {"settings", "menu", "done"} /\ pc' \in {"menu", "done", "settings"}
      <3>1. DeviceWhole'
        <4>1. CASE device = None /\ profiles = <<>>
                   /\ (failures = 0 => \A d \in DOMAIN Devices : ~Matched(Devices[d]))
          BY <1>f, <2>0, <2>1, <4>1 DEF DeviceWhole
        <4>2. ASSUME NEW d \in DOMAIN Devices,
                     GetString(LookupKey(Devices[d], "name"), None).v = device,
                     profiles = ProfileList(IF <<"device", d, "profiles">> \in missed THEN Absent
                                            ELSE LookupKey(Devices[d], "profiles")),
                     \/ <<"device", d, "match">> \in missed
                     \/ \A c \in DOMAIN Children(LookupKey(Devices[d], "match")) :
                           TryMatch(Children(LookupKey(Devices[d], "match"))[c]),
                     failures = 0 => \A e \in 1..(d - 1) : ~Matched(Devices[e])
              PROVE  DeviceWhole'
          <5>1. profiles' = ProfileList(IF <<"device", d, "profiles">> \in missed' THEN Absent
                                        ELSE LookupKey(Devices'[d], "profiles"))
            BY <2>0, <2>1, <4>2
          <5>2. \/ <<"device", d, "match">> \in missed'
                \/ \A c \in DOMAIN Children(LookupKey(Devices'[d], "match")) :
                      TryMatch(Children(LookupKey(Devices[d], "match"))[c])'
            BY <2>0, <2>1, <2>2, <4>2
          <5>3. failures' = 0 => \A e \in 1..(d - 1) : ~Matched(Devices[e])'
            BY <1>f, <2>1, <4>2
          <5> QED BY <2>0, <2>1, <4>2, <5>1, <5>2, <5>3 DEF DeviceWhole
        <4> QED BY <1>2, <2>3, <4>1, <4>2, Zenon DEF DeviceWhole
      <3> QED BY <2>3, <3>1 DEF DeviceInv
    <2>4. CASE UNCHANGED <<pc, at, failures, missed>> /\ pc \in {"folder", "configs", "device"}
      <3>1. DeviceWhole'
        BY <2>4 DEF DeviceWhole
      <3> QED BY <1>2, <2>0, <2>1, <2>4, <3>1 DEF DeviceInv
    <2> QED BY <1>0, <2>0, <2>3, <2>4
  <1> QED BY <1>3, <1>4, <1>5, <1>6, <1>7, <1>8 DEF Next

-----------------------------------------------------------------------------
(* The entries of the menu *)

\* The entries of `loaders`: fewer than an int64_t counts, each key once.
LEMMA EntriesAre ==
    ASSUME config \in Trees[Levels]
    PROVE  /\ Len(Entries) \in Nat /\ DOMAIN Entries = 1..Len(Entries) /\ Len(Entries) < -IntMin
           /\ \A i, j \in 1..Len(Entries) : Entries[i].key = Entries[j].key => i = j
           /\ \A i \in 1..Len(Entries) : Entries[i].node \in Trees[Levels - 2]
  <1>0. /\ Levels \in Nat /\ Levels \in 1..Levels /\ Levels - 1 \in 1..Levels
        /\ NodesBelow(Levels) = Trees[Levels - 1] /\ NodesBelow(Levels - 1) = Trees[Levels - 2]
    BY ConfigSpecAssumption, KeysAssumption DEF NodesBelow
  <1> DEFINE tree == LookupKey(config, "loaders")
  <1>1. tree \in Trees[Levels - 1] \cup {Absent}
    BY <1>0, LookupKeyTyped
  <1>2. Entries = IF tree.type = "map" THEN tree.items ELSE <<>>
    BY DEF Entries
  <1> HIDE DEF tree
  <1>c. Cardinality(Keys) \in Nat /\ Cardinality(Keys) < -IntMin /\ IntMin \in Int
    <2>1. IsFiniteSet(Keys)
      BY KeysAssumption
    <2> QED BY <2>1, FS_CardinalityType, KeysAssumption, ConfigSpecAssumption
  <1>3. CASE tree.type = "map"
    <2>1. tree \in Maps(Levels - 1)
      <3>1. Absent.type # "map"
        BY DEF Absent
      <3> QED BY <1>1, <1>3, <3>1 DEF Maps
    <2> DEFINE s == tree.items
    <2>2. /\ Len(s) \in Nat /\ DOMAIN s = 1..Len(s)
          /\ \A i \in 1..Len(s) : s[i].key \in Keys /\ s[i].node \in NodesBelow(Levels - 1)
          /\ \A i, j \in 1..Len(s) : s[i].key = s[j].key => i = j
      BY <1>0, <2>1, ItemsOf
    <2>3. Entries = s
      BY <1>2, <1>3
    <2> HIDE DEF s
    <2>4. Len(s) <= Cardinality(Keys)
      <3> DEFINE S == 1..Len(s)
                 f == [i \in S |-> s[i].key]
      <3>1. \A i \in S : s[i].key \in Keys
        BY <2>2
      <3>2. \A i, j \in S : s[i].key = s[j].key => i = j
        BY <2>2
      <3>3. IsFiniteSet(S) /\ Cardinality(S) = Len(s)
        <4>1. 1 \in Int /\ Len(s) \in Int
          BY <2>2
        <4>2. IsFiniteSet(S) /\ Cardinality(S) = IF 1 > Len(s) THEN 0 ELSE Len(s) - 1 + 1
          BY <4>1, FS_Interval, Zenon
        <4> HIDE DEF S
        <4> QED BY <2>2, <4>2
      <3> HIDE DEF S
      <3>4. f \in [S -> Keys]
        BY <3>1
      <3>5. \A i, j \in S : f[i] = f[j] => i = j
        BY <3>2
      <3>6. f \in Injection(S, Keys)
        BY <3>4, <3>5 DEF Injection, IsInjective
      <3>7. IsFiniteSet(Keys)
        BY KeysAssumption
      <3>8. Cardinality(S) <= Cardinality(Keys)
        BY <3>3, <3>6, <3>7, FS_Injection
      <3> QED BY <3>3, <3>8
    <2> QED BY <1>0, <1>c, <2>2, <2>3, <2>4
  <1>4. CASE tree.type # "map"
    <2>1. Entries = <<>>
      BY <1>2, <1>4
    <2>2. Len(<<>>) = 0 /\ DOMAIN <<>> = 1..0
      OBVIOUS
    <2> QED BY <1>c, <2>1, <2>2
  <1> QED BY <1>3, <1>4

\* What the choice of entries reads stays.
LEMMA SameEntries ==
    ASSUME sit' = sit, config' = config, profiles' = profiles
    PROVE  /\ Entries' = Entries
           /\ \A entry, lost : AcceptsBut(entry, lost)' <=> AcceptsBut(entry, lost)
           /\ \A entry : Accepts(entry)' <=> Accepts(entry)
  <1>1. cf' = cf
    BY DEF cf
  <1>2. \A node : TryMatches(node)' <=> TryMatches(node)
    BY SameTries
  <1>3. \A node, key, wanted, lost :
           FilterProfiles(node, key, wanted, lost)' <=> FilterProfiles(node, key, wanted, lost)
    BY DEF FilterProfiles, ProfilesFor, Active
  <1>4. \A node, lost : LoaderIsValid(node, lost)' <=> LoaderIsValid(node, lost)
    BY <1>1, <1>2, <1>3 DEF LoaderIsValid
  <1>5. \A entry, lost : AcceptsBut(entry, lost)' <=> AcceptsBut(entry, lost)
    BY <1>4 DEF AcceptsBut
  <1> QED BY <1>5 DEF Entries, Accepts

\* What is looked up is a node of the tree, or counts as absent.
LEMMA SeenKeyTyped ==
    ASSUME NEW n \in 1..Levels, NEW t \in Trees[n], NEW key, NEW lost
    PROVE  SeenKey(t, key, lost) \in NodesBelow(n) \cup {Absent}
  <1>1. LookupKey(t, key) \in NodesBelow(n) \cup {Absent}
    BY LookupKeyTyped
  <1> QED BY <1>1 DEF SeenKey

\* An entry that is taken is one of the menu's types, with a number for its
\* priority.
LEMMA LoaderMade ==
    ASSUME config \in Trees[Levels], NEW lost, NEW e \in 1..Len(Entries),
           AcceptsBut(Entries[e], lost), Len(loaders) \in Nat, Len(loaders) < e
    PROVE  /\ Loader(Entries[e], lost).name = Entries[e].key
           /\ Loader(Entries[e], lost).type \in LoaderTypes
           /\ InRange(Loader(Entries[e], lost).priority)
  <1> DEFINE node == Entries[e].node
  <1>0. /\ Levels \in Nat /\ Levels - 2 \in 1..Levels
        /\ NodesBelow(Levels - 2) = Trees[Levels - 3] /\ Levels - 3 \in 1..Levels
    BY ConfigSpecAssumption, KeysAssumption DEF NodesBelow
  <1>1. /\ Len(Entries) \in Nat /\ Len(Entries) < -IntMin /\ node \in Trees[Levels - 2]
    BY EntriesAre
  <1>2. InRange(Len(loaders) + 1)
    <2>1. IntMin \in Int /\ IntMin < 0
      BY ConfigSpecAssumption
    <2> QED BY <1>1, <2>1 DEF InRange
  <1>3. SeenKey(node, "priority", lost) \in Trees[Levels - 3] \cup {Absent}
    BY <1>0, <1>1, SeenKeyTyped
  <1>4. InRange(GetInt(SeenKey(node, "priority", lost), Len(loaders) + 1).v)
    BY <1>0, <1>2, <1>3, IntegerRead
  <1>5. GetString(LookupKey(node, "type"), None).v \in LoaderTypes
    BY DEF AcceptsBut, LoaderIsValid
  <1> QED BY <1>4, <1>5 DEF Loader

\* A sequence has a length.
LEMMA SequenceIs ==
    ASSUME NEW s, IsSequence(s)
    PROVE  Len(s) \in Nat /\ DOMAIN s = 1..Len(s) /\ s \in Seq({s[i] : i \in 1..Len(s)})
  <1> DEFINE n == Len(s)
             X == {s[i] : i \in 1..n}
  <1>1. n \in Nat /\ s = [k \in 1..n |-> s[k]]
    BY DEF IsSequence
  <1>2. \A k \in 1..n : s[k] \in X
    OBVIOUS
  <1> HIDE DEF n, X
  <1>3. s \in [1..n -> X]
    BY <1>1, <1>2
  <1> QED BY <1>1, <1>3 DEF n, X

\* What Append gives.
LEMMA Appended ==
    ASSUME NEW s, IsSequence(s), NEW new
    PROVE  /\ IsSequence(Append(s, new)) /\ Len(Append(s, new)) = Len(s) + 1
           /\ Append(s, new)[Len(s) + 1] = new
           /\ \A i \in 1..Len(s) : Append(s, new)[i] = s[i]
  <1> DEFINE X == {s[i] : i \in 1..Len(s)} \cup {new}
  <1>1. s \in Seq({s[i] : i \in 1..Len(s)})
    BY SequenceIs
  <1>2. s \in Seq(X) /\ new \in X
    <2>1. \A A, B : A \subseteq B => Seq(A) \subseteq Seq(B)
      OBVIOUS
    <2> QED BY <1>1, <2>1
  <1> HIDE DEF X
  <1>3. /\ Append(s, new) \in Seq(X) /\ Len(Append(s, new)) = Len(s) + 1
        /\ Append(s, new)[Len(s) + 1] = new
        /\ \A i \in 1..Len(s) : Append(s, new)[i] = s[i]
    BY <1>2
  <1>4. \A t \in Seq(X) : IsSequence(t)
    BY DEF IsSequence
  <1> QED BY <1>3, <1>4, Zenon

\* The empty sequence
LEMMA EmptySequence == IsSequence(<<>>) /\ Len(<<>>) = 0 /\ \A i \in 1..Len(<<>>) : FALSE
  BY DEF IsSequence

\* The menu is empty in the beginning.
LEMMA MenuInit == Init => MenuInv
  <1> SUFFICES ASSUME Init PROVE MenuInv
    OBVIOUS
  <1>1. 0 \in CIntMin..(-CIntMin - 1)
    BY BoundAssumption
  <1>2. loaders = <<>> /\ pc = "folder" /\ menu.timeout = 0 /\ menu.save_default = FALSE
    BY DEF Init
  <1>3. IsSequence(loaders) /\ \A i \in 1..Len(loaders) : FALSE
    BY <1>2, EmptySequence
  <1> QED BY <1>1, <1>2, <1>3 DEF MenuInv, EntriesForDevice

\* The timeout fits an int, whatever the configuration says.
LEMMA TimeoutFits == \A t : TimeoutOf(t) \in CIntMin..(-CIntMin - 1)
  <1>1. 10 \in CIntMin..(-CIntMin - 1)
    BY BoundAssumption
  <1> QED BY <1>1 DEF TimeoutOf

\* The steps before the entries.
LEMMA BeforeMenu ==
    StepInv /\ MenuInv /\ pc \in {"folder", "configs", "device"} /\ [Next]_vars => MenuInv'
  <1> SUFFICES ASSUME StepInv, MenuInv, pc \in {"folder", "configs", "device"}, [Next]_vars
               PROVE  MenuInv'
    OBVIOUS
  <1>1. /\ menu.timeout \in CIntMin..(-CIntMin - 1) /\ menu.save_default \in BOOLEAN
        /\ loaders = <<>>
    BY DEF MenuInv
  <1>2. /\ UNCHANGED <<menu, loaders>>
        /\ pc' \in {"folder", "configs", "device", "settings"}
        /\ pc' = "settings" => at' = 1
    BY DEF Next, vars, FindFolder, FolderNotFound, LoadFile, SkipFile, ConfigsLoaded, ChooseDevice,
           NextDevice, NoDevice, LoadSettings, NoMenu, LoadLoader, DropLoader, MenuLoaded
  <1>3. IsSequence(loaders) /\ \A i \in 1..Len(loaders) : FALSE
    BY <1>1, EmptySequence
  <1> QED BY <1>1, <1>2, <1>3 DEF MenuInv, EntriesForDevice

\* The settings of the menu are read.
LEMMA SettingsStep == StepInv /\ MenuInv /\ LoadSettings => MenuInv'
  <1> SUFFICES ASSUME StepInv, MenuInv, LoadSettings PROVE MenuInv'
    OBVIOUS
  <1>0. /\ Levels \in Nat /\ Levels \in 1..Levels /\ Levels - 1 \in 1..Levels
        /\ Levels - 2 \in 1..Levels
        /\ NodesBelow(Levels) = Trees[Levels - 1] /\ NodesBelow(Levels - 1) = Trees[Levels - 2]
        /\ config \in Trees[Levels]
    BY ConfigSpecAssumption, KeysAssumption DEF NodesBelow, StepInv
  <1> DEFINE tree == LookupKey(config, "menu")
  <1>1. \A lost : SeenKey(tree, "save-default", lost) \in Trees[Levels - 2] \cup {Absent}
    <2> TAKE lost
    <2>1. tree \in Trees[Levels - 1] \cup {Absent}
      BY <1>0, LookupKeyTyped
    <2> HIDE DEF tree
    <2>2. CASE tree = Absent
      <3>1. LookupKey(tree, "save-default") = Absent
        <4>1. Absent.type # "map"
          BY DEF Absent
        <4> QED BY <2>2, <4>1, LookupKeyIs
      <3> QED BY <3>1 DEF SeenKey
    <2>3. CASE tree # Absent
      BY <1>0, <2>1, <2>3, SeenKeyTyped
    <2> QED BY <2>2, <2>3
  <1>2. \A lost : GetBool(SeenKey(tree, "save-default", lost), FALSE).v \in BOOLEAN
    BY <1>0, <1>1, SwitchRead
  <1>3. menu'.timeout \in CIntMin..(-CIntMin - 1) /\ menu'.save_default \in BOOLEAN
    <2> DEFINE time(lost) == TimeoutOf(GetInt(SeenKey(tree, "timeout", lost), 10).v)
               save(lost) == GetBool(SeenKey(tree, "save-default", lost), FALSE).v
               default(lost) == GetString(SeenKey(tree, "default", lost), None).v
    <2>0. PICK lost : menu' = [timeout |-> time(lost), save_default |-> save(lost),
                               default_entry |-> default(lost)]
      BY Zenon DEF LoadSettings
    <2> HIDE DEF time, save, default
    <2>f. menu'.timeout = time(lost) /\ menu'.save_default = save(lost)
      BY <2>0
    <2>1. /\ menu'.timeout = TimeoutOf(GetInt(SeenKey(tree, "timeout", lost), 10).v)
          /\ menu'.save_default = GetBool(SeenKey(tree, "save-default", lost), FALSE).v
      BY <2>f DEF time, save
    <2> HIDE DEF tree
    <2> QED BY <1>2, <2>1, TimeoutFits
  <1>4. loaders = <<>> /\ at = 1 /\ pc' = "menu" /\ at' = at /\ loaders' = loaders
    BY DEF MenuInv, LoadSettings
  <1>5. IsSequence(loaders) /\ (\A i \in 1..Len(loaders) : FALSE) /\ Len(loaders) = 0
    BY <1>4, EmptySequence
  <1>6. \A e \in 1..Len(Entries)' : ~(e < at')
    BY <1>4
  <1> QED BY <1>3, <1>4, <1>5, <1>6 DEF MenuInv, EntriesForDevice

\* There is no menu.
LEMMA NoMenuStep == StepInv /\ MenuInv /\ NoMenu => MenuInv'
  <1> SUFFICES ASSUME StepInv, MenuInv, NoMenu PROVE MenuInv'
    OBVIOUS
  <1>1. /\ menu.timeout \in CIntMin..(-CIntMin - 1) /\ menu.save_default \in BOOLEAN
        /\ loaders = <<>>
    BY DEF MenuInv, NoMenu
  <1>2. UNCHANGED <<menu, loaders>> /\ pc' = "done" /\ OutOfMemory
    BY DEF NoMenu
  <1>3. failures' # 0
    BY <1>2 DEF OutOfMemory, StepInv
  <1>4. IsSequence(loaders) /\ (\A i \in 1..Len(loaders) : FALSE) /\ DOMAIN loaders = {}
    <2>1. DOMAIN <<>> = {}
      OBVIOUS
    <2> QED BY <1>1, <2>1, EmptySequence
  <1>5. EntriesForDevice'
    <2>1. {loaders'[i].name : i \in DOMAIN loaders'} = {}
      BY <1>2, <1>4
    <2>2. \A i \in DOMAIN loaders' : FALSE
      BY <1>2, <1>4
    <2> QED BY <1>3, <2>1, <2>2, Zenon DEF EntriesForDevice
  <1> QED BY <1>1, <1>2, <1>4, <1>5 DEF MenuInv

\* An entry stays accepted but for what was missed, as more is missed.
LEMMA StillTaken ==
    ASSUME sit' = sit, config' = config, profiles' = profiles, missed \subseteq missed'
    PROVE  \A e : TakenEntry(e) => TakenEntry(e)'
  <1>1. /\ Entries' = Entries
        /\ \A entry, lost : AcceptsBut(entry, lost)' <=> AcceptsBut(entry, lost)
    BY SameEntries
  <1>2. ASSUME NEW e, TakenEntry(e) PROVE TakenEntry(e)'
    <2>1. PICK lost \in SUBSET LoaderKeys : /\ \A key \in lost : <<"menu", e, key>> \in missed
                                            /\ AcceptsBut(Entries[e], lost)
      BY <1>2, Zenon DEF TakenEntry
    <2>2. /\ \A key \in lost : <<"menu", e, key>> \in missed'
          /\ AcceptsBut(Entries[e], lost)'
      <3>1. \A key \in lost : <<"menu", e, key>> \in missed'
        BY <2>1
      <3> QED BY <1>1, <2>1, <3>1
    <2> QED BY <2>2, Zenon DEF TakenEntry
  <1> QED BY <1>2

\* The order of the entries stays.
LEMMA StillAhead ==
    ASSUME config' = config PROVE \A a, b : Ahead(a, b)' <=> Ahead(a, b)
  BY DEF Ahead, Entries

\* An entry is added.
LEMMA LoaderStep == StepInv /\ MenuInv /\ LoadLoader => MenuInv'
  <1> SUFFICES ASSUME StepInv, MenuInv, LoadLoader PROVE MenuInv'
    OBVIOUS
  <1>p. PICK lost \in SUBSET LoaderKeys :
           /\ AcceptsBut(Entries[at], lost) /\ LookupsFail(lost)
           /\ loaders' = Append(loaders, Loader(Entries[at], lost))
           /\ missed' = missed \cup {<<"menu", at, key>> : key \in lost}
    BY Zenon DEF LoadLoader
  <1>0. /\ pc = "menu" /\ pc' = "menu" /\ at <= Len(Entries) /\ at' = at + 1
        /\ UNCHANGED <<sit, config, profiles, menu>>
        /\ at \in Nat /\ config \in Trees[Levels] /\ failures \in 0..MaxFailures
    BY DEF LoadLoader, StepInv
  <1>m. missed \subseteq missed' /\ \A key \in lost : <<"menu", at, key>> \in missed'
    BY <1>p
  <1>f. failures' = 0 => failures = 0
    <2>1. lost \in SUBSET LookedUp
      BY DEF LookedUp
    <2> QED BY <1>p, <1>0, <2>1, LostCounts
  <1>1. /\ menu.timeout \in CIntMin..(-CIntMin - 1) /\ menu.save_default \in BOOLEAN
        /\ IsSequence(loaders) /\ Len(loaders) \in Nat
        /\ \A i \in 1..Len(loaders) :
             loaders[i].type \in LoaderTypes /\ InRange(loaders[i].priority)
        /\ \A i, j \in 1..Len(loaders) : loaders[i].name = loaders[j].name => i = j
        /\ Len(loaders) < at
        /\ \A i \in 1..Len(loaders) : Taken(loaders[i].name, at)
        /\ \A i, j \in 1..Len(loaders) : i < j => Ahead(loaders[i].name, loaders[j].name)
        /\ failures = 0 =>
             \A e \in 1..Len(Entries) : e < at /\ Accepts(Entries[e]) =>
                 \E i \in 1..Len(loaders) : loaders[i].name = Entries[e].key
    BY <1>0, SequenceIs DEF MenuInv
  <1>2. /\ Len(Entries) \in Nat /\ DOMAIN Entries = 1..Len(Entries)
        /\ \A i, j \in 1..Len(Entries) : Entries[i].key = Entries[j].key => i = j
    BY <1>0, EntriesAre
  <1>3. Entries' = Entries /\ \A entry : Accepts(entry)' <=> Accepts(entry)
    BY <1>0, SameEntries
  <1>4. PICK e \in 1..Len(Entries) : e = at
    BY <1>0, <1>1, <1>2
  <1>q. AcceptsBut(Entries[e], lost)'
    <2>1. AcceptsBut(Entries[e], lost)
      BY <1>p, <1>4
    <2>2. \A entry : AcceptsBut(entry, lost)' <=> AcceptsBut(entry, lost)
      BY <1>0, SameEntries
    <2> QED BY <1>3, <2>1, <2>2
  <1> DEFINE new == Loader(Entries[e], lost)
             n == Len(loaders)
  <1>5. new.name = Entries[e].key /\ new.type \in LoaderTypes /\ InRange(new.priority)
    BY <1>p, <1>0, <1>1, <1>4, LoaderMade
  <1>6. /\ IsSequence(loaders') /\ Len(loaders') = n + 1
        /\ loaders'[n + 1] = new /\ \A i \in 1..n : loaders'[i] = loaders[i]
    <2>1. loaders' = Append(loaders, new)
      BY <1>p, <1>4
    <2> HIDE DEF new
    <2> QED BY <1>1, <2>1, Appended
  <1> HIDE DEF new, n
  <1>n. n \in Nat /\ n = Len(loaders)
    BY <1>1 DEF n
  <1>7. \A i \in 1..(n + 1) : i \in 1..n \/ i = n + 1
    BY <1>n
  <1>t. \A i \in 1..n : \E d \in 1..Len(Entries) :
           d < at /\ TakenEntry(d) /\ Entries[d].key = loaders[i].name
    BY <1>1, <1>n, Zenon DEF Taken
  <1>8. \A i \in 1..n : loaders[i].name # new.name
    <2> TAKE i \in 1..n
    <2>1. PICK d \in 1..Len(Entries) : d < at /\ Entries[d].key = loaders[i].name
      BY <1>t
    <2>2. d # e
      BY <1>0, <1>4, <2>1
    <2>3. Entries[d].key # Entries[e].key
      BY <1>2, <2>1, <2>2
    <2> QED BY <1>5, <2>1, <2>3
  <1>9. \A i, j \in 1..(n + 1) : loaders'[i].name = loaders'[j].name => i = j
    BY <1>1, <1>6, <1>7, <1>8, <1>n
  <1>10. \A i \in 1..(n + 1) : Taken(loaders[i].name, at)'
    <2> TAKE i \in 1..(n + 1)
    <2>1. CASE i = n + 1
      <3>1. e < at' /\ Entries'[e].key = loaders'[i].name
        BY <1>0, <1>3, <1>4, <1>5, <1>6, <2>1
      <3>2. TakenEntry(e)'
        <4>1. AcceptsBut(Entries[e], lost)' /\ \A key \in lost : <<"menu", e, key>> \in missed'
          BY <1>m, <1>4, <1>q
        <4> QED BY <4>1, Zenon DEF TakenEntry
      <3> QED BY <1>3, <3>1, <3>2 DEF Taken
    <2>2. CASE i \in 1..n
      <3>1. PICK d \in 1..Len(Entries) :
               d < at /\ TakenEntry(d) /\ Entries[d].key = loaders[i].name
        BY <1>t, <2>2
      <3>2. d < at' /\ Entries'[d].key = loaders'[i].name
        BY <1>0, <1>3, <1>6, <2>2, <3>1
      <3>3. TakenEntry(d)'
        BY <1>0, <1>m, <3>1, StillTaken
      <3> QED BY <1>3, <3>2, <3>3 DEF Taken
    <2> QED BY <1>7, <2>1, <2>2
  <1>a. ASSUME NEW i \in 1..(n + 1), NEW j \in 1..(n + 1), i < j
        PROVE  Ahead(loaders[i].name, loaders[j].name)'
    <2>1. i \in 1..n /\ loaders'[i] = loaders[i]
      BY <1>a, <1>6, <1>n
    <2>2. CASE j = n + 1
      <3>1. PICK d \in 1..Len(Entries) : d < at /\ Entries[d].key = loaders[i].name
        BY <1>t, <2>1
      <3>2. d < e /\ d \in DOMAIN Entries /\ e \in DOMAIN Entries
            /\ Entries[e].key = loaders'[j].name /\ Entries[d].key = loaders'[i].name
        BY <1>2, <1>4, <1>5, <1>6, <2>1, <2>2, <3>1
      <3> QED BY <1>3, <3>2 DEF Ahead
    <2>3. CASE j \in 1..n
      <3>1. Ahead(loaders[i].name, loaders[j].name)
        BY <1>a, <1>1, <1>n, <2>1, <2>3
      <3>2. loaders'[j] = loaders[j]
        BY <1>6, <2>3
      <3> QED BY <1>3, <2>1, <3>1, <3>2 DEF Ahead
    <2> QED BY <1>7, <2>2, <2>3
  <1>11. ASSUME failures' = 0, NEW d \in 1..Len(Entries'), d < at', Accepts(Entries[d])'
         PROVE  \E i \in 1..(n + 1) : loaders'[i].name = Entries'[d].key
    <2>1. CASE d = e
      BY <1>3, <1>5, <1>6, <1>n, <2>1
    <2>2. CASE d # e
      <3>1. d < at /\ d \in 1..Len(Entries) /\ Accepts(Entries[d])
        BY <1>0, <1>2, <1>3, <1>4, <1>11, <2>2
      <3>2. PICK i \in 1..n : loaders[i].name = Entries[d].key
        BY <1>f, <1>1, <1>11, <1>n, <3>1
      <3>3. i \in 1..(n + 1) /\ loaders'[i].name = Entries'[d].key
        BY <1>3, <1>6, <1>n, <3>2
      <3> QED BY <3>3
    <2> QED BY <2>1, <2>2
  <1>12. \A i \in 1..(n + 1) : loaders'[i].type \in LoaderTypes /\ InRange(loaders'[i].priority)
    BY <1>1, <1>5, <1>6, <1>7, <1>n
  <1>13. n + 1 < at'
    BY <1>0, <1>1, <1>n
  <1>14. EntriesForDevice'
    BY <1>0 DEF EntriesForDevice
  <1>15. IsSequence(loaders') /\ Len(loaders') = n + 1
    BY <1>6
  <1>16. menu' = menu
    BY <1>0
  <1> HIDE DEF LoaderTypes, InRange
  <1> QED BY <1>0, <1>1, <1>9, <1>10, <1>a, <1>11, <1>12, <1>13, <1>14, <1>15, <1>16,
             Zenon DEF MenuInv

\* An entry is passed over.
LEMMA DropStep == StepInv /\ MenuInv /\ DropLoader => MenuInv'
  <1> SUFFICES ASSUME StepInv, MenuInv, DropLoader PROVE MenuInv'
    OBVIOUS
  <1>0. /\ pc = "menu" /\ pc' = "menu" /\ at <= Len(Entries) /\ at' = at + 1
        /\ IF Accepts(Entries[at]) THEN OutOfMemory ELSE UNCHANGED failures
        /\ UNCHANGED <<sit, config, profiles, menu, loaders, missed>>
        /\ at \in Nat /\ failures \in Nat /\ config \in Trees[Levels]
    BY BoundAssumption DEF DropLoader, StepInv
  <1>1. /\ menu.timeout \in CIntMin..(-CIntMin - 1) /\ menu.save_default \in BOOLEAN
        /\ IsSequence(loaders) /\ Len(loaders) \in Nat
        /\ \A i \in 1..Len(loaders) :
             loaders[i].type \in LoaderTypes /\ InRange(loaders[i].priority)
        /\ \A i, j \in 1..Len(loaders) : loaders[i].name = loaders[j].name => i = j
        /\ Len(loaders) < at
        /\ \A i \in 1..Len(loaders) : Taken(loaders[i].name, at)
        /\ \A i, j \in 1..Len(loaders) : i < j => Ahead(loaders[i].name, loaders[j].name)
        /\ failures = 0 =>
             \A e \in 1..Len(Entries) : e < at /\ Accepts(Entries[e]) =>
                 \E i \in 1..Len(loaders) : loaders[i].name = Entries[e].key
    BY <1>0, SequenceIs DEF MenuInv
  <1>2. Len(Entries) \in Nat
    BY <1>0, EntriesAre
  <1>3. Entries' = Entries /\ \A entry : Accepts(entry)' <=> Accepts(entry)
    BY <1>0, SameEntries
  <1>4. failures' = 0 => failures = 0 /\ ~Accepts(Entries[at])
    BY <1>0 DEF OutOfMemory
  <1>5. \A i \in 1..Len(loaders) : Taken(loaders[i].name, at)'
    <2> TAKE i \in 1..Len(loaders)
    <2>1. PICK d \in 1..Len(Entries) :
             d < at /\ TakenEntry(d) /\ Entries[d].key = loaders[i].name
      BY <1>1 DEF Taken
    <2>2. d < at' /\ Entries'[d].key = loaders'[i].name
      BY <1>0, <1>3, <2>1
    <2>3. TakenEntry(d)'
      BY <1>0, <2>1, StillTaken
    <2> QED BY <1>3, <2>2, <2>3 DEF Taken
  <1>a. \A i, j \in 1..Len(loaders) : i < j => Ahead(loaders[i].name, loaders[j].name)'
    BY <1>0, <1>1, StillAhead
  <1>6. ASSUME failures' = 0, NEW d \in 1..Len(Entries'), d < at', Accepts(Entries[d])'
        PROVE  \E i \in 1..Len(loaders) : loaders[i].name = Entries'[d].key
    <2>1. d # at /\ Accepts(Entries[d]) /\ d \in 1..Len(Entries)
      BY <1>3, <1>4, <1>6
    <2>2. d < at
      BY <1>0, <1>2, <1>6, <2>1
    <2> QED BY <1>1, <1>3, <1>4, <1>6, <2>1, <2>2
  <1>7. Len(loaders) < at'
    BY <1>0, <1>1
  <1>8. EntriesForDevice'
    BY <1>0 DEF EntriesForDevice
  <1>9. menu' = menu /\ loaders' = loaders
    BY <1>0
  <1> HIDE DEF LoaderTypes, InRange
  <1> QED BY <1>0, <1>1, <1>5, <1>a, <1>6, <1>7, <1>8, <1>9, Zenon DEF MenuInv

\* An entry that was taken is made for the device, as far as was found.
LEMMA TakenIsMeant == \A e : TakenEntry(e) => MeantForDevice(e)
  <1> TAKE e
  <1> HAVE TakenEntry(e)
  <1> DEFINE node == Entries[e].node
             list(key) == ProfilesFor(node, key)
  <1>1. PICK lost : /\ \A key \in lost : <<"menu", e, key>> \in missed
                    /\ AcceptsBut(Entries[e], lost)
    BY Zenon DEF TakenEntry
  <1>2. LoaderIsValid(node, lost)
    BY <1>1, Zenon DEF AcceptsBut
  <1>3. \/ <<"menu", e, "match">> \in missed
        \/ \A c \in DOMAIN Children(LookupKey(node, "match")) :
              TryMatch(Children(LookupKey(node, "match"))[c])
    <2>1. CASE "match" \in lost
      BY <1>1, <2>1
    <2>2. CASE "match" \notin lost
      <3> DEFINE m == LookupKey(node, "match")
      <3>1. m # Absent => TryMatches(m)
        BY <1>2, <2>2, Zenon DEF LoaderIsValid, SeenKey
      <3> HIDE DEF m
      <3>2. \A c \in DOMAIN Children(m) : TryMatch(Children(m)[c])
        BY <3>1, ConditionsHold
      <3> QED BY <3>2 DEF m
    <2> QED BY <2>1, <2>2
  <1>4. /\ "allowed" \in lost \/ \A i \in DOMAIN list("allowed") : Active(list("allowed")[i]) = TRUE
        /\ "disallowed" \in lost
           \/ \A i \in DOMAIN list("disallowed") : Active(list("disallowed")[i]) = FALSE
    BY <1>2, Zenon DEF LoaderIsValid, FilterProfiles
  <1> HIDE DEF list, node
  <1>5. \A p : Active(p) <=> p \in ToSet(profiles)
    BY DEF Active, ToSet
  <1>6. <<"menu", e, "allowed">> \in missed \/ ToSet(list("allowed")) \subseteq ToSet(profiles)
    <2>1. CASE "allowed" \in lost
      BY <1>1, <2>1
    <2>2. CASE "allowed" \notin lost
      BY <1>4, <1>5, <2>2 DEF ToSet
    <2> QED BY <2>1, <2>2
  <1>7. \/ <<"menu", e, "disallowed">> \in missed
        \/ ToSet(list("disallowed")) \cap ToSet(profiles) = {}
    <2>1. CASE "disallowed" \in lost
      BY <1>1, <2>1
    <2>2. CASE "disallowed" \notin lost
      <3>1. \A p \in ToSet(list("disallowed")) :
               \E i \in DOMAIN list("disallowed") : p = list("disallowed")[i]
        BY DEF ToSet
      <3>2. \A p \in ToSet(list("disallowed")) : ~Active(p)
        BY <1>4, <2>2, <3>1
      <3> QED BY <1>5, <3>2
    <2> QED BY <2>1, <2>2
  <1> QED BY <1>3, <1>6, <1>7 DEF MeantForDevice, list, node

\* Sorting keeps the entries and puts them in order, those of one priority in the
\* order they had.
SortedOf(new, old) ==
    /\ IsSequence(new) /\ Len(new) = Len(old)
    /\ \A i \in 1..Len(old) : \E j \in 1..Len(old) : new[i] = old[j]
    /\ \A j \in 1..Len(old) : \E i \in 1..Len(old) : new[i] = old[j]
    /\ \A i, j \in 1..Len(old) : new[i].name = new[j].name => i = j
    /\ \A i, j \in 1..Len(old) : i < j =>
          \E k, l \in 1..Len(old) :
             /\ new[i] = old[k] /\ new[j] = old[l]
             /\ \/ new[i].priority < new[j].priority
                \/ new[i].priority = new[j].priority /\ k < l

\* SortByPriority sorts.
LEMMA SortKeeps ==
    ASSUME NEW s, IsSequence(s), \A i \in 1..Len(s) : s[i].priority \in Int,
           \A i, j \in 1..Len(s) : s[i].name = s[j].name => i = j
    PROVE  SortedOf(SortByPriority(s), s)
  <1> DEFINE n == Len(s)
             t == SortByPriority(s)
  <1>1. n \in Nat /\ DOMAIN s = 1..n
    BY SequenceIs
  <1>2. PICK p : SortsTo(p, n, s) /\ t = [k \in 1..n |-> s[p[k]]]
    BY <1>1, SortLists
  <1>3. /\ p \in [1..n -> 1..n]
        /\ \A k, l \in 1..n : k < l => Earlier(s, p[k], p[l])
        /\ \A j \in 1..n : \E k \in 1..n : p[k] = j
    BY <1>2 DEF SortsTo
  <1>4. \A i \in 1..n : s[i].priority \in Int
    OBVIOUS
  <1>5. \A i, j \in 1..n : s[i].name = s[j].name => i = j
    OBVIOUS
  <1> HIDE DEF n, t
  <1>6. /\ DOMAIN t = 1..n /\ Len(t) = n /\ IsSequence(t)
        /\ \A k \in 1..n : t[k] = s[p[k]]
    <2> DEFINE X == {s[i] : i \in 1..n}
    <2>1. \A k \in 1..n : s[p[k]] \in X
      BY <1>3
    <2> HIDE DEF X
    <2>2. t \in [1..n -> X]
      BY <1>2, <2>1
    <2>3. t \in Seq(X) /\ Len(t) = n
      BY <1>1, <2>2
    <2>4. IsSequence(t)
      BY <2>3 DEF IsSequence
    <2> QED BY <1>2, <2>2, <2>3, <2>4
  <1>7. \A k, l \in 1..n : k < l => p[k] # p[l] /\ Earlier(s, p[k], p[l])
    <2> TAKE k, l \in 1..n
    <2> HAVE k < l
    <2>1. p[k] \in 1..n /\ p[l] \in 1..n
      BY <1>3
    <2>2. s[p[k]].priority \in Int /\ s[p[l]].priority \in Int /\ p[k] \in Int
      BY <1>1, <1>4, <2>1
    <2>3. Earlier(s, p[k], p[l])
      BY <1>3
    <2> QED BY <2>2, <2>3 DEF Earlier
  <1>8. ASSUME NEW i \in 1..n, NEW j \in 1..n, t[i].name = t[j].name PROVE i = j
    <2>1. p[i] \in 1..n /\ p[j] \in 1..n /\ s[p[i]].name = s[p[j]].name
      BY <1>3, <1>6, <1>8
    <2>2. p[i] = p[j]
      BY <1>5, <2>1
    <2>3. i \in Int /\ j \in Int
      BY <1>1
    <2>4. ~(i < j) /\ ~(j < i)
      BY <1>7, <2>2
    <2> QED BY <2>3, <2>4
  <1>9. \A i \in 1..n : \E j \in 1..n : t[i] = s[j]
    BY <1>3, <1>6
  <1>10. \A j \in 1..n : \E i \in 1..n : t[i] = s[j]
    BY <1>3, <1>6
  <1>11. ASSUME NEW i \in 1..n, NEW j \in 1..n, i < j
         PROVE  \E k, l \in 1..n : /\ t[i] = s[k] /\ t[j] = s[l]
                                   /\ \/ t[i].priority < t[j].priority
                                      \/ t[i].priority = t[j].priority /\ k < l
    <2>1. p[i] \in 1..n /\ p[j] \in 1..n /\ t[i] = s[p[i]] /\ t[j] = s[p[j]]
      BY <1>3, <1>6
    <2>2. \/ t[i].priority < t[j].priority
          \/ t[i].priority = t[j].priority /\ p[i] < p[j]
      BY <1>7, <1>11, <2>1 DEF Earlier
    <2> QED BY <2>1, <2>2
  <1> QED BY <1>6, <1>8, <1>9, <1>10, <1>11 DEF SortedOf, n, t

\* The menu is complete.
LEMMA LoadedStep == StepInv /\ MenuInv /\ MenuLoaded => MenuInv'
  <1> SUFFICES ASSUME StepInv, MenuInv, MenuLoaded PROVE MenuInv'
    OBVIOUS
  <1>0. /\ pc = "menu" /\ pc' = "done"
        /\ (at > Len(Entries) /\ UNCHANGED failures) \/ OutOfMemory
        /\ loaders' = SortByPriority(loaders)
        /\ UNCHANGED <<sit, config, profiles, menu, missed>>
        /\ failures \in Nat
        /\ at \in Nat /\ config \in Trees[Levels]
    BY BoundAssumption DEF MenuLoaded, StepInv
  <1>1. /\ menu.timeout \in CIntMin..(-CIntMin - 1) /\ menu.save_default \in BOOLEAN
        /\ IsSequence(loaders) /\ Len(loaders) \in Nat
        /\ \A i \in 1..Len(loaders) :
             loaders[i].type \in LoaderTypes /\ InRange(loaders[i].priority)
        /\ \A i, j \in 1..Len(loaders) : loaders[i].name = loaders[j].name => i = j
        /\ \A i \in 1..Len(loaders) : Taken(loaders[i].name, at)
        /\ \A i, j \in 1..Len(loaders) : i < j => Ahead(loaders[i].name, loaders[j].name)
        /\ failures = 0 =>
             \A e \in 1..Len(Entries) : e < at /\ Accepts(Entries[e]) =>
                 \E i \in 1..Len(loaders) : loaders[i].name = Entries[e].key
    BY <1>0, SequenceIs DEF MenuInv
  <1>2. /\ Len(Entries) \in Nat /\ DOMAIN Entries = 1..Len(Entries)
        /\ \A i, j \in 1..Len(Entries) : Entries[i].key = Entries[j].key => i = j
    BY <1>0, EntriesAre
  <1>3. Entries' = Entries /\ \A entry : Accepts(entry)' <=> Accepts(entry)
    BY <1>0, SameEntries
  <1>o. failures' = 0 => failures = 0 /\ at > Len(Entries)
    BY <1>0 DEF OutOfMemory
  <1>4. \A i \in 1..Len(loaders) : loaders[i].priority \in Int
    BY <1>1, ConfigSpecAssumption DEF InRange
  <1> DEFINE s == loaders
             t == loaders'
             n == Len(loaders)
  <1>5. SortedOf(t, s)
    BY <1>0, <1>1, <1>4, SortKeeps
  <1>6. /\ IsSequence(t) /\ Len(t) = n /\ DOMAIN t = 1..n
        /\ \A i \in 1..n : \E j \in 1..n : t[i] = s[j]
        /\ \A j \in 1..n : \E i \in 1..n : t[i] = s[j]
        /\ \A i, j \in 1..n : t[i].name = t[j].name => i = j
        /\ \A i, j \in 1..n : i < j =>
              \E k, l \in 1..n : /\ t[i] = s[k] /\ t[j] = s[l]
                                 /\ \/ t[i].priority < t[j].priority
                                    \/ t[i].priority = t[j].priority /\ k < l
    <2>1. IsSequence(t) /\ Len(t) = n
      BY <1>5 DEF SortedOf
    <2>2. DOMAIN t = 1..n
      BY <2>1, SequenceIs
    <2> QED BY <1>5, <2>1, <2>2 DEF SortedOf
  <1>g. \A i, j \in 1..n : i < j =>
           \E k, l \in 1..n : /\ t[i] = s[k] /\ t[j] = s[l]
                              /\ \/ t[i].priority < t[j].priority
                                 \/ t[i].priority = t[j].priority /\ k < l
    BY <1>6, Zenon
  <1>7. \A i \in 1..n : t[i].type \in LoaderTypes /\ InRange(t[i].priority)
    <2> TAKE i \in 1..n
    <2>1. PICK j \in 1..n : t[i] = s[j]
      BY <1>6
    <2> HIDE DEF LoaderTypes, InRange
    <2> QED BY <1>1, <2>1
  <1>8. \A i, j \in DOMAIN t : i < j => t[i].name # t[j].name /\ StandsBefore(t[i], t[j])
    <2> TAKE i, j \in DOMAIN t
    <2> HAVE i < j
    <2>1. i \in 1..n /\ j \in 1..n
      BY <1>6
    <2>2. i # j
      <3>1. i \in Int /\ j \in Int
        BY <1>1, <2>1
      <3> QED BY <3>1
    <2>3. StandsBefore(t[i], t[j])
      <3>1. PICK k \in 1..n, l \in 1..n : /\ t[i] = s[k] /\ t[j] = s[l]
                                          /\ \/ t[i].priority < t[j].priority
                                             \/ t[i].priority = t[j].priority /\ k < l
        BY <1>g, <2>1, Zenon
      <3>2. k < l => Ahead(t[i].name, t[j].name)
        BY <1>1, <3>1
      <3> QED BY <3>1, <3>2 DEF StandsBefore, Ahead
    <2>4. t[i].name # t[j].name
      BY <1>6, <2>1, <2>2
    <2> QED BY <2>3, <2>4
  <1> DEFINE listed == {t[i].name : i \in DOMAIN t}
  <1>9. ASSUME NEW e \in DOMAIN Entries, Entries[e].key \in listed PROVE MeantForDevice(e)
    <2>1. PICK i \in 1..n : Entries[e].key = t[i].name
      BY <1>6, <1>9
    <2>2. PICK j \in 1..n : t[i] = s[j]
      BY <1>6
    <2>3. PICK d \in 1..Len(Entries) : TakenEntry(d) /\ Entries[d].key = s[j].name
      BY <1>1 DEF Taken
    <2>4. d = e
      BY <1>2, <2>1, <2>2, <2>3
    <2> QED BY <2>3, <2>4, TakenIsMeant
  <1>10. ASSUME NEW e \in DOMAIN Entries, failures' = 0, Accepts(Entries[e])
         PROVE  Entries[e].key \in listed
    <2>1. e \in 1..Len(Entries) /\ e < at
      BY <1>0, <1>o, <1>2, <1>10
    <2>2. PICK j \in 1..n : s[j].name = Entries[e].key
      BY <1>1, <1>o, <1>10, <2>1
    <2>3. PICK i \in 1..n : t[i] = s[j]
      BY <1>6
    <2>4. i \in DOMAIN t
      BY <1>6
    <2>5. t[i].name \in listed
      BY <2>4
    <2> QED BY <2>2, <2>3, <2>5
  <1>11. EntriesForDevice'
    <2>0. cf' = cf /\ \A node : TryMatch(node)' <=> TryMatch(node)
      BY <1>0, SameTries DEF cf
    <2>1. \A e \in DOMAIN Entries' : Entries'[e].key \in listed => MeantForDevice(e)'
      BY <1>0, <1>3, <1>9, <2>0 DEF MeantForDevice, ProfilesFor
    <2>s. \A a, b : StandsBefore(a, b)' <=> StandsBefore(a, b)
      BY <1>3 DEF StandsBefore
    <2>2. \A e \in DOMAIN Entries' : failures' = 0 /\ Accepts(Entries[e])' => Entries'[e].key \in listed
      BY <1>0, <1>3, <1>10
    <2>3. /\ \A i, j \in DOMAIN loaders' : i < j => /\ loaders'[i].name # loaders'[j].name
                                                     /\ StandsBefore(loaders[i], loaders[j])'
          /\ listed = {loaders'[i].name : i \in DOMAIN loaders'}
      BY <1>8, <2>s
    <2> HIDE DEF listed, t
    <2> QED BY <2>1, <2>2, <2>3, Zenon DEF EntriesForDevice
  <1>12. menu' = menu
    BY <1>0
  <1>13. pc' \notin {"folder", "configs", "device", "settings", "menu"}
    BY <1>0
  <1> HIDE DEF LoaderTypes, InRange
  <1> QED BY <1>0, <1>1, <1>6, <1>7, <1>11, <1>12, <1>13 DEF MenuInv

\* Nothing happens to the menu when nothing changes.
LEMMA MenuStays == MenuInv /\ UNCHANGED vars => MenuInv'
  <1> SUFFICES ASSUME MenuInv, UNCHANGED vars PROVE MenuInv'
    OBVIOUS
  <1>0. UNCHANGED <<sit, pc, at, config, profiles, menu, loaders, failures, missed>>
    BY DEF vars
  <1>1. /\ Entries' = Entries
        /\ \A entry, lost : AcceptsBut(entry, lost)' <=> AcceptsBut(entry, lost)
        /\ \A entry : Accepts(entry)' <=> Accepts(entry)
    BY <1>0, SameEntries
  <1>2. \A name, upto : Taken(name, upto)' <=> Taken(name, upto)
    <2>1. \A e : TakenEntry(e)' <=> TakenEntry(e)
      BY <1>0, <1>1 DEF TakenEntry
    <2> QED BY <1>1, <2>1 DEF Taken
  <1>3. \A a, b : Ahead(a, b)' <=> Ahead(a, b)
    BY <1>0, StillAhead
  <1>4. EntriesForDevice'
    <2>1. \A node : TryMatch(node)' <=> TryMatch(node)
      BY <1>0, SameTries
    <2>2. \A e : MeantForDevice(e)' <=> MeantForDevice(e)
      BY <1>0, <1>1, <2>1 DEF MeantForDevice, ProfilesFor
    <2>3. \A a, b : StandsBefore(a, b)' <=> StandsBefore(a, b)
      BY <1>1 DEF StandsBefore
    <2> QED BY <1>0, <1>1, <2>2, <2>3 DEF MenuInv, EntriesForDevice
  <1> QED BY <1>0, <1>1, <1>2, <1>3, <1>4 DEF MenuInv

\* Every step keeps what is known of the menu.
LEMMA MenuNext == StepInv /\ MenuInv /\ [Next]_vars => MenuInv'
  <1> SUFFICES ASSUME StepInv, MenuInv, [Next]_vars PROVE MenuInv'
    OBVIOUS
  <1>1. CASE pc \in {"folder", "configs", "device"}
    BY <1>1, BeforeMenu
  <1>2. CASE pc \notin {"folder", "configs", "device"}
    <2>1. \/ LoadSettings \/ NoMenu \/ LoadLoader \/ DropLoader \/ MenuLoaded
          \/ UNCHANGED vars
      BY <1>2 DEF Next, FindFolder, FolderNotFound, LoadFile, SkipFile, ConfigsLoaded, ChooseDevice,
                  NextDevice, NoDevice
    <2> QED BY <2>1, SettingsStep, NoMenuStep, LoaderStep, DropStep, LoadedStep, MenuStays
  <1> QED BY <1>1, <1>2

-----------------------------------------------------------------------------
\* The device, its profiles and the entries of the menu belong together: the
\* device's conditions hold and an entry is made for the device, unless these
\* very conditions or lists were not found for want of memory, and the entries
\* stand by priority and then as they are configured.
THEOREM MenuIsForDevice == Spec => []MenuForDevice
  <1> DEFINE I == StepInv /\ FolderInv /\ DeviceInv /\ MenuInv
  <1>1. Init => I
    BY StepInit, FolderInit, DeviceInit, MenuInit
  <1>2. I /\ [Next]_vars => I'
    BY StepNext, FolderNext, DeviceNext, MenuNext
  <1>3. I => MenuForDevice
    <2> SUFFICES ASSUME I PROVE MenuForDevice
      OBVIOUS
    <2>1. /\ pc \in {"folder", "configs", "device", "settings", "menu", "done"}
          /\ failures \in 0..MaxFailures /\ sit \in DOMAIN Situations
      BY DEF StepInv
    <2>2. dir \in DOMAIN cf.volumes \cup {NoVolume}
      <3>1. CASE pc = "folder"
        BY <3>1 DEF FolderInv
      <3>2. CASE pc # "folder"
        <4>1. \A v \in With : v \in DOMAIN cf.volumes /\ v \in Nat
          <5>1. Len(cf.volumes) \in Nat /\ DOMAIN cf.volumes = 1..Len(cf.volumes)
            BY <2>1, VolumesAre
          <5>2. \A v \in DOMAIN cf.volumes : v \in Nat
            BY <5>1
          <5> QED BY <5>2 DEF With
        <4>2. With # {} => (CHOOSE v \in With : \A w \in With : v <= w) \in With
          <5>1. With \in SUBSET Nat
            BY <4>1
          <5> QED BY <5>1, LeastMember
        <4>3. FolderFound
          BY <3>2 DEF FolderInv
        <4> QED BY <4>1, <4>2, <4>3 DEF FolderFound
      <3> QED BY <3>1, <3>2
    <2>3. /\ menu.timeout \in CIntMin..(-CIntMin - 1) /\ menu.save_default \in BOOLEAN
          /\ \A i \in DOMAIN loaders : loaders[i].type \in LoaderTypes /\ InRange(loaders[i].priority)
      BY SequenceIs DEF MenuInv
    <2>4. TypeOK
      BY <2>1, <2>2, <2>3, Zenon DEF TypeOK
    <2> QED BY <2>4 DEF MenuForDevice, DeviceInv, MenuInv
  <1> QED BY <1>1, <1>2, <1>3, PTL DEF Spec

-----------------------------------------------------------------------------
(* Files as trees *)

\* The words of cmdline.txt as a tree.
ArgsDoc(words) == MapTree(<<Entry("bootargs", WordList(words))>>)
CmdlineDoc(words) == MapTree(<<Entry("menu", ArgsDoc(words))>>)

\* A map of one entry.
LEMMA SingleMap ==
    ASSUME NEW n \in 1..Levels, NEW key \in Keys, NEW node \in NodesBelow(n)
    PROVE  /\ MapTree(<<Entry(key, node)>>) \in Maps(n)
           /\ MapTree(<<Entry(key, node)>>) = WithKey(MapTree(<<>>), key, node)
  <1> DEFINE e == Entry(key, node)
             N == NodesBelow(n)
             R == [key : Keys, node : N]
             empty == MapTree(<<>>)
  <1>1. e \in R
    BY DEF Entry
  <1>2. <<e>> \in Seq(R) /\ Len(<<e>>) = 1
    <2> HIDE DEF R, e
    <2> QED BY <1>1
  <1>3. \A i, j \in 1..1 : <<e>>[i].key = <<e>>[j].key => i = j
    OBVIOUS
  <1>4. MapTree(<<e>>) \in Maps(n)
    <2> HIDE DEF e
    <2> QED BY <1>2, <1>3, MapMade
  <1>5. PositionOf(empty, key) = 0
    <2>1. empty.items = <<>> /\ Len(empty.items) = 0
      BY DEF MapTree
    <2>2. Len(empty.items) \in Nat
      BY <2>1
    <2> HIDE DEF empty
    <2>3. PositionOf(empty, key) = 0 \/ PositionOf(empty, key) \in 1..Len(empty.items)
      BY <2>2, PositionIs
    <2> QED BY <2>1, <2>3
  <1>6. WithKey(empty, key, node) = MapTree(Append(<<>>, e))
    <2>1. empty.items = <<>>
      BY DEF MapTree
    <2> HIDE DEF empty
    <2> QED BY <1>5, <2>1 DEF WithKey
  <1>7. Append(<<>>, e) = <<e>>
    <2> HIDE DEF e
    <2> QED OBVIOUS
  <1> QED BY <1>4, <1>6, <1>7

\* Merging a map of one entry sets that entry.
LEMMA MergedSingle ==
    ASSUME NEW n \in 1..Levels, NEW key \in Keys, NEW node \in NodesBelow(n),
           NEW tree \in Trees[n]
    PROVE  Merging[n][<<tree, MapTree(<<Entry(key, node)>>)>>] =
             WithKey(MapOrEmpty(tree), key, Joined(Merging[n - 1], LookupKey(tree, key), node))
  <1> DEFINE new == MapTree(<<Entry(key, node)>>)
             merge == Merging[n - 1]
  <1>0. /\ Levels \in Nat /\ n \in 0..Levels /\ n - 1 \in 0..Levels
    BY ConfigSpecAssumption
  <1>1. new \in Maps(n) /\ new = WithKey(MapTree(<<>>), key, node)
    BY SingleMap
  <1>2. new \in Trees[n] /\ new.type = "map" /\ new.items = <<Entry(key, node)>>
    BY <1>1 DEF Maps, MapTree
  <1> HIDE DEF new
  <1>3. Merging[n][<<tree, new>>] = MergedAt(merge, tree, new)
    BY <1>0, <1>2, MergingIs
  <1>4. CASE tree.type = "map"
    <2>1. tree \in Maps(n)
      BY <1>4 DEF Maps
    <2>2. MergedAt(merge, tree, new) = MergeEntries(merge, tree, new)
      BY <1>2, <1>4 DEF MergedAt
    <2>3. Merges(merge, n)
      BY <1>0, MergingTyped DEF Merges, NodesBelow
    <2>4. PICK m : /\ m \in [0..Len(new.items) -> Maps(n)]
                   /\ IsMerging(m, merge, tree, new)
                   /\ MergeEntries(merge, tree, new) = m[Len(new.items)]
      BY <1>1, <2>1, <2>3, MergeEntriesSteps
    <2>5. Len(new.items) = 1 /\ new.items[1] = Entry(key, node)
      BY <1>2
    <2>6. m[1] = MergeStep(merge, new, m[0], 1) /\ m[0] = tree
      BY <2>4, <2>5 DEF IsMerging
    <2>7. new.items[1].key = key /\ new.items[1].node = node
      BY <2>5 DEF Entry
    <2>8. m[1] = WithKey(tree, key, Joined(merge, LookupKey(tree, key), node))
      BY <2>6, <2>7 DEF MergeStep
    <2>9. MapOrEmpty(tree) = tree
      BY <1>4 DEF MapOrEmpty
    <2> QED BY <1>3, <2>2, <2>4, <2>5, <2>8, <2>9 DEF new, merge
  <1>5. CASE tree.type # "map"
    <2>1. MergedAt(merge, tree, new) = new
      BY <1>2, <1>5 DEF MergedAt
    <2>2. LookupKey(tree, key) = Absent
      BY <1>5, LookupKeyIs
    <2>3. MapOrEmpty(tree) = MapTree(<<>>)
      BY <1>5 DEF MapOrEmpty
    <2>4. Joined(merge, LookupKey(tree, key), node) = node
      BY <2>2 DEF Joined
    <2> QED BY <1>1, <1>3, <2>1, <2>3, <2>4 DEF new
  <1> QED BY <1>4, <1>5 DEF new

\* cmdline.txt is loaded like the tree of its words.
LEMMA CmdlineMerges ==
    ASSUME NEW tree \in Trees[Levels], tree.type = "map", NEW words \in Seq(Strings)
    PROVE  /\ CmdlineDoc(words) \in Trees[Levels]
           /\ WordList(words) \in Trees[Levels - 2]
           /\ ArgsDoc(words) \in Trees[Levels - 1]
           /\ LoadCmdline(tree, words) = TreeMerge(tree, CmdlineDoc(words))
  <1>0. /\ Levels \in Nat /\ Levels \in 1..Levels /\ Levels - 1 \in 1..Levels
        /\ Levels - 2 \in 1..Levels /\ Levels - 3 \in 1..Levels
        /\ Levels - 1 - 1 = Levels - 2 /\ Levels - 2 \in 0..Levels
        /\ NodesBelow(Levels) = Trees[Levels - 1] /\ NodesBelow(Levels - 1) = Trees[Levels - 2]
        /\ NodesBelow(Levels - 2) = Trees[Levels - 3]
    BY ConfigSpecAssumption, KeysAssumption DEF NodesBelow
  <1>k. "menu" \in Keys /\ "bootargs" \in Keys
    BY OwnKeys
  <1> DEFINE new == [i \in DOMAIN words |-> Str(words[i])]
             N == NodesBelow(Levels - 2)
             list == WordList(words)
             args == ArgsDoc(words)
             settings == LookupKey(tree, "menu")
             known == IF LookupKey(settings, "bootargs").type = "array"
                      THEN LookupKey(settings, "bootargs").items ELSE <<>>
  <1>1. new \in Seq(N)
    <2>1. \A s \in Strings : Str(s) \in N
      BY <1>0, Leaf
    <2> HIDE DEF N
    <2>2. Len(words) \in Nat /\ DOMAIN words = 1..Len(words)
          /\ \A i \in 1..Len(words) : words[i] \in Strings
      OBVIOUS
    <2>3. new \in [1..Len(words) -> N]
      BY <2>1, <2>2
    <2> HIDE DEF new
    <2> QED BY <2>2, <2>3
  <1>2. list = ArrayTree(new)
    BY DEF WordList
  <1>3. list \in Trees[Levels - 2] /\ list.type = "array" /\ list.items = new
    <2>1. list = ArrayTree(list.items) /\ list.items \in Seq(NodesBelow(Levels - 2))
          /\ list.type = "array" /\ list.items = new
      BY <1>1, <1>2 DEF ArrayTree
    <2> HIDE DEF list, new
    <2> QED BY <1>0, <2>1, TreeIs
  <1> HIDE DEF list, new, N
  <1>4. args \in Maps(Levels - 1) /\ args = MapTree(<<Entry("bootargs", list)>>)
        /\ args = WithKey(MapTree(<<>>), "bootargs", list)
    BY <1>0, <1>3, <1>k, SingleMap DEF ArgsDoc, list
  <1>5. args \in Trees[Levels - 1]
    BY <1>4 DEF Maps
  <1> HIDE DEF args
  <1>6. CmdlineDoc(words) = MapTree(<<Entry("menu", args)>>) /\ CmdlineDoc(words) \in Trees[Levels]
    BY <1>0, <1>5, <1>k, SingleMap DEF CmdlineDoc, args, Maps
  <1>7. TreeMerge(tree, CmdlineDoc(words))
          = WithKey(tree, "menu", Joined(Merging[Levels - 1], settings, args))
    <2>1. MapOrEmpty(tree) = tree
      BY DEF MapOrEmpty
    <2>2. Merging[Levels][<<tree, MapTree(<<Entry("menu", args)>>)>>]
            = WithKey(MapOrEmpty(tree), "menu",
                      Joined(Merging[Levels - 1], LookupKey(tree, "menu"), args))
      BY <1>0, <1>5, <1>k, MergedSingle
    <2> QED BY <1>6, <2>1, <2>2 DEF TreeMerge
  <1>8. settings \in Trees[Levels - 1] \cup {Absent}
    BY <1>0, LookupKeyTyped
  <1> HIDE DEF settings
  <1>9. LookupKey(settings, "bootargs") \in Trees[Levels - 2] \cup {Absent}
    <2>1. CASE settings = Absent
      <3>1. Absent.type # "map"
        BY DEF Absent
      <3> QED BY <2>1, <3>1, LookupKeyIs
    <2>2. CASE settings # Absent
      BY <1>0, <1>8, <2>2, LookupKeyTyped
    <2> QED BY <2>1, <2>2
  <1> DEFINE old == LookupKey(settings, "bootargs")
  <1>10. Joined(Merging[Levels - 2], old, list) = ArrayTree(known \o new)
    <2>1. CASE old = Absent
      <3>1. Absent.type # "array"
        BY DEF Absent
      <3>2. known = <<>>
        BY <2>1, <3>1
      <3>3. <<>> \o new = new
        BY <1>1
      <3> QED BY <1>2, <2>1, <3>2, <3>3 DEF Joined
    <2>2. CASE old # Absent
      <3>1. old \in Trees[Levels - 2]
        BY <1>9, <2>2
      <3> HIDE DEF old
      <3>2. Merging[Levels - 2][<<old, list>>] = MergedAt(Merging[Levels - 2 - 1], old, list)
        BY <1>0, <1>3, <3>1, MergingIs
      <3>3. CASE old.type = "array"
        <4>1. MergedAt(Merging[Levels - 2 - 1], old, list) = ArrayTree(old.items \o new)
          BY <1>3, <3>3 DEF MergedAt
        <4>2. known = old.items
          BY <3>3 DEF old
        <4> QED BY <2>2, <3>2, <4>1, <4>2 DEF Joined
      <3>4. CASE old.type # "array"
        <4>1. MergedAt(Merging[Levels - 2 - 1], old, list) = list
          BY <1>3, <3>4 DEF MergedAt
        <4>2. known = <<>>
          BY <3>4 DEF old
        <4>3. <<>> \o new = new
          BY <1>1
        <4> QED BY <1>2, <2>2, <3>2, <4>1, <4>2, <4>3 DEF Joined
      <3> QED BY <3>3, <3>4
    <2> QED BY <2>1, <2>2
  <1> HIDE DEF known, old
  <1>11. Joined(Merging[Levels - 1], settings, args)
           = WithKey(MapOrEmpty(settings), "bootargs", ArrayTree(known \o new))
    <2>1. CASE settings = Absent
      <3>1. Absent.type # "map"
        BY DEF Absent
      <3>2. MapOrEmpty(settings) = MapTree(<<>>)
        BY <2>1, <3>1 DEF MapOrEmpty
      <3>3. old = Absent
        BY <2>1, <3>1, LookupKeyIs DEF old
      <3>4. Joined(Merging[Levels - 2], old, list) = list
        BY <3>3 DEF Joined
      <3> QED BY <1>4, <1>10, <2>1, <3>2, <3>4 DEF Joined
    <2>2. CASE settings # Absent
      <3>1. settings \in Trees[Levels - 1]
        BY <1>8, <2>2
      <3>2. Merging[Levels - 1][<<settings, MapTree(<<Entry("bootargs", list)>>)>>]
              = WithKey(MapOrEmpty(settings), "bootargs",
                        Joined(Merging[Levels - 1 - 1], LookupKey(settings, "bootargs"), list))
        BY <1>0, <1>3, <1>k, <3>1, MergedSingle
      <3>3. Joined(Merging[Levels - 1], settings, args) = Merging[Levels - 1][<<settings, args>>]
        BY <2>2 DEF Joined
      <3> QED BY <1>0, <1>4, <1>10, <3>2, <3>3 DEF old
    <2> QED BY <2>1, <2>2
  <1>12. LoadCmdline(tree, words)
           = WithKey(tree, "menu", WithKey(MapOrEmpty(settings), "bootargs", ArrayTree(known \o new)))
    <2> DEFINE s == MapOrEmpty(LookupKey(tree, "menu"))
               b == LookupKey(s, "bootargs")
               k == IF b.type = "array" THEN b.items ELSE <<>>
    <2>1. LoadCmdline(tree, words)
            = WithKey(tree, "menu", WithKey(s, "bootargs", ArrayTree(k \o new)))
      BY Zenon DEF LoadCmdline, new
    <2>2. b = LookupKey(settings, "bootargs")
      BY MapOrEmptyOf DEF settings
    <2>3. k = known
      BY <2>2 DEF known
    <2> HIDE DEF k
    <2> QED BY <2>1, <2>3 DEF settings
  <1> QED BY <1>3, <1>5, <1>6, <1>7, <1>11, <1>12 DEF list, args

\* The fixed files come first, then dtbo.txt and cmdline.txt, then the others.
LEMMA OrderOfFiles ==
    /\ \A e \in 1..10 : /\ FileOrder[e] = "dtbo.txt" <=> e = 5
                        /\ FileOrder[e] = "cmdline.txt" <=> e = 6
                        /\ Changeable(FileOrder[e]) <=> e >= 7
    /\ Len(FileOrder) = 10
  <1>1. \A e \in 1..10 : e \in {1, 2, 3, 4, 5, 6, 7, 8, 9, 10}
    OBVIOUS
  <1>2. Len(FileOrder) = 10
    BY DEF FileOrder
  <1>3. ASSUME NEW e \in 1..10
        PROVE  /\ FileOrder[e] = "dtbo.txt" <=> e = 5
               /\ FileOrder[e] = "cmdline.txt" <=> e = 6
               /\ Changeable(FileOrder[e]) <=> e >= 7
    <2>1. CASE e \in {1, 2, 3, 4}
      BY <2>1 DEF FileOrder, Changeable
    <2>2. CASE e \in {5, 6}
      BY <2>2 DEF FileOrder, Changeable
    <2>3. CASE e \in {7, 8, 9, 10}
      BY <2>3 DEF FileOrder, Changeable
    <2> QED BY <1>1, <2>1, <2>2, <2>3
  <1> QED BY <1>2, <1>3

\* Every file is read once.
LEMMA FilesDiffer == \A d, e \in 1..10 : FileOrder[d] = FileOrder[e] => d = e
  <1> SUFFICES ASSUME NEW d \in 1..10, NEW e \in 1..10, FileOrder[d] = FileOrder[e], d # e
               PROVE  FALSE
    OBVIOUS
  <1>1. d \in {1, 2, 3, 4, 5, 6, 7, 8, 9, 10} /\ e \in {1, 2, 3, 4, 5, 6, 7, 8, 9, 10}
    OBVIOUS
  <1>2. CASE d \in {1, 2, 3}
    BY <1>1, <1>2 DEF FileOrder
  <1>3. CASE d \in {4, 5, 6}
    BY <1>1, <1>3 DEF FileOrder
  <1>4. CASE d \in {7, 8}
    BY <1>1, <1>4 DEF FileOrder
  <1>5. CASE d \in {9, 10}
    BY <1>1, <1>5 DEF FileOrder
  <1> QED BY <1>1, <1>2, <1>3, <1>4, <1>5

\* A file as a tree
DocOf(name) ==
    IF name = "cmdline.txt" THEN CmdlineDoc(File(name).words) ELSE File(name).doc

\* What a file that was loaded adds.
LEMMA DocIs == \A i : Doc(i) = DocOf(loaded[i])
  BY DEF Doc, DocOf, CmdlineDoc, ArgsDoc

\* A file other than dtbo.txt is merged, or refused as a whole.
LEMMA FileMerges ==
    ASSUME sit \in DOMAIN Situations, config \in Trees[Levels], NEW name, name # "dtbo.txt",
           File(name).state = "whole"
    PROVE  IF Accepted(name)
           THEN /\ DocOf(name) \in Trees[Levels]
                /\ Loads(name, config) = TreeMerge(config, DocOf(name))
           ELSE Loads(name, config) = config
  <1>1. name \in DOMAIN cf.files /\ File(name) = cf.files[name]
    <2>1. Missing.state # "whole"
      BY DEF Missing
    <2> QED BY <2>1 DEF File
  <1>2. Readable(name, File(name))
    BY <1>1, SituationAssumption DEF cf
  <1>3. CASE name = "cmdline.txt"
    <2>1. File(name).words \in Seq(Strings)
      BY <1>2, <1>3 DEF Readable
    <2>2. Loads(name, config) = LoadCmdline(config, File(name).words)
      BY <1>3 DEF Loads
    <2>3. Accepted(name) <=> config.type = "map"
      BY <1>3 DEF Accepted
    <2>4. DocOf(name) = CmdlineDoc(File(name).words)
      BY <1>3 DEF DocOf
    <2>5. CASE config.type = "map"
      BY <2>1, <2>2, <2>3, <2>4, <2>5, CmdlineMerges
    <2>6. CASE config.type # "map"
      BY <2>1, <2>2, <2>3, <2>6, CmdlineLoaded
    <2> QED BY <2>5, <2>6
  <1>4. CASE name # "cmdline.txt"
    <2>1. File(name).doc \in Trees[Levels] /\ Accepted(name)
      BY <1>2, <1>4 DEF Readable, Accepted
    <2>2. Loads(name, config) = TreeMerge(config, File(name).doc)
      BY <1>4 DEF Loads
    <2>3. DocOf(name) = File(name).doc
      BY <1>4 DEF DocOf
    <2> QED BY <2>1, <2>2, <2>3
  <1> QED BY <1>3, <1>4

\* What a path by keys reads, step by step.
LEMMA LookupFirst ==
    ASSUME NEW tree, NEW X, NEW path \in Seq(X), path # <<>>
    PROVE  Lookup(tree, path) = Lookup(Child(tree, path[1]), Tail(path))
  <1> DEFINE n == Len(path)
             rest == Tail(path)
             t == Child(tree, path[1])
  <1>1. n \in Nat /\ n >= 1 /\ rest \in Seq(X) /\ Len(rest) = n - 1
        /\ \A i \in 1..(n - 1) : rest[i] = path[i + 1]
    OBVIOUS
  <1>2. PICK g : IsWalk(g, t, rest) /\ Lookup(t, rest) = g[Len(rest)]
    <2> HIDE DEF rest, t, n
    <2>1. Len(rest) \in Nat
      BY <1>1
    <2> QED BY <2>1, LookupWalks
  <1> DEFINE h == [i \in 0..n |-> IF i = 0 THEN tree ELSE g[i - 1]]
  <1> HIDE DEF rest
  <1>3. IsWalk(h, tree, path)
    <2>1. DOMAIN h = 0..n /\ h[0] = tree
      BY <1>1
    <2>2. ASSUME NEW i \in 1..n PROVE h[i] = Child(h[i - 1], path[i])
      <3>1. CASE i = 1
        <4>1. h[1] = g[0] /\ h[0] = tree
          BY <1>1
        <4>2. g[0] = t
          BY <1>2 DEF IsWalk
        <4> QED BY <3>1, <4>1, <4>2
      <3>2. CASE i # 1
        <4>1. i - 1 \in 1..(n - 1) /\ (i - 1) + 1 = i /\ i - 1 # 0
          BY <1>1, <3>2
        <4>2. g[i - 1] = Child(g[i - 1 - 1], rest[i - 1])
          BY <1>1, <1>2, <4>1 DEF IsWalk
        <4>3. rest[i - 1] = path[i]
          BY <1>1, <4>1
        <4>4. h[i] = g[i - 1] /\ h[i - 1] = g[i - 1 - 1]
          BY <1>1, <4>1
        <4> QED BY <4>2, <4>3, <4>4
      <3> QED BY <3>1, <3>2
    <2> HIDE DEF h
    <2> QED BY <2>1, <2>2 DEF IsWalk
  <1>4. h[n] = g[n - 1]
    BY <1>1
  <1> HIDE DEF h
  <1>5. Lookup(tree, path) = h[n]
    BY <1>1, <1>3, WalkIs
  <1> QED BY <1>1, <1>2, <1>4, <1>5 DEF rest

\* The empty path names the root.
LEMMA LookupNothing == \A tree : Lookup(tree, <<>>) = tree
  <1> TAKE tree
  <1> DEFINE g == [i \in 0..0 |-> tree]
  <1>1. Len(<<>>) = 0
    OBVIOUS
  <1>2. IsWalk(g, tree, <<>>) /\ g[0] = tree
    BY <1>1 DEF IsWalk
  <1> HIDE DEF g
  <1> QED BY <1>1, <1>2, WalkIs

\* A path of two keys
LEMMA LookupTwo ==
    ASSUME NEW tree, NEW a, NEW b
    PROVE  Lookup(tree, <<KeyStep(a), KeyStep(b)>>) = LookupKey(LookupKey(tree, a), b)
  <1> DEFINE p == <<KeyStep(a), KeyStep(b)>>
             g == [i \in 0..2 |-> IF i = 0 THEN tree ELSE IF i = 1 THEN LookupKey(tree, a)
                                  ELSE LookupKey(LookupKey(tree, a), b)]
  <1>1. Len(p) = 2 /\ p[1] = KeyStep(a) /\ p[2] = KeyStep(b)
    OBVIOUS
  <1> HIDE DEF p
  <1>2. /\ DOMAIN g = 0..2 /\ g[0] = tree
        /\ g[1] = Child(g[0], p[1]) /\ g[2] = Child(g[1], p[2])
        /\ g[2] = LookupKey(LookupKey(tree, a), b)
    BY <1>1 DEF LookupKey
  <1> HIDE DEF g
  <1>3. \A i \in 1..2 : g[i] = Child(g[i - 1], p[i])
    <2> TAKE i \in 1..2
    <2>1. (i = 1 /\ i - 1 = 0) \/ (i = 2 /\ i - 1 = 1)
      OBVIOUS
    <2> QED BY <1>2, <2>1
  <1>4. IsWalk(g, tree, p)
    BY <1>1, <1>2, <1>3 DEF IsWalk
  <1> QED BY <1>1, <1>2, <1>4, WalkIs DEF p

\* A path of three keys
LEMMA LookupThree ==
    ASSUME NEW tree, NEW a, NEW b, NEW c
    PROVE  Lookup(tree, <<KeyStep(a), KeyStep(b), KeyStep(c)>>)
             = LookupKey(LookupKey(LookupKey(tree, a), b), c)
  <1> DEFINE p == <<KeyStep(a), KeyStep(b), KeyStep(c)>>
             X == {KeyStep(a), KeyStep(b), KeyStep(c)}
  <1>1. p \in Seq(X) /\ p # <<>> /\ p[1] = KeyStep(a) /\ Tail(p) = <<KeyStep(b), KeyStep(c)>>
    OBVIOUS
  <1>2. Lookup(tree, p) = Lookup(Child(tree, p[1]), Tail(p))
    BY <1>1, LookupFirst
  <1> HIDE DEF p
  <1> QED BY <1>1, <1>2, LookupTwo DEF LookupKey, p

-----------------------------------------------------------------------------
(* What a tree says *)

\* Readings by levels.
ReadingsIn(tree, below) ==
    IF tree.type = "value" THEN {<<<<>>, tree.value>>}
    ELSE UNION {{<<<<step>> \o r[1], r[2]>> : r \in below[Child(tree, step)]} : step \in Steps(tree)}

\* The readings of a tree are made of those of its children.
LEMMA ReadingsBuilt ==
    \A n \in 0..Levels : ReadingsOf[n] = [tree \in Trees[n] |-> ReadingsIn(tree, ReadingsOf[n - 1])]
  <1> DEFINE level(n, below) == [tree \in Trees[n] |-> ReadingsIn(tree, below)]
             Body(g, m) == [n \in 0..m |-> level(n, g[n - 1])]
             S == {m \in 0..Levels : \E g : g = Body(g, m)}
  <1>0. Levels \in Nat
    BY ConfigSpecAssumption
  <1>1. 0 \in S
    <2> DEFINE g == [n \in 0..0 |-> [tree \in {} |-> tree]]
    <2>1. Trees[0] = {}
      BY <1>0, TreesBuilt
    <2>2. level(0, g[-1]) = [tree \in {} |-> tree]
      BY <2>1
    <2> DEFINE e == [tree \in {} |-> tree]
    <2> HIDE DEF level, e
    <2>3. g = Body(g, 0)
      BY <2>2 DEF e
    <2> HIDE DEF g, Body
    <2> QED BY <1>0, <2>3
  <1>2. ASSUME NEW m \in 0..(Levels - 1), m \in S PROVE m + 1 \in S
    <2>1. PICK g : g = Body(g, m)
      BY <1>2
    <2> DEFINE h == [n \in 0..(m + 1) |-> level(n, g[n - 1])]
    <2> HIDE DEF level
    <2>2. \A n \in 0..m : h[n] = g[n]
      <3>1. \A n \in 0..m : h[n] = Body(g, m)[n]
        BY <1>0
      <3> HIDE DEF h, Body
      <3> QED BY <2>1, <3>1
    <2>3. h = Body(h, m + 1)
      <3>1. \A n \in 0..(m + 1) : n # 0 => h[n - 1] = g[n - 1]
        BY <2>2, <1>0
      <3>2. \A a, b : level(0, a) = level(0, b)
        <4>1. Trees[0] = {}
          BY <1>0, TreesBuilt
        <4> QED BY <4>1 DEF level
      <3> DEFINE k == h
      <3>3. \A n \in 0..(m + 1) : level(n, k[n - 1]) = level(n, g[n - 1])
        BY <3>1, <3>2
      <3>4. k = [n \in 0..(m + 1) |-> level(n, g[n - 1])]
        OBVIOUS
      <3> HIDE DEF k
      <3>5. k = Body(k, m + 1)
        BY <3>3, <3>4
      <3> QED BY <3>5 DEF k
    <2>4. m + 1 \in 0..Levels
      BY <1>0
    <2> HIDE DEF h, Body
    <2> QED BY <2>3, <2>4
  <1>3. Levels \in S
    <2> HIDE DEF S
    <2> QED BY <1>0, <1>1, <1>2, SetInduction
  <1>4. \E g : g = Body(g, Levels)
    BY <1>3
  <1>5. ReadingsOf = CHOOSE g : g = Body(g, Levels)
    BY Zenon DEF ReadingsOf, ReadingsIn
  <1>6. ReadingsOf = Body(ReadingsOf, Levels)
    <2> HIDE DEF Body
    <2> QED BY <1>4, <1>5, Zenon
  <1> DEFINE M == ReadingsOf
  <1>7. M = Body(M, Levels)
    BY <1>6, Zenon
  <1> HIDE DEF M
  <1>8. \A n \in 0..Levels : M[n] = level(n, M[n - 1])
    <2> HIDE DEF level
    <2> QED BY <1>7
  <1> QED BY <1>8, Zenon DEF M

\* A step of a path, by key or by index
AnyStep == [key : Keys] \cup [index : Int]

\* A step to a child goes one level down.
LEMMA StepDown ==
    ASSUME NEW n \in 1..Levels, NEW t \in Trees[n], NEW step \in Steps(t)
    PROVE  step \in AnyStep /\ Child(t, step) \in NodesBelow(n)
  <1>0. \A k, i : IsKey(KeyStep(k)) /\ KeyStep(k).key = k /\ ~IsKey(IndexStep(i)) /\ IndexStep(i).index = i
    BY DEF IsKey, KeyStep, IndexStep
  <1>1. CASE t.type = "map"
    <2>1. t \in Maps(n)
      BY <1>1 DEF Maps
    <2>2. /\ DOMAIN t.items = 1..Len(t.items) /\ Len(t.items) \in Nat
          /\ \A i \in 1..Len(t.items) : t.items[i].key \in Keys /\ t.items[i].node \in NodesBelow(n)
      BY <2>1, ItemsOf
    <2>3. PICK i \in 1..Len(t.items) : step = KeyStep(t.items[i].key)
      BY <1>1, <2>2 DEF Steps
    <2>4. PositionOf(t, t.items[i].key) = i /\ i # 0
      BY <2>1, <2>2, PositionInMap
    <2>5. Child(t, step) = t.items[i].node
      BY <1>0, <1>1, <2>3, <2>4 DEF Child
    <2>6. step \in [key : Keys]
      BY <2>2, <2>3 DEF KeyStep
    <2> QED BY <2>2, <2>5, <2>6 DEF AnyStep
  <1>2. CASE t.type = "array"
    <2>1. t.items \in Seq(NodesBelow(n))
      <3>1. \/ t = NullTree
            \/ t = ValueTree(t.value) /\ t.value \in LeafValue
            \/ t = ArrayTree(t.items) /\ t.items \in Seq(NodesBelow(n))
            \/ IsMapTree(t, n)
        BY TreeIs
      <3>2. NullTree.type = "null" /\ \A x : ValueTree(x).type = "value" /\ MapTree(x).type = "map"
        BY DEF NullTree, ValueTree, MapTree
      <3> QED BY <1>2, <3>1, <3>2, Zenon DEF IsMapTree
    <2> DEFINE s == t.items
               N == NodesBelow(n)
    <2>2. PICK i \in DOMAIN s : step = IndexStep(i - 1)
      BY <1>2 DEF Steps
    <2> HIDE DEF N, s
    <2>3. s \in Seq(N)
      BY <2>1 DEF N, s
    <2>4. Len(s) \in Nat /\ i \in 1..Len(s) /\ s[i] \in N
      BY <2>2, <2>3
    <2>5. step.index = i - 1 /\ ~IsKey(step) /\ step \in [index : Int]
      <3>1. i - 1 \in Int
        BY <2>4
      <3> QED BY <1>0, <2>2, <3>1 DEF IndexStep
    <2>6. step.index < Len(s) /\ step.index + 1 = i
      BY <2>4, <2>5
    <2>7. Child(t, step) = s[i]
      BY <1>2, <2>5, <2>6 DEF Child, s
    <2> QED BY <2>4, <2>5, <2>7 DEF AnyStep, N
  <1>3. CASE t.type \notin {"map", "array"}
    BY <1>3 DEF Steps
  <1> QED BY <1>1, <1>2, <1>3

\* A reading gives the value that its path reads.
IsReadingOf(tree, r) ==
    r[1] \in Seq(AnyStep) /\ (ByKeys(r[1]) => Lookup(tree, r[1]) = ValueTree(r[2]))

\* Every reading gives what its path reads.
LEMMA ReadingsRead ==
    \A n \in 0..Levels : \A t \in Trees[n] : \A r \in ReadingsOf[n][t] : IsReadingOf(t, r)
  <1> DEFINE S == {n \in 0..Levels : \A t \in Trees[n] : \A r \in ReadingsOf[n][t] : IsReadingOf(t, r)}
  <1>0. Levels \in Nat
    BY ConfigSpecAssumption
  <1>1. 0 \in S
    <2>1. Trees[0] = {}
      BY <1>0, TreesBuilt
    <2> QED BY <1>0, <2>1
  <1>2. ASSUME NEW m \in 0..(Levels - 1), m \in S PROVE m + 1 \in S
    <2>1. PICK n \in 1..Levels : n = m + 1 /\ n - 1 = m /\ n \in 0..Levels
      BY <1>0
    <2>2. \A t \in Trees[m] : \A r \in ReadingsOf[m][t] : IsReadingOf(t, r)
      BY <1>2
    <2>3. ASSUME NEW t \in Trees[n], NEW r \in ReadingsOf[n][t] PROVE IsReadingOf(t, r)
      <3>1. ReadingsOf[n][t] = ReadingsIn(t, ReadingsOf[m])
        <4>1. ReadingsOf[n] = [tree \in Trees[n] |-> ReadingsIn(tree, ReadingsOf[n - 1])]
          BY <2>1, ReadingsBuilt
        <4> QED BY <2>1, <4>1
      <3>2. CASE t.type = "value"
        <4>1. r[1] = <<>> /\ r[2] = t.value
          BY <3>1, <3>2 DEF ReadingsIn
        <4>2. t = ValueTree(t.value)
          <5>1. \/ t = NullTree
                \/ t = ValueTree(t.value) /\ t.value \in LeafValue
                \/ t = ArrayTree(t.items) /\ t.items \in Seq(NodesBelow(n))
                \/ IsMapTree(t, n)
            BY TreeIs
          <5>2. NullTree.type = "null" /\ \A x : ArrayTree(x).type = "array" /\ MapTree(x).type = "map"
            BY DEF NullTree, ArrayTree, MapTree
          <5> QED BY <3>2, <5>1, <5>2, Zenon DEF IsMapTree
        <4>3. <<>> \in Seq(AnyStep)
          OBVIOUS
        <4> QED BY <4>1, <4>2, <4>3, LookupNothing DEF IsReadingOf
      <3>3. CASE t.type # "value"
        <4>1. PICK step \in Steps(t) : \E q \in ReadingsOf[m][Child(t, step)] :
                 r = <<<<step>> \o q[1], q[2]>>
          <5> DEFINE below(step) == ReadingsOf[m][Child(t, step)]
                     made(step) == {<<<<step>> \o q[1], q[2]>> : q \in below(step)}
          <5>1. r \in UNION {made(step) : step \in Steps(t)}
            BY <3>1, <3>3 DEF ReadingsIn
          <5>2. \A step : r \in made(step) => \E q \in below(step) : r = <<<<step>> \o q[1], q[2]>>
            <6> HIDE DEF below
            <6> QED BY Zenon
          <5> HIDE DEF made
          <5>3. PICK step \in Steps(t) : r \in made(step)
            BY <5>1, Zenon
          <5> QED BY <5>2, <5>3
        <4>2. PICK q \in ReadingsOf[m][Child(t, step)] : r = <<<<step>> \o q[1], q[2]>>
          BY <4>1
        <4>3. step \in AnyStep /\ Child(t, step) \in Trees[m]
          BY <2>1, StepDown DEF NodesBelow
        <4>4. IsReadingOf(Child(t, step), q)
          BY <2>2, <4>3
        <4> DEFINE path == <<step>> \o q[1]
        <4>5. /\ path \in Seq(AnyStep) /\ path # <<>> /\ path[1] = step /\ Tail(path) = q[1]
              /\ Len(q[1]) \in Nat /\ Len(path) = Len(q[1]) + 1
              /\ \A i \in 1..Len(q[1]) : path[i + 1] = q[1][i]
          <5> DEFINE X == AnyStep
                     p == q[1]
          <5>1. p \in Seq(X) /\ step \in X
            BY <4>3, <4>4 DEF IsReadingOf
          <5> HIDE DEF X, p
          <5>2. /\ <<step>> \o p \in Seq(X) /\ Len(<<step>> \o p) = Len(p) + 1
                /\ (<<step>> \o p)[1] = step /\ Len(p) \in Nat
                /\ \A i \in 1..Len(p) : (<<step>> \o p)[i + 1] = p[i]
            BY <5>1
          <5>3. Tail(<<step>> \o p) = p
            <6> DEFINE s == <<step>> \o p
            <6>1. s \in Seq(X) /\ Len(s) = Len(p) + 1
              BY <5>2
            <6> HIDE DEF s
            <6>2. Tail(s) \in Seq(X) /\ Len(Tail(s)) = Len(p)
                  /\ \A i \in 1..Len(p) : Tail(s)[i] = s[i + 1]
              BY <5>2, <6>1
            <6>3. \A i \in 1..Len(p) : Tail(s)[i] = p[i]
              BY <5>2, <6>2 DEF s
            <6>4. \A x, y \in Seq(X) : Len(x) = Len(y) /\ (\A i \in 1..Len(x) : x[i] = y[i]) => x = y
              OBVIOUS
            <6>5. Tail(s) = p
              BY <5>1, <6>2, <6>3, <6>4, Zenon
            <6> QED BY <6>5 DEF s
          <5>4. <<step>> \o p # <<>>
            BY <5>2
          <5> QED BY <5>2, <5>3, <5>4 DEF X, p
        <4>6. r[1] = path /\ r[2] = q[2]
          BY <4>2
        <4> HIDE DEF path
        <4>7. ASSUME ByKeys(path) PROVE Lookup(t, path) = ValueTree(q[2])
          <5>1. ByKeys(q[1])
            <6>1. \A i \in 1..Len(q[1]) : i + 1 \in 1..Len(path)
              BY <4>5
            <6> QED BY <4>5, <4>7, <6>1 DEF ByKeys
          <5>2. Lookup(Child(t, step), q[1]) = ValueTree(q[2])
            BY <4>4, <5>1 DEF IsReadingOf
          <5> QED BY <4>5, <5>2, LookupFirst
        <4> QED BY <4>5, <4>6, <4>7 DEF IsReadingOf
      <3> QED BY <3>2, <3>3
    <2> QED BY <2>1, <2>3
  <1>3. \A n \in 0..Levels : n \in S
    <2> HIDE DEF S
    <2> QED BY <1>0, <1>1, <1>2, SetInduction
  <1> QED BY <1>3

-----------------------------------------------------------------------------
(* The files that were loaded *)

\* The files that were loaded are some of FileOrder's, in its order.
LoadedInv ==
    /\ IsSequence(loaded)
    /\ pc = "folder" => loaded = <<>> /\ config = MapTree(<<>>)
    /\ pc = "configs" => at \in 1..11
    /\ \A i \in 1..Len(loaded) : loaded[i] # "dtbo.txt" => Doc(i) \in Trees[Levels]
    /\ \A i \in 1..Len(loaded) :
          \E e \in 1..10 : loaded[i] = FileOrder[e] /\ (pc = "configs" => e < at)
    /\ \A i, j \in 1..Len(loaded) : i < j =>
          \A d, e \in 1..10 : loaded[i] = FileOrder[d] /\ loaded[j] = FileOrder[e] => d < e

\* The files stay what they are.
LEMMA SameFiles ==
    ASSUME sit' = sit
    PROVE  /\ \A name : DocOf(name)' = DocOf(name)
           /\ \A name : File(name)' = File(name)
           /\ \A i : Doc(i)' = DocOf(loaded'[i])
  <1>1. cf' = cf
    BY DEF cf
  <1>2. \A name : File(name)' = File(name)
    BY <1>1 DEF File
  <1>3. \A name : DocOf(name)' = DocOf(name)
    BY <1>2 DEF DocOf
  <1>4. \A i : Doc(i)' = DocOf(loaded'[i])
    BY <1>2 DEF Doc, DocOf, CmdlineDoc, ArgsDoc
  <1> QED BY <1>2, <1>3, <1>4

\* A file is loaded, or refused.
LEMMA OneLoaded ==
    ASSUME StepInv, LoadedInv, LoadFile
    PROVE  LET name == FileOrder[at]
               n == Len(loaded)
           IN  /\ at \in 1..10 /\ at' = at + 1 /\ pc = "configs" /\ pc' = "configs"
               /\ File(name).state = "whole" /\ config' = Loads(name, config)
               /\ n \in Nat /\ IsSequence(loaded) /\ IsSequence(loaded')
               /\ \A i \in 1..n : loaded'[i] = loaded[i] /\ Doc(i)' = Doc(i)
               /\ IF Accepted(name)
                  THEN Len(loaded') = n + 1 /\ loaded'[n + 1] = name
                       /\ \A i : i = n + 1 => Doc(i)' = DocOf(name)
                  ELSE loaded' = loaded
  <1> DEFINE name == FileOrder[at]
             n == Len(loaded)
  <1>1. /\ at \in 1..10 /\ at' = at + 1 /\ pc = "configs" /\ pc' = "configs" /\ sit' = sit
        /\ File(name).state = "whole" /\ config' = Loads(name, config)
    <2>1. /\ pc = "configs" /\ pc' = pc /\ at' = at + 1 /\ at <= Len(FileOrder) /\ sit' = sit
          /\ File(name).state = "whole" /\ config' = Loads(name, config)
      BY DEF LoadFile
    <2>2. at \in 1..11
      BY <2>1 DEF LoadedInv
    <2> HIDE DEF name
    <2> QED BY <2>1, <2>2, OrderOfFiles
  <1>2. IsSequence(loaded) /\ n \in Nat
    BY SequenceIs DEF LoadedInv
  <1>3. \A i : Doc(i)' = DocOf(loaded'[i]) /\ Doc(i) = DocOf(loaded[i])
    BY <1>1, SameFiles, DocIs
  <1>4. loaded' = IF Accepted(name) THEN Append(loaded, name) ELSE loaded
    BY DEF LoadFile
  <1> HIDE DEF name, n
  <1>5. CASE Accepted(name)
    <2>1. loaded' = Append(loaded, name)
      BY <1>4, <1>5
    <2>2. /\ IsSequence(loaded') /\ Len(loaded') = n + 1 /\ loaded'[n + 1] = name
          /\ \A i \in 1..n : loaded'[i] = loaded[i]
      BY <1>2, <2>1, Appended DEF n
    <2>3. \A i \in 1..n : Doc(i)' = Doc(i)
      BY <1>3, <2>2
    <2>4. \A i : i = n + 1 => Doc(i)' = DocOf(name)
      BY <1>3, <2>2
    <2> QED BY <1>1, <1>2, <1>5, <2>2, <2>3, <2>4 DEF name, n
  <1>6. CASE ~Accepted(name)
    <2>1. loaded' = loaded
      BY <1>4, <1>6
    <2> QED BY <1>1, <1>2, <1>3, <1>6, <2>1 DEF name, n
  <1> QED BY <1>5, <1>6

\* No file is loaded in the beginning.
LEMMA LoadedInit == Init => LoadedInv
  <1> SUFFICES ASSUME Init PROVE LoadedInv
    OBVIOUS
  <1>1. loaded = <<>> /\ pc = "folder" /\ config = MapTree(<<>>)
    BY DEF Init
  <1>2. IsSequence(loaded) /\ \A i \in 1..Len(loaded) : FALSE
    BY <1>1, EmptySequence
  <1> QED BY <1>1, <1>2 DEF LoadedInv

\* The order is kept by the next file.
LEMMA LoadedFileStep == StepInv /\ LoadedInv /\ LoadFile => LoadedInv'
  <1> SUFFICES ASSUME StepInv, LoadedInv, LoadFile PROVE LoadedInv'
    OBVIOUS
  <1> DEFINE name == FileOrder[at]
             n == Len(loaded)
  <1>1. /\ at \in 1..10 /\ at' = at + 1 /\ pc = "configs" /\ pc' = "configs"
        /\ File(name).state = "whole" /\ config' = Loads(name, config)
        /\ n \in Nat /\ IsSequence(loaded')
        /\ \A i \in 1..n : loaded'[i] = loaded[i] /\ Doc(i)' = Doc(i)
        /\ IF Accepted(name)
           THEN Len(loaded') = n + 1 /\ loaded'[n + 1] = name
                       /\ \A i : i = n + 1 => Doc(i)' = DocOf(name)
           ELSE loaded' = loaded
    BY OneLoaded
  <1>2. /\ \A i \in 1..n : loaded[i] # "dtbo.txt" => Doc(i) \in Trees[Levels]
        /\ \A i \in 1..n : \E e \in 1..10 : loaded[i] = FileOrder[e] /\ e < at
        /\ \A i, j \in 1..n : i < j =>
             \A d, e \in 1..10 : loaded[i] = FileOrder[d] /\ loaded[j] = FileOrder[e] => d < e
    BY <1>1 DEF LoadedInv
  <1>3. Accepted(name) /\ name # "dtbo.txt" => DocOf(name) \in Trees[Levels]
    BY <1>1, FileMerges DEF StepInv
  <1> DEFINE m == Len(loaded')
  <1>m. m = n \/ (m = n + 1 /\ Accepted(name))
    BY <1>1
  <1> HIDE DEF name, n, m
  <1>4. \A i \in 1..m : i \in 1..n \/ (i = n + 1 /\ m = n + 1 /\ Accepted(name))
    BY <1>1, <1>m
  <1>5. ASSUME NEW i \in 1..m, loaded'[i] # "dtbo.txt" PROVE Doc(i)' \in Trees[Levels]
    <2>1. CASE i \in 1..n
      BY <1>1, <1>2, <1>5, <2>1
    <2>2. CASE i = n + 1 /\ m = n + 1 /\ Accepted(name)
      <3>1. loaded'[i] = name /\ Doc(i)' = DocOf(name)
        BY <1>1, <2>2
      <3> QED BY <1>3, <1>5, <2>2, <3>1
    <2> QED BY <1>4, <2>1, <2>2
  <1>6. ASSUME NEW i \in 1..m PROVE \E e \in 1..10 : loaded'[i] = FileOrder[e] /\ e < at'
    <2>1. CASE i \in 1..n
      <3>1. PICK e \in 1..10 : loaded[i] = FileOrder[e] /\ e < at
        BY <1>2, <2>1
      <3>2. e < at'
        BY <1>1, <3>1
      <3> QED BY <1>1, <2>1, <3>1, <3>2
    <2>2. CASE i = n + 1 /\ Accepted(name)
      <3>1. loaded'[i] = FileOrder[at] /\ at < at' /\ at \in 1..10
        BY <1>1, <2>2 DEF name
      <3> QED BY <3>1
    <2> QED BY <1>4, <2>1, <2>2
  <1>7. ASSUME NEW i \in 1..m, NEW j \in 1..m, i < j, NEW d \in 1..10, NEW e \in 1..10,
               loaded'[i] = FileOrder[d], loaded'[j] = FileOrder[e]
        PROVE  d < e
    <2>1. i \in 1..n
      <3>1. m \in Nat
        BY <1>1, <1>m
      <3> QED BY <1>1, <1>4, <1>7, <3>1
    <2>2. loaded'[i] = loaded[i]
      BY <1>1, <2>1
    <2>3. CASE j \in 1..n
      <3>1. loaded'[j] = loaded[j]
        BY <1>1, <2>3
      <3>2. loaded[i] = FileOrder[d] /\ loaded[j] = FileOrder[e]
        BY <1>7, <2>2, <3>1
      <3> QED BY <1>2, <1>7, <2>1, <2>3, <3>2
    <2>4. CASE j = n + 1 /\ Accepted(name)
      <3>1. FileOrder[e] = FileOrder[at] /\ at \in 1..10
        BY <1>1, <1>7, <2>4 DEF name
      <3>2. e = at
        BY <3>1, FilesDiffer
      <3>3. PICK c \in 1..10 : loaded[i] = FileOrder[c] /\ c < at
        BY <1>2, <2>1
      <3>4. c = d
        BY <1>7, <2>2, <3>3, FilesDiffer
      <3> QED BY <3>2, <3>3, <3>4
    <2> QED BY <1>4, <2>3, <2>4
  <1>8. at' \in 1..11
    BY <1>1
  <1> QED BY <1>1, <1>5, <1>6, <1>7, <1>8 DEF LoadedInv, m

\* The other steps leave the configuration alone.
Beside ==
    /\ UNCHANGED <<sit, config, loaded>>
    /\ pc' = "folder" => pc = "folder"
    /\ pc' = "configs" => \/ (pc = "folder" /\ at' = 1)
                          \/ (pc = "configs" /\ at' \in {at, at + 1} /\ (at' = at + 1 => at <= 10))

\* Every other step is of this kind.
LEMMA OthersBeside == StepInv /\ [Next]_vars => LoadFile \/ Beside
  <1> SUFFICES ASSUME StepInv, [Next]_vars PROVE LoadFile \/ Beside
    OBVIOUS
  <1>1. CASE FindFolder
    <2>1. (pc' = "configs" /\ at' = 1) \/ pc' = pc
      BY <1>1 DEF FindFolder
    <2> QED BY <1>1, <2>1 DEF FindFolder, Beside
  <1>2. CASE SkipFile
    BY <1>2, OrderOfFiles DEF SkipFile, Beside
  <1>3. CASE UNCHANGED vars
    <2>1. sit' = sit /\ config' = config /\ loaded' = loaded /\ pc' = pc /\ at' = at
      BY <1>3 DEF vars
    <2>2. at \in Nat
      BY DEF StepInv
    <2>3. at' \in {at, at + 1} /\ ~(at' = at + 1)
      BY <2>1, <2>2
    <2> QED BY <2>1, <2>3 DEF Beside
  <1>4. CASE FolderNotFound \/ ConfigsLoaded \/ ChooseDevice \/ NextDevice \/ NoDevice
             \/ LoadSettings \/ NoMenu \/ LoadLoader \/ DropLoader \/ MenuLoaded
    BY <1>4 DEF FolderNotFound, ConfigsLoaded, ChooseDevice, NextDevice, NoDevice, LoadSettings,
                NoMenu, LoadLoader, DropLoader, MenuLoaded, Beside
  <1> QED BY <1>1, <1>2, <1>3, <1>4 DEF Next

\* The order is kept by every step.
LEMMA LoadedNext == StepInv /\ LoadedInv /\ [Next]_vars => LoadedInv'
  <1> SUFFICES ASSUME StepInv, LoadedInv, Beside PROVE LoadedInv'
    BY LoadedFileStep, OthersBeside
  <1>1. /\ loaded' = loaded /\ config' = config /\ at \in Nat
        /\ pc' = "folder" => pc = "folder"
        /\ pc' = "configs" => \/ (pc = "folder" /\ at' = 1)
                              \/ (pc = "configs" /\ at' \in {at, at + 1} /\ (at' = at + 1 => at <= 10))
    BY DEF Beside, StepInv
  <1>2. \A i : Doc(i)' = Doc(i)
    <2>1. sit' = sit
      BY DEF Beside
    <2> QED BY <1>1, <2>1, SameFiles, DocIs
  <1>3. pc' = "configs" => at' \in 1..11
    BY <1>1 DEF LoadedInv
  <1>4. ASSUME NEW i \in 1..Len(loaded)
        PROVE  \E e \in 1..10 : loaded[i] = FileOrder[e] /\ (pc' = "configs" => e < at')
    <2>1. PICK e \in 1..10 : loaded[i] = FileOrder[e] /\ (pc = "configs" => e < at)
      BY DEF LoadedInv
    <2>2. CASE pc = "folder"
      <3>1. loaded = <<>>
        BY <2>2 DEF LoadedInv
      <3> QED BY <3>1, EmptySequence
    <2>3. CASE pc # "folder"
      <3>1. pc' = "configs" => e < at'
        BY <1>1, <2>1, <2>3
      <3> QED BY <2>1, <3>1
    <2> QED BY <2>2, <2>3
  <1> QED BY <1>1, <1>2, <1>3, <1>4 DEF LoadedInv

\* A file that sets a value, and is followed by none that does more than leave
\* it, has its value in the configuration.
SetsLast(i, path, v) ==
    /\ ByKeys(path) /\ Lookup(Doc(i), path) = ValueTree(v)
    /\ \A j \in 1..Len(loaded) : j > i /\ loaded[j] # "dtbo.txt" => Leaves(Doc(j), path)
    /\ path # <<>> => path[1] # KeyStep("devicetree")

WinsInv ==
    \A i \in 1..Len(loaded) : \A path \in Seq(AnyStep) : \A v :
        loaded[i] # "dtbo.txt" /\ SetsLast(i, path, v) => Lookup(config, path) = ValueTree(v)

\* A value that is merged, or left.
LEMMA ValueMerged ==
    ASSUME NEW tree \in Trees[Levels], NEW doc \in Trees[Levels],
           NEW path \in Seq(AnyStep), ByKeys(path), NEW v
    PROVE  /\ Lookup(doc, path) = ValueTree(v) => Lookup(TreeMerge(tree, doc), path) = ValueTree(v)
           /\ Leaves(doc, path) /\ Lookup(tree, path) = ValueTree(v)
                => Lookup(TreeMerge(tree, doc), path) = ValueTree(v)
  <1> DEFINE a == Lookup(tree, path)
             b == Lookup(doc, path)
             c == Lookup(TreeMerge(tree, doc), path)
             value == ValueTree(v)
  <1>1. AtTheEnd(a, b, c, OpenTo(doc, path))
    BY MergedLookup
  <1>2. value # Absent /\ value.type = "value"
    BY DEF ValueTree, Absent
  <1>3. Leaves(doc, path) => b = Absent /\ OpenTo(doc, path)
    BY DEF Leaves, OpenTo
  <1> HIDE DEF a, b, c, value
  <1>4. b = value => c = value
    BY <1>1, <1>2 DEF AtTheEnd
  <1>5. b = Absent /\ OpenTo(doc, path) /\ a = value => c = value
    BY <1>1, <1>2 DEF AtTheEnd
  <1> QED BY <1>3, <1>4, <1>5 DEF a, b, c, value

\* dtbo.txt leaves what is not below `devicetree`.
LEMMA DtboLeaves ==
    ASSUME StepInv, File("dtbo.txt").state = "whole",
           NEW path \in Seq(AnyStep), ByKeys(path),
           path # <<>> => path[1] # KeyStep("devicetree"),
           NEW v, Lookup(config, path) = ValueTree(v)
    PROVE  Lookup(Loads("dtbo.txt", config), path) = ValueTree(v)
  <1> DEFINE lines == File("dtbo.txt").lines
             new == LoadDtbo(config, lines)
  <1>1. IsSequence(lines) /\ \A i \in 1..Len(lines) : IsLine(lines[i])
    BY SituationAssumption DEF StepInv, File, cf, Readable, Missing
  <1>2. config \in Trees[Levels] /\ Loads("dtbo.txt", config) = new
    BY DEF StepInv, Loads
  <1> HIDE DEF lines, new
  <1>3. /\ \A k : k # "devicetree" => LookupKey(new, k) = LookupKey(config, k)
        /\ config.type # "map" => new = config
    BY <1>1, <1>2, DtboLoaded DEF new
  <1>4. CASE path = <<>>
    <2>1. config.type = "value"
      BY <1>4, LookupNothing DEF ValueTree
    <2> QED BY <1>2, <1>3, <2>1
  <1>5. CASE path # <<>>
    <2>1. path[1] \in AnyStep /\ IsKey(path[1]) /\ path[1] # KeyStep("devicetree")
      BY <1>5 DEF ByKeys
    <2>2. path[1].key # "devicetree"
      <3>1. path[1] \in [key : Keys]
        BY <2>1 DEF AnyStep, IsKey
      <3>2. path[1] = KeyStep(path[1].key)
        BY <3>1 DEF KeyStep
      <3> QED BY <2>1, <3>2
    <2>3. Child(new, path[1]) = Child(config, path[1])
      BY <1>3, <2>1, <2>2, ChildByKey
    <2>4. /\ Lookup(new, path) = Lookup(Child(new, path[1]), Tail(path))
          /\ Lookup(config, path) = Lookup(Child(config, path[1]), Tail(path))
      BY <1>5, LookupFirst
    <2> QED BY <1>2, <2>3, <2>4
  <1> QED BY <1>4, <1>5

\* The next file leaves the values it does not set.
LEMMA WinsStep == StepInv /\ LoadedInv /\ WinsInv /\ LoadFile => WinsInv'
  <1> SUFFICES ASSUME StepInv, LoadedInv, WinsInv, LoadFile PROVE WinsInv'
    OBVIOUS
  <1>1. PICK name, n :
           /\ name = FileOrder[at] /\ n = Len(loaded)
           /\ File(name).state = "whole" /\ config' = Loads(name, config) /\ n \in Nat
           /\ \A i \in 1..n : loaded'[i] = loaded[i] /\ Doc(i)' = Doc(i)
           /\ IF Accepted(name)
              THEN /\ Len(loaded') = n + 1 /\ loaded'[n + 1] = name
                   /\ \A i : i = n + 1 => Doc(i)' = DocOf(name)
              ELSE loaded' = loaded
    BY OneLoaded
  <1>2. sit \in DOMAIN Situations /\ config \in Trees[Levels]
    BY DEF StepInv
  <1>3. Len(loaded') = n \/ (Len(loaded') = n + 1 /\ Accepted(name))
    BY <1>1
  <1>4. ASSUME NEW i \in 1..Len(loaded'), NEW path \in Seq(AnyStep), NEW v,
               loaded'[i] # "dtbo.txt", SetsLast(i, path, v)'
        PROVE  Lookup(config', path) = ValueTree(v)
    <2>1. /\ ByKeys(path) /\ Lookup(Doc(i)', path) = ValueTree(v)
          /\ \A j \in 1..Len(loaded') : j > i /\ loaded'[j] # "dtbo.txt" => Leaves(Doc(j)', path)
          /\ path # <<>> => path[1] # KeyStep("devicetree")
      BY <1>4 DEF SetsLast, ByKeys, Lookup, Leaves
    <2>2. i \in 1..n \/ (i = n + 1 /\ Accepted(name))
      BY <1>1, <1>3
    <2>3. CASE i \in 1..n
      <3>1. SetsLast(i, path, v)
        <4>1. Lookup(Doc(i), path) = ValueTree(v)
          BY <1>1, <2>1, <2>3
        <4>2. ASSUME NEW j \in 1..n, j > i, loaded[j] # "dtbo.txt" PROVE Leaves(Doc(j), path)
          <5>1. j \in 1..Len(loaded') /\ loaded'[j] = loaded[j] /\ Doc(j)' = Doc(j)
            BY <1>1, <1>3
          <5> QED BY <2>1, <4>2, <5>1
        <4> QED BY <1>1, <2>1, <4>1, <4>2 DEF SetsLast
      <3>2. Lookup(config, path) = ValueTree(v)
        <4>1. loaded[i] # "dtbo.txt"
          BY <1>1, <1>4, <2>3
        <4> QED BY <1>1, <2>3, <3>1, <4>1 DEF WinsInv
      <3>3. CASE name = "dtbo.txt"
        BY <1>1, <2>1, <3>2, <3>3, DtboLeaves
      <3>4. CASE name # "dtbo.txt" /\ Accepted(name)
        <4>1. DocOf(name) \in Trees[Levels] /\ config' = TreeMerge(config, DocOf(name))
          BY <1>1, <1>2, <3>4, FileMerges
        <4>2. Leaves(DocOf(name), path)
          <5>1. /\ n + 1 \in 1..Len(loaded') /\ n + 1 > i /\ loaded'[n + 1] # "dtbo.txt"
                /\ \A j : j = n + 1 => Doc(j)' = DocOf(name)
            BY <1>1, <2>3, <3>4
          <5>2. PICK j : j = n + 1
            OBVIOUS
          <5> QED BY <2>1, <5>1, <5>2
        <4> QED BY <1>2, <2>1, <3>2, <4>1, <4>2, ValueMerged
      <3>5. CASE name # "dtbo.txt" /\ ~Accepted(name)
        <4>1. config' = config
          BY <1>1, <1>2, <3>5, FileMerges
        <4> QED BY <3>2, <4>1
      <3> QED BY <3>3, <3>4, <3>5
    <2>4. CASE i = n + 1 /\ Accepted(name)
      <3>1. name # "dtbo.txt" /\ Doc(i)' = DocOf(name)
        BY <1>1, <1>4, <2>4
      <3>2. DocOf(name) \in Trees[Levels] /\ config' = TreeMerge(config, DocOf(name))
        BY <1>1, <1>2, <2>4, <3>1, FileMerges
      <3> QED BY <1>2, <2>1, <3>1, <3>2, ValueMerged
    <2> QED BY <2>2, <2>3, <2>4
  <1> QED BY <1>4 DEF WinsInv, Lookup, ValueTree

\* The values are kept by every step.
LEMMA WinsNext == StepInv /\ LoadedInv /\ WinsInv /\ [Next]_vars => WinsInv'
  <1> SUFFICES ASSUME StepInv, LoadedInv, WinsInv, Beside PROVE WinsInv'
    BY WinsStep, OthersBeside
  <1>1. loaded' = loaded /\ config' = config /\ sit' = sit
    BY DEF Beside
  <1>2. \A i : Doc(i)' = Doc(i)
    BY <1>1, SameFiles, DocIs
  <1>3. ASSUME NEW i, NEW path, NEW v PROVE SetsLast(i, path, v)' <=> SetsLast(i, path, v)
    <2>1. Lookup(Doc(i)', path) = Lookup(Doc(i), path)
      BY <1>2
    <2>2. \A j : Leaves(Doc(j)', path) <=> Leaves(Doc(j), path)
      BY <1>2
    <2> QED BY <1>1, <2>1, <2>2 DEF SetsLast
  <1> QED BY <1>1, <1>3 DEF WinsInv

\* No file has set a value in the beginning.
LEMMA WinsInit == Init => WinsInv
  BY EmptySequence DEF Init, WinsInv

\* What is read later overrides.
LEMMA LaterOverrides ==
    ASSUME LoadedInv, NEW i \in 1..Len(loaded), NEW j \in 1..Len(loaded), i < j
    PROVE  Overrides(j, i)
  <1>1. PICK d \in 1..10 : loaded[i] = FileOrder[d]
    BY DEF LoadedInv
  <1>2. PICK e \in 1..10 : loaded[j] = FileOrder[e]
    BY DEF LoadedInv
  <1>3. d < e
    BY <1>1, <1>2 DEF LoadedInv
  <1>4. /\ Changeable(loaded[i]) <=> d >= 7
        /\ Changeable(loaded[j]) <=> e >= 7
    BY <1>1, <1>2, OrderOfFiles
  <1>5. Len(loaded) \in Nat
    BY SequenceIs DEF LoadedInv
  <1>6. Changeable(loaded[i]) => Changeable(loaded[j])
    BY <1>3, <1>4
  <1>7. j > i
    BY <1>5
  <1> QED
    <2>1. CASE Changeable(loaded[i]) = Changeable(loaded[j])
      BY <1>7, <2>1 DEF Overrides
    <2>2. CASE ~(Changeable(loaded[i]) = Changeable(loaded[j]))
      <3>1. Changeable(loaded[j])
        BY <1>6, <2>2 DEF Changeable
      <3> QED BY <2>2, <3>1 DEF Overrides
    <2> QED BY <2>1, <2>2

\* The last file that sets a value wins.
LEMMA LastWins == LoadedInv /\ WinsInv => LastFileWins
  <1> SUFFICES ASSUME LoadedInv, WinsInv, NEW i \in Docs, NEW r \in Readings(Doc(i)),
                      \A k \in DOMAIN r[1] : IsKey(r[1][k]),
                      \A j \in DOMAIN loaded :
                         loaded[j] # "dtbo.txt" /\ Overrides(j, i) => Leaves(Doc(j), r[1]),
                      r[1] # <<>> => r[1][1] # KeyStep("devicetree")
               PROVE  Lookup(config, r[1]) = ValueTree(r[2])
    BY DEF LastFileWins
  <1>1. /\ Len(loaded) \in Nat /\ DOMAIN loaded = 1..Len(loaded)
        /\ i \in 1..Len(loaded) /\ loaded[i] # "dtbo.txt"
    BY SequenceIs DEF LoadedInv, Docs
  <1>2. Doc(i) \in Trees[Levels]
    BY <1>1 DEF LoadedInv
  <1>3. IsReadingOf(Doc(i), r)
    <2>1. Levels \in 0..Levels /\ r \in ReadingsOf[Levels][Doc(i)]
      BY ConfigSpecAssumption DEF Readings
    <2> QED BY <1>2, <2>1, ReadingsRead
  <1>4. r[1] \in Seq(AnyStep) /\ (ByKeys(r[1]) => Lookup(Doc(i), r[1]) = ValueTree(r[2]))
    BY <1>3 DEF IsReadingOf
  <1>5. ByKeys(r[1])
    BY <1>4 DEF ByKeys
  <1>6. \A j \in 1..Len(loaded) : j > i /\ loaded[j] # "dtbo.txt" => Leaves(Doc(j), r[1])
    BY <1>1, LaterOverrides
  <1>7. SetsLast(i, r[1], r[2])
    BY <1>4, <1>5, <1>6 DEF SetsLast
  <1> QED BY <1>1, <1>4, <1>7 DEF WinsInv

-----------------------------------------------------------------------------
(* The kernel arguments *)

\* The kernel arguments a file gives.
ArgsPath == <<KeyStep("menu"), KeyStep("bootargs")>>
ListIn(name) == IF name = "dtbo.txt" THEN Absent ELSE Lookup(DocOf(name), ArgsPath)
ArgsIn(name) == IF ListIn(name) = Absent THEN <<>> ELSE ListIn(name).items

\* A file that gives a list of them, or none.
PlainArgs(name) ==
    IF ListIn(name) # Absent THEN ListIn(name).type = "array"
    ELSE name = "dtbo.txt" \/ Leaves(DocOf(name), ArgsPath)

AllArgs(names) == [i \in 1..Len(names) |-> ArgsIn(names[i])]

ArgsInv ==
    (\A i \in 1..Len(loaded) : PlainArgs(loaded[i])) =>
        /\ Lookup(config, ArgsPath) =
             IF \E i \in 1..Len(loaded) : ListIn(loaded[i]) # Absent
             THEN ArrayTree(FlattenSeq(AllArgs(loaded)))
             ELSE Absent
        /\ (\A i \in 1..Len(loaded) : ListIn(loaded[i]) = Absent) =>
              FlattenSeq(AllArgs(loaded)) = <<>>

Args == NodesBelow(Levels - 2)

\* A sequence of one element
LEMMA OneItem ==
    ASSUME NEW X, NEW x \in X, NEW t \in Seq(X), Len(t) = 1, t[1] = x PROVE t = <<x>>
  <1>1. <<x>> \in Seq(X) /\ Len(<<x>>) = 1 /\ <<x>>[1] = x
    OBVIOUS
  <1>2. \A i \in 1..1 : t[i] = <<x>>[i]
    BY <1>1
  <1>3. DOMAIN t = 1..1 /\ DOMAIN <<x>> = 1..1
    BY <1>1
  <1> QED BY <1>1, <1>2, <1>3

\* What the path of the arguments names.
LEMMA ArgsPathIs ==
    /\ ArgsPath \in Seq(AnyStep) /\ ByKeys(ArgsPath) /\ Len(ArgsPath) = 2
    /\ \A tree : /\ Lookup(tree, ArgsPath) = LookupKey(LookupKey(tree, "menu"), "bootargs")
                 /\ Lookup(tree, SubSeq(ArgsPath, 1, 0)) = tree
                 /\ Lookup(tree, SubSeq(ArgsPath, 1, 1)) = LookupKey(tree, "menu")
  <1>1. KeyStep("menu") \in AnyStep /\ KeyStep("bootargs") \in AnyStep
    BY KeysAssumption DEF KeyStep, AnyStep
  <1>2. IsKey(KeyStep("menu")) /\ IsKey(KeyStep("bootargs"))
    BY DEF KeyStep, IsKey
  <1>3. ArgsPath \in Seq(AnyStep) /\ ByKeys(ArgsPath) /\ Len(ArgsPath) = 2
    BY <1>1, <1>2 DEF ArgsPath, ByKeys
  <1>4. SubSeq(ArgsPath, 1, 0) = <<>> /\ SubSeq(ArgsPath, 1, 1) = <<KeyStep("menu")>>
    <2>1. SubSeq(ArgsPath, 1, 0) = <<>>
      <3>1. SubSeq(ArgsPath, 1, 0) \in Seq(AnyStep) /\ Len(SubSeq(ArgsPath, 1, 0)) = 0
        BY <1>3
      <3> QED BY <3>1
    <2>2. PICK t : t = SubSeq(ArgsPath, 1, 1)
      OBVIOUS
    <2>3. ArgsPath[1] = KeyStep("menu")
      BY DEF ArgsPath
    <2>4. t \in Seq(AnyStep) /\ Len(t) = 1 /\ t[1] = KeyStep("menu")
      BY <1>3, <2>2, <2>3
    <2>5. t = <<KeyStep("menu")>>
      BY <1>1, <2>4, OneItem
    <2> QED BY <2>1, <2>2, <2>5
  <1>5. ASSUME NEW tree
        PROVE  /\ Lookup(tree, ArgsPath) = LookupKey(LookupKey(tree, "menu"), "bootargs")
               /\ Lookup(tree, <<KeyStep("menu")>>) = LookupKey(tree, "menu")
    <2>1. Lookup(tree, ArgsPath) = LookupKey(LookupKey(tree, "menu"), "bootargs")
      BY LookupTwo DEF ArgsPath
    <2>2. Lookup(tree, <<KeyStep("menu")>>) = LookupKey(tree, "menu")
      <3> DEFINE p == <<KeyStep("menu")>>
      <3>1. p \in Seq(AnyStep) /\ p # <<>> /\ p[1] = KeyStep("menu") /\ Tail(p) = <<>>
        BY <1>1
      <3>2. Lookup(tree, p) = Lookup(Child(tree, p[1]), Tail(p))
        BY <3>1, LookupFirst
      <3> QED BY <3>1, <3>2, LookupNothing DEF LookupKey
    <2> QED BY <2>1, <2>2
  <1> QED BY <1>3, <1>4, <1>5, LookupNothing

\* The list at the end of the path is made of nodes.
LEMMA ArgsTyped ==
    ASSUME NEW tree \in Trees[Levels]
    PROVE  /\ Lookup(tree, ArgsPath) \in Trees[Levels - 2] \cup {Absent}
           /\ Lookup(tree, ArgsPath).type = "array" =>
                /\ Lookup(tree, ArgsPath).items \in Seq(Args)
                /\ Lookup(tree, ArgsPath) = ArrayTree(Lookup(tree, ArgsPath).items)
  <1>1. Levels \in 1..Levels /\ Levels - 1 \in 1..Levels /\ Levels - 2 \in 1..Levels
    BY KeysAssumption, ConfigSpecAssumption
  <1>2. LookupKey(tree, "menu") \in Trees[Levels - 1] \cup {Absent}
    BY <1>1, LookupKeyTyped DEF NodesBelow
  <1>3. LookupKey(LookupKey(tree, "menu"), "bootargs") \in Trees[Levels - 2] \cup {Absent}
    <2>1. CASE LookupKey(tree, "menu") = Absent
      BY <2>1, LookupKeyIs DEF Absent
    <2>2. CASE LookupKey(tree, "menu") \in Trees[Levels - 1]
      <3>1. Levels - 1 - 1 = Levels - 2
        BY <1>1
      <3> QED BY <1>1, <2>2, <3>1, LookupKeyTyped DEF NodesBelow
    <2> QED BY <1>2, <2>1, <2>2
  <1>4. PICK t : t = Lookup(tree, ArgsPath)
    OBVIOUS
  <1>5. t \in Trees[Levels - 2] \cup {Absent}
    BY <1>3, <1>4, ArgsPathIs
  <1>6. t.type = "array" => t.items \in Seq(Args) /\ t = ArrayTree(t.items)
    <2>1. CASE t = Absent
      BY <2>1 DEF Absent
    <2>2. CASE t \in Trees[Levels - 2]
      BY <1>1, <2>2, TreeIs DEF Args, NullTree, ValueTree, MapTree, IsMapTree
    <2> QED BY <1>5, <2>1, <2>2
  <1> QED BY <1>4, <1>5, <1>6

\* A document that has the list leads to it through maps.
LEMMA ListIsOpen ==
    ASSUME NEW doc, Lookup(doc, ArgsPath) # Absent
    PROVE  OpenTo(doc, ArgsPath)
  <1>1. LookupKey(doc, "menu").type = "map" /\ doc.type = "map"
    <2>1. LookupKey(LookupKey(doc, "menu"), "bootargs") # Absent
      BY ArgsPathIs
    <2>2. LookupKey(doc, "menu").type = "map"
      BY <2>1, LookupKeyIs
    <2>3. LookupKey(doc, "menu") # Absent
      BY <2>2 DEF Absent
    <2> QED BY <2>2, <2>3, LookupKeyIs
  <1>2. \A n \in 0..(2 - 1) : n = 0 \/ n = 1
    OBVIOUS
  <1>3. \A n \in 0..(Len(ArgsPath) - 1) : Lookup(doc, SubSeq(ArgsPath, 1, n)).type = "map"
    BY <1>1, <1>2, ArgsPathIs
  <1> QED BY <1>3 DEF OpenTo

\* Merging appends the arguments of a file.
LEMMA ArgsMerged ==
    ASSUME NEW tree \in Trees[Levels], NEW doc \in Trees[Levels],
           IF Lookup(doc, ArgsPath) # Absent THEN Lookup(doc, ArgsPath).type = "array"
           ELSE Leaves(doc, ArgsPath)
    PROVE  LET a == Lookup(tree, ArgsPath)
               b == Lookup(doc, ArgsPath)
               c == Lookup(TreeMerge(tree, doc), ArgsPath)
           IN  /\ a = Absent => c = b
               /\ a.type = "array" =>
                    c = IF b = Absent THEN a ELSE ArrayTree(a.items \o b.items)
  <1> DEFINE a == Lookup(tree, ArgsPath)
             b == Lookup(doc, ArgsPath)
             c == Lookup(TreeMerge(tree, doc), ArgsPath)
             opened == OpenTo(doc, ArgsPath)
  <1>1. AtTheEnd(a, b, c, opened)
    BY MergedLookup, ArgsPathIs
  <1>2. opened
    BY ListIsOpen DEF Leaves, OpenTo
  <1>3. b # Absent => b.type = "array"
    OBVIOUS
  <1>4. Absent.type = "absent"
    BY DEF Absent
  <1> HIDE DEF a, b, c, opened
  <1>5. a = Absent => c = b
    BY <1>1, <1>2 DEF AtTheEnd
  <1>6. a.type = "array" => c = IF b = Absent THEN a ELSE ArrayTree(a.items \o b.items)
    BY <1>1, <1>2, <1>3, <1>4 DEF AtTheEnd
  <1> QED BY <1>5, <1>6 DEF a, b, c

\* Nothing joined is nothing.
LEMMA FlattenNothing == FlattenSeq(<<>>) = <<>>
  <1>1. <<>> \in Seq(Seq(Nat)) /\ Len(<<>>) = 0
    OBVIOUS
  <1>2. PICK h : IsFlattening(h, Nat, <<>>) /\ FlattenSeq(<<>>) = h[Len(<<>>)]
    BY <1>1, FlattenSteps
  <1> QED BY <1>1, <1>2 DEF IsFlattening

\* There are no arguments in the beginning.
LEMMA ArgsInit == Init => ArgsInv
  <1> SUFFICES ASSUME Init PROVE ArgsInv
    OBVIOUS
  <1>1. loaded = <<>> /\ config = MapTree(<<>>)
    BY DEF Init
  <1>2. AllArgs(loaded) = <<>>
    BY <1>1 DEF AllArgs
  <1>3. Lookup(config, ArgsPath) = Absent
    <2>1. Levels \in 1..Levels /\ Len(MapTree(<<>>).items) = 0
      BY KeysAssumption, ConfigSpecAssumption DEF MapTree
    <2>2. PositionOf(MapTree(<<>>), "menu") = 0
      BY <2>1, PositionIs
    <2>3. LookupKey(config, "menu") = Absent
      BY <1>1, <2>2, LookupKeyIs
    <2> QED BY <2>3, ArgsPathIs, LookupKeyIs DEF Absent
  <1>4. \A i \in 1..Len(loaded) : FALSE
    BY <1>1, EmptySequence
  <1> QED BY <1>2, <1>3, <1>4, FlattenNothing DEF ArgsInv

\* What a file gives is made of nodes.
LEMMA ArgsAreNodes ==
    ASSUME NEW name, name # "dtbo.txt" => DocOf(name) \in Trees[Levels], PlainArgs(name)
    PROVE  /\ ArgsIn(name) \in Seq(Args)
           /\ ListIn(name) # Absent => ListIn(name) = ArrayTree(ArgsIn(name))
  <1>1. CASE name = "dtbo.txt"
    BY <1>1 DEF ArgsIn, ListIn
  <1>2. CASE name # "dtbo.txt"
    <2>1. ListIn(name) = Lookup(DocOf(name), ArgsPath)
      BY <1>2 DEF ListIn
    <2>2. CASE ListIn(name) = Absent
      BY <2>2 DEF ArgsIn
    <2>3. CASE ListIn(name) # Absent
      <3>1. ListIn(name).type = "array"
        BY <2>3 DEF PlainArgs
      <3>2. /\ ListIn(name).items \in Seq(Args)
            /\ ListIn(name) = ArrayTree(ListIn(name).items)
        BY <1>2, <2>1, <3>1, ArgsTyped
      <3> QED BY <2>3, <3>2 DEF ArgsIn
    <2> QED BY <2>2, <2>3
  <1> QED BY <1>1, <1>2

\* One more file
LEMMA AllArgsGrow ==
    ASSUME NEW old, IsSequence(old), NEW name,
           \A i \in 1..Len(old) : ArgsIn(old[i]) \in Seq(Args), ArgsIn(name) \in Seq(Args)
    PROVE  FlattenSeq(AllArgs(Append(old, name))) = FlattenSeq(AllArgs(old)) \o ArgsIn(name)
  <1> DEFINE new == Append(old, name)
             n == Len(old)
             s == AllArgs(old)
             t == ArgsIn(name)
  <1>1. /\ IsSequence(new) /\ Len(new) = n + 1 /\ new[n + 1] = name /\ n \in Nat
        /\ \A i \in 1..n : new[i] = old[i]
    BY Appended, SequenceIs
  <1>2. s \in Seq(Seq(Args)) /\ Len(s) = n /\ \A i \in 1..n : s[i] = ArgsIn(old[i])
    <2>1. s = [i \in 1..n |-> ArgsIn(old[i])]
      BY DEF AllArgs
    <2> HIDE DEF s, n
    <2>2. \A i \in 1..n : ArgsIn(old[i]) \in Seq(Args)
      BY DEF n
    <2> QED BY <1>1, <2>1, <2>2
  <1>3. AllArgs(new) = Append(s, t)
    <2>1. AllArgs(new) = [i \in 1..(n + 1) |-> ArgsIn(new[i])]
      BY <1>1 DEF AllArgs
    <2>2. /\ Append(s, t) \in Seq(Seq(Args)) /\ Len(Append(s, t)) = n + 1
          /\ Append(s, t)[n + 1] = t /\ \A i \in 1..n : Append(s, t)[i] = s[i]
      <3> HIDE DEF s, t, n
      <3>1. t \in Seq(Args)
        BY DEF t
      <3> QED BY <1>1, <1>2, <3>1
    <2> HIDE DEF s, t, n, new
    <2>3. \A i \in 1..(n + 1) : i \in 1..n \/ i = n + 1
      BY <1>1
    <2>4. \A i \in 1..(n + 1) : ArgsIn(new[i]) = Append(s, t)[i]
      BY <1>1, <1>2, <2>2, <2>3 DEF t
    <2>5. PICK u : u = Append(s, t)
      OBVIOUS
    <2>6. u \in Seq(Seq(Args)) /\ Len(u) = n + 1
      BY <2>2, <2>5
    <2>7. DOMAIN u = 1..(n + 1) /\ u = [i \in 1..(n + 1) |-> u[i]]
      BY <2>6
    <2>8. AllArgs(new) = u
      BY <2>1, <2>4, <2>5, <2>7
    <2> QED BY <2>5, <2>8
  <1>4. FlattenSeq(Append(s, t)) = FlattenSeq(s) \o t
    BY <1>2, FlattenAppend
  <1> QED BY <1>3, <1>4

\* The arguments that some files give together.
ArgsGiven(names, a) ==
    /\ a = IF \E i \in 1..Len(names) : ListIn(names[i]) # Absent
           THEN ArrayTree(FlattenSeq(AllArgs(names))) ELSE Absent
    /\ (\A i \in 1..Len(names) : ListIn(names[i]) = Absent) => FlattenSeq(AllArgs(names)) = <<>>

\* The arguments of the configuration, when a file adds those it gives.
LEMMA ArgsAdded ==
    ASSUME NEW old, IsSequence(old), NEW name, NEW a, NEW c,
           \A i \in 1..Len(old) : ArgsIn(old[i]) \in Seq(Args), ArgsIn(name) \in Seq(Args),
           ArgsGiven(old, a),
           a = Absent => c = ListIn(name),
           a.type = "array" => c = IF ListIn(name) = Absent THEN a
                                   ELSE ArrayTree(a.items \o ListIn(name).items),
           ListIn(name) # Absent => ListIn(name) = ArrayTree(ArgsIn(name)),
           NEW new, new = Append(old, name)
    PROVE  ArgsGiven(new, c)
  <1> DEFINE n == Len(old)
             f == FlattenSeq(AllArgs(old))
             b == ListIn(name)
             t == ArgsIn(name)
  <1>1. /\ IsSequence(new) /\ Len(new) = n + 1 /\ new[n + 1] = name /\ n \in Nat
        /\ \A i \in 1..n : new[i] = old[i]
    BY Appended, SequenceIs
  <1>2. FlattenSeq(AllArgs(new)) = f \o t
    BY AllArgsGrow
  <1>3. f \in Seq(Args)
    <2>1. AllArgs(old) \in Seq(Seq(Args))
      <3>1. AllArgs(old) = [i \in 1..n |-> ArgsIn(old[i])]
        BY DEF AllArgs
      <3> HIDE DEF n
      <3>2. \A i \in 1..n : ArgsIn(old[i]) \in Seq(Args)
        BY DEF n
      <3> QED BY <1>1, <3>1, <3>2
    <2> QED BY <2>1, FlattenIsSeq
  <1>4. t \in Seq(Args) /\ (b = Absent => t = <<>>)
    BY DEF ArgsIn
  <1>5. (\E i \in 1..Len(new) : ListIn(new[i]) # Absent)
          <=> (\E i \in 1..n : ListIn(old[i]) # Absent) \/ b # Absent
    <2> HIDE DEF n
    <2>1. \A i \in 1..(n + 1) : i \in 1..n \/ i = n + 1
      BY <1>1
    <2>2. n + 1 \in 1..(n + 1) /\ \A i \in 1..n : i \in 1..(n + 1)
      BY <1>1
    <2> QED BY <1>1, <2>1, <2>2
  <1>6. /\ a = IF \E i \in 1..n : ListIn(old[i]) # Absent THEN ArrayTree(f) ELSE Absent
        /\ (\A i \in 1..n : ListIn(old[i]) = Absent) => f = <<>>
        /\ a = Absent => c = b
        /\ a.type = "array" => c = IF b = Absent THEN a ELSE ArrayTree(a.items \o b.items)
        /\ b # Absent => b = ArrayTree(t)
    BY DEF ArgsGiven
  <1> SUFFICES /\ c = IF \E i \in 1..Len(new) : ListIn(new[i]) # Absent
                      THEN ArrayTree(FlattenSeq(AllArgs(new))) ELSE Absent
               /\ (\A i \in 1..Len(new) : ListIn(new[i]) = Absent) =>
                     FlattenSeq(AllArgs(new)) = <<>>
    BY DEF ArgsGiven
  <1> HIDE DEF n, f, b, t
  <1>7. CASE \E i \in 1..n : ListIn(old[i]) # Absent
    <2>1. a = ArrayTree(f) /\ a.type = "array" /\ a.items = f
      BY <1>6, <1>7 DEF ArrayTree
    <2>2. CASE b = Absent
      <3>1. c = ArrayTree(f) /\ f \o t = f
        BY <1>3, <1>4, <1>6, <2>1, <2>2
      <3> QED BY <1>2, <1>5, <1>7, <3>1
    <2>3. CASE b # Absent
      <3>1. b.items = t
        BY <1>6, <2>3 DEF ArrayTree
      <3>2. c = ArrayTree(f \o t)
        BY <1>6, <2>1, <2>3, <3>1
      <3> QED BY <1>2, <1>5, <1>7, <3>2
    <2> QED BY <2>2, <2>3
  <1>8. CASE ~\E i \in 1..n : ListIn(old[i]) # Absent
    <2>1. a = Absent /\ f = <<>> /\ c = b
      BY <1>6, <1>8
    <2>2. f \o t = t
      BY <1>4, <2>1
    <2>3. CASE b = Absent
      BY <1>2, <1>4, <1>5, <1>8, <2>1, <2>2, <2>3
    <2>4. CASE b # Absent
      BY <1>2, <1>5, <1>6, <1>8, <2>1, <2>2, <2>4
    <2> QED BY <2>3, <2>4
  <1> QED BY <1>7, <1>8

\* What the files give stays.
LEMMA SameArgs ==
    ASSUME sit' = sit
    PROVE  \A name : /\ ListIn(name)' = ListIn(name) /\ ArgsIn(name)' = ArgsIn(name)
                     /\ PlainArgs(name)' <=> PlainArgs(name)
  <1> SUFFICES ASSUME NEW name
               PROVE  /\ ListIn(name)' = ListIn(name) /\ ArgsIn(name)' = ArgsIn(name)
                      /\ PlainArgs(name)' <=> PlainArgs(name)
    OBVIOUS
  <1>1. DocOf(name)' = DocOf(name)
    BY SameFiles
  <1>2. ListIn(name)' = ListIn(name)
    BY <1>1 DEF ListIn
  <1>3. ArgsIn(name)' = ArgsIn(name)
    BY <1>2 DEF ArgsIn
  <1>4. PlainArgs(name)' <=> PlainArgs(name)
    BY <1>1, <1>2 DEF PlainArgs
  <1> QED BY <1>2, <1>3, <1>4

\* So do their arguments together.
LEMMA SameAllArgs ==
    ASSUME sit' = sit, NEW names PROVE AllArgs(names)' = AllArgs(names)
  BY SameArgs DEF AllArgs

\* ArgsInv by what it says of some files and a configuration.
ArgsOf(names, tree) ==
    (\A i \in 1..Len(names) : PlainArgs(names[i])) => ArgsGiven(names, Lookup(tree, ArgsPath))

\* The invariant after a step, by what the step leaves.
LEMMA ArgsPrimed ==
    ASSUME sit' = sit, NEW names, NEW tree, loaded' = names, config' = tree
    PROVE  ArgsOf(names, tree) => ArgsInv'
  <1>1. \A name : /\ ListIn(name)' = ListIn(name)
                  /\ PlainArgs(name)' <=> PlainArgs(name)
    BY SameArgs
  <1>2. AllArgs(loaded)' = AllArgs(names)
    <2>1. AllArgs(loaded)' = [i \in 1..Len(names) |-> ArgsIn(names[i])']
      BY DEF AllArgs
    <2> QED BY <2>1, SameArgs DEF AllArgs
  <1> QED BY <1>1, <1>2 DEF ArgsInv, ArgsOf, ArgsGiven

\* The next file appends its arguments.
LEMMA ArgsStep == StepInv /\ LoadedInv /\ ArgsInv /\ LoadFile => ArgsInv'
  <1> SUFFICES ASSUME StepInv, LoadedInv, ArgsInv, LoadFile PROVE ArgsInv'
    OBVIOUS
  <1>1. PICK name, tree : name = FileOrder[at] /\ tree = Loads(name, config)
    OBVIOUS
  <1>2. /\ sit' = sit /\ sit \in DOMAIN Situations /\ config \in Trees[Levels]
        /\ File(name).state = "whole" /\ config' = tree
        /\ loaded' = IF Accepted(name) THEN Append(loaded, name) ELSE loaded
    BY <1>1 DEF StepInv, LoadFile
  <1>3. IsSequence(loaded) /\ Len(loaded) \in Nat
    BY SequenceIs DEF LoadedInv
  <1>4. ArgsOf(loaded, config)
    BY DEF ArgsInv, ArgsOf, ArgsGiven
  <1>5. CASE ~Accepted(name)
    <2>1. tree = config
      <3>1. CASE name = "dtbo.txt"
        <4>1. tree = LoadDtbo(config, File("dtbo.txt").lines)
          BY <1>1, <3>1 DEF Loads
        <4>2. ~(config.type = "map" /\ OverlayLines(config, File("dtbo.txt").lines).ok)
          BY <1>5, <3>1 DEF Accepted
        <4> QED BY <4>1, <4>2 DEF LoadDtbo
      <3>2. CASE name # "dtbo.txt"
        BY <1>1, <1>2, <1>5, <3>2, FileMerges
      <3> QED BY <3>1, <3>2
    <2> QED BY <1>2, <1>4, <1>5, <2>1, ArgsPrimed
  <1>6. CASE Accepted(name)
    <2>1. PICK new : new = Append(loaded, name)
      OBVIOUS
    <2>2. /\ Len(new) = Len(loaded) + 1 /\ new[Len(loaded) + 1] = name
          /\ \A i \in 1..Len(loaded) : new[i] = loaded[i]
      BY <1>3, <2>1, Appended
    <2>3. ASSUME \A i \in 1..Len(new) : PlainArgs(new[i])
          PROVE  ArgsGiven(new, Lookup(tree, ArgsPath))
      <3>1. (\A i \in 1..Len(loaded) : PlainArgs(loaded[i])) /\ PlainArgs(name)
        <4>1. Len(loaded) + 1 \in 1..Len(new) /\ \A i \in 1..Len(loaded) : i \in 1..Len(new)
          BY <1>3, <2>2
        <4> QED BY <2>2, <2>3, <4>1
      <3>2. ArgsGiven(loaded, Lookup(config, ArgsPath))
        BY <1>4, <3>1 DEF ArgsOf
      <3>3. \A i \in 1..Len(loaded) : loaded[i] # "dtbo.txt" => DocOf(loaded[i]) \in Trees[Levels]
        BY DocIs DEF LoadedInv
      <3>4. \A i \in 1..Len(loaded) : ArgsIn(loaded[i]) \in Seq(Args)
        BY <3>1, <3>3, ArgsAreNodes
      <3>5. name # "dtbo.txt" =>
              DocOf(name) \in Trees[Levels] /\ tree = TreeMerge(config, DocOf(name))
        BY <1>1, <1>2, <1>6, FileMerges
      <3>6. /\ ArgsIn(name) \in Seq(Args)
            /\ ListIn(name) # Absent => ListIn(name) = ArrayTree(ArgsIn(name))
        BY <3>1, <3>5, ArgsAreNodes
      <3>7. /\ Lookup(config, ArgsPath) = Absent => Lookup(tree, ArgsPath) = ListIn(name)
            /\ Lookup(config, ArgsPath).type = "array" =>
                 Lookup(tree, ArgsPath) =
                   IF ListIn(name) = Absent THEN Lookup(config, ArgsPath)
                   ELSE ArrayTree(Lookup(config, ArgsPath).items \o ListIn(name).items)
        <4>1. CASE name = "dtbo.txt"
          <5>1. ListIn(name) = Absent
            BY <4>1 DEF ListIn
          <5>2. Lookup(tree, ArgsPath) = Lookup(config, ArgsPath)
            <6>1. /\ IsSequence(File(name).lines)
                  /\ \A i \in 1..Len(File(name).lines) : IsLine(File(name).lines[i])
              BY <1>2, <4>1, SituationAssumption DEF File, cf, Readable, Missing
            <6>2. tree = LoadDtbo(config, File(name).lines)
              BY <1>1, <4>1 DEF Loads
            <6>3. LookupKey(tree, "menu") = LookupKey(config, "menu")
              BY <1>2, <6>1, <6>2, DtboLoaded
            <6> QED BY <6>3, ArgsPathIs
          <5> QED BY <5>1, <5>2
        <4>2. CASE name # "dtbo.txt"
          <5>1. ListIn(name) = Lookup(DocOf(name), ArgsPath)
            BY <4>2 DEF ListIn
          <5>2. IF Lookup(DocOf(name), ArgsPath) # Absent
                THEN Lookup(DocOf(name), ArgsPath).type = "array"
                ELSE Leaves(DocOf(name), ArgsPath)
            BY <3>1, <4>2, <5>1 DEF PlainArgs
          <5> QED BY <1>2, <3>5, <4>2, <5>1, <5>2, ArgsMerged
        <4> QED BY <4>1, <4>2
      <3>8. PICK a, c : a = Lookup(config, ArgsPath) /\ c = Lookup(tree, ArgsPath)
        OBVIOUS
      <3>9. /\ ArgsGiven(loaded, a)
            /\ a = Absent => c = ListIn(name)
            /\ a.type = "array" => c = IF ListIn(name) = Absent THEN a
                                       ELSE ArrayTree(a.items \o ListIn(name).items)
        BY <3>2, <3>7, <3>8
      <3>10. ArgsGiven(new, c)
        BY <1>3, <2>1, <3>4, <3>6, <3>9, ArgsAdded
      <3> QED BY <3>8, <3>10
    <2>4. ArgsOf(new, tree)
      BY <2>3 DEF ArgsOf
    <2> QED BY <1>2, <1>6, <2>1, <2>4, ArgsPrimed
  <1> QED BY <1>5, <1>6

\* The arguments are kept by every step.
LEMMA ArgsNext == StepInv /\ LoadedInv /\ ArgsInv /\ [Next]_vars => ArgsInv'
  <1> SUFFICES ASSUME StepInv, ArgsInv, Beside PROVE ArgsInv'
    BY ArgsStep, OthersBeside
  <1>1. loaded' = loaded /\ config' = config /\ sit' = sit
    BY DEF Beside
  <1>2. ArgsOf(loaded, config)
    BY DEF ArgsInv, ArgsOf, ArgsGiven
  <1> QED BY <1>1, <1>2, ArgsPrimed

\* The arguments come in the order of the files.
LEMMA ArgsOrdered == LoadedInv /\ ArgsInv => BootargsInOrder
  <1> SUFFICES ASSUME LoadedInv, ArgsInv PROVE BootargsInOrder
    OBVIOUS
  <1> DEFINE list(i) == IF loaded[i] = "dtbo.txt" THEN Absent ELSE Lookup(Doc(i), ArgsPath)
             items == [i \in DOMAIN loaded |-> IF list(i) = Absent THEN <<>> ELSE list(i).items]
  <1>1. Len(loaded) \in Nat /\ DOMAIN loaded = 1..Len(loaded)
    BY SequenceIs DEF LoadedInv
  <1>2. \A i : list(i) = ListIn(loaded[i])
    BY DocIs DEF ListIn
  <1>3. items = AllArgs(loaded)
    BY <1>1, <1>2 DEF AllArgs, ArgsIn
  <1>4. SUFFICES ASSUME \A i \in DOMAIN loaded :
                           IF list(i) # Absent THEN list(i).type = "array"
                           ELSE loaded[i] = "dtbo.txt" \/ Leaves(Doc(i), ArgsPath),
                        \E i \in DOMAIN loaded : list(i) # Absent
                 PROVE  Lookup(config, ArgsPath) = ArrayTree(FlattenSeq(items))
    BY DEF BootargsInOrder, ArgsPath
  <1> HIDE DEF list, items
  <1>5. \A i \in 1..Len(loaded) : PlainArgs(loaded[i])
    BY <1>1, <1>2, <1>4, DocIs DEF PlainArgs
  <1>6. \E i \in 1..Len(loaded) : ListIn(loaded[i]) # Absent
    BY <1>1, <1>2, <1>4
  <1> QED BY <1>3, <1>5, <1>6 DEF ArgsInv

-----------------------------------------------------------------------------
\* The configuration is what the files of the right folder say together, the
\* later ones over the earlier ones (find_embloader_folder,
\* embloader_load_configs).
THEOREM FilesAreInOrder == Spec => []FilesInOrder
  <1> DEFINE IInv == /\ StepInv /\ FolderInv /\ LoadedInv /\ WinsInv /\ ArgsInv
  <1>1. Init => IInv
    BY StepInit, FolderInit, LoadedInit, WinsInit, ArgsInit
  <1>2. IInv /\ [Next]_vars => IInv'
    BY StepNext, FolderNext, LoadedNext, WinsNext, ArgsNext
  <1>3. IInv => FilesInOrder
    <2>1. FolderInv => FolderHandles
      BY DEF FolderInv, FolderFound, FolderHandles, ConfigsDone, With
    <2> QED BY <2>1, LastWins, ArgsOrdered DEF FilesInOrder
  <1> QED BY <1>1, <1>2, <1>3, PTL DEF Spec

-----------------------------------------------------------------------------
(* The lines of dtbo.txt *)

\* The section a line of dtbo.txt is in.
SectionAt(lines, i) ==
    LET above == {j \in 1..i : lines[j].kind = "section"}
    IN  IF above = {} THEN None
        ELSE lines[CHOOSE j \in above : \A k \in above : k <= j].profile

\* What the overlays say of line i, when the first k lines were taken.
LineTaken(overlays, lines, i, k) ==
    lines[i].kind = "overlay" =>
        LET node == LookupKey(overlays, lines[i].name)
            wanted == ProfileOf(lines[i], SectionAt(lines, i))
        IN  /\ LookupKey(node, "enabled") = Bool(TRUE)
            /\ (\A j \in 1..k : j > i => lines[j].kind # "overlay" \/ lines[j].name # lines[i].name)
               => (wanted # None => LookupKey(node, "profile") = Str(wanted))

ReadUpTo(t, lines, k) ==
    t.ok => /\ t.section = SectionAt(lines, k)
            /\ \A i \in 1..k : LineTaken(t.overlays, lines, i, k)

\* A line that is no section leaves the section, one that is sets it.
LEMMA SectionStep ==
    ASSUME NEW lines, NEW k \in Nat
    PROVE  SectionAt(lines, k + 1) =
             IF lines[k + 1].kind = "section" THEN lines[k + 1].profile ELSE SectionAt(lines, k)
  <1> DEFINE above(i) == {j \in 1..i : lines[j].kind = "section"}
             last(i) == CHOOSE j \in above(i) : \A l \in above(i) : l <= j
  <1>1. \A j \in 1..(k + 1) : j \in 1..k \/ j = k + 1
    OBVIOUS
  <1>2. k + 1 \in 1..(k + 1) /\ \A j \in 1..k : j \in 1..(k + 1) /\ j <= k + 1
    OBVIOUS
  <1>3. \A i : SectionAt(lines, i) = IF above(i) = {} THEN None ELSE lines[last(i)].profile
    BY DEF SectionAt
  <1>4. CASE lines[k + 1].kind = "section"
    <2>1. k + 1 \in above(k + 1) /\ \A l \in above(k + 1) : l <= k + 1
      BY <1>2, <1>4
    <2>2. last(k + 1) \in above(k + 1) /\ \A l \in above(k + 1) : l <= last(k + 1)
      BY <2>1
    <2>3. last(k + 1) \in Nat /\ last(k + 1) <= k + 1 /\ k + 1 <= last(k + 1)
      BY <2>1, <2>2
    <2> HIDE DEF last
    <2>4. last(k + 1) = k + 1
      BY <2>3
    <2> QED BY <1>3, <1>4, <2>1, <2>4
  <1>5. CASE lines[k + 1].kind # "section"
    <2>1. above(k + 1) = above(k)
      BY <1>1, <1>2, <1>5
    <2> QED BY <1>3, <1>5, <2>1
  <1> QED BY <1>4, <1>5

\* One more line
LEMMA LineStep ==
    ASSUME NEW t \in Reading, NEW lines, NEW k \in Nat, IsLine(lines[k + 1]),
           ReadUpTo(t, lines, k), NEW new, new = ReadOverlayLine(t, lines[k + 1])
    PROVE  ReadUpTo(new, lines, k + 1)
  <1> SUFFICES ASSUME new.ok PROVE /\ new.section = SectionAt(lines, k + 1)
                                   /\ \A i \in 1..(k + 1) : LineTaken(new.overlays, lines, i, k + 1)
    BY DEF ReadUpTo
  <1>1. PICK line : line = lines[k + 1]
    OBVIOUS
  <1>2. /\ IsLine(line) /\ line.kind \in {"ignored", "malformed", "section", "overlay"}
        /\ new = ReadOverlayLine(t, line)
    BY <1>1 DEF IsLine
  <1>3. /\ t = [ok |-> t.ok, section |-> t.section, overlays |-> t.overlays]
        /\ t.ok \in BOOLEAN /\ t.section \in Strings \cup {None} /\ t.overlays \in Maps(Levels - 2)
    BY DEF Reading
  <1>4. t.ok
    <2>1. CASE ~t.ok
      BY <1>2, <2>1 DEF ReadOverlayLine
    <2> QED BY <1>3, <2>1
  <1>5. line.kind # "malformed"
    BY <1>2, <1>3 DEF ReadOverlayLine
  <1>6. /\ t.section = SectionAt(lines, k)
        /\ \A i \in 1..k : LineTaken(t.overlays, lines, i, k)
    BY <1>4 DEF ReadUpTo
  <1>7. /\ \A i \in 1..(k + 1) : i \in 1..k \/ i = k + 1
        /\ k + 1 \in 1..(k + 1) /\ \A i \in 1..k : i \in 1..(k + 1) /\ k + 1 > i
    OBVIOUS
  <1>8. \A overlays : \A i \in 1..k : LineTaken(overlays, lines, i, k) => LineTaken(overlays, lines, i, k + 1)
    BY <1>7 DEF LineTaken
  <1>9. CASE line.kind = "ignored"
    <2>1. new = t
      BY <1>2, <1>4, <1>9 DEF ReadOverlayLine
    <2>2. LineTaken(new.overlays, lines, k + 1, k + 1)
      BY <1>1, <1>9 DEF LineTaken
    <2> QED BY <1>1, <1>6, <1>7, <1>8, <1>9, <2>1, <2>2, SectionStep
  <1>10. CASE line.kind = "section"
    <2>1. new = [t EXCEPT !.section = line.profile]
      BY <1>2, <1>4, <1>10 DEF ReadOverlayLine
    <2>2. new.section = line.profile /\ new.overlays = t.overlays
      BY <1>3, <2>1
    <2>3. LineTaken(new.overlays, lines, k + 1, k + 1)
      BY <1>1, <1>10 DEF LineTaken
    <2> QED BY <1>1, <1>6, <1>7, <1>8, <1>10, <2>2, <2>3, SectionStep
  <1>11. CASE line.kind = "overlay"
    <2>1. new = [t EXCEPT !.overlays = StoreOverlay(@, line, t.section)]
      BY <1>2, <1>4, <1>11 DEF ReadOverlayLine
    <2>2. new.section = t.section /\ new.overlays = StoreOverlay(t.overlays, line, t.section)
      BY <1>3, <2>1
    <2>3. StoresOverlay(t.overlays, new.overlays, line.name, ProfileOf(line, t.section))
      <3>1. Levels - 2 \in 4..Levels
        BY KeysAssumption, ConfigSpecAssumption
      <3> QED BY <1>2, <1>3, <1>11, <2>2, <3>1, OverlayStored
    <2>4. SectionAt(lines, k + 1) = t.section
      BY <1>1, <1>6, <1>11, SectionStep
    <2>5. LineTaken(new.overlays, lines, k + 1, k + 1)
      BY <1>1, <2>3, <2>4 DEF LineTaken, StoresOverlay
    <2>6. ASSUME NEW i \in 1..k PROVE LineTaken(new.overlays, lines, i, k + 1)
      <3>1. LineTaken(t.overlays, lines, i, k)
        BY <1>6
      <3>2. CASE lines[i].name = line.name
        <4>1. LookupKey(LookupKey(new.overlays, lines[i].name), "enabled") = Bool(TRUE)
          BY <2>3, <3>2 DEF StoresOverlay
        <4>2. ~\A j \in 1..(k + 1) : j > i => lines[j].kind # "overlay" \/ lines[j].name # lines[i].name
          BY <1>1, <1>7, <1>11, <3>2
        <4> QED BY <4>1, <4>2 DEF LineTaken
      <3>3. CASE lines[i].name # line.name
        <4>1. LookupKey(new.overlays, lines[i].name) = LookupKey(t.overlays, lines[i].name)
          BY <2>3, <3>3 DEF StoresOverlay
        <4> QED BY <1>7, <3>1, <4>1 DEF LineTaken
      <3> QED BY <3>2, <3>3
    <2> QED BY <1>7, <2>2, <2>4, <2>5, <2>6
  <1> QED BY <1>2, <1>5, <1>9, <1>10, <1>11

\* The overlays of the whole file
LEMMA LinesTaken ==
    ASSUME NEW tree \in Trees[Levels], NEW lines, IsSequence(lines),
           \A i \in 1..Len(lines) : IsLine(lines[i]), OverlayLines(tree, lines).ok
    PROVE  \A i \in 1..Len(lines) :
              LineTaken(OverlayLines(tree, lines).overlays, lines, i, Len(lines))
  <1> DEFINE n == Len(lines)
  <1>1. PICK m : IsReading(m, tree, lines) /\ OverlayLines(tree, lines) = m[n]
    BY LinesRead
  <1>2. n \in Nat
    BY SequenceIs
  <1> DEFINE S == {k \in 0..n : ReadUpTo(m[k], lines, k)}
  <1>3. /\ m \in [0..n -> Reading] /\ m[0] = ReadingStart(tree)
        /\ \A i \in 1..n : m[i] = ReadOverlayLine(m[i - 1], lines[i])
    BY <1>1 DEF IsReading
  <1>4. \A i \in 1..n : IsLine(lines[i])
    OBVIOUS
  <1> HIDE DEF n
  <1>5. 0 \in S
    <2>1. {j \in 1..0 : lines[j].kind = "section"} = {}
      OBVIOUS
    <2>2. SectionAt(lines, 0) = None
      BY <2>1 DEF SectionAt
    <2>3. m[0].section = None
      BY <1>3 DEF ReadingStart
    <2> QED BY <1>2, <2>2, <2>3 DEF ReadUpTo
  <1>6. ASSUME NEW k \in 0..(n - 1), k \in S PROVE k + 1 \in S
    <2>1. k \in Nat /\ k + 1 \in 1..n /\ k + 1 \in 0..n /\ k \in 0..n /\ k + 1 - 1 = k
      BY <1>2
    <2>2. m[k] \in Reading /\ m[k + 1] = ReadOverlayLine(m[k], lines[k + 1]) /\ IsLine(lines[k + 1])
      BY <1>3, <1>4, <2>1
    <2>3. ReadUpTo(m[k + 1], lines, k + 1)
      BY <1>6, <2>1, <2>2, LineStep
    <2> QED BY <2>1, <2>3
  <1>7. \A k \in 0..n : k \in S
    <2> HIDE DEF S
    <2> QED BY <1>2, <1>5, <1>6, SetInduction
  <1>8. ReadUpTo(m[n], lines, n)
    BY <1>2, <1>7
  <1> QED BY <1>1, <1>8 DEF ReadUpTo, n

OverlaysOf(tree) == LookupKey(LookupKey(tree, "devicetree"), "overlays")
OverlayPath(name) == <<KeyStep("devicetree"), KeyStep("overlays"), KeyStep(name)>>

\* A file other than the two lists that has an overlay
HasOverlay(file, name) ==
    file \notin {"dtbo.txt", "cmdline.txt"} /\ Lookup(DocOf(file), OverlayPath(name)) # Absent

\* Without dtbo.txt the overlays are those of the other files; right after it
\* they have what its lines say.
OverlayInv ==
    /\ (\A i \in 1..Len(loaded) : loaded[i] # "dtbo.txt") =>
          \A name : LookupKey(OverlaysOf(config), name) # Absent =>
             \E i \in 1..Len(loaded) : HasOverlay(loaded[i], name)
    /\ pc = "configs" /\ at <= 7 /\ (\E i \in 1..Len(loaded) : loaded[i] = "dtbo.txt") =>
          \A i \in 1..Len(File("dtbo.txt").lines) :
             LineTaken(OverlaysOf(config), File("dtbo.txt").lines, i, Len(File("dtbo.txt").lines))

\* What the path of an overlay names.
LEMMA OverlayPathIs ==
    ASSUME NEW name
    PROVE  /\ \E X : OverlayPath(name) \in Seq(X)
           /\ ByKeys(OverlayPath(name))
           /\ \A tree : Lookup(tree, OverlayPath(name)) = LookupKey(OverlaysOf(tree), name)
  <1>1. \A tree : Lookup(tree, OverlayPath(name)) = LookupKey(OverlaysOf(tree), name)
    BY LookupThree DEF OverlayPath, OverlaysOf
  <1>2. /\ IsKey(KeyStep("devicetree")) /\ IsKey(KeyStep("overlays")) /\ IsKey(KeyStep(name))
    BY DEF KeyStep, IsKey
  <1>3. PICK a, b, c : /\ a = KeyStep("devicetree") /\ b = KeyStep("overlays") /\ c = KeyStep(name)
    OBVIOUS
  <1>4. OverlayPath(name) = <<a, b, c>>
    BY <1>3 DEF OverlayPath
  <1>5. <<a, b, c>> \in Seq({a, b, c}) /\ Len(<<a, b, c>>) = 3
    OBVIOUS
  <1>6. \A i \in 1..3 : i = 1 \/ i = 2 \/ i = 3
    OBVIOUS
  <1>7. ByKeys(<<a, b, c>>)
    BY <1>2, <1>3, <1>5, <1>6 DEF ByKeys
  <1> QED BY <1>1, <1>4, <1>5, <1>7

\* A switch and a text are read as what they are.
LEMMA LeavesRead ==
    /\ GetBool(Bool(TRUE), FALSE).v
    /\ \A s : GetString(Str(s), None).v = s
  <1>1. /\ Bool(TRUE).type = "value" /\ Bool(TRUE).value.kind = "bool" /\ Bool(TRUE).value.b = TRUE
    BY DEF Bool, ValueTree
  <1>2. GetBool(Bool(TRUE), FALSE) = Ok(TRUE)
    <2>1. PICK t : t = Bool(TRUE)
      OBVIOUS
    <2>2. t.type = "value" /\ t.value.kind = "bool" /\ t.value.b = TRUE
      BY <1>1, <2>1
    <2>3. GetBool(t, FALSE) = Ok(TRUE)
      BY <2>2 DEF GetBool
    <2> QED BY <2>1, <2>3
  <1>3. ASSUME NEW s PROVE GetString(Str(s), None) = Ok(s)
    <2>1. PICK t : t = Str(s)
      OBVIOUS
    <2>2. t.type = "value" /\ t.value.kind = "string" /\ t.value.s = s
      BY <2>1 DEF Str, ValueTree
    <2>3. GetString(t, None) = Ok(s)
      BY <2>2 DEF GetString
    <2> QED BY <2>1, <2>3
  <1>4. \A v : Ok(v).v = v
    BY DEF Ok
  <1> QED BY <1>2, <1>3, <1>4

\* The overlays of the files stay.
LEMMA SameOverlays ==
    ASSUME sit' = sit
    PROVE  \A file, name : HasOverlay(file, name)' <=> HasOverlay(file, name)
  BY SameFiles DEF HasOverlay, OverlayPath

\* There are no overlays in the beginning.
LEMMA OverlayInit == Init => OverlayInv
  <1> SUFFICES ASSUME Init PROVE OverlayInv
    OBVIOUS
  <1>1. config = MapTree(<<>>) /\ pc = "folder"
    BY DEF Init
  <1>2. LookupKey(config, "devicetree") = Absent
    <2>1. Len(MapTree(<<>>).items) = 0
      BY DEF MapTree
    <2>2. PositionOf(MapTree(<<>>), "devicetree") = 0
      BY <2>1, PositionIs
    <2> QED BY <1>1, <2>2, LookupKeyIs
  <1>3. \A name : LookupKey(OverlaysOf(config), name) = Absent
    BY <1>2, LookupKeyIs DEF OverlaysOf, Absent
  <1> QED BY <1>1, <1>3 DEF OverlayInv

\* A document adds no overlay it does not have.
LEMMA OverlaysMerged ==
    ASSUME NEW tree \in Trees[Levels], NEW doc \in Trees[Levels], NEW name
    PROVE  LookupKey(OverlaysOf(TreeMerge(tree, doc)), name) # Absent =>
              LookupKey(OverlaysOf(tree), name) # Absent \/ Lookup(doc, OverlayPath(name)) # Absent
  <1>1. PICK X : OverlayPath(name) \in Seq(X)
    BY OverlayPathIs
  <1>2. ByKeys(OverlayPath(name))
    BY OverlayPathIs
  <1>3. AtTheEnd(Lookup(tree, OverlayPath(name)), Lookup(doc, OverlayPath(name)),
                 Lookup(TreeMerge(tree, doc), OverlayPath(name)), OpenTo(doc, OverlayPath(name)))
    BY <1>1, <1>2, MergedLookup
  <1>4. Lookup(TreeMerge(tree, doc), OverlayPath(name)) # Absent =>
          Lookup(tree, OverlayPath(name)) # Absent \/ Lookup(doc, OverlayPath(name)) # Absent
    BY <1>3 DEF AtTheEnd
  <1> QED BY <1>4, OverlayPathIs

\* The next file, dtbo.txt or another one.
LEMMA OverlayStep == StepInv /\ LoadedInv /\ OverlayInv /\ LoadFile => OverlayInv'
  <1> SUFFICES ASSUME StepInv, LoadedInv, OverlayInv, LoadFile PROVE OverlayInv'
    OBVIOUS
  <1>1. PICK name, n, e, lines :
           /\ name = FileOrder[e] /\ n = Len(loaded) /\ e = at /\ lines = File("dtbo.txt").lines
           /\ e \in 1..10 /\ at' = e + 1 /\ pc = "configs"
           /\ File(name).state = "whole" /\ config' = Loads(name, config) /\ n \in Nat
           /\ \A i \in 1..n : loaded'[i] = loaded[i]
           /\ IF Accepted(name) THEN Len(loaded') = n + 1 /\ loaded'[n + 1] = name
              ELSE loaded' = loaded
    BY OneLoaded
  <1>2. /\ sit \in DOMAIN Situations /\ config \in Trees[Levels] /\ sit' = sit
    BY DEF StepInv, LoadFile
  <1>3. Len(loaded') = n \/ (Len(loaded') = n + 1 /\ Accepted(name))
    BY <1>1
  <1>4. /\ \A i \in 1..n : i \in 1..Len(loaded')
        /\ Accepted(name) => n + 1 \in 1..Len(loaded')
        /\ \A i \in 1..Len(loaded') : i \in 1..n \/ (i = n + 1 /\ Accepted(name))
    BY <1>1, <1>3
  <1>5. ASSUME name = "cmdline.txt" PROVE OverlaysOf(config') = OverlaysOf(config)
    <2>1. File(name).words \in Seq(Strings)
      BY <1>1, <1>2, <1>5, SituationAssumption DEF File, cf, Readable, Missing
    <2>2. config' = LoadCmdline(config, File(name).words)
      BY <1>1, <1>5 DEF Loads
    <2>3. LookupKey(config', "devicetree") = LookupKey(config, "devicetree")
      BY <1>2, <2>1, <2>2, CmdlineLoaded
    <2> QED BY <2>3 DEF OverlaysOf
  <1>6. ASSUME \A i \in 1..Len(loaded') : loaded'[i] # "dtbo.txt",
               NEW key, LookupKey(OverlaysOf(config'), key) # Absent
        PROVE  \E i \in 1..Len(loaded') : HasOverlay(loaded'[i], key)
    <2>1. \A i \in 1..n : loaded[i] # "dtbo.txt"
      BY <1>1, <1>4, <1>6
    <2>2. LookupKey(OverlaysOf(config), key) # Absent =>
             \E i \in 1..n : HasOverlay(loaded[i], key)
      BY <1>1, <2>1 DEF OverlayInv
    <2>3. LookupKey(OverlaysOf(config), key) # Absent => \E i \in 1..Len(loaded') : HasOverlay(loaded'[i], key)
      BY <1>1, <1>4, <2>2
    <2>4. CASE ~Accepted(name)
      <3>1. config' = config
        <4>1. CASE name = "dtbo.txt"
          <5>1. config' = LoadDtbo(config, File("dtbo.txt").lines)
            BY <1>1, <4>1 DEF Loads
          <5> QED BY <2>4, <4>1, <5>1 DEF Accepted, LoadDtbo
        <4>2. CASE name # "dtbo.txt"
          BY <1>1, <1>2, <2>4, <4>2, FileMerges
        <4> QED BY <4>1, <4>2
      <3> QED BY <1>6, <2>3, <3>1
    <2>5. CASE Accepted(name)
      <3>1. name # "dtbo.txt"
        BY <1>1, <1>4, <1>6, <2>5
      <3>2. CASE name = "cmdline.txt"
        BY <1>5, <1>6, <2>3, <3>2
      <3>3. CASE name # "cmdline.txt"
        <4>1. DocOf(name) \in Trees[Levels] /\ config' = TreeMerge(config, DocOf(name))
          BY <1>1, <1>2, <2>5, <3>1, FileMerges
        <4>2. LookupKey(OverlaysOf(config), key) # Absent \/ Lookup(DocOf(name), OverlayPath(key)) # Absent
          BY <1>2, <1>6, <4>1, OverlaysMerged
        <4>3. CASE Lookup(DocOf(name), OverlayPath(key)) # Absent
          <5>1. HasOverlay(name, key)
            BY <3>1, <3>3, <4>3 DEF HasOverlay
          <5> QED BY <1>1, <1>4, <2>5, <5>1
        <4> QED BY <2>3, <4>2, <4>3
      <3> QED BY <3>2, <3>3
    <2> QED BY <2>4, <2>5
  <1>7. ASSUME at' <= 7, NEW d \in 1..Len(loaded'), loaded'[d] = "dtbo.txt",
               NEW i \in 1..Len(lines)
        PROVE  LineTaken(OverlaysOf(config'), lines, i, Len(lines))
    <2>1. ASSUME d \in 1..n PROVE e = 6 /\ loaded[d] = "dtbo.txt"
      <3>1. loaded[d] = "dtbo.txt"
        BY <1>1, <1>7, <2>1
      <3>2. PICK f \in 1..10 : loaded[d] = FileOrder[f] /\ f < e
        BY <1>1, <2>1 DEF LoadedInv
      <3>3. f = 5
        BY <3>1, <3>2, OrderOfFiles
      <3> QED BY <1>1, <1>7, <3>1, <3>2, <3>3
    <2>2. CASE d \in 1..n
      <3>1. name = "cmdline.txt" /\ at <= 7
        BY <1>1, <2>1, <2>2, OrderOfFiles
      <3>2. OverlaysOf(config') = OverlaysOf(config)
        BY <1>5, <3>1
      <3>3. LineTaken(OverlaysOf(config), lines, i, Len(lines))
        BY <1>1, <2>1, <2>2, <3>1 DEF OverlayInv
      <3> QED BY <3>2, <3>3
    <2>3. CASE d = n + 1 /\ Accepted(name)
      <3>1. name = "dtbo.txt"
        BY <1>1, <1>7, <2>3
      <3>2. config.type = "map" /\ OverlayLines(config, lines).ok
        BY <1>1, <2>3, <3>1 DEF Accepted
      <3>3. IsSequence(lines) /\ \A l \in 1..Len(lines) : IsLine(lines[l])
        BY <1>1, <1>2, <3>1, SituationAssumption DEF File, cf, Readable, Missing
      <3>4. config' = LoadDtbo(config, lines)
        BY <1>1, <3>1 DEF Loads
      <3>5. OverlaysOf(config') = OverlayLines(config, lines).overlays
        BY <1>2, <3>2, <3>3, <3>4, DtboLoaded DEF OverlaysOf
      <3> QED BY <1>2, <3>2, <3>3, <3>5, LinesTaken
    <2> QED BY <1>4, <2>2, <2>3
  <1>8. File("dtbo.txt")' = File("dtbo.txt")
    BY <1>2, SameFiles
  <1>9. \A file, key : HasOverlay(file, key)' <=> HasOverlay(file, key)
    BY <1>2, SameOverlays
  <1>10. lines = File("dtbo.txt").lines
    BY <1>1
  <1>11. ((\A i \in 1..Len(loaded) : loaded[i] # "dtbo.txt") =>
           \A key : LookupKey(OverlaysOf(config), key) # Absent =>
              \E i \in 1..Len(loaded) : HasOverlay(loaded[i], key))'
    BY <1>6, <1>9 DEF OverlaysOf, LookupKey
  <1>12. (pc = "configs" /\ at <= 7 /\ (\E i \in 1..Len(loaded) : loaded[i] = "dtbo.txt") =>
            \A i \in 1..Len(File("dtbo.txt").lines) :
               LineTaken(OverlaysOf(config), File("dtbo.txt").lines, i, Len(File("dtbo.txt").lines)))'
    BY <1>7, <1>8, <1>10
  <1> QED BY <1>11, <1>12 DEF OverlayInv

\* The overlays are kept by every step.
LEMMA OverlayNext == StepInv /\ LoadedInv /\ OverlayInv /\ [Next]_vars => OverlayInv'
  <1> SUFFICES ASSUME StepInv, LoadedInv, OverlayInv, Beside PROVE OverlayInv'
    BY OverlayStep, OthersBeside
  <1>1. loaded' = loaded /\ config' = config /\ sit' = sit /\ at \in Nat
    BY DEF Beside, StepInv
  <1>2. File("dtbo.txt")' = File("dtbo.txt")
    BY <1>1, SameFiles
  <1>3. \A file, key : HasOverlay(file, key)' <=> HasOverlay(file, key)
    BY <1>1, SameOverlays
  <1>4. pc' = "configs" /\ at' <= 7 /\ (\E i \in 1..Len(loaded) : loaded[i] = "dtbo.txt") =>
          pc = "configs" /\ at <= 7
    <2>1. ASSUME pc' = "configs", at' <= 7, NEW i \in 1..Len(loaded), pc = "folder" PROVE FALSE
      <3>1. loaded = <<>>
        BY <2>1 DEF LoadedInv
      <3> QED BY <2>1, <3>1, EmptySequence
    <2> QED BY <1>1, <2>1 DEF Beside
  <1> QED BY <1>1, <1>2, <1>3, <1>4 DEF OverlayInv

\* The overlays of dtbo.txt are all there, or none is.
LEMMA OverlaysAreWhole == StepInv /\ LoadedInv /\ OverlayInv => OverlaysAllOrNothing
  <1> SUFFICES ASSUME StepInv, LoadedInv, OverlayInv, pc = "configs", at = 7,
                      NEW file, file = File("dtbo.txt"), file.state = "whole",
                      NEW i \in DOMAIN file.lines, file.lines[i].kind = "overlay"
               PROVE  LET line == file.lines[i]
                          node == Lookup(config, OverlayPath(line.name))
                          wanted == ProfileOf(line, SectionAt(file.lines, i))
                      IN  IF \E k \in DOMAIN loaded : loaded[k] = "dtbo.txt"
                          THEN /\ GetBool(LookupKey(node, "enabled"), FALSE).v
                               /\ (\A j \in DOMAIN file.lines : j > i =>
                                     file.lines[j].kind # "overlay" \/ file.lines[j].name # line.name)
                                  => (wanted # None =>
                                        GetString(LookupKey(node, "profile"), None).v = wanted)
                          ELSE node = Absent \/ \E k \in Docs : Lookup(Doc(k), OverlayPath(line.name)) # Absent
    BY DEF OverlaysAllOrNothing, OverlayPath, ProfileOf, SectionAt
  <1> DEFINE line == file.lines[i]
             node == Lookup(config, OverlayPath(line.name))
             wanted == ProfileOf(line, SectionAt(file.lines, i))
  <1>1. /\ DOMAIN loaded = 1..Len(loaded) /\ DOMAIN file.lines = 1..Len(file.lines)
    <2>1. IsSequence(file.lines)
      BY SituationAssumption DEF StepInv, File, cf, Readable, Missing
    <2> QED BY <2>1, SequenceIs DEF LoadedInv
  <1>2. node = LookupKey(OverlaysOf(config), line.name)
    BY OverlayPathIs
  <1>3. CASE \E k \in DOMAIN loaded : loaded[k] = "dtbo.txt"
    <2>1. LineTaken(OverlaysOf(config), file.lines, i, Len(file.lines))
      BY <1>1, <1>3 DEF OverlayInv
    <2>2. LookupKey(node, "enabled") = Bool(TRUE)
      BY <1>2, <2>1 DEF LineTaken
    <2>3. GetBool(LookupKey(node, "enabled"), FALSE).v
      BY <2>2, LeavesRead
    <2>4. ASSUME \A j \in DOMAIN file.lines : j > i =>
                    file.lines[j].kind # "overlay" \/ file.lines[j].name # line.name,
                 wanted # None
          PROVE  GetString(LookupKey(node, "profile"), None).v = wanted
      <3>1. LookupKey(node, "profile") = Str(wanted)
        BY <1>1, <1>2, <2>1, <2>4 DEF LineTaken
      <3> HIDE DEF wanted
      <3> QED BY <3>1, LeavesRead
    <2> QED BY <1>3, <2>3, <2>4
  <1>4. CASE ~\E k \in DOMAIN loaded : loaded[k] = "dtbo.txt"
    <2>1. node # Absent => \E k \in 1..Len(loaded) : HasOverlay(loaded[k], line.name)
      BY <1>1, <1>2, <1>4 DEF OverlayInv
    <2>2. node # Absent => \E k \in Docs : Lookup(Doc(k), OverlayPath(line.name)) # Absent
      BY <1>1, <2>1, DocIs DEF HasOverlay, Docs
    <2> QED BY <1>4, <2>2
  <1> QED BY <1>3, <1>4

-----------------------------------------------------------------------------
\* The overlays of dtbo.txt are taken all or none, each enabled, with its own
\* profile or its section's (embloader_load_dtbo_config).
THEOREM OverlaysTogether == Spec => []OverlaysAllOrNothing
  <1> DEFINE IInv == StepInv /\ LoadedInv /\ OverlayInv
  <1>1. Init => IInv
    BY StepInit, LoadedInit, OverlayInit
  <1>2. IInv /\ [Next]_vars => IInv'
    BY StepNext, LoadedNext, OverlayNext
  <1>3. IInv => OverlaysAllOrNothing
    BY OverlaysAreWhole
  <1> QED BY <1>1, <1>2, <1>3, PTL DEF Spec

=============================================================================
