--------------------------- MODULE ExtlinuxProofs ---------------------------
(***************************************************************************)
(* What holds of main/extlinux.c for every file, configuration and menu.     *)
(*                                                                           *)
(* The operators that say what a file means read it as a whole; the parser   *)
(* reads it line by line.  FileInv relates the two: it says what each field  *)
(* of the parser is of the lines so far, and one lemma for each of the       *)
(* helpers says how their value changes with a line more (LastLine, Block,   *)
(* EntryOf, DefaultText, Bootable).  EntriesReady is what is left of it      *)
(* when the file is read, and ItemsInv follows the entries into the menu.    *)
(* A new name exists because there are more numbers than names (SomeNumber), *)
(* and sorting is stable, so that it mixes no two entries of the file.       *)
(***************************************************************************)
EXTENDS Extlinux, Recursion, FiniteSetTheorems, TLAPS

\* One more element at the end of a sequence
LEMMA Appended ==
    ASSUME NEW s, IsSequence(s), NEW x
    PROVE  /\ Len(s) \in Nat /\ DOMAIN s = 1..Len(s)
           /\ IsSequence(Append(s, x)) /\ Len(Append(s, x)) = Len(s) + 1
           /\ DOMAIN Append(s, x) = 1..(Len(s) + 1)
           /\ \A i \in 1..Len(s) : Append(s, x)[i] = s[i]
           /\ Append(s, x)[Len(s) + 1] = x
<1> DEFINE n == Len(s)
           T == {s[k] : k \in 1..n} \cup {x}
           t == Append(s, x)
<1>1. n \in Nat /\ s = [k \in 1..n |-> s[k]]
  BY DEF IsSequence
<1>2. s \in Seq(T) /\ x \in T
  <2>1. \A S : \A k \in Nat : \A g \in [1..k -> S] : g \in Seq(S)
    OBVIOUS
  <2>2. s \in [1..n -> T]
    BY <1>1
  <2> HIDE DEF n, T
  <2>3. s \in Seq(T)
    BY <1>1, <2>1, <2>2
  <2> QED BY <2>3 DEF T
<1> HIDE DEF T
<1>3. /\ t \in Seq(T) /\ Len(t) = n + 1
      /\ \A i \in 1..n : t[i] = s[i]
      /\ t[n + 1] = x
  <2>1. \A S : \A r \in Seq(S), y \in S :
           /\ Append(r, y) \in Seq(S) /\ Len(Append(r, y)) = Len(r) + 1
           /\ \A i \in 1..Len(r) : Append(r, y)[i] = r[i]
           /\ Append(r, y)[Len(r) + 1] = y
    OBVIOUS
  <2> QED BY <1>2, <2>1, Zenon
<1> HIDE DEF t
<1>4. IsSequence(t) /\ DOMAIN t = 1..(n + 1)
  BY <1>1, <1>3 DEF IsSequence
<1> QED BY <1>1, <1>3, <1>4 DEF t

-----------------------------------------------------------------------------
(* The last line of a keyword *)

\* It is the greatest line of them.
LEMMA LastIs ==
    ASSUME NEW c, NEW n \in Nat, NEW S \in SUBSET (1..n), NEW K
    PROVE  /\ LastLine(c, S, K) \in {0} \cup S
           /\ LastLine(c, S, K) \in Nat
           /\ LastLine(c, S, K) # 0 => c[LastLine(c, S, K)].key \in K
           /\ \A i \in S : c[i].key \in K => i <= LastLine(c, S, K)
<1> DEFINE T == {i \in S : c[i].key \in K}
           m == Max({0} \cup T)
<1>1. {0} \cup T \in SUBSET (0..n) /\ 0 \in {0} \cup T
  <2>1. T \subseteq S
    OBVIOUS
  <2>2. S \subseteq 0..n /\ 0 \in 0..n
    OBVIOUS
  <2> HIDE DEF T
  <2> QED BY <2>1, <2>2
<1>2. m \in {0} \cup T /\ \A j \in {0} \cup T : j <= m
  <2> HIDE DEF T
  <2> QED BY <1>1, Greatest
<1>3. m = LastLine(c, S, K)
  BY DEF LastLine
<1> HIDE DEF m
<1> QED BY <1>2, <1>3

\* Nothing else is.
LEMMA LastOnly ==
    ASSUME NEW c, NEW n \in Nat, NEW S \in SUBSET (1..n), NEW K, NEW m \in {0} \cup S,
           m # 0 => c[m].key \in K, \A i \in S : c[i].key \in K => i <= m
    PROVE  LastLine(c, S, K) = m
<1> DEFINE l == LastLine(c, S, K)
<1>1. /\ l \in {0} \cup S /\ l \in Nat
      /\ l # 0 => c[l].key \in K
      /\ \A i \in S : c[i].key \in K => i <= l
  BY LastIs
<1> HIDE DEF l
<1>2. m \in Nat
  OBVIOUS
<1>3. l <= m
  BY <1>1, <1>2
<1>4. m <= l
  BY <1>1, <1>2
<1> QED BY <1>1, <1>2, <1>3, <1>4 DEF l

\* It depends on these lines only.
LEMMA LastSame ==
    ASSUME NEW S, NEW K
    PROVE  \A c, d : (\A i \in S : d[i] = c[i]) => LastLine(d, S, K) = LastLine(c, S, K)
<1> TAKE c, d
<1> HAVE \A i \in S : d[i] = c[i]
<1>1. {i \in S : d[i].key \in K} = {i \in S : c[i].key \in K}
  OBVIOUS
<1> QED BY <1>1 DEF LastLine

\* A further line is the last one if it has the keyword.
LEMMA LastNext ==
    ASSUME NEW n \in Nat, NEW S \in SUBSET (1..n), NEW K
    PROVE  \A c : LastLine(c, S \cup {n + 1}, K) = IF c[n + 1].key \in K THEN n + 1
                                                  ELSE LastLine(c, S, K)
<1> TAKE c
<1> DEFINE l == LastLine(c, S, K)
           m == IF c[n + 1].key \in K THEN n + 1 ELSE l
<1>1. /\ l \in {0} \cup S /\ l \in Nat
      /\ l # 0 => c[l].key \in K
      /\ \A i \in S : c[i].key \in K => i <= l
  BY LastIs
<1> HIDE DEF l
<1>2. n + 1 \in Nat /\ S \cup {n + 1} \in SUBSET (1..(n + 1))
  OBVIOUS
<1>3. /\ m \in {0} \cup (S \cup {n + 1})
      /\ m # 0 => c[m].key \in K
      /\ \A i \in S \cup {n + 1} : c[i].key \in K => i <= m
  BY <1>1
<1> HIDE DEF m
<1>4. LastLine(c, S \cup {n + 1}, K) = m
  BY <1>2, <1>3, LastOnly
<1> QED BY <1>4 DEF m, l

\* The same, for a line that is added to a file
LEMMA LastAdded ==
    ASSUME NEW c, IsSequence(c), NEW x, NEW K
    PROVE  /\ \A S \in SUBSET (DOMAIN c) : LastLine(Append(c, x), S, K) = LastLine(c, S, K)
           /\ \A S \in SUBSET (DOMAIN c) :
                 LastLine(Append(c, x), S \cup {Len(c) + 1}, K)
                   = IF x.key \in K THEN Len(c) + 1 ELSE LastLine(c, S, K)
           /\ LastLine(Append(c, x), DOMAIN Append(c, x), K)
                = IF x.key \in K THEN Len(c) + 1 ELSE LastLine(c, DOMAIN c, K)
<1> DEFINE d == Append(c, x)
           n == Len(c)
<1>1. /\ n \in Nat /\ DOMAIN c = 1..n /\ DOMAIN d = 1..(n + 1)
      /\ \A i \in 1..n : d[i] = c[i]
      /\ d[n + 1] = x
  BY Appended
<1> HIDE DEF d, n
<1>2. ASSUME NEW S \in SUBSET (1..n)
      PROVE  /\ LastLine(d, S, K) = LastLine(c, S, K)
             /\ LastLine(d, S \cup {n + 1}, K)
                  = IF x.key \in K THEN n + 1 ELSE LastLine(c, S, K)
  <2>1. LastLine(d, S, K) = LastLine(c, S, K)
    <3>1. \A i \in S : d[i] = c[i]
      BY <1>1
    <3> QED BY <3>1, LastSame
  <2>2. LastLine(d, S \cup {n + 1}, K)
          = IF d[n + 1].key \in K THEN n + 1 ELSE LastLine(d, S, K)
    <3>1. \A e : LastLine(e, S \cup {n + 1}, K)
                  = IF e[n + 1].key \in K THEN n + 1 ELSE LastLine(e, S, K)
      BY <1>1, LastNext
    <3> QED BY <3>1
  <2> QED BY <1>1, <2>1, <2>2
<1>3. 1..(n + 1) = (1..n) \cup {n + 1} /\ 1..n \in SUBSET (1..n)
  BY <1>1
<1> QED BY <1>1, <1>2, <1>3 DEF d, n

-----------------------------------------------------------------------------
(* The lines of a label *)

\* They are lines of the file.
LEMMA BlockLines ==
    ASSUME NEW c, IsSequence(c), NEW i \in DOMAIN c
    PROVE  /\ Len(c) \in Nat /\ i \in 1..Len(c)
           /\ Block(c, i) \in SUBSET (1..Len(c))
<1>1. Len(c) \in Nat /\ i \in 1..Len(c)
  BY DEF IsSequence
<1>2. \A j \in i..Len(c) : j \in 1..Len(c)
  BY <1>1
<1>3. Block(c, i) \subseteq i..Len(c)
  BY Zenon DEF Block
<1> QED BY <1>1, <1>2, <1>3

\* Once the next label begins they stay as they are.
LEMMA BlockSame ==
    ASSUME NEW c, IsSequence(c), NEW x, NEW i \in DOMAIN c,
           x.key = "LABEL" \/ \E k \in (i + 1)..Len(c) : c[k].key = "LABEL"
    PROVE  Block(Append(c, x), i) = Block(c, i)
<1> DEFINE d == Append(c, x)
           n == Len(c)
           in(j) == \A k \in (i + 1)..j : c[k].key # "LABEL"
           on(j) == \A k \in (i + 1)..j : d[k].key # "LABEL"
<1>1. /\ n \in Nat /\ DOMAIN c = 1..n /\ Len(d) = n + 1
      /\ \A k \in 1..n : d[k] = c[k]
      /\ d[n + 1] = x
  BY Appended
<1>2. i \in 1..n
  BY <1>1
<1>0. x.key = "LABEL" \/ \E k \in (i + 1)..n : c[k].key = "LABEL"
  OBVIOUS
<1> HIDE DEF d, n
<1>3. \A j \in i..n : \A k \in (i + 1)..j : k \in 1..n
  BY <1>1, <1>2
<1>4. \A j \in i..n : on(j) <=> in(j)
  BY <1>1, <1>3, Zenon
<1>5. ~on(n + 1)
  <2>1. CASE x.key = "LABEL"
    <3>1. n + 1 \in (i + 1)..(n + 1)
      BY <1>1, <1>2
    <3> QED BY <1>1, <2>1, <3>1
  <2>2. CASE \E k \in (i + 1)..n : c[k].key = "LABEL"
    <3>1. PICK k \in (i + 1)..n : c[k].key = "LABEL"
      BY <2>2
    <3>2. k \in 1..n /\ k \in (i + 1)..(n + 1)
      BY <1>1, <1>2
    <3> QED BY <1>1, <3>1, <3>2
  <2> QED BY <1>0, <2>1, <2>2
<1>6. \A j : j \in i..(n + 1) <=> j \in i..n \/ j = n + 1
  BY <1>1, <1>2
<1>7. Block(c, i) = {j \in i..n : in(j)} /\ Block(d, i) = {j \in i..(n + 1) : on(j)}
  BY <1>1, Zenon DEF Block, n
<1> HIDE DEF in, on
<1>8. {j \in i..(n + 1) : on(j)} = {j \in i..n : in(j)}
  BY <1>4, <1>5, <1>6
<1> QED BY <1>7, <1>8 DEF d

\* Until then they are all lines from the label on.
LEMMA BlockOpen ==
    ASSUME NEW c, IsSequence(c), NEW i \in DOMAIN c,
           \A k \in (i + 1)..Len(c) : c[k].key # "LABEL"
    PROVE  Block(c, i) = i..Len(c)
<1>1. Len(c) \in Nat /\ i \in 1..Len(c)
  BY BlockLines
<1>2. \A j \in i..Len(c) : \A k \in (i + 1)..j : k \in (i + 1)..Len(c)
  BY <1>1
<1> QED BY <1>2, Zenon DEF Block

-----------------------------------------------------------------------------
(* The entry of a label *)

\* It depends on the lines of the file up to the label's last one.
LEMMA EntrySame ==
    ASSUME NEW c, IsSequence(c), NEW x, NEW i \in DOMAIN c,
           x.key = "LABEL" \/ \E k \in (i + 1)..Len(c) : c[k].key = "LABEL"
    PROVE  /\ EntryOf(Append(c, x), i) = EntryOf(c, i)
           /\ LastLine(Append(c, x), Block(Append(c, x), i), KernelKey)
                = LastLine(c, Block(c, i), KernelKey)
<1> DEFINE d == Append(c, x)
           n == Len(c)
           B == Block(c, i)
<1>1. /\ n \in Nat /\ i \in 1..n
      /\ \A k \in 1..n : d[k] = c[k]
  BY Appended, BlockLines
<1>2. B \in SUBSET (1..n) /\ Block(d, i) = B
  BY BlockLines, BlockSame
<1> HIDE DEF d, n, B
<1>3. ASSUME NEW S \in SUBSET (1..n), NEW K
      PROVE  /\ LastLine(d, S, K) = LastLine(c, S, K)
             /\ LastLine(c, S, K) \in 0..n
             /\ ValueAt(d, LastLine(c, S, K)) = ValueAt(c, LastLine(c, S, K))
             /\ d[LastLine(c, S, K)] = c[LastLine(c, S, K)] \/ LastLine(c, S, K) = 0
  <2>1. \A k \in S : d[k] = c[k]
    BY <1>1
  <2>2. LastLine(d, S, K) = LastLine(c, S, K)
    BY <2>1, LastSame
  <2>3. LastLine(c, S, K) \in {0} \cup S
    BY <1>1, LastIs
  <2>4. LastLine(c, S, K) \in 0..n
    <3>1. \A k \in {0} \cup S : k \in 0..n
      BY <1>1
    <3> QED BY <2>3, <3>1
  <2> QED BY <2>1, <2>2, <2>3, <2>4 DEF ValueAt
<1> DEFINE title == LastLine(c, B, {"MENU LABEL"})
           fdt == LastLine(c, B, {"FDT"})
           kernel == LastLine(c, B, KernelKey)
           dir == LastLine(c, 1..fdt, {"FDTDIR"})
<1>4. /\ LastLine(d, B, {"MENU LABEL"}) = title /\ LastLine(d, B, {"FDT"}) = fdt
      /\ LastLine(d, B, KernelKey) = kernel
      /\ ValueAt(d, kernel) = ValueAt(c, kernel)
      /\ title # 0 => d[title] = c[title]
      /\ fdt # 0 => d[fdt] = c[fdt]
      /\ fdt \in 0..n
  BY <1>2, <1>3
<1>f. fdt \in 0..n
  BY <1>4
<1>5. 1..fdt \in SUBSET (1..n)
  <2> HIDE DEF fdt
  <2>1. \A k \in 1..fdt : k \in 1..n
    BY <1>1, <1>f
  <2> QED BY <2>1
<1>6. LastLine(d, 1..fdt, {"FDTDIR"}) = dir /\ ValueAt(d, dir) = ValueAt(c, dir)
  <2> HIDE DEF fdt
  <2> QED BY <1>3, <1>5
<1>7. d[i] = c[i]
  BY <1>1
<1> DEFINE titleOf(b) == IF title = 0 THEN b[i].value ELSE b[title].value
           fdtOf(b) == IF fdt = 0 THEN None ELSE JoinPath(ValueAt(b, dir), b[fdt].value)
           E(a, t, k, f) == [label |-> a, at |-> i, title |-> t, kernel |-> k, fdt |-> f]
<1>8. EntryOf(c, i) = E(c[i].value, titleOf(c), ValueAt(c, kernel), fdtOf(c))
  BY Zenon DEF EntryOf, B
<1>9. EntryOf(d, i) = E(d[i].value, titleOf(d), ValueAt(d, kernel), fdtOf(d))
  <2> HIDE DEF title, fdt, kernel, dir
  <2> QED BY <1>2, <1>4, <1>6, Zenon DEF EntryOf
<1> HIDE DEF title, fdt, kernel, dir
<1>10. titleOf(d) = titleOf(c) /\ fdtOf(d) = fdtOf(c)
  <2>1. titleOf(d) = titleOf(c)
    BY <1>4, <1>7, Zenon
  <2>2. fdtOf(d) = fdtOf(c)
    BY <1>4, <1>6, Zenon
  <2> QED BY <2>1, <2>2
<1> HIDE DEF titleOf, fdtOf, E
<1>11. EntryOf(d, i) = EntryOf(c, i)
  BY <1>4, <1>7, <1>8, <1>9, <1>10
<1>12. LastLine(d, Block(d, i), KernelKey) = LastLine(c, Block(c, i), KernelKey)
  BY <1>2, <1>4 DEF kernel, B
<1> QED BY <1>11, <1>12 DEF d

\* The label of line i asks for what the line x that is added to the file c says.
EntryGrows(c, x, i) ==
    LET e == EntryOf(c, i)
        g == EntryOf(Append(c, x), i)
    IN  /\ g.label = e.label /\ g.at = i
        /\ g.title = IF x.key = "MENU LABEL" THEN x.value ELSE e.title
        /\ g.kernel = IF x.key \in KernelKey THEN x.value ELSE e.kernel
        /\ g.fdt = IF x.key = "FDT"
                   THEN JoinPath(ValueAt(c, LastLine(c, DOMAIN c, {"FDTDIR"})), x.value)
                   ELSE e.fdt
        /\ LastLine(Append(c, x), Block(Append(c, x), i), KernelKey)
             = IF x.key \in KernelKey THEN Len(c) + 1
               ELSE LastLine(c, Block(c, i), KernelKey)

\* So the label whose lines are being read does.
LEMMA EntryNext ==
    ASSUME NEW c, IsSequence(c), NEW x, NEW i \in DOMAIN c,
           x.key # "LABEL", \A k \in (i + 1)..Len(c) : c[k].key # "LABEL"
    PROVE  EntryGrows(c, x, i)
<1> DEFINE d == Append(c, x)
           n == Len(c)
           B == Block(c, i)
<1>1. /\ n \in Nat /\ i \in 1..n /\ DOMAIN c = 1..n /\ IsSequence(d)
      /\ Len(d) = n + 1 /\ DOMAIN d = 1..(n + 1)
      /\ \A k \in 1..n : d[k] = c[k]
      /\ d[n + 1] = x
  BY Appended, BlockLines
<1>2. B \in SUBSET (1..n) /\ B = i..n
  BY BlockLines, BlockOpen
<1>3. Block(d, i) = B \cup {n + 1}
  <2>1. \A k \in (i + 1)..n : c[k].key # "LABEL"
    OBVIOUS
  <2> HIDE DEF d, B
  <2>2. \A k \in (i + 1)..Len(d) : d[k].key # "LABEL"
    <3> TAKE k \in (i + 1)..Len(d)
    <3>1. k \in (i + 1)..n \/ k = n + 1
      BY <1>1
    <3>2. k \in (i + 1)..n => k \in 1..n
      BY <1>1
    <3> HIDE DEF n
    <3> QED BY <1>1, <2>1, <3>1, <3>2
  <2>3. i \in DOMAIN d
    BY <1>1
  <2>4. Block(d, i) = i..Len(d)
    BY <1>1, <2>2, <2>3, BlockOpen
  <2>5. i..(n + 1) = (i..n) \cup {n + 1}
    BY <1>1
  <2> QED BY <1>1, <1>2, <2>4, <2>5
<1> HIDE DEF d, n, B
<1>4. ASSUME NEW S \in SUBSET (1..n), NEW K
      PROVE  /\ LastLine(d, S, K) = LastLine(c, S, K)
             /\ LastLine(c, S, K) \in 0..n
             /\ ValueAt(d, LastLine(c, S, K)) = ValueAt(c, LastLine(c, S, K))
             /\ d[LastLine(c, S, K)] = c[LastLine(c, S, K)] \/ LastLine(c, S, K) = 0
             /\ LastLine(d, S \cup {n + 1}, K)
                  = IF x.key \in K THEN n + 1 ELSE LastLine(c, S, K)
  <2>1. \A k \in S : d[k] = c[k]
    BY <1>1
  <2>2. LastLine(d, S, K) = LastLine(c, S, K)
    BY <2>1, LastSame
  <2>3. LastLine(c, S, K) \in {0} \cup S
    BY <1>1, LastIs
  <2>4. LastLine(c, S, K) \in 0..n
    <3>1. \A k \in {0} \cup S : k \in 0..n
      BY <1>1
    <3> QED BY <2>3, <3>1
  <2>5. \A e : LastLine(e, S \cup {n + 1}, K)
                 = IF e[n + 1].key \in K THEN n + 1 ELSE LastLine(e, S, K)
    BY <1>1, LastNext
  <2> QED BY <1>1, <2>1, <2>2, <2>3, <2>4, <2>5 DEF ValueAt
<1> DEFINE all == 1..n
           title(b, S) == LastLine(b, S, {"MENU LABEL"})
           fdt(b, S) == LastLine(b, S, {"FDT"})
           kernel(b, S) == LastLine(b, S, KernelKey)
           dir(b, l) == LastLine(b, 1..l, {"FDTDIR"})
           titleOf(b, l) == IF l = 0 THEN b[i].value ELSE b[l].value
           fdtOf(b, l) == IF l = 0 THEN None ELSE JoinPath(ValueAt(b, dir(b, l)), b[l].value)
           e == EntryOf(c, i)
           g == EntryOf(d, i)
           C == B \cup {n + 1}
<1>5. /\ e.label = c[i].value
      /\ e.title = titleOf(c, title(c, B))
      /\ e.kernel = ValueAt(c, kernel(c, B))
      /\ e.fdt = fdtOf(c, fdt(c, B))
  BY DEF EntryOf, B
<1>6. /\ g.label = d[i].value /\ g.at = i
      /\ g.title = titleOf(d, title(d, C))
      /\ g.kernel = ValueAt(d, kernel(d, C))
      /\ g.fdt = fdtOf(d, fdt(d, C))
  <2> HIDE DEF C
  <2>1. Block(d, i) = C
    BY <1>3 DEF C
  <2> QED BY <2>1 DEF EntryOf
<1>7. /\ title(d, C) = IF x.key = "MENU LABEL" THEN n + 1 ELSE title(c, B)
      /\ fdt(d, C) = IF x.key = "FDT" THEN n + 1 ELSE fdt(c, B)
      /\ kernel(d, C) = IF x.key \in KernelKey THEN n + 1 ELSE kernel(c, B)
  <2>1. \A K : LastLine(d, C, K) = IF x.key \in K THEN n + 1 ELSE LastLine(c, B, K)
    BY <1>2, <1>4
  <2>2. \A y : x.key \in {y} <=> x.key = y
    OBVIOUS
  <2> HIDE DEF C
  <2> QED BY <2>1, <2>2, Zenon
<1>8. /\ title(c, B) \in 0..n
      /\ title(c, B) # 0 => d[title(c, B)] = c[title(c, B)]
      /\ fdt(c, B) \in 0..n
      /\ fdt(c, B) # 0 => d[fdt(c, B)] = c[fdt(c, B)]
      /\ kernel(c, B) \in 0..n /\ ValueAt(d, kernel(c, B)) = ValueAt(c, kernel(c, B))
  BY <1>2, <1>4, Zenon
<1>9. /\ d[i] = c[i] /\ d[n + 1] = x /\ n + 1 # 0
  BY <1>1
<1>10. \A l \in 0..n : dir(d, l) = dir(c, l) /\ ValueAt(d, dir(c, l)) = ValueAt(c, dir(c, l))
  <2> TAKE l \in 0..n
  <2>1. \A k \in 1..l : k \in 1..n
    BY <1>1
  <2>2. 1..l \in SUBSET (1..n)
    BY <2>1
  <2> QED BY <1>4, <2>2
<1>11. x.key = "FDT" => ValueAt(d, dir(d, n + 1)) = ValueAt(c, LastLine(c, DOMAIN c, {"FDTDIR"}))
  <2>1. 1..(n + 1) = all \cup {n + 1}
    BY <1>1
  <2>2. all \in SUBSET (1..n)
    OBVIOUS
  <2>3. x.key = "FDT" => x.key \notin {"FDTDIR"}
    OBVIOUS
  <2> HIDE DEF all
  <2>4. x.key = "FDT" => /\ dir(d, n + 1) = LastLine(c, all, {"FDTDIR"})
                         /\ ValueAt(d, LastLine(c, all, {"FDTDIR"})) = ValueAt(c, LastLine(c, all, {"FDTDIR"}))
    BY <1>4, <2>1, <2>2, <2>3, ZenonT(40)
  <2> QED BY <1>1, <2>4 DEF all
<1> HIDE DEF title, fdt, kernel, dir, e, g, C
<1>12. g.title = IF x.key = "MENU LABEL" THEN x.value ELSE e.title
  <2>1. CASE x.key = "MENU LABEL"
    BY <1>6, <1>7, <1>9, <2>1, Zenon
  <2>2. CASE x.key # "MENU LABEL"
    <3>1. title(d, C) = title(c, B)
      BY <1>7, <2>2, Zenon
    <3>2. titleOf(d, title(c, B)) = titleOf(c, title(c, B))
      <4>1. \A l : (l # 0 => d[l] = c[l]) => titleOf(d, l) = titleOf(c, l)
        BY <1>9
      <4> HIDE DEF titleOf
      <4> QED BY <1>8, <4>1
    <3> HIDE DEF titleOf
    <3> QED BY <1>5, <1>6, <2>2, <3>1, <3>2, Zenon
  <2> QED BY <2>1, <2>2, Zenon
<1>13. g.kernel = IF x.key \in KernelKey THEN x.value ELSE e.kernel
  BY <1>5, <1>6, <1>7, <1>8, <1>9, Zenon DEF ValueAt
<1>14. g.fdt = IF x.key = "FDT"
               THEN JoinPath(ValueAt(c, LastLine(c, DOMAIN c, {"FDTDIR"})), x.value)
               ELSE e.fdt
  <2>1. CASE x.key = "FDT"
    BY <1>5, <1>6, <1>7, <1>9, <1>11, <2>1, Zenon
  <2>2. CASE x.key # "FDT"
    <3>1. fdt(d, C) = fdt(c, B)
      BY <1>7, <2>2, Zenon
    <3>2. fdtOf(d, fdt(c, B)) = fdtOf(c, fdt(c, B))
      <4>1. \A l \in 0..n : (l # 0 => d[l] = c[l]) => fdtOf(d, l) = fdtOf(c, l)
        BY <1>10
      <4> HIDE DEF fdtOf
      <4> QED BY <1>8, <4>1
    <3> HIDE DEF fdtOf
    <3> QED BY <1>5, <1>6, <2>2, <3>1, <3>2, Zenon
  <2> QED BY <2>1, <2>2, Zenon
<1>15. g.label = e.label /\ g.at = i
  BY <1>5, <1>6, <1>9, Zenon
<1>16. LastLine(d, Block(d, i), KernelKey) = IF x.key \in KernelKey THEN n + 1
                                             ELSE LastLine(c, Block(c, i), KernelKey)
  BY <1>3, <1>7 DEF kernel, B, C
<1> QED BY <1>12, <1>13, <1>14, <1>15, <1>16, Zenon DEF EntryGrows, d, e, g, n

\* A new label asks for what its own line says.
LEMMA EntryNew ==
    ASSUME NEW c, IsSequence(c), NEW x, x.key = "LABEL"
    PROVE  LET g == EntryOf(Append(c, x), Len(c) + 1)
           IN  /\ g.label = x.value /\ g.at = Len(c) + 1 /\ g.title = x.value
               /\ g.kernel = None /\ g.fdt = None
               /\ LastLine(Append(c, x), Block(Append(c, x), Len(c) + 1), KernelKey) = 0
<1> DEFINE d == Append(c, x)
           n == Len(c)
           i == n + 1
<1>1. /\ n \in Nat /\ IsSequence(d) /\ Len(d) = n + 1 /\ DOMAIN d = 1..(n + 1)
      /\ d[n + 1] = x
  BY Appended
<1> HIDE DEF d, n
<1>2. Block(d, i) = {i}
  <2>1. \A k \in (i + 1)..Len(d) : d[k].key # "LABEL"
    BY <1>1
  <2>2. i \in DOMAIN d
    BY <1>1
  <2> HIDE DEF i
  <2>3. Block(d, i) = i..Len(d)
    BY <1>1, <2>1, <2>2, BlockOpen
  <2>4. i..(n + 1) = {i}
    BY <1>1 DEF i
  <2> QED BY <1>1, <2>3, <2>4
<1> HIDE DEF i
<1>3. \A K : x.key \notin K => LastLine(d, {i}, K) = 0
  <2> TAKE K
  <2>1. {i} \in SUBSET (1..(n + 1)) /\ n + 1 \in Nat
    BY <1>1 DEF i
  <2>2. /\ LastLine(d, {i}, K) \in {0} \cup {i}
        /\ LastLine(d, {i}, K) # 0 => d[LastLine(d, {i}, K)].key \in K
    BY <2>1, LastIs
  <2> QED BY <1>1, <2>2 DEF i
<1>4. /\ x.key \notin {"MENU LABEL"} /\ x.key \notin {"FDT"} /\ x.key \notin KernelKey
  BY DEF KernelKey
<1>5. /\ LastLine(d, {i}, {"MENU LABEL"}) = 0 /\ LastLine(d, {i}, {"FDT"}) = 0
      /\ LastLine(d, {i}, KernelKey) = 0
  BY <1>3, <1>4
<1>6. d[i] = x
  BY <1>1 DEF i
<1>7. LET g == EntryOf(d, i)
      IN  /\ g.label = x.value /\ g.at = i /\ g.title = x.value
          /\ g.kernel = None /\ g.fdt = None
          /\ LastLine(d, Block(d, i), KernelKey) = 0
  BY <1>2, <1>5, <1>6 DEF EntryOf, ValueAt
<1> QED BY <1>7 DEF d, i, n

-----------------------------------------------------------------------------
(* What a line does to the parser *)

\* An extlinux_parser and its label have the fields of the empty ones.
IsParser(p) == DOMAIN p = DOMAIN NoParser /\ DOMAIN p.current = DOMAIN NoLabel

\* Each field of the parser q follows from the parser p before, the keyword and
\* the value.
Parsed(p, x, q) ==
    /\ q.default = IF x.key = "DEFAULT" THEN x.value
                   ELSE IF x.key = "MENU DEFAULT" THEN p.current.label ELSE p.default
    /\ q.ontimeout = IF x.key = "ONTIMEOUT" THEN x.value ELSE p.ontimeout
    /\ q.fdtDir = IF x.key = "FDTDIR" THEN x.value ELSE p.fdtDir
    /\ q.title = IF x.key = "MENU TITLE" THEN x.value ELSE p.title
    /\ q.timeout = IF x.key = "TIMEOUT" THEN Seconds(x.value) ELSE p.timeout
    /\ q.prompt = IF x.key \in {"PROMPT", "MENU HIDDEN"}
                  THEN (x.key = "PROMPT" /\ x.value = "1") ELSE p.prompt
    /\ IsParser(q)
    /\ x.key = "LABEL" =>
          /\ x.value # None /\ q.labels = FinishLabel(p).labels
          /\ q.current = [label |-> x.value, name |-> None, title |-> x.value,
                          kernel |-> None, fdt |-> None, at |-> Len(content) + 1]
    /\ x.key = "TIMEOUT" => Seconds(x.value) # None
    /\ x.key = "MENU DEFAULT" => InLabel(p)
    /\ x.key # "LABEL" =>
          /\ q.labels = p.labels /\ q.current.label = p.current.label
          /\ q.current.at = p.current.at
          /\ InLabel(p) =>
               /\ q.current.title = IF x.key = "MENU LABEL" THEN x.value
                                    ELSE p.current.title
               /\ q.current.kernel = IF x.key \in KernelKey THEN x.value
                                     ELSE p.current.kernel
               /\ q.current.fdt = IF x.key = "FDT" THEN JoinPath(p.fdtDir, x.value)
                                  ELSE p.current.fdt
               /\ x.key \in KernelKey => x.value # None

\* So it is after each line.
LEMMA ParsedLine ==
    ASSUME NEW p, IsParser(p), NEW x, ParseLine(p, x).ok
    PROVE  Parsed(p, x, ParseLine(p, x).parser)
<1> DEFINE q == ParseLine(p, x).parser
           r == FinishLabel(p)
           new == [label |-> x.value, name |-> None, title |-> x.value,
                   kernel |-> None, fdt |-> None, at |-> Len(content) + 1]
<1>1. /\ DOMAIN p = {"labels", "current", "default", "ontimeout", "fdtDir", "title",
                     "timeout", "prompt"}
      /\ DOMAIN p.current = {"label", "name", "title", "kernel", "fdt", "at"}
  BY DEF IsParser, NoParser, NoLabel
<1>2. /\ DOMAIN r = DOMAIN p
      /\ r.default = p.default /\ r.ontimeout = p.ontimeout /\ r.fdtDir = p.fdtDir
      /\ r.title = p.title /\ r.timeout = p.timeout /\ r.prompt = p.prompt
  BY <1>1 DEF FinishLabel
<1> HIDE DEF r
<1> SUFFICES Parsed(p, x, q)
  OBVIOUS
<1>3. CASE x.key = "LABEL"
  <2> HIDE DEF new
  <2>1. x.value # None
    BY <1>3 DEF ParseLine, NeedsValue, Reject
  <2>2. q = [r EXCEPT !.current = new]
    BY <1>3, <2>1 DEF ParseLine, Global, ParseGlobal, Accept, r, new
  <2> HIDE DEF q
  <2>3. DOMAIN new = {"label", "name", "title", "kernel", "fdt", "at"}
    BY DEF new
  <2>4. /\ q.current = new /\ q.labels = r.labels /\ DOMAIN q = DOMAIN r
        /\ q.default = r.default /\ q.ontimeout = r.ontimeout /\ q.fdtDir = r.fdtDir
        /\ q.title = r.title /\ q.timeout = r.timeout /\ q.prompt = r.prompt
    BY <1>1, <1>2, <2>2
  <2> QED BY <1>1, <1>2, <1>3, <2>1, <2>3, <2>4 DEF r, new, Parsed, IsParser, KernelKey, NoLabel
<1>4. CASE x.key \in Global /\ x.key # "LABEL"
  <2>1. /\ q = (CASE x.key = "MENU HIDDEN" -> [p EXCEPT !.prompt = FALSE]
                  [] x.key = "MENU TITLE" -> [p EXCEPT !.title = x.value]
                  [] x.key = "DEFAULT" -> [p EXCEPT !.default = x.value]
                  [] x.key = "ONTIMEOUT" -> [p EXCEPT !.ontimeout = x.value]
                  [] x.key = "TIMEOUT" -> [p EXCEPT !.timeout = Seconds(x.value)]
                  [] x.key = "PROMPT" -> [p EXCEPT !.prompt = (x.value = "1")]
                  [] x.key = "FDTDIR" -> [p EXCEPT !.fdtDir = x.value])
        /\ x.key = "TIMEOUT" => Seconds(x.value) # None
    BY <1>4 DEF ParseLine, Global, ParseGlobal, Accept, Reject
  <2> HIDE DEF q
  <2>a. x.key \in {"MENU HIDDEN", "MENU TITLE", "DEFAULT", "ONTIMEOUT", "TIMEOUT", "PROMPT", "FDTDIR"}
    BY <1>4 DEF Global
  <2>2. CASE x.key = "MENU HIDDEN"
    <3>1. q = [p EXCEPT !.prompt = FALSE]
      BY <2>1, <2>2
    <3> QED BY <1>1, <1>4, <2>2, <3>1 DEF Parsed, IsParser, KernelKey
  <2>3. CASE x.key = "MENU TITLE"
    <3>1. q = [p EXCEPT !.title = x.value]
      BY <2>1, <2>3
    <3> QED BY <1>1, <1>4, <2>3, <3>1 DEF Parsed, IsParser, KernelKey
  <2>4. CASE x.key = "DEFAULT"
    <3>1. q = [p EXCEPT !.default = x.value]
      BY <2>1, <2>4
    <3> QED BY <1>1, <1>4, <2>4, <3>1 DEF Parsed, IsParser, KernelKey
  <2>5. CASE x.key = "ONTIMEOUT"
    <3>1. q = [p EXCEPT !.ontimeout = x.value]
      BY <2>1, <2>5
    <3> QED BY <1>1, <1>4, <2>5, <3>1 DEF Parsed, IsParser, KernelKey
  <2>6. CASE x.key = "TIMEOUT"
    <3>1. q = [p EXCEPT !.timeout = Seconds(x.value)]
      BY <2>1, <2>6
    <3> QED BY <1>1, <1>4, <2>1, <2>6, <3>1 DEF Parsed, IsParser, KernelKey
  <2>7. CASE x.key = "PROMPT"
    <3>1. q = [p EXCEPT !.prompt = (x.value = "1")]
      BY <2>1, <2>7
    <3> QED BY <1>1, <1>4, <2>7, <3>1 DEF Parsed, IsParser, KernelKey
  <2>8. CASE x.key = "FDTDIR"
    <3>1. q = [p EXCEPT !.fdtDir = x.value]
      BY <2>1, <2>8
    <3> QED BY <1>1, <1>4, <2>8, <3>1 DEF Parsed, IsParser, KernelKey
  <2> QED BY <2>a, <2>2, <2>3, <2>4, <2>5, <2>6, <2>7, <2>8
<1>5. CASE x.key \notin Global
  <2>1. CASE InLabel(p)
    <3>1. /\ q = (CASE x.key = "MENU LABEL" -> [p EXCEPT !.current.title = x.value]
                    [] x.key = "MENU DEFAULT" -> [p EXCEPT !.default = p.current.label]
                    [] x.key \in {"LINUX", "KERNEL"} -> [p EXCEPT !.current.kernel = x.value]
                    [] x.key = "FDT" -> [p EXCEPT !.current.fdt = JoinPath(p.fdtDir, x.value)]
                    [] OTHER -> p)
          /\ x.key \in KernelKey => x.value # None
      BY <1>5, <2>1 DEF ParseLine, ParseInLabel, Accept, Reject, NeedsValue, KernelKey
    <3> HIDE DEF q
    <3>2. CASE x.key = "MENU LABEL"
      <4>1. q = [p EXCEPT !.current.title = x.value]
        BY <3>1, <3>2
      <4> QED BY <1>1, <2>1, <3>2, <4>1 DEF Parsed, IsParser, KernelKey
    <3>3. CASE x.key = "MENU DEFAULT"
      <4>1. q = [p EXCEPT !.default = p.current.label]
        BY <3>1, <3>3
      <4> QED BY <1>1, <2>1, <3>3, <4>1 DEF Parsed, IsParser, KernelKey
    <3>4. CASE x.key \in KernelKey
      <4>1. q = [p EXCEPT !.current.kernel = x.value]
        BY <3>1, <3>4 DEF KernelKey
      <4>2. x.value # None
        BY <3>1, <3>4
      <4>3. CASE x.key = "LINUX"
        BY <1>1, <2>1, <4>1, <4>2, <4>3 DEF Parsed, IsParser, KernelKey
      <4>4. CASE x.key = "KERNEL"
        BY <1>1, <2>1, <4>1, <4>2, <4>4 DEF Parsed, IsParser, KernelKey
      <4> QED BY <3>4, <4>3, <4>4 DEF KernelKey
    <3>5. CASE x.key = "FDT"
      <4>1. q = [p EXCEPT !.current.fdt = JoinPath(p.fdtDir, x.value)]
        BY <3>1, <3>5
      <4> QED BY <1>1, <2>1, <3>5, <4>1 DEF Parsed, IsParser, KernelKey
    <3>6. CASE x.key \notin {"MENU LABEL", "MENU DEFAULT", "FDT"} \cup KernelKey
      <4>1. q = p
        BY <3>1, <3>6 DEF KernelKey
      <4> QED BY <1>1, <1>5, <2>1, <3>6, <4>1 DEF Parsed, IsParser, KernelKey, Global
    <3> QED BY <3>2, <3>3, <3>4, <3>5, <3>6
  <2>2. CASE ~InLabel(p)
    <3>1. q = p /\ x.key # "MENU DEFAULT"
      BY <1>5, <2>2 DEF ParseLine, Accept, Reject, NeedsValue
    <3> HIDE DEF q
    <3> QED BY <1>5, <2>2, <3>1 DEF Parsed, Global, KernelKey
  <2> QED BY <2>1, <2>2
<1> QED BY <1>3, <1>4, <1>5

-----------------------------------------------------------------------------
(* The settings *)

\* The last line of a keyword in a file that gets one more
LEMMA LastOfFile ==
    ASSUME NEW c, IsSequence(c), NEW x, NEW K
    PROVE  LET d == Append(c, x)
               l == LastLine(c, DOMAIN c, K)
               m == LastLine(d, DOMAIN d, K)
           IN  /\ Len(c) \in Nat /\ l \in 0..Len(c)
               /\ l # 0 => d[l] = c[l] /\ c[l].key \in K
               /\ \A i \in DOMAIN c : c[i].key \in K => i <= l
               /\ x.key \in K => m = Len(c) + 1 /\ m # 0 /\ d[m] = x
               /\ x.key \notin K => m = l
               /\ ValueAt(d, m) = IF x.key \in K THEN x.value ELSE ValueAt(c, l)
<1> DEFINE d == Append(c, x)
           n == Len(c)
           l == LastLine(c, DOMAIN c, K)
           m == LastLine(d, DOMAIN d, K)
<1>1. /\ n \in Nat /\ DOMAIN c = 1..n
      /\ \A i \in 1..n : d[i] = c[i]
      /\ d[n + 1] = x
  BY Appended
<1>2. m = IF x.key \in K THEN n + 1 ELSE l
  BY LastAdded
<1>3. /\ l \in {0} \cup DOMAIN c
      /\ l # 0 => c[l].key \in K
      /\ \A i \in DOMAIN c : c[i].key \in K => i <= l
  <2>1. DOMAIN c \in SUBSET (1..n)
    BY <1>1
  <2> HIDE DEF n
  <2> QED BY <1>1, <2>1, LastIs
<1> HIDE DEF d, l, m, n
<1>4. l \in 0..n
  BY <1>1, <1>3
<1>5. l # 0 => d[l] = c[l]
  BY <1>1, <1>3
<1>6. n + 1 # 0
  BY <1>1
<1>7. ValueAt(d, m) = IF x.key \in K THEN x.value ELSE ValueAt(c, l)
  <2>1. CASE x.key \in K
    BY <1>1, <1>2, <1>6, <2>1, Zenon DEF ValueAt
  <2>2. CASE x.key \notin K
    BY <1>2, <1>5, <2>2, Zenon DEF ValueAt
  <2> QED BY <2>1, <2>2, Zenon
<1>8. /\ x.key \in K => m = n + 1 /\ m # 0 /\ d[m] = x
      /\ x.key \notin K => m = l
  BY <1>1, <1>2, <1>6
<1> QED BY <1>1, <1>3, <1>4, <1>5, <1>7, <1>8 DEF d, l, m, n

\* The line of the last LABEL
LabelLine(c) == LastLine(c, DOMAIN c, {"LABEL"})

\* The default that the last DEFAULT or MENU DEFAULT asks for
LEMMA DefaultTextNext ==
    ASSUME NEW c, IsSequence(c), NEW x
    PROVE  DefaultText(Append(c, x))
             = IF x.key = "DEFAULT" THEN x.value
               ELSE IF x.key = "MENU DEFAULT" THEN ValueAt(c, LabelLine(c))
               ELSE DefaultText(c)
<1> DEFINE d == Append(c, x)
           n == Len(c)
           K == {"DEFAULT", "MENU DEFAULT"}
           line(b) == LastLine(b, DOMAIN b, K)
           label(b, i) == LastLine(b, 1..i, {"LABEL"})
           text(b, i) == IF i # 0 /\ b[i].key = "MENU DEFAULT"
                         THEN ValueAt(b, label(b, i)) ELSE ValueAt(b, i)
<1>1. /\ n \in Nat /\ DOMAIN c = 1..n /\ DOMAIN d = 1..(n + 1)
      /\ \A i \in 1..n : d[i] = c[i]
      /\ d[n + 1] = x
  BY Appended
<1>2. /\ line(c) \in 0..n
      /\ line(c) # 0 => d[line(c)] = c[line(c)]
      /\ x.key \in K => line(d) = n + 1
      /\ x.key \notin K => line(d) = line(c)
  <2> HIDE DEF K
  <2> QED BY LastOfFile
<1>3. DefaultText(c) = text(c, line(c)) /\ DefaultText(d) = text(d, line(d))
  BY Zenon DEF DefaultText
<1>4. ValueAt(d, LabelLine(d)) = IF x.key \in {"LABEL"} THEN x.value ELSE ValueAt(c, LabelLine(c))
  BY LastOfFile DEF LabelLine
<1>5. label(d, n + 1) = LabelLine(d)
  BY <1>1 DEF LabelLine
<1> SUFFICES DefaultText(d) = IF x.key = "DEFAULT" THEN x.value
                            ELSE IF x.key = "MENU DEFAULT" THEN ValueAt(c, LabelLine(c))
                            ELSE DefaultText(c)
  OBVIOUS
<1> HIDE DEF d, n, line
<1>0. n + 1 # 0
  BY <1>1
<1>6. \A i \in 0..n : ValueAt(d, label(d, i)) = ValueAt(c, label(c, i))
  <2> TAKE i \in 0..n
  <2>1. \A k \in 1..i : k \in 1..n
    BY <1>1
  <2>2. 1..i \in SUBSET (1..n) /\ \A k \in 1..i : d[k] = c[k]
    BY <1>1, <2>1
  <2>3. label(d, i) = label(c, i)
    BY <2>2, LastSame
  <2>4. label(c, i) \in {0} \cup 1..i
    BY <1>1, <2>2, LastIs
  <2> HIDE DEF label
  <2> QED BY <2>2, <2>3, <2>4 DEF ValueAt
<1> HIDE DEF label
<1>7. CASE x.key = "DEFAULT"
  <2>1. line(d) = n + 1
    BY <1>2, <1>7
  <2>2. text(d, n + 1) = x.value
    BY <1>0, <1>1, <1>7 DEF ValueAt
  <2> QED BY <1>3, <1>7, <2>1, <2>2
<1>8. CASE x.key = "MENU DEFAULT"
  <2>1. line(d) = n + 1 /\ x.key \notin {"LABEL"}
    BY <1>2, <1>8
  <2>2. n + 1 # 0 /\ d[n + 1].key = "MENU DEFAULT"
    BY <1>0, <1>1, <1>8
  <2>3. text(d, n + 1) = ValueAt(d, label(d, n + 1))
    BY <2>2, Zenon
  <2> QED BY <1>3, <1>4, <1>5, <1>8, <2>1, <2>3
<1>9. CASE x.key \notin K
  <2>1. line(d) = line(c)
    BY <1>2, <1>9
  <2>2. \A i \in 0..n : (i # 0 => d[i] = c[i]) => text(d, i) = text(c, i)
    BY <1>6 DEF ValueAt
  <2> HIDE DEF text
  <2>3. text(d, line(c)) = text(c, line(c))
    BY <1>2, <2>2
  <2> QED BY <1>3, <1>9, <2>1, <2>3
<1> QED BY <1>7, <1>8, <1>9

\* The settings are those of the last line on each.
SettingsAre(c, p) ==
    LET last(K) == LastLine(c, DOMAIN c, K)
    IN  /\ p.default = DefaultText(c)
        /\ p.ontimeout = ValueAt(c, last({"ONTIMEOUT"}))
        /\ p.fdtDir = ValueAt(c, last({"FDTDIR"}))
        /\ p.title = ValueAt(c, last({"MENU TITLE"}))
        /\ LET i == last({"TIMEOUT"})
           IN  /\ p.timeout = IF i = 0 THEN None ELSE Seconds(c[i].value)
               /\ i # 0 => Seconds(c[i].value) # None
        /\ LET i == last({"PROMPT", "MENU HIDDEN"})
           IN  p.prompt = IF i = 0 THEN None ELSE c[i].key = "PROMPT" /\ c[i].value = "1"

\* So they are after a further line.
LEMMA SettingsNext ==
    ASSUME NEW c, IsSequence(c), NEW p, SettingsAre(c, p), NEW x, NEW q, Parsed(p, x, q),
           InLabel(p) => p.current.label = ValueAt(c, LabelLine(c))
    PROVE  SettingsAre(Append(c, x), q)
<1> DEFINE d == Append(c, x)
           last(K) == LastLine(c, DOMAIN c, K)
           late(K) == LastLine(d, DOMAIN d, K)
<1>1. ASSUME NEW K
      PROVE  /\ last(K) # 0 => d[last(K)] = c[last(K)]
             /\ x.key \in K => late(K) # 0 /\ d[late(K)] = x
             /\ x.key \notin K => late(K) = last(K)
             /\ ValueAt(d, late(K)) = IF x.key \in K THEN x.value ELSE ValueAt(c, last(K))
  BY LastOfFile
<1>2. DefaultText(d) = IF x.key = "DEFAULT" THEN x.value
                       ELSE IF x.key = "MENU DEFAULT" THEN ValueAt(c, LabelLine(c))
                       ELSE DefaultText(c)
  BY DefaultTextNext
<1>3. \A y : x.key \in {y} <=> x.key = y
  OBVIOUS
<1>4. /\ p.default = DefaultText(c)
      /\ p.ontimeout = ValueAt(c, last({"ONTIMEOUT"}))
      /\ p.fdtDir = ValueAt(c, last({"FDTDIR"}))
      /\ p.title = ValueAt(c, last({"MENU TITLE"}))
      /\ p.timeout = IF last({"TIMEOUT"}) = 0 THEN None ELSE Seconds(c[last({"TIMEOUT"})].value)
      /\ last({"TIMEOUT"}) # 0 => Seconds(c[last({"TIMEOUT"})].value) # None
  BY DEF SettingsAre
<1>5. LET i == last({"PROMPT", "MENU HIDDEN"})
      IN  p.prompt = IF i = 0 THEN None ELSE c[i].key = "PROMPT" /\ c[i].value = "1"
  BY DEF SettingsAre
<1>6. q.default = DefaultText(d)
  BY <1>2, <1>4 DEF Parsed
<1> HIDE DEF d, last, late
<1>7. /\ q.ontimeout = ValueAt(d, late({"ONTIMEOUT"}))
      /\ q.fdtDir = ValueAt(d, late({"FDTDIR"}))
      /\ q.title = ValueAt(d, late({"MENU TITLE"}))
  BY <1>1, <1>3, <1>4 DEF Parsed
<1>8. /\ q.timeout = IF late({"TIMEOUT"}) = 0 THEN None ELSE Seconds(d[late({"TIMEOUT"})].value)
      /\ late({"TIMEOUT"}) # 0 => Seconds(d[late({"TIMEOUT"})].value) # None
  <2>1. q.timeout = IF x.key = "TIMEOUT" THEN Seconds(x.value) ELSE p.timeout
    BY DEF Parsed
  <2>2. x.key = "TIMEOUT" => Seconds(x.value) # None
    BY DEF Parsed
  <2>3. CASE x.key = "TIMEOUT"
    BY <1>1, <2>1, <2>2, <2>3
  <2>4. CASE x.key # "TIMEOUT"
    BY <1>1, <1>4, <2>1, <2>4
  <2> QED BY <2>3, <2>4
<1>9. LET i == late({"PROMPT", "MENU HIDDEN"})
      IN  q.prompt = IF i = 0 THEN None ELSE d[i].key = "PROMPT" /\ d[i].value = "1"
  <2> DEFINE K == {"PROMPT", "MENU HIDDEN"}
  <2>1. q.prompt = IF x.key \in K THEN (x.key = "PROMPT" /\ x.value = "1") ELSE p.prompt
    BY DEF Parsed
  <2> HIDE DEF K
  <2>2. CASE x.key \in K
    <3>1. late(K) # 0 /\ d[late(K)] = x
      BY <1>1, <2>2
    <3> QED BY <2>1, <2>2, <3>1, Zenon DEF K
  <2>3. CASE x.key \notin K
    <3>1. late(K) = last(K) /\ (last(K) # 0 => d[last(K)] = c[last(K)])
      BY <1>1, <2>3
    <3>2. LET i == last(K)
          IN  p.prompt = IF i = 0 THEN None ELSE c[i].key = "PROMPT" /\ c[i].value = "1"
      BY <1>5 DEF K
    <3>3. CASE last(K) = 0
      BY <2>1, <2>3, <3>1, <3>2, <3>3, Zenon DEF K
    <3>4. CASE last(K) # 0
      <4>1. d[last(K)] = c[last(K)]
        BY <3>1, <3>4
      <4> QED BY <2>1, <2>3, <3>1, <3>2, <3>4, <4>1, Zenon DEF K
    <3> QED BY <3>3, <3>4
  <2> QED BY <2>2, <2>3
<1> QED BY <1>6, <1>7, <1>8, <1>9, Zenon DEF SettingsAre, d, late

-----------------------------------------------------------------------------
(* The label whose lines are being read *)

\* l has what the entry e asks for.
Fits(l, e) ==
    /\ l.label = e.label /\ l.at = e.at /\ l.title = e.title /\ l.kernel = e.kernel
    /\ l.fdt = e.fdt

\* Whether the label of line i has a kernel
HasKernel(c, i) == LastLine(c, Block(c, i), KernelKey) # 0

\* The parser's current label is that of the last LABEL line.
CurrentIs(c, p) ==
    LET i == LabelLine(c)
    IN  /\ p.current.at = i
        /\ i # 0 => /\ Fits(p.current, EntryOf(c, i))
                    /\ p.current.label \in Seq(Part)
                    /\ HasKernel(c, i) <=> p.current.kernel # None

\* The last LABEL line
LEMMA LabelLineIs ==
    ASSUME NEW c, IsSequence(c)
    PROVE  /\ Len(c) \in Nat /\ DOMAIN c = 1..Len(c)
           /\ LabelLine(c) \in 0..Len(c)
           /\ LabelLine(c) # 0 => c[LabelLine(c)].key = "LABEL"
           /\ \A k \in 1..Len(c) : c[k].key = "LABEL" => k <= LabelLine(c)
           /\ \A k \in (LabelLine(c) + 1)..Len(c) : c[k].key # "LABEL"
<1> DEFINE n == Len(c)
           l == LabelLine(c)
<1>1. n \in Nat /\ DOMAIN c = 1..n
  BY DEF IsSequence
<1>2. /\ l \in {0} \cup 1..n /\ l \in Nat
      /\ l # 0 => c[l].key \in {"LABEL"}
      /\ \A k \in 1..n : c[k].key \in {"LABEL"} => k <= l
  <2>1. 1..n \in SUBSET (1..n)
    OBVIOUS
  <2> HIDE DEF n
  <2> QED BY <1>1, <2>1, LastIs DEF LabelLine
<1> HIDE DEF l, n
<1>3. \A k \in (l + 1)..n : k \in 1..n /\ ~(k <= l)
  BY <1>1, <1>2
<1>4. l \in 0..n
  BY <1>1, <1>2
<1> QED BY <1>1, <1>2, <1>3, <1>4 DEF l, n

\* So it is after a LABEL line.
LEMMA CurrentNew ==
    ASSUME NEW c, IsSequence(c), c = content, NEW p, NEW x, x.key = "LABEL", IsLine(x),
           NEW q, Parsed(p, x, q)
    PROVE  CurrentIs(Append(c, x), q)
<1> DEFINE d == Append(c, x)
           n == Len(c)
           j == LabelLine(d)
<1>1. /\ x.value \in Seq(Part)
      /\ q.current = [label |-> x.value, name |-> None, title |-> x.value,
                      kernel |-> None, fdt |-> None, at |-> n + 1]
  BY DEF Parsed, IsLine
<1>2. LET g == EntryOf(d, n + 1)
      IN  /\ g.label = x.value /\ g.at = n + 1 /\ g.title = x.value
          /\ g.kernel = None /\ g.fdt = None
          /\ LastLine(d, Block(d, n + 1), KernelKey) = 0
  BY EntryNew
<1>3. j = n + 1
  <2>1. x.key \in {"LABEL"}
    OBVIOUS
  <2> QED BY <2>1, LastOfFile DEF LabelLine
<1> HIDE DEF d, n, j
<1>4. /\ q.current.label = x.value /\ q.current.title = x.value
      /\ q.current.kernel = None /\ q.current.fdt = None /\ q.current.at = n + 1
  BY <1>1
<1>5. Fits(q.current, EntryOf(d, n + 1)) /\ ~HasKernel(d, n + 1)
  BY <1>2, <1>4, Zenon DEF Fits, HasKernel
<1> QED BY <1>1, <1>3, <1>4, <1>5, Zenon DEF CurrentIs, d, j

\* And after any other.
LEMMA CurrentNext ==
    ASSUME NEW c, IsSequence(c), c = content, NEW p, CurrentIs(c, p),
           p.fdtDir = ValueAt(c, LastLine(c, DOMAIN c, {"FDTDIR"})),
           NEW x, IsLine(x), NEW q, Parsed(p, x, q)
    PROVE  CurrentIs(Append(c, x), q)
<1> DEFINE d == Append(c, x)
           n == Len(c)
           i == LabelLine(c)
           j == LabelLine(d)
<1>1. /\ n \in Nat /\ DOMAIN c = 1..n /\ i \in 0..n
      /\ \A k \in (i + 1)..n : c[k].key # "LABEL"
  BY LabelLineIs
<1>2. /\ x.key = "LABEL" => j = n + 1
      /\ x.key # "LABEL" => j = i
  <2>1. \A y : x.key \in {y} <=> x.key = y
    OBVIOUS
  <2>2. /\ x.key \in {"LABEL"} => j = n + 1
        /\ x.key \notin {"LABEL"} => j = i
    BY LastOfFile DEF LabelLine
  <2> QED BY <2>1, <2>2, Zenon
<1>3. CASE x.key = "LABEL"
  BY <1>3, CurrentNew
<1>4. CASE x.key # "LABEL"
  <2>1. j = i
    BY <1>2, <1>4
  <2>2. q.current.at = p.current.at /\ p.current.at = i /\ q.current.label = p.current.label
    BY <1>4 DEF Parsed, CurrentIs
  <2>3. CASE i = 0
    BY <2>1, <2>2, <2>3, Zenon DEF CurrentIs
  <2>4. CASE i # 0
    <3>1. InLabel(p)
      BY <2>2, <2>4 DEF InLabel
    <3>2. /\ q.current.title = IF x.key = "MENU LABEL" THEN x.value ELSE p.current.title
          /\ q.current.kernel = IF x.key \in KernelKey THEN x.value ELSE p.current.kernel
          /\ q.current.fdt = IF x.key = "FDT" THEN JoinPath(p.fdtDir, x.value)
                             ELSE p.current.fdt
          /\ x.key \in KernelKey => x.value # None
      BY <1>4, <3>1 DEF Parsed
    <3>3. i \in DOMAIN c
      BY <1>1, <2>4
    <3>4. LET e == EntryOf(c, i)
              g == EntryOf(d, i)
          IN  /\ g.label = e.label /\ g.at = i
              /\ g.title = IF x.key = "MENU LABEL" THEN x.value ELSE e.title
              /\ g.kernel = IF x.key \in KernelKey THEN x.value ELSE e.kernel
              /\ g.fdt = IF x.key = "FDT"
                         THEN JoinPath(ValueAt(c, LastLine(c, DOMAIN c, {"FDTDIR"})), x.value)
                         ELSE e.fdt
              /\ LastLine(d, Block(d, i), KernelKey)
                   = IF x.key \in KernelKey THEN n + 1 ELSE LastLine(c, Block(c, i), KernelKey)
      <4>1. \A k \in (i + 1)..Len(c) : c[k].key # "LABEL"
        BY <1>1
      <4> HIDE DEF i
      <4>2. x.key # "LABEL" /\ IsSequence(c)
        BY <1>4
      <4>3. EntryGrows(c, x, i)
        BY <3>3, <4>1, <4>2, EntryNext
      <4> QED BY <4>3 DEF EntryGrows
    <3>5. /\ Fits(p.current, EntryOf(c, i)) /\ p.current.label \in Seq(Part)
          /\ HasKernel(c, i) <=> p.current.kernel # None
      BY <2>4 DEF CurrentIs
    <3> HIDE DEF d, i, j, n
    <3>6. Fits(q.current, EntryOf(d, i))
      <4> DEFINE e == EntryOf(c, i)
                 g == EntryOf(d, i)
      <4>1. /\ p.current.label = e.label /\ p.current.title = e.title
            /\ p.current.kernel = e.kernel /\ p.current.fdt = e.fdt
        BY <3>5 DEF Fits
      <4> HIDE DEF e, g
      <4>2. g.title = q.current.title
        BY <3>2, <3>4, <4>1, Zenon DEF e, g
      <4>3. g.kernel = q.current.kernel
        BY <3>2, <3>4, <4>1, Zenon DEF e, g
      <4>4. g.fdt = q.current.fdt
        BY <3>2, <3>4, <4>1, Zenon DEF e, g
      <4>5. g.label = q.current.label /\ g.at = q.current.at
        BY <2>2, <3>4, <4>1, Zenon DEF e, g
      <4> QED BY <4>2, <4>3, <4>4, <4>5, Zenon DEF Fits, g
    <3>7. HasKernel(d, i) <=> q.current.kernel # None
      <4>1. CASE x.key \in KernelKey
        <5>1. n + 1 # 0
          BY <1>1
        <5> QED BY <3>2, <3>4, <4>1, <5>1, Zenon DEF HasKernel
      <4>2. CASE x.key \notin KernelKey
        BY <3>2, <3>4, <3>5, <4>2, Zenon DEF HasKernel
      <4> QED BY <4>1, <4>2
    <3> QED BY <2>1, <2>2, <3>5, <3>6, <3>7, Zenon DEF CurrentIs, d, i, j
  <2> QED BY <2>3, <2>4
<1> QED BY <1>3, <1>4

-----------------------------------------------------------------------------
(* The labels that have become entries *)

\* The lines of the labels
Places(labels) == [k \in 1..Len(labels) |-> labels[k].at]

\* They are those of the lines of S.
LabelsAre(c, labels, S) ==
    /\ IsSequence(labels)
    /\ Ascends(Places(labels), Len(labels), S)
    /\ \A k \in 1..Len(labels) : /\ Fits(labels[k], EntryOf(c, labels[k].at))
                                 /\ labels[k].name # None

\* The labels that have ended and have a kernel
Ready(c) == {i \in Bootable(c) : i < LabelLine(c)}

\* Of the labels with a kernel only the last one has not ended.
LEMMA BootableNow ==
    ASSUME NEW c, IsSequence(c)
    PROVE  /\ Bootable(c) = Ready(c) \cup IF LabelLine(c) # 0 /\ HasKernel(c, LabelLine(c))
                                          THEN {LabelLine(c)} ELSE {}
           /\ Bootable(c) \in SUBSET (1..Len(c))
           /\ \A i \in Ready(c) : i < LabelLine(c)
<1> DEFINE n == Len(c)
           l == LabelLine(c)
<1>1. /\ n \in Nat /\ DOMAIN c = 1..n
      /\ l \in 0..n
      /\ l # 0 => c[l].key = "LABEL"
      /\ \A k \in 1..n : c[k].key = "LABEL" => k <= l
  BY LabelLineIs
<1> HIDE DEF l, n
<1>2. \A i : i \in Bootable(c) <=> i \in 1..n /\ c[i].key = "LABEL" /\ HasKernel(c, i)
  BY <1>1 DEF Bootable, HasKernel
<1>3. \A i : i \in Ready(c) <=> i \in Bootable(c) /\ i < l
  BY DEF Ready, l
<1>4. \A i \in 1..n : i <= l <=> i < l \/ i = l
  BY <1>1
<1>5. l # 0 => l \in 1..n
  BY <1>1
<1>6. l \in Bootable(c) <=> l # 0 /\ HasKernel(c, l)
  <2>1. 0 \notin 1..n
    BY <1>1
  <2> QED BY <1>1, <1>2, <1>5, <2>1, Zenon
<1>7. \A i : i \in Bootable(c) <=> i \in Ready(c) \/ (l # 0 /\ HasKernel(c, l) /\ i = l)
  BY <1>1, <1>2, <1>3, <1>4, <1>6, Zenon
<1>8. Bootable(c) = Ready(c) \cup IF l # 0 /\ HasKernel(c, l) THEN {l} ELSE {}
  <2>1. CASE l # 0 /\ HasKernel(c, l)
    BY <1>7, <2>1
  <2>2. CASE ~(l # 0 /\ HasKernel(c, l))
    BY <1>7, <2>2
  <2> QED BY <2>1, <2>2
<1> QED BY <1>2, <1>3, <1>8 DEF l, n

\* A LABEL line ends the label before; other lines end none.
LEMMA ReadyNext ==
    ASSUME NEW c, IsSequence(c), NEW x
    PROVE  /\ Ready(Append(c, x)) = IF x.key = "LABEL" THEN Bootable(c) ELSE Ready(c)
           /\ \A i \in Ready(Append(c, x)) : EntryOf(Append(c, x), i) = EntryOf(c, i)
<1> DEFINE d == Append(c, x)
           n == Len(c)
           l == LabelLine(c)
           m == LabelLine(d)
           T == IF x.key = "LABEL" THEN Bootable(c) ELSE Ready(c)
<1>1. /\ n \in Nat /\ DOMAIN c = 1..n /\ l \in 0..n
      /\ l # 0 => c[l].key = "LABEL"
  BY LabelLineIs
<1>2. /\ DOMAIN d = 1..(n + 1)
      /\ \A k \in 1..n : d[k] = c[k]
      /\ d[n + 1] = x
  BY Appended
<1>3. /\ x.key = "LABEL" => m = n + 1
      /\ x.key # "LABEL" => m = l
  <2>1. \A y : x.key \in {y} <=> x.key = y
    OBVIOUS
  <2>2. /\ x.key \in {"LABEL"} => m = n + 1
        /\ x.key \notin {"LABEL"} => m = l
    BY LastOfFile DEF LabelLine
  <2> QED BY <2>1, <2>2, Zenon
<1>4. ASSUME NEW i \in 1..n, x.key = "LABEL" \/ i < l
      PROVE  /\ EntryOf(d, i) = EntryOf(c, i)
             /\ LastLine(d, Block(d, i), KernelKey) = LastLine(c, Block(c, i), KernelKey)
  <2>1. x.key = "LABEL" \/ \E k \in (i + 1)..Len(c) : c[k].key = "LABEL"
    <3>1. i < l => l \in (i + 1)..Len(c) /\ l # 0
      BY <1>1
    <3> QED BY <1>1, <1>4, <3>1
  <2>2. i \in DOMAIN c
    BY <1>1
  <2> QED BY <2>1, <2>2, EntrySame
<1> HIDE DEF d, n, l, m
<1>5. \A i : i \in Bootable(c) <=> i \in 1..n /\ c[i].key = "LABEL" /\ LastLine(c, Block(c, i), KernelKey) # 0
  BY <1>1 DEF Bootable
<1>6. \A i : i \in Bootable(d) <=> i \in 1..(n + 1) /\ d[i].key = "LABEL" /\ LastLine(d, Block(d, i), KernelKey) # 0
  BY <1>2 DEF Bootable
<1>7. \A i : i \in Ready(d) <=> i \in Bootable(d) /\ i < m
  BY DEF Ready, m
<1>8. \A i : i \in Ready(c) <=> i \in Bootable(c) /\ i < l
  BY DEF Ready, l
<1>9. \A i \in 1..(n + 1) : i < m <=> i \in 1..n /\ (x.key = "LABEL" \/ i < l)
  BY <1>1, <1>3
<1>10. \A i \in 1..n : i \in 1..(n + 1) /\ d[i].key = c[i].key
  BY <1>1, <1>2
<1>11. \A i : i \in Ready(d) <=> i \in Bootable(c) /\ (x.key = "LABEL" \/ i < l)
  BY <1>4, <1>5, <1>6, <1>7, <1>9, <1>10, Zenon
<1>12. Ready(d) = T
  BY <1>8, <1>11
<1>13. \A i \in Ready(d) : EntryOf(d, i) = EntryOf(c, i)
  BY <1>4, <1>5, <1>11, Zenon
<1> QED BY <1>12, <1>13 DEF d

\* They depend on what they ask for.
LEMMA LabelsSame ==
    ASSUME NEW c, NEW d, NEW labels, NEW S, LabelsAre(c, labels, S),
           \A i \in S : EntryOf(d, i) = EntryOf(c, i)
    PROVE  LabelsAre(d, labels, S)
<1>1. ASSUME NEW k \in 1..Len(labels) PROVE labels[k].at \in S
  <2>1. Places(labels) \in [1..Len(labels) -> S]
    BY DEF LabelsAre, Ascends
  <2> QED BY <2>1 DEF Places
<1> QED BY <1>1, Zenon DEF LabelsAre

\* One more, of a later line
LEMMA LabelsAppend ==
    ASSUME NEW c, NEW labels, NEW S \in SUBSET Int, LabelsAre(c, labels, S),
           NEW l, l.at \in Int, \A i \in S : i < l.at, Fits(l, EntryOf(c, l.at)), l.name # None
    PROVE  LabelsAre(c, Append(labels, l), S \cup {l.at})
<1> DEFINE n == Len(labels)
           m == Append(labels, l)
           p == Places(labels)
           q == Places(m)
           i == l.at
<1>1. /\ n \in Nat /\ IsSequence(m) /\ Len(m) = n + 1
      /\ \A k \in 1..n : m[k] = labels[k]
      /\ m[n + 1] = l
  BY Appended DEF LabelsAre
<1>2. /\ p \in [1..n -> S]
      /\ \A k, h \in 1..n : k < h => p[k] < p[h]
      /\ \A j \in S : \E k \in 1..n : p[k] = j
  BY DEF LabelsAre, Ascends
<1>3. \A k \in 1..n : p[k] = labels[k].at
  BY DEF Places
<1>4. q = [k \in 1..(n + 1) |-> m[k].at]
  BY <1>1 DEF Places
<1> HIDE DEF m, p, n, q, i
<1>5. /\ \A k \in 1..n : q[k] = p[k]
      /\ q[n + 1] = i
  <2>1. \A k \in 1..n : k \in 1..(n + 1)
    BY <1>1
  <2>2. n + 1 \in 1..(n + 1)
    BY <1>1
  <2> QED BY <1>1, <1>3, <1>4, <2>1, <2>2 DEF i
<1>6. \A k \in 1..(n + 1) : k \in 1..n \/ k = n + 1
  BY <1>1
<1>7. q \in [1..(n + 1) -> S \cup {i}]
  <2>1. \A k \in 1..(n + 1) : q[k] \in S \cup {i}
    BY <1>2, <1>5, <1>6
  <2>2. q = [k \in 1..(n + 1) |-> q[k]]
    BY <1>4
  <2> QED BY <2>1, <2>2
<1>8. ASSUME NEW k \in 1..(n + 1), NEW h \in 1..(n + 1), k < h PROVE q[k] < q[h]
  <2>1. k \in 1..n
    BY <1>1, <1>8
  <2>2. p[k] \in S /\ p[k] < i
    BY <1>2, <2>1 DEF i
  <2> QED BY <1>2, <1>5, <1>6, <1>8, <2>1, <2>2, Zenon
<1>9. \A j \in S \cup {i} : \E k \in 1..(n + 1) : q[k] = j
  <2>1. n + 1 \in 1..(n + 1) /\ \A k \in 1..n : k \in 1..(n + 1)
    BY <1>1
  <2> QED BY <1>2, <1>5, <2>1
<1>10. Ascends(q, n + 1, S \cup {i})
  BY <1>7, <1>8, <1>9 DEF Ascends
<1>11. \A k \in 1..n : Fits(labels[k], EntryOf(c, labels[k].at)) /\ labels[k].name # None
  BY DEF LabelsAre, n
<1>12. \A k \in 1..(n + 1) : Fits(m[k], EntryOf(c, m[k].at)) /\ m[k].name # None
  BY <1>1, <1>6, <1>11, Zenon
<1>13. LabelsAre(c, m, S \cup {i})
  BY <1>1, <1>10, <1>12, Zenon DEF LabelsAre, q
<1> QED BY <1>13 DEF m, i

\* What extlinux_finish_label makes of the labels
LEMMA FinishedLabels ==
    ASSUME NEW c, IsSequence(c), NEW p, IsParser(p), CurrentIs(c, p), NEW L, L \subseteq Ready(c),
           LabelsAre(c, p.labels, Ready(c) \ L),
           InLabel(p) => UniqueName(p, p.current.label) # None
    PROVE  LabelsAre(c, FinishLabel(p).labels, Bootable(c) \ L)
<1> DEFINE i == LabelLine(c)
           l == [p.current EXCEPT !.name = UniqueName(p, p.current.label)]
<1>1. /\ Bootable(c) = Ready(c) \cup IF i # 0 /\ HasKernel(c, i) THEN {i} ELSE {}
      /\ \A j \in Ready(c) : j < i
      /\ Ready(c) \ L \in SUBSET Int /\ i \in Int
  <2>1. Bootable(c) \in SUBSET (1..Len(c)) /\ Len(c) \in Nat /\ i \in 0..Len(c)
    BY BootableNow, LabelLineIs
  <2>2. Ready(c) \subseteq Bootable(c)
    BY DEF Ready
  <2>3. Ready(c) \ L \in SUBSET Int /\ i \in Int
    <3> HIDE DEF i
    <3> QED BY <2>1, <2>2
  <2> QED BY <2>3, BootableNow
<1>2. p.current.at = i
  BY DEF CurrentIs
<1>3. CASE i # 0 /\ p.current.kernel # None
  <2>1. /\ Fits(p.current, EntryOf(c, i)) /\ HasKernel(c, i)
        /\ p.current.label \in Seq(Part)
    BY <1>3 DEF CurrentIs
  <2>2. /\ l.label = p.current.label /\ l.at = i /\ l.title = p.current.title
        /\ l.kernel = p.current.kernel /\ l.fdt = p.current.fdt
        /\ l.name = UniqueName(p, p.current.label)
    BY <1>2 DEF IsParser, NoLabel
  <2>3. InLabel(p)
    BY <1>2, <1>3 DEF InLabel
  <2>4. FinishLabel(p).labels = Append(p.labels, l)
    BY <1>3, <2>3 DEF FinishLabel, IsParser, NoParser
  <2>5. Fits(l, EntryOf(c, l.at)) /\ l.name # None
    BY <2>1, <2>2, <2>3 DEF Fits
  <2>6. l.at \in Int /\ \A j \in Ready(c) \ L : j < l.at
    BY <1>1, <2>2
  <2>7. (Ready(c) \ L) \cup {l.at} = Bootable(c) \ L
    <3>1. i \notin L /\ Bootable(c) = Ready(c) \cup {i}
      BY <1>1, <1>3, <2>1
    <3> QED BY <2>2, <3>1
  <2> HIDE DEF l
  <2> QED BY <1>1, <2>4, <2>5, <2>6, <2>7, LabelsAppend
<1>4. CASE ~(i # 0 /\ p.current.kernel # None)
  <2>1. FinishLabel(p).labels = p.labels
    BY <1>2, <1>4 DEF FinishLabel, IsParser, NoParser, InLabel
  <2>2. ~(i # 0 /\ HasKernel(c, i))
    BY <1>4 DEF CurrentIs
  <2>3. Bootable(c) = Ready(c)
    BY <1>1, <2>2
  <2> QED BY <2>1, <2>3
<1> QED BY <1>3, <1>4

-----------------------------------------------------------------------------
(* Names *)

\* The first of some places, 0 if there is none
LEMMA FirstPlace ==
    ASSUME NEW n \in Nat, NEW S \in SUBSET (1..n)
    PROVE  LET m == IF S # {} THEN Min(S) ELSE 0
           IN  /\ m \in {0} \cup S
               /\ m = 0 <=> S = {}
               /\ \A i \in S : m <= i
<1>1. S \in SUBSET Nat /\ 0 \notin S
  OBVIOUS
<1>2. CASE S = {}
  BY <1>2
<1>3. CASE S # {}
  <2>1. PICK m \in S : \A k \in S : m <= k
    BY <1>1, <1>3, LeastMember
  <2>2. Min(S) \in S
    BY <1>1, <1>3, LeastIs
  <2>3. Min(S) = CHOOSE x \in S : \A y \in S : x =< y
    BY DEF Min
  <2>4. \A k \in S : Min(S) <= k
    <3> DEFINE P(x) == \A y \in S : x =< y
    <3>1. \E x \in S : P(x)
      BY <2>1
    <3>2. Min(S) = CHOOSE x \in S : P(x)
      BY <2>3
    <3> HIDE DEF P
    <3>3. P(Min(S))
      BY <3>1, <3>2, Zenon
    <3> QED BY <3>3 DEF P
  <2> HIDE DEF Min
  <2> QED BY <1>1, <1>3, <2>2, <2>4
<1> QED BY <1>2, <1>3

\* embloader_find_loader finds the first entry of that name.
LEMMA FindLoaderIs ==
    ASSUME NEW loaders, IsSequence(loaders), NEW name, name # None
    PROVE  /\ FindLoader(loaders, name) \in 0..Len(loaders)
           /\ FindLoader(loaders, name) # 0 =>
                 SameText(loaders[FindLoader(loaders, name)].name, name)
           /\ FindLoader(loaders, name) = 0 =>
                 \A j \in 1..Len(loaders) : ~SameText(loaders[j].name, name)
<1> DEFINE n == Len(loaders)
           S == {j \in 1..n : name # None /\ SameText(loaders[j].name, name)}
           m == IF S # {} THEN Min(S) ELSE 0
<1>1. FindLoader(loaders, name) = m
  BY DEF FindLoader, SelectInSeq
<1>2. n \in Nat /\ S \in SUBSET (1..n)
  BY DEF IsSequence
<1>3. \A j : j \in S <=> j \in 1..n /\ SameText(loaders[j].name, name)
  OBVIOUS
<1> HIDE DEF S, n
<1>4. m \in {0} \cup S /\ (m = 0 <=> S = {})
  BY <1>2, FirstPlace
<1> HIDE DEF m
<1>5. m \in 0..n
  BY <1>2, <1>4
<1> QED BY <1>1, <1>3, <1>4, <1>5 DEF n

\* Different numbers make different names.
LEMMA NumbersDiffer ==
    ASSUME NEW base \in Seq(Part), NEW n \in DOMAIN Numeral, NEW m \in DOMAIN Numeral,
           SameText(Append(base, Numeral[n]), Append(base, Numeral[m]))
    PROVE  m = n
<1> DEFINE a == Append(base, Numeral[n])
           b == Append(base, Numeral[m])
           i == Len(base) + 1
<1>1. Numeral[n] \in Part /\ Numeral[m] \in Part
  BY NumeralAssumption
<1>2. /\ a \in Seq(Part) /\ Len(a) = i /\ a[i] = Numeral[n]
      /\ b \in Seq(Part) /\ Len(b) = i /\ b[i] = Numeral[m]
      /\ i \in Nat /\ i >= 1
  <2> HIDE DEF i
  <2>1. \A S : \A r \in Seq(S), y \in S :
           /\ Append(r, y) \in Seq(S) /\ Len(Append(r, y)) = Len(r) + 1
           /\ Append(r, y)[Len(r) + 1] = y
           /\ Len(r) + 1 \in Nat /\ Len(r) + 1 >= 1
    OBVIOUS
  <2> QED BY <1>1, <2>1, Zenon DEF i
<1>3. Lower(a) = Lower(b)
  BY DEF SameText
<1> HIDE DEF a, b, i
<1>4. i \in DOMAIN a /\ i \in DOMAIN b
  BY <1>2
<1>5. Lower(a)[i] = LowerPart(a[i]) /\ Lower(b)[i] = LowerPart(b[i])
  BY <1>4, Zenon DEF Lower
<1>6. LowerPart(Numeral[n]) = LowerPart(Numeral[m])
  BY <1>2, <1>3, <1>5
<1> QED BY <1>6, NumeralAssumption

\* Room for a number on each name that may be there
NumbersFor(labels, loaders) ==
    2..(Len(labels) + Len(loaders) + 2) \subseteq DOMAIN Numeral

\* One of the numbers makes the name new.
LEMMA SomeNumber ==
    ASSUME NEW p, IsSequence(p.labels), IsSequence(menu.loaders),
           NumbersFor(p.labels, menu.loaders), NEW base \in Seq(Part)
    PROVE  \E n \in 2..(Len(p.labels) + Len(menu.loaders) + 2) :
              ~NameExists(p, Append(base, Numeral[n]))
<1> DEFINE a == Len(p.labels)
           b == Len(menu.loaders)
           N == 2..(a + b + 2)
           T == 1..(a + b)
           name(n) == Append(base, Numeral[n])
           of(k) == IF k <= a THEN p.labels[k].name ELSE menu.loaders[k - a].name
           f == [n \in N |-> CHOOSE k \in T : SameText(of(k), name(n))]
<1>1. a \in Nat /\ b \in Nat /\ DOMAIN p.labels = 1..a
  BY DEF IsSequence
<1>2. N \subseteq DOMAIN Numeral
  BY DEF NumbersFor
<1> SUFFICES ASSUME \A n \in N : NameExists(p, name(n))
             PROVE  FALSE
  OBVIOUS
<1>3. ASSUME NEW n \in N PROVE \E k \in T : SameText(of(k), name(n))
  <2>0. NameExists(p, name(n)) /\ name(n) # None
    <3>1. Numeral[n] \in Part
      BY <1>2, NumeralAssumption
    <3>2. name(n) \in Seq(Part)
      BY <3>1
    <3> HIDE DEF name
    <3> QED BY <3>2, NoneAssumption
  <2> HIDE DEF name, N
  <2>1. CASE FindLoader(menu.loaders, name(n)) # 0
    <3> DEFINE j == FindLoader(menu.loaders, name(n))
    <3>1. j \in 0..b /\ j # 0 /\ SameText(menu.loaders[j].name, name(n))
      BY <2>0, <2>1, FindLoaderIs
    <3> HIDE DEF j, a, b
    <3>2. a + j \in T /\ ~(a + j <= a) /\ (a + j) - a = j
      BY <1>1, <3>1
    <3>3. of(a + j) = menu.loaders[j].name
      BY <3>2
    <3> QED BY <3>1, <3>2, <3>3
  <2>2. CASE \E k \in DOMAIN p.labels : SameText(p.labels[k].name, name(n))
    <3>1. PICK k \in DOMAIN p.labels : SameText(p.labels[k].name, name(n))
      BY <2>2
    <3> HIDE DEF a, b
    <3>2. k \in T /\ k <= a
      BY <1>1, <3>1
    <3> QED BY <3>1, <3>2
  <2> QED BY <2>0, <2>1, <2>2 DEF NameExists
<1>4. f \in [N -> T] /\ \A n \in N : SameText(of(f[n]), name(n))
  <2> HIDE DEF N, T, of, name
  <2>1. \A n \in N : f[n] \in T /\ SameText(of(f[n]), name(n))
    BY <1>3
  <2> QED BY <2>1
<1> HIDE DEF f, of
<1>5. /\ IsFiniteSet(N) /\ Cardinality(N) = a + b + 1
      /\ IsFiniteSet(T) /\ Cardinality(T) = a + b
  <2> HIDE DEF a, b
  <2>1. /\ 2 \in Int /\ a + b + 2 \in Int /\ 2 <= a + b + 2
        /\ (a + b + 2) - 2 + 1 = a + b + 1
        /\ 1 \in Int /\ a + b \in Int /\ (1 > a + b => a + b = 0) /\ (a + b) - 1 + 1 = a + b
    BY <1>1
  <2>2. /\ \A x, y \in Int : IsFiniteSet(x..y)
        /\ \A x, y \in Int : Cardinality(x..y) = IF x > y THEN 0 ELSE y - x + 1
    BY FS_Interval
  <2>3. Cardinality(N) = IF 2 > a + b + 2 THEN 0 ELSE (a + b + 2) - 2 + 1
    BY <2>1, <2>2
  <2>4. Cardinality(T) = IF 1 > a + b THEN 0 ELSE (a + b) - 1 + 1
    BY <2>1, <2>2
  <2>5. Cardinality(N) = a + b + 1 /\ Cardinality(T) = a + b
    <3> HIDE DEF N, T
    <3> QED BY <1>1, <2>3, <2>4
  <2> QED BY <2>1, <2>2, <2>5
<1>6. PICK n, m \in N : n # m /\ f[n] = f[m]
  <2>1. Cardinality(T) < Cardinality(N)
    <3> HIDE DEF N, T, a, b
    <3> QED BY <1>1, <1>5
  <2> HIDE DEF N, T
  <2> QED BY <1>4, <1>5, <2>1, FS_PigeonHole
<1>7. SameText(name(n), name(m))
  <2> HIDE DEF name, N
  <2> QED BY <1>4, <1>6 DEF SameText
<1>8. n \in DOMAIN Numeral /\ m \in DOMAIN Numeral
  BY <1>2
<1> HIDE DEF N
<1> QED BY <1>6, <1>7, <1>8, NumbersDiffer

\* The name of a label is new.
LEMMA NewName ==
    ASSUME NEW p, IsSequence(p.labels), IsSequence(menu.loaders),
           NumbersFor(p.labels, menu.loaders), NEW label \in Seq(Part)
    PROVE  /\ UniqueName(p, label) # None
           /\ ~NameExists(p, UniqueName(p, label))
<1> DEFINE base == <<"extlinux">> \o label
           numbers == 2..(Len(p.labels) + Len(menu.loaders) + 2)
           free == {n \in numbers : ~NameExists(p, Append(base, Numeral[n]))}
           least(n) == \A m \in free : n <= m
<1>1. base \in Seq(Part)
  BY NumeralAssumption
<1>2. free \in SUBSET Nat /\ free # {} /\ \A n \in free : n \in DOMAIN Numeral
  <2>1. \E n \in numbers : ~NameExists(p, Append(base, Numeral[n]))
    <3> HIDE DEF base
    <3> QED BY <1>1, SomeNumber
  <2>2. numbers \subseteq DOMAIN Numeral
    BY DEF NumbersFor
  <2>3. numbers \in SUBSET Nat
    <3> DEFINE k == Len(p.labels) + Len(menu.loaders) + 2
    <3>1. \A n \in 2..k : n \in Nat
      <4> HIDE DEF k
      <4> QED OBVIOUS
    <3> QED BY <3>1
  <2> HIDE DEF base, numbers
  <2> QED BY <2>1, <2>2, <2>3
<1>3. UniqueName(p, label)
        = IF ~NameExists(p, base) THEN base
          ELSE Append(base, Numeral[CHOOSE n \in free : least(n)])
  BY DEF UniqueName
<1>4. (CHOOSE n \in free : least(n)) \in free
  <2>1. \E n \in free : least(n)
    <3> HIDE DEF free
    <3> QED BY <1>2, LeastMember
  <2> HIDE DEF free, least
  <2> QED BY <2>1
<1> DEFINE c == CHOOSE n \in free : least(n)
<1>5. ~NameExists(p, Append(base, Numeral[c])) /\ c \in DOMAIN Numeral
  BY <1>2, <1>4
<1> HIDE DEF c, free, base
<1>6. Numeral[c] \in Part
  BY <1>5, NumeralAssumption
<1>7. Append(base, Numeral[c]) \in Seq(Part)
  BY <1>1, <1>6
<1>8. \A n \in Seq(Part) : n # None
  BY NoneAssumption
<1> QED BY <1>1, <1>3, <1>5, <1>7, <1>8, Zenon DEF c

-----------------------------------------------------------------------------
(* The file as far as it is read *)

\* The labels' names are new, and different from each other.
NamesAre(labels, loaders) ==
    /\ \A k \in 1..Len(labels), j \in 1..Len(loaders) :
          ~SameText(loaders[j].name, labels[k].name)
    /\ \A k, h \in 1..Len(labels) : SameText(labels[k].name, labels[h].name) => k = h

\* The parser holds what the lines c say; the labels of L are lost.
FileInv(c, p, L) ==
    /\ IsSequence(c) /\ IsParser(p)
    /\ \A i \in 1..Len(c) : IsLine(c[i])
    /\ SettingsAre(c, p) /\ CurrentIs(c, p)
    /\ L \subseteq Ready(c)
    /\ LabelsAre(c, p.labels, Ready(c) \ L)

\* At the end of the file every label has ended.
ReadInv(c, p, L) ==
    /\ IsSequence(c) /\ IsParser(p)
    /\ \A i \in 1..Len(c) : IsLine(c[i])
    /\ SettingsAre(c, p)
    /\ L \subseteq Bootable(c)
    /\ LabelsAre(c, p.labels, Bootable(c) \ L)

\* A new name keeps the names different.
LEMMA NamesNext ==
    ASSUME NEW labels, IsSequence(labels), NEW loaders, NamesAre(labels, loaders), NEW l,
           \A j \in 1..Len(loaders) : ~SameText(loaders[j].name, l.name),
           \A k \in 1..Len(labels) : ~SameText(labels[k].name, l.name)
    PROVE  NamesAre(Append(labels, l), loaders)
<1> DEFINE n == Len(labels)
           m == Append(labels, l)
<1>1. /\ n \in Nat /\ Len(m) = n + 1
      /\ \A k \in 1..n : m[k] = labels[k]
      /\ m[n + 1] = l
  BY Appended
<1>2. \A k \in 1..(n + 1) : k \in 1..n \/ k = n + 1
  BY <1>1
<1>3. \A a, b : SameText(a, b) <=> SameText(b, a)
  BY DEF SameText
<1>4. /\ \A k \in 1..n, j \in 1..Len(loaders) : ~SameText(loaders[j].name, labels[k].name)
      /\ \A k, h \in 1..n : SameText(labels[k].name, labels[h].name) => k = h
  BY DEF NamesAre
<1>5. \A k \in 1..n : ~SameText(labels[k].name, l.name)
  OBVIOUS
<1> HIDE DEF m, n
<1>6. \A k \in 1..(n + 1), j \in 1..Len(loaders) : ~SameText(loaders[j].name, m[k].name)
  BY <1>1, <1>2, <1>4, Zenon
<1>7. \A k, h \in 1..(n + 1) : SameText(m[k].name, m[h].name) => k = h
  BY <1>1, <1>2, <1>3, <1>4, <1>5, Zenon
<1>8. NamesAre(m, loaders)
  BY <1>1, <1>6, <1>7, Zenon DEF NamesAre
<1> QED BY <1>8 DEF m

\* There are no more labels than lines.
LEMMA LabelsFew ==
    ASSUME NEW n \in Nat, NEW c, NEW labels, NEW S \in SUBSET (1..n), LabelsAre(c, labels, S)
    PROVE  Len(labels) \in Nat /\ Len(labels) <= n
<1>1. Len(labels) \in Nat /\ S \in SUBSET Int
  BY DEF LabelsAre, IsSequence
<1>2. Cardinality(S) = Len(labels)
  BY <1>1, AscendingOnly DEF LabelsAre
<1>3. IsFiniteSet(1..n) /\ Cardinality(1..n) = n
  BY FS_Interval
<1>4. Cardinality(S) <= Cardinality(1..n)
  BY <1>3, FS_Subset
<1> QED BY <1>1, <1>2, <1>3, <1>4

\* extlinux_finish_label keeps the names new and changes no setting.
LEMMA Finished ==
    ASSUME NEW p, IsParser(p), IsSequence(p.labels), IsSequence(menu.loaders),
           NumbersFor(p.labels, menu.loaders), InLabel(p) => p.current.label \in Seq(Part),
           NamesAre(p.labels, menu.loaders)
    PROVE  /\ NamesAre(FinishLabel(p).labels, menu.loaders)
           /\ IsParser(FinishLabel(p))
           /\ \A c : SettingsAre(c, p) => SettingsAre(c, FinishLabel(p))
           /\ InLabel(p) => UniqueName(p, p.current.label) # None
<1> DEFINE u == UniqueName(p, p.current.label)
           l == [p.current EXCEPT !.name = u]
           r == FinishLabel(p)
<1>1. /\ DOMAIN p = {"labels", "current", "default", "ontimeout", "fdtDir", "title",
                     "timeout", "prompt"}
      /\ DOMAIN p.current = {"label", "name", "title", "kernel", "fdt", "at"}
  BY DEF IsParser, NoParser, NoLabel
<1>2. InLabel(p) => u # None /\ ~NameExists(p, u)
  <2> HIDE DEF u
  <2> QED BY NewName DEF u
<1>3. /\ DOMAIN r = DOMAIN p /\ DOMAIN r.current = DOMAIN p.current
      /\ r.default = p.default /\ r.ontimeout = p.ontimeout /\ r.fdtDir = p.fdtDir
      /\ r.title = p.title /\ r.timeout = p.timeout /\ r.prompt = p.prompt
      /\ r.labels = p.labels \/ (InLabel(p) /\ r.labels = Append(p.labels, l))
  <2> HIDE DEF l
  <2> QED BY <1>1 DEF FinishLabel, NoLabel, l
<1>4. l.name = u
  BY <1>1
<1> HIDE DEF u, l, r
<1>5. IsParser(r)
  BY <1>3 DEF IsParser
<1>6. \A c : SettingsAre(c, p) => SettingsAre(c, r)
  BY <1>3, Zenon DEF SettingsAre
<1>7. NamesAre(r.labels, menu.loaders)
  <2>1. CASE r.labels = p.labels
    BY <2>1
  <2>2. CASE InLabel(p) /\ r.labels = Append(p.labels, l)
    <3>1. FindLoader(menu.loaders, u) = 0 /\ \A k \in DOMAIN p.labels : ~SameText(p.labels[k].name, u)
      BY <1>2, <2>2 DEF NameExists
    <3>2. \A j \in 1..Len(menu.loaders) : ~SameText(menu.loaders[j].name, u)
      BY <1>2, <2>2, <3>1, FindLoaderIs
    <3>3. DOMAIN p.labels = 1..Len(p.labels)
      BY DEF IsSequence
    <3> QED BY <1>4, <2>2, <3>1, <3>2, <3>3, NamesNext, SMTT(40)
  <2> QED BY <1>3, <2>1, <2>2
<1> QED BY <1>2, <1>5, <1>6, <1>7, Zenon DEF r, u

-----------------------------------------------------------------------------
(* The steps of the parser *)

\* What every line finds
Reading ==
    /\ FileInv(content, parser, lost)
    /\ NamesAre(parser.labels, menu.loaders)
    /\ IsSequence(menu.loaders) /\ NumbersFor(parser.labels, menu.loaders)

\* What is read of a label's name
LEMMA ReadingLabel ==
    ASSUME Reading
    PROVE  /\ IsSequence(parser.labels)
           /\ InLabel(parser) => /\ parser.current.label \in Seq(Part)
                                 /\ parser.current.label = ValueAt(content, LabelLine(content))
           /\ parser.fdtDir = ValueAt(content, LastLine(content, DOMAIN content, {"FDTDIR"}))
<1>1. CurrentIs(content, parser) /\ SettingsAre(content, parser)
  BY DEF Reading, FileInv
<1>2. IsSequence(parser.labels)
  BY DEF Reading, FileInv, LabelsAre
<1>3. InLabel(parser) => /\ parser.current.label \in Seq(Part)
                         /\ parser.current.label = ValueAt(content, LabelLine(content))
  <2> DEFINE i == LabelLine(content)
  <2>1. InLabel(parser) => /\ i # 0 /\ parser.current.label \in Seq(Part)
                           /\ Fits(parser.current, EntryOf(content, i))
    BY <1>1 DEF CurrentIs, InLabel
  <2>2. EntryOf(content, i).label = content[i].value
    BY DEF EntryOf
  <2> HIDE DEF i
  <2> QED BY <2>1, <2>2 DEF Fits, ValueAt, i
<1> QED BY <1>1, <1>2, <1>3 DEF SettingsAre

\* A line that extlinux_parse_line accepts
LEMMA LineRead ==
    ASSUME Reading, NEW x, IsLine(x), ParseLine(parser, x).ok
    PROVE  /\ FileInv(Append(content, x), ParseLine(parser, x).parser, lost)
           /\ NamesAre(ParseLine(parser, x).parser.labels, menu.loaders)
<1> DEFINE d == Append(content, x)
           q == ParseLine(parser, x).parser
           L == lost
<1>1. /\ IsSequence(content) /\ IsParser(parser)
      /\ SettingsAre(content, parser) /\ CurrentIs(content, parser)
      /\ L \subseteq Ready(content)
      /\ LabelsAre(content, parser.labels, Ready(content) \ L)
      /\ \A i \in 1..Len(content) : IsLine(content[i])
      /\ NamesAre(parser.labels, menu.loaders)
      /\ IsSequence(menu.loaders) /\ NumbersFor(parser.labels, menu.loaders)
  BY DEF Reading, FileInv
<1>2. Parsed(parser, x, q)
  BY <1>1, ParsedLine
<1>3. /\ IsSequence(d) /\ Len(d) = Len(content) + 1 /\ Len(content) \in Nat
      /\ \A i \in 1..Len(content) : d[i] = content[i]
      /\ d[Len(content) + 1] = x
  BY <1>1, Appended
<1>4. /\ Ready(d) = IF x.key = "LABEL" THEN Bootable(content) ELSE Ready(content)
      /\ \A i \in Ready(d) : EntryOf(d, i) = EntryOf(content, i)
  BY <1>1, ReadyNext
<1>5. /\ NamesAre(FinishLabel(parser).labels, menu.loaders)
      /\ InLabel(parser) => UniqueName(parser, parser.current.label) # None
  BY <1>1, ReadingLabel, Finished
<1>6. LabelsAre(content, FinishLabel(parser).labels, Bootable(content) \ L)
  BY <1>1, <1>5, FinishedLabels
<1>7. Ready(content) \subseteq Bootable(content)
  BY DEF Ready
<1>8. SettingsAre(d, q)
  BY <1>1, <1>2, ReadingLabel, SettingsNext
<1>9. CurrentIs(d, q)
  BY <1>1, <1>2, ReadingLabel, CurrentNext
<1>10. /\ LabelsAre(content, q.labels, Ready(d) \ L) /\ NamesAre(q.labels, menu.loaders)
       /\ L \subseteq Ready(d)
  <2> HIDE DEF d, q, L
  <2>1. CASE x.key = "LABEL"
    <3>1. q.labels = FinishLabel(parser).labels
      BY <1>2, <2>1 DEF Parsed
    <3>2. Ready(d) = Bootable(content)
      BY <1>4, <2>1
    <3>3. L \subseteq Bootable(content)
      BY <1>1, <1>7
    <3> QED BY <1>5, <1>6, <3>1, <3>2, <3>3
  <2>2. CASE x.key # "LABEL"
    <3>1. q.labels = parser.labels
      BY <1>2, <2>2 DEF Parsed
    <3>2. Ready(d) = Ready(content)
      BY <1>4, <2>2
    <3> QED BY <1>1, <3>1, <3>2
  <2> QED BY <2>1, <2>2
<1> HIDE DEF d, q, L
<1>11. LabelsAre(d, q.labels, Ready(d) \ L)
  <2>1. \A i \in Ready(d) \ L : EntryOf(d, i) = EntryOf(content, i)
    BY <1>4
  <2> QED BY <1>10, <2>1, LabelsSame
<1>12. \A i \in 1..Len(d) : IsLine(d[i])
  <2>1. \A i \in 1..Len(d) : i \in 1..Len(content) \/ i = Len(content) + 1
    BY <1>3
  <2> QED BY <1>1, <1>3, <2>1, Zenon
<1>13. IsParser(q)
  BY <1>2 DEF Parsed
<1>14. FileInv(d, q, L)
  BY <1>3, <1>8, <1>9, <1>10, <1>11, <1>12, <1>13, Zenon DEF FileInv
<1> QED BY <1>10, <1>14 DEF d, q, L

\* The parser without the label that is lost
LEMMA Dropped ==
    ASSUME Reading, InLabel(parser), parser.current.kernel # None
    PROVE  /\ IsParser(Unlabelled) /\ ~InLabel(Unlabelled)
           /\ Unlabelled.labels = parser.labels
           /\ FinishLabel(Unlabelled) = Unlabelled
           /\ SettingsAre(content, Unlabelled)
           /\ lost \cup {parser.current.at} \subseteq Bootable(content)
           /\ LabelsAre(content, parser.labels, Bootable(content) \ (lost \cup {parser.current.at}))
<1> DEFINE u == Unlabelled
           i == LabelLine(content)
<1>1. /\ IsParser(parser) /\ IsSequence(content) /\ SettingsAre(content, parser)
      /\ CurrentIs(content, parser) /\ lost \subseteq Ready(content)
      /\ LabelsAre(content, parser.labels, Ready(content) \ lost)
  BY DEF Reading, FileInv
<1>2. /\ DOMAIN parser = {"labels", "current", "default", "ontimeout", "fdtDir", "title",
                          "timeout", "prompt"}
      /\ DOMAIN parser.current = {"label", "name", "title", "kernel", "fdt", "at"}
  BY <1>1 DEF IsParser, NoParser, NoLabel
<1>3. /\ DOMAIN u = DOMAIN parser /\ u.current = NoLabel /\ u.labels = parser.labels
      /\ u.default = parser.default /\ u.ontimeout = parser.ontimeout
      /\ u.fdtDir = parser.fdtDir /\ u.title = parser.title
      /\ u.timeout = parser.timeout /\ u.prompt = parser.prompt
  <2> HIDE DEF NoLabel
  <2> QED BY <1>2 DEF Unlabelled
<1>4. NoLabel.at = 0
  BY DEF NoLabel
<1>5. parser.current.at = i /\ i # 0 /\ HasKernel(content, i)
  BY <1>1 DEF CurrentIs, InLabel
<1>6. /\ Bootable(content) = Ready(content) \cup {i}
      /\ \A j \in Ready(content) : j < i
      /\ i \in Int
  <2>1. i \in 0..Len(content)
    BY <1>1, LabelLineIs
  <2> QED BY <1>1, <1>5, <2>1, BootableNow
<1>7. Ready(content) \ lost = Bootable(content) \ (lost \cup {i})
  <2>1. i \notin Ready(content)
    BY <1>6
  <2> QED BY <1>6, <2>1
<1>8. lost \cup {i} \subseteq Bootable(content)
  BY <1>1, <1>6
<1> HIDE DEF i, u
<1>9. SettingsAre(content, u)
  BY <1>1, <1>3, Zenon DEF SettingsAre
<1>10. IsParser(u) /\ ~InLabel(u)
  BY <1>1, <1>3, <1>4 DEF IsParser, InLabel
<1>11. FinishLabel(u) = u
  BY <1>10 DEF FinishLabel
<1> QED BY <1>1, <1>3, <1>5, <1>7, <1>8, <1>9, <1>10, <1>11 DEF u

\* A LABEL line after a label that is lost
LEMMA LineDropped ==
    ASSUME Reading, InLabel(parser), parser.current.kernel # None,
           NEW x, IsLine(x), x.key = "LABEL", x.value # None
    PROVE  /\ FileInv(Append(content, x), ParseLine(Unlabelled, x).parser,
                      lost \cup {parser.current.at})
           /\ NamesAre(ParseLine(Unlabelled, x).parser.labels, menu.loaders)
<1> DEFINE d == Append(content, x)
           u == Unlabelled
           q == ParseLine(u, x).parser
           L == lost \cup {parser.current.at}
<1>1. /\ IsSequence(content) /\ NamesAre(parser.labels, menu.loaders)
      /\ \A i \in 1..Len(content) : IsLine(content[i])
  BY DEF Reading, FileInv
<1>2. /\ IsParser(u) /\ ~InLabel(u) /\ u.labels = parser.labels
      /\ FinishLabel(u) = u /\ SettingsAre(content, u)
      /\ L \subseteq Bootable(content)
      /\ LabelsAre(content, parser.labels, Bootable(content) \ L)
  BY Dropped
<1> HIDE DEF u, L
<1>3. ParseLine(u, x).ok
  BY DEF ParseLine, ParseGlobal, Global, Accept
<1>4. Parsed(u, x, q)
  BY <1>2, <1>3, ParsedLine
<1>5. /\ IsSequence(d) /\ Len(d) = Len(content) + 1 /\ Len(content) \in Nat
      /\ \A i \in 1..Len(content) : d[i] = content[i]
      /\ d[Len(content) + 1] = x
  BY <1>1, Appended
<1>6. /\ Ready(d) = Bootable(content)
      /\ \A i \in Ready(d) : EntryOf(d, i) = EntryOf(content, i)
  BY <1>1, ReadyNext
<1>7. SettingsAre(d, q)
  BY <1>1, <1>2, <1>4, SettingsNext
<1>8. CurrentIs(d, q)
  BY <1>1, <1>4, CurrentNew
<1>9. q.labels = parser.labels /\ IsParser(q)
  BY <1>2, <1>4 DEF Parsed
<1> HIDE DEF d, q
<1>10. LabelsAre(d, q.labels, Ready(d) \ L) /\ L \subseteq Ready(d)
  <2>1. \A i \in Ready(d) \ L : EntryOf(d, i) = EntryOf(content, i)
    BY <1>6
  <2> QED BY <1>2, <1>6, <1>9, <2>1, LabelsSame
<1>11. \A i \in 1..Len(d) : IsLine(d[i])
  <2>1. \A i \in 1..Len(d) : i \in 1..Len(content) \/ i = Len(content) + 1
    BY <1>5
  <2> QED BY <1>1, <1>5, <2>1, Zenon
<1>12. FileInv(d, q, L)
  BY <1>5, <1>7, <1>8, <1>9, <1>10, <1>11, Zenon DEF FileInv
<1> QED BY <1>1, <1>9, <1>12 DEF d, q, L, u

\* The end of the file
LEMMA FileRead ==
    ASSUME Reading
    PROVE  /\ ReadInv(content, FinishLabel(parser), lost)
           /\ NamesAre(FinishLabel(parser).labels, menu.loaders)
           /\ InLabel(parser) /\ parser.current.kernel # None =>
                /\ ReadInv(content, Unlabelled, lost \cup {parser.current.at})
                /\ NamesAre(Unlabelled.labels, menu.loaders)
<1>1. /\ IsSequence(content) /\ IsParser(parser)
      /\ SettingsAre(content, parser) /\ CurrentIs(content, parser)
      /\ lost \subseteq Ready(content)
      /\ LabelsAre(content, parser.labels, Ready(content) \ lost)
      /\ \A i \in 1..Len(content) : IsLine(content[i])
      /\ NamesAre(parser.labels, menu.loaders)
      /\ IsSequence(menu.loaders) /\ NumbersFor(parser.labels, menu.loaders)
  BY DEF Reading, FileInv
<1>2. /\ NamesAre(FinishLabel(parser).labels, menu.loaders)
      /\ IsParser(FinishLabel(parser))
      /\ SettingsAre(content, FinishLabel(parser))
      /\ InLabel(parser) => UniqueName(parser, parser.current.label) # None
  BY <1>1, ReadingLabel, Finished
<1>3. LabelsAre(content, FinishLabel(parser).labels, Bootable(content) \ lost)
  BY <1>1, <1>2, FinishedLabels
<1>4. lost \subseteq Bootable(content)
  BY <1>1 DEF Ready
<1>5. ReadInv(content, FinishLabel(parser), lost)
  BY <1>1, <1>2, <1>3, <1>4, Zenon DEF ReadInv
<1>6. ASSUME InLabel(parser), parser.current.kernel # None
      PROVE  /\ ReadInv(content, Unlabelled, lost \cup {parser.current.at})
             /\ NamesAre(Unlabelled.labels, menu.loaders)
  <2>1. /\ IsParser(Unlabelled) /\ Unlabelled.labels = parser.labels
        /\ SettingsAre(content, Unlabelled)
        /\ lost \cup {parser.current.at} \subseteq Bootable(content)
        /\ LabelsAre(content, parser.labels, Bootable(content) \ (lost \cup {parser.current.at}))
    BY <1>6, Dropped
  <2> QED BY <1>1, <2>1 DEF ReadInv
<1> QED BY <1>2, <1>5, <1>6

-----------------------------------------------------------------------------
(* The entries of the menu *)

\* M is the menu W with entries of the lines of S after it.
Extends(M, W, S) ==
    /\ IsSequence(W) /\ IsSequence(M) /\ Len(W) <= Len(M)
    /\ \A i \in 1..Len(W) : /\ M[i] = W[i]
                            /\ W[i].priority \in Int /\ W[i].node.at = 0
    /\ \A i \in (Len(W) + 1)..Len(M) : M[i].priority = i /\ M[i].node.at \in S
    /\ \A i, j \in (Len(W) + 1)..Len(M) : i < j => M[i].node.at < M[j].node.at
    /\ \A s \in S : \E i \in (Len(W) + 1)..Len(M) : M[i].node.at = s

\* Sorting keeps every entry.
LEMMA SortedMenu ==
    ASSUME NEW M, NEW W, NEW S \in SUBSET (Nat \ {0}), Extends(M, W, S)
    PROVE  \E p : /\ SortsTo(p, Len(M), M)
                  /\ Len(M) \in Nat /\ Len(W) \in Nat
                  /\ SortByPriority(M) = [k \in 1..Len(M) |-> M[p[k]]]
<1> DEFINE n == Len(M)
           m == Len(W)
<1>1. n \in Nat /\ DOMAIN M = 1..n /\ m \in Nat /\ m <= n
  BY DEF Extends, IsSequence
<1>2. \A i \in 1..n : M[i].priority \in Int
  <2>1. /\ \A i \in 1..m : M[i].priority \in Int
        /\ \A i \in (m + 1)..n : M[i].priority = i
    BY DEF Extends
  <2> HIDE DEF n, m
  <2>2. \A i \in 1..n : i \in Int /\ (i \in 1..m \/ i \in (m + 1)..n)
    BY <1>1
  <2> QED BY <2>1, <2>2
<1> HIDE DEF n
<1>3. \E p : /\ SortsTo(p, n, M)
             /\ p = Ranked(ByPriority(n, M), 1..n)
             /\ SortByPriority(M) = [k \in 1..n |-> M[p[k]]]
  BY <1>1, <1>2, SortLists
<1> QED BY <1>1, <1>3 DEF n

\* The new entries stay in the order of their lines.
LEMMA SortedOurs ==
    ASSUME NEW M, NEW W, NEW S \in SUBSET (Nat \ {0}), Extends(M, W, S)
    PROVE  LET R == SortByPriority(M)
               mine == Selection(R, {k \in DOMAIN R : R[k].node.at # 0})
               places == Ascending(S)
           IN  /\ IsFiniteSet(S) /\ Len(mine) = Len(places)
               /\ DOMAIN mine = 1..Len(places)
               /\ \A k \in 1..Len(places) : /\ mine[k].node.at = places[k]
                                            /\ \E i \in (Len(W) + 1)..Len(M) : mine[k] = M[i]
<1> DEFINE n == Len(M)
           m == Len(W)
           R == SortByPriority(M)
<1>1. PICK p : /\ SortsTo(p, n, M) /\ n \in Nat /\ m \in Nat
               /\ R = [k \in 1..n |-> M[p[k]]]
  BY SortedMenu
<1>2. /\ p \in [1..n -> 1..n]
      /\ \A k, l \in 1..n : k < l => Earlier(M, p[k], p[l])
      /\ \A j \in 1..n : \E k \in 1..n : p[k] = j
  BY <1>1 DEF SortsTo
<1>3. /\ \A i \in 1..m : M[i].node.at = 0
      /\ \A i \in (m + 1)..n : M[i].priority = i /\ M[i].node.at \in S
      /\ \A i, j \in (m + 1)..n : i < j => M[i].node.at < M[j].node.at
      /\ \A s \in S : \E i \in (m + 1)..n : M[i].node.at = s
      /\ m <= n
  <2> HIDE DEF n, m
  <2> QED BY Zenon DEF Extends, n, m
<1> HIDE DEF n, m, R
<1> DEFINE T == {k \in 1..n : p[k] \in (m + 1)..n}
           a == Ascending(T)
           h == Cardinality(T)
           b == [k \in 1..h |-> M[p[a[k]]].node.at]
<1>4. T = {k \in DOMAIN R : R[k].node.at # 0}
  <2>1. \A i \in 1..n : i \in (m + 1)..n <=> M[i].node.at # 0
    <3>1. \A i \in 1..n : i \in 1..m \/ i \in (m + 1)..n
      BY <1>1
    <3>2. \A i \in 1..m : i \notin (m + 1)..n
      BY <1>1
    <3> QED BY <1>3, <3>1, <3>2
  <2>2. DOMAIN R = 1..n /\ \A k \in 1..n : R[k] = M[p[k]]
    BY <1>1
  <2>3. \A k \in 1..n : p[k] \in 1..n
    BY <1>2
  <2>4. \A k \in 1..n : p[k] \in (m + 1)..n <=> R[k].node.at # 0
    BY <2>1, <2>2, <2>3, Zenon
  <2> QED BY <2>2, <2>4
<1>5. T \in SUBSET Int /\ IsFiniteSet(T)
  <2>1. IsFiniteSet(1..n)
    BY <1>1, FS_Interval
  <2>2. T \subseteq 1..n
    OBVIOUS
  <2> HIDE DEF T
  <2>3. T \in SUBSET Int
    BY <2>2
  <2> QED BY <2>1, <2>2, <2>3, FS_Subset
<1>6. /\ h \in Nat /\ a \in [1..h -> T]
      /\ \A k, l \in 1..h : k < l => a[k] < a[l]
      /\ \A j \in T : \E k \in 1..h : a[k] = j
  <2> HIDE DEF T
  <2> QED BY <1>5, AscendingIs DEF Ascends
<1>7. \A k \in 1..h : a[k] \in 1..n /\ p[a[k]] \in (m + 1)..n
  <2> HIDE DEF a, h
  <2> QED BY <1>6
<1>8. \A k, l \in 1..h : k < l => p[a[k]] < p[a[l]]
  <2> TAKE k, l \in 1..h
  <2> HAVE k < l
  <2> HIDE DEF a, h
  <2>1. a[k] < a[l]
    BY <1>6
  <2>2. Earlier(M, p[a[k]], p[a[l]])
    BY <1>2, <1>7, <2>1
  <2>3. M[p[a[k]]].priority = p[a[k]] /\ M[p[a[l]]].priority = p[a[l]]
    BY <1>3, <1>7
  <2> QED BY <2>2, <2>3 DEF Earlier
<1>9. Ascends(b, h, S)
  <2>1. \A k \in 1..h : b[k] = M[p[a[k]]].node.at
    OBVIOUS
  <2>2. b = [k \in 1..h |-> b[k]]
    OBVIOUS
  <2> HIDE DEF b, a, h
  <2>3. b \in [1..h -> S]
    BY <1>3, <1>7, <2>1, <2>2
  <2>4. \A k, l \in 1..h : k < l => b[k] < b[l]
    BY <1>3, <1>7, <1>8, <2>1
  <2>5. \A s \in S : \E k \in 1..h : b[k] = s
    <3> TAKE s \in S
    <3>1. PICK i \in (m + 1)..n : M[i].node.at = s
      BY <1>3
    <3>2. i \in 1..n
      BY <1>1
    <3>3. PICK j \in 1..n : p[j] = i
      BY <1>2, <3>2
    <3>4. j \in T
      BY <3>1, <3>3
    <3>5. PICK k \in 1..h : a[k] = j
      BY <1>6, <3>4
    <3> QED BY <2>1, <3>1, <3>3, <3>5
  <2> QED BY <2>3, <2>4, <2>5 DEF Ascends
<1> HIDE DEF b
<1>10. IsFiniteSet(S) /\ Cardinality(S) = h /\ b = Ascending(S)
  <2>1. S \in SUBSET Int
    OBVIOUS
  <2> HIDE DEF h
  <2> QED BY <1>6, <1>9, <2>1, AscendingOnly
<1> DEFINE mine == Selection(R, T)
<1>11. mine = [k \in 1..h |-> R[a[k]]]
  <2>1. DOMAIN a = 1..h
    <3> HIDE DEF a, h
    <3> QED BY <1>6
  <2> HIDE DEF T
  <2>2. mine = [k \in DOMAIN a |-> R[a[k]]]
    BY DEF Selection
  <2> HIDE DEF a, h
  <2> QED BY <2>1, <2>2
<1>12. \A k \in 1..h : R[a[k]] = M[p[a[k]]] /\ b[k] = M[p[a[k]]].node.at
  <2>1. \A k \in 1..n : R[k] = M[p[k]]
    BY <1>1
  <2>2. \A k \in 1..h : b[k] = M[p[a[k]]].node.at
    BY DEF b
  <2> HIDE DEF a, h
  <2> QED BY <1>7, <2>1, <2>2
<1>13. Len(b) = h /\ h \in Nat
  <2>1. b = [k \in 1..h |-> M[p[a[k]]].node.at]
    BY DEF b
  <2> HIDE DEF a, h
  <2> QED BY <1>6, <2>1
<1> HIDE DEF T, a, h
<1>14. /\ Len(mine) = Len(b) /\ DOMAIN mine = 1..Len(b)
       /\ \A k \in 1..Len(b) : /\ mine[k].node.at = b[k]
                               /\ \E i \in (m + 1)..n : mine[k] = M[i]
  <2> HIDE DEF mine
  <2>1. DOMAIN mine = 1..h /\ Len(mine) = h /\ \A k \in 1..h : mine[k] = R[a[k]]
    BY <1>11, <1>13
  <2>2. \A k \in 1..h : mine[k] = M[p[a[k]]] /\ mine[k].node.at = b[k]
    BY <1>12, <2>1, ZenonT(40)
  <2> QED BY <1>7, <1>13, <2>1, <2>2, Zenon
<1> HIDE DEF mine
<1> QED BY <1>4, <1>10, <1>14 DEF mine, R, m, n

\* The other entries are sorted as they are without the new ones.
LEMMA SortedOthers ==
    ASSUME NEW M, NEW W, NEW S \in SUBSET (Nat \ {0}), Extends(M, W, S)
    PROVE  LET R == SortByPriority(M)
           IN  Selection(R, {k \in DOMAIN R : ~(R[k].node.at # 0)}) = SortByPriority(W)
<1> DEFINE n == Len(M)
           m == Len(W)
           R == SortByPriority(M)
<1>1. PICK p : /\ SortsTo(p, n, M) /\ n \in Nat /\ m \in Nat
               /\ R = [k \in 1..n |-> M[p[k]]]
  BY SortedMenu
<1>2. /\ p \in [1..n -> 1..n]
      /\ \A k, l \in 1..n : k < l => Earlier(M, p[k], p[l])
      /\ \A j \in 1..n : \E k \in 1..n : p[k] = j
  BY <1>1 DEF SortsTo
<1>3. /\ \A i \in 1..m : M[i] = W[i] /\ W[i].priority \in Int /\ W[i].node.at = 0
      /\ \A i \in (m + 1)..n : M[i].node.at \in S
      /\ m <= n /\ DOMAIN W = 1..m
  <2> HIDE DEF n
  <2>1. DOMAIN W = 1..m
    BY DEF Extends, IsSequence
  <2> HIDE DEF m
  <2> QED BY <2>1, Zenon DEF Extends, n, m
<1> HIDE DEF n, m, R
<1> DEFINE T == {k \in 1..n : p[k] \in 1..m}
           a == Ascending(T)
           h == Cardinality(T)
           q == [k \in 1..h |-> p[a[k]]]
<1>4. T = {k \in DOMAIN R : ~(R[k].node.at # 0)}
  <2>1. \A i \in 1..n : i \in 1..m <=> ~(M[i].node.at # 0)
    <3>1. \A i \in 1..n : i \in 1..m \/ i \in (m + 1)..n
      BY <1>1
    <3>2. \A i \in S : i # 0
      OBVIOUS
    <3> QED BY <1>3, <3>1, <3>2
  <2>2. DOMAIN R = 1..n /\ \A k \in 1..n : R[k] = M[p[k]]
    BY <1>1
  <2>3. \A k \in 1..n : p[k] \in 1..n
    BY <1>2
  <2>4. \A k \in 1..n : p[k] \in 1..m <=> ~(R[k].node.at # 0)
    BY <2>1, <2>2, <2>3, ZenonT(40)
  <2> QED BY <2>2, <2>4
<1>5. T \in SUBSET Int /\ IsFiniteSet(T)
  <2>1. IsFiniteSet(1..n)
    BY <1>1, FS_Interval
  <2>2. T \subseteq 1..n
    OBVIOUS
  <2> HIDE DEF T
  <2>3. T \in SUBSET Int
    BY <2>2
  <2> QED BY <2>1, <2>2, <2>3, FS_Subset
<1>6. /\ h \in Nat /\ a \in [1..h -> T]
      /\ \A k, l \in 1..h : k < l => a[k] < a[l]
      /\ \A j \in T : \E k \in 1..h : a[k] = j
  <2> HIDE DEF T
  <2> QED BY <1>5, AscendingIs DEF Ascends
<1>7. \A k \in 1..h : a[k] \in 1..n /\ p[a[k]] \in 1..m
  <2> HIDE DEF a, h
  <2> QED BY <1>6
<1>8. /\ q \in [1..h -> 1..m]
      /\ \A k, l \in 1..h : k < l => Earlier(W, q[k], q[l])
      /\ \A j \in 1..m : \E k \in 1..h : q[k] = j
  <2>1. \A k \in 1..h : q[k] = p[a[k]]
    OBVIOUS
  <2>2. q = [k \in 1..h |-> q[k]]
    OBVIOUS
  <2> HIDE DEF q, a, h
  <2>3. q \in [1..h -> 1..m]
    BY <1>7, <2>1, <2>2
  <2>4. \A i, j \in 1..m : Earlier(M, i, j) <=> Earlier(W, i, j)
    BY <1>3, Zenon DEF Earlier
  <2>5. \A k, l \in 1..h : k < l => Earlier(W, q[k], q[l])
    BY <1>2, <1>6, <1>7, <2>1, <2>4, Zenon
  <2>6. \A j \in 1..m : \E k \in 1..h : q[k] = j
    <3> TAKE j \in 1..m
    <3>1. j \in 1..n
      BY <1>1, <1>3
    <3>2. PICK i \in 1..n : p[i] = j
      BY <1>2, <3>1
    <3>3. i \in T
      BY <3>2
    <3>4. PICK k \in 1..h : a[k] = i
      BY <1>6, <3>3
    <3> QED BY <2>1, <3>2, <3>4
  <2> QED BY <2>3, <2>5, <2>6
<1> HIDE DEF q
<1>9. h = m
  <2> DEFINE O == ByPriority(m, W)
  <2>1. \A i, j \in 1..m : <<i, j>> \in O <=> Earlier(W, i, j)
    BY DEF ByPriority
  <2>2. Orders(O, 1..m)
    BY <1>1, <1>3, PrioritiesOrder
  <2> HIDE DEF O, h
  <2>3. \A k \in 1..h : q[k] \in 1..m
    BY <1>8
  <2>4. Lists(q, h, 1..m, O)
    BY <1>8, <2>1, <2>3, Zenon DEF Lists
  <2>5. Cardinality(1..m) = h
    BY <1>6, <2>2, <2>4, ListsUnique
  <2>6. Cardinality(1..m) = m
    BY <1>1, FS_Interval
  <2> QED BY <2>5, <2>6
<1>10. SortByPriority(W) = [k \in 1..m |-> W[q[k]]]
  <2> HIDE DEF h
  <2>1. SortsTo(q, m, W)
    BY <1>8, <1>9 DEF SortsTo
  <2> QED BY <1>1, <1>3, <2>1, SortOnly
<1> DEFINE others == Selection(R, T)
<1>11. others = [k \in 1..h |-> R[a[k]]]
  <2>1. DOMAIN a = 1..h
    <3> HIDE DEF a, h
    <3> QED BY <1>6
  <2> HIDE DEF T
  <2>2. others = [k \in DOMAIN a |-> R[a[k]]]
    BY DEF Selection
  <2> HIDE DEF a, h
  <2> QED BY <2>1, <2>2
<1>12. \A k \in 1..h : R[a[k]] = W[q[k]]
  <2>1. \A k \in 1..n : R[k] = M[p[k]]
    BY <1>1
  <2>2. \A k \in 1..h : q[k] = p[a[k]]
    BY DEF q
  <2> HIDE DEF a, h
  <2> QED BY <1>3, <1>7, <2>1, <2>2, Zenon
<1> HIDE DEF a, h, T
<1>13. others = SortByPriority(W)
  BY <1>9, <1>10, <1>11, <1>12
<1> QED BY <1>4, <1>13 DEF others, R

\* Names stay as unique as they are.
UniqueIn(loaders) ==
    \A i, j \in DOMAIN loaders : SameText(loaders[i].name, loaders[j].name) => i = j

\* Sorting neither adds nor drops an entry, nor makes two alike.
LEMMA SortedUnique ==
    ASSUME NEW M, NEW W, NEW S \in SUBSET (Nat \ {0}), Extends(M, W, S)
    PROVE  LET R == SortByPriority(M)
           IN  /\ IsSequence(R) /\ Len(R) = Len(M) /\ DOMAIN R = 1..Len(M)
               /\ \A k \in DOMAIN R : \E i \in 1..Len(M) : R[k] = M[i]
               /\ \A i \in 1..Len(M) : \E k \in DOMAIN R : R[k] = M[i]
               /\ UniqueIn(M) => UniqueIn(R)
<1> DEFINE n == Len(M)
           R == SortByPriority(M)
<1>1. PICK p : /\ SortsTo(p, n, M) /\ n \in Nat
               /\ R = [k \in 1..n |-> M[p[k]]]
  BY SortedMenu
<1>2. /\ p \in [1..n -> 1..n]
      /\ \A k, l \in 1..n : k < l => Earlier(M, p[k], p[l])
      /\ \A j \in 1..n : \E k \in 1..n : p[k] = j
  BY <1>1 DEF SortsTo
<1>3. DOMAIN M = 1..n /\ \A i \in 1..n : M[i].priority \in Int
  <2>1. DOMAIN M = 1..n
    BY DEF Extends, IsSequence
  <2>2. /\ \A i \in 1..Len(W) : M[i].priority \in Int
        /\ \A i \in (Len(W) + 1)..n : M[i].priority = i
        /\ Len(W) \in Nat
    BY DEF Extends, IsSequence
  <2> HIDE DEF n
  <2>3. \A i \in 1..n : i \in Int /\ (i \in 1..Len(W) \/ i \in (Len(W) + 1)..n)
    BY <1>1, <2>2
  <2> QED BY <2>1, <2>2, <2>3
<1> HIDE DEF n, R
<1>4. DOMAIN R = 1..n /\ Len(R) = n /\ \A k \in 1..n : R[k] = M[p[k]]
  BY <1>1
<1>5. R = [k \in 1..n |-> R[k]]
  BY <1>1, <1>4
<1>6. IsSequence(R)
  BY <1>1, <1>4, <1>5 DEF IsSequence
<1>7. \A k \in 1..n : p[k] \in 1..n
  BY <1>2
<1>8. \A k, l \in 1..n : p[k] = p[l] => k = l
  <2> TAKE k, l \in 1..n
  <2> HAVE p[k] = p[l]
  <2>1. ~(k < l) /\ ~(l < k)
    <3>1. ~Earlier(M, p[k], p[k])
      BY <1>3, <1>7 DEF Earlier
    <3> QED BY <1>2, <3>1
  <2> QED BY <2>1
<1>9. UniqueIn(M) => UniqueIn(R)
  <2> SUFFICES ASSUME UniqueIn(M), NEW k \in 1..n, NEW l \in 1..n,
                      SameText(R[k].name, R[l].name)
               PROVE  k = l
    BY <1>4 DEF UniqueIn
  <2>1. SameText(M[p[k]].name, M[p[l]].name)
    BY <1>4
  <2>2. p[k] = p[l]
    BY <1>3, <1>7, <2>1 DEF UniqueIn
  <2> QED BY <1>8, <2>2
<1> QED BY <1>2, <1>4, <1>6, <1>7, <1>9, ZenonT(40) DEF R, n

\* The new entries of M are labels before the n-th, under their names.
ItemsOf(M, W, labels, n) ==
    \A i \in (Len(W) + 1)..Len(M) :
       \E k \in 1..(n - 1) : M[i].node = labels[k] /\ M[i].name = labels[k].name

\* New names make no two entries of a menu alike.
LEMMA ItemsUnique ==
    ASSUME NEW M, NEW W, NEW S \in SUBSET (Nat \ {0}), Extends(M, W, S), NEW labels,
           NEW n \in Nat, Len(labels) \in Nat, n - 1 <= Len(labels),
           ItemsOf(M, W, labels, n), NamesAre(labels, W)
    PROVE  UniqueIn(W) => UniqueIn(M)
<1> DEFINE m == Len(W)
           h == Len(M)
           l == Len(labels)
<1>1. /\ m \in Nat /\ h \in Nat /\ m <= h /\ DOMAIN W = 1..m /\ DOMAIN M = 1..h
      /\ \A i \in 1..m : M[i] = W[i]
  BY DEF Extends, IsSequence
<1>2. /\ \A i, j \in (m + 1)..h : i < j => M[i].node.at < M[j].node.at
      /\ \A i \in (m + 1)..h : M[i].node.at \in Int
  <2>1. \A i \in (m + 1)..h : M[i].node.at \in S
    BY DEF Extends
  <2>2. \A s \in S : s \in Int
    OBVIOUS
  <2> HIDE DEF h, m
  <2> QED BY <2>1, <2>2 DEF Extends, h, m
<1>3. \A i \in (m + 1)..h : \E k \in 1..l : M[i].node = labels[k] /\ M[i].name = labels[k].name
  <2>1. \A i \in (m + 1)..h :
           \E k \in 1..(n - 1) : M[i].node = labels[k] /\ M[i].name = labels[k].name
    BY DEF ItemsOf
  <2> HIDE DEF m, h
  <2>2. \A k \in 1..(n - 1) : k \in 1..l
    OBVIOUS
  <2> QED BY <2>1, <2>2, Zenon
<1>4. /\ \A k \in 1..l, j \in 1..m : ~SameText(W[j].name, labels[k].name)
      /\ \A k, g \in 1..l : SameText(labels[k].name, labels[g].name) => k = g
  BY DEF NamesAre
<1> HIDE DEF m, h, l
<1>5. \A i \in 1..h : i \in 1..m \/ i \in (m + 1)..h
  BY <1>1
<1>6. \A a, b : SameText(a, b) <=> SameText(b, a)
  BY DEF SameText
<1> SUFFICES ASSUME UniqueIn(W), NEW i \in 1..h, NEW j \in 1..h, SameText(M[i].name, M[j].name)
             PROVE  i = j
  BY <1>1 DEF UniqueIn
<1>7. CASE i \in 1..m /\ j \in 1..m
  BY <1>1, <1>7 DEF UniqueIn
<1>8. CASE i \in 1..m /\ j \in (m + 1)..h
  BY <1>1, <1>3, <1>4, <1>8
<1>9. CASE i \in (m + 1)..h /\ j \in 1..m
  BY <1>1, <1>3, <1>4, <1>6, <1>9
<1>10. CASE i \in (m + 1)..h /\ j \in (m + 1)..h
  <2>1. PICK k \in 1..l : M[i].node = labels[k] /\ M[i].name = labels[k].name
    BY <1>3, <1>10
  <2>2. PICK g \in 1..l : M[j].node = labels[g] /\ M[j].name = labels[g].name
    BY <1>3, <1>10
  <2>3. k = g
    BY <1>4, <2>1, <2>2
  <2>4. M[i].node.at = M[j].node.at
    BY <2>1, <2>2, <2>3
  <2>5. ~(i < j) /\ ~(j < i)
    <3>1. ~(M[i].node.at < M[j].node.at) /\ ~(M[j].node.at < M[i].node.at)
      BY <1>2, <1>10, <2>4
    <3> QED BY <1>2, <1>10, <3>1
  <2> QED BY <2>5
<1> QED BY <1>5, <1>7, <1>8, <1>9, <1>10

\* One entry more
LEMMA ItemAdded ==
    ASSUME NEW M, NEW W, NEW S \in SUBSET (Nat \ {0}), Extends(M, W, S),
           NEW labels, NEW n \in Nat, Len(labels) \in Nat, n \in 1..Len(labels),
           ItemsOf(M, W, labels, n), labels[n].at \in Nat \ {0}, \A s \in S : s < labels[n].at,
           NEW item, item.priority = Len(M) + 1, item.node = labels[n],
           item.name = labels[n].name
    PROVE  /\ Extends(Append(M, item), W, S \cup {labels[n].at})
           /\ ItemsOf(Append(M, item), W, labels, n + 1)
<1> DEFINE m == Len(W)
           h == Len(M)
           N == Append(M, item)
           U == S \cup {labels[n].at}
<1>1. /\ m \in Nat /\ h \in Nat /\ m <= h /\ IsSequence(W) /\ IsSequence(M)
      /\ \A i \in 1..m : M[i] = W[i] /\ W[i].priority \in Int /\ W[i].node.at = 0
  BY DEF Extends, IsSequence
<1>2. /\ \A i \in (m + 1)..h : M[i].priority = i /\ M[i].node.at \in S
      /\ \A i, j \in (m + 1)..h : i < j => M[i].node.at < M[j].node.at
      /\ \A s \in S : \E i \in (m + 1)..h : M[i].node.at = s
  <2> HIDE DEF m, h
  <2> QED BY Zenon DEF Extends, m, h
<1>3. /\ IsSequence(N) /\ Len(N) = h + 1
      /\ \A i \in 1..h : N[i] = M[i]
      /\ N[h + 1] = item
  BY <1>1, Appended
<1>4. \A i \in (m + 1)..h : \E k \in 1..(n - 1) : M[i].node = labels[k] /\ M[i].name = labels[k].name
  BY DEF ItemsOf
<1>5. item.priority = h + 1 /\ item.node.at = labels[n].at
  OBVIOUS
<1> HIDE DEF m, h, N
<1>6. /\ \A i \in 1..m : i \in 1..h
      /\ \A i \in (m + 1)..h : i \in 1..h
      /\ \A i \in (m + 1)..(h + 1) : i \in (m + 1)..h \/ i = h + 1
      /\ \A i \in (m + 1)..h : i \in (m + 1)..(h + 1) /\ ~(h + 1 < i)
      /\ h + 1 \in (m + 1)..(h + 1) /\ ~(h + 1 < h + 1)
  BY <1>1
<1>7. \A i \in (m + 1)..(h + 1) : N[i].priority = i /\ N[i].node.at \in U
  BY <1>2, <1>3, <1>5, <1>6, Zenon
<1>8. \A i, j \in (m + 1)..(h + 1) : i < j => N[i].node.at < N[j].node.at
  <2>1. \A i \in (m + 1)..h : N[i].node.at < N[h + 1].node.at
    <3> TAKE i \in (m + 1)..h
    <3>1. N[i] = M[i] /\ M[i].node.at \in S /\ N[h + 1].node.at = labels[n].at
      BY <1>2, <1>3, <1>5, <1>6, Zenon
    <3> QED BY <3>1
  <2>2. \A i, j \in (m + 1)..h : i < j => N[i].node.at < N[j].node.at
    BY <1>2, <1>3, <1>6, Zenon
  <2>3. ASSUME NEW i \in (m + 1)..(h + 1), NEW j \in (m + 1)..(h + 1), i < j
        PROVE  i \in (m + 1)..h
    BY <1>6, <2>3
  <2> QED BY <1>6, <2>1, <2>2, <2>3, Zenon
<1>9. \A s \in U : \E i \in (m + 1)..(h + 1) : N[i].node.at = s
  BY <1>2, <1>3, <1>5, <1>6
<1>10. Extends(N, W, U)
  <2>1. m <= h + 1
    BY <1>1
  <2>2. \A i \in 1..m : N[i] = W[i] /\ W[i].priority \in Int /\ W[i].node.at = 0
    BY <1>1, <1>3, <1>6, Zenon
  <2> QED BY <1>1, <1>3, <1>7, <1>8, <1>9, <2>1, <2>2, Zenon DEF Extends, m
<1>11. ItemsOf(N, W, labels, n + 1)
  <2>1. /\ \A k \in 1..(n - 1) : k \in 1..((n + 1) - 1)
        /\ n \in 1..((n + 1) - 1)
    OBVIOUS
  <2>2. ASSUME NEW i \in (m + 1)..(h + 1)
        PROVE  \E k \in 1..((n + 1) - 1) : N[i].node = labels[k] /\ N[i].name = labels[k].name
    <3>1. CASE i = h + 1
      BY <1>3, <2>1, <3>1, Zenon
    <3>2. CASE i \in (m + 1)..h
      <4>1. PICK k \in 1..(n - 1) : M[i].node = labels[k] /\ M[i].name = labels[k].name
        BY <1>4, <3>2
      <4>2. N[i] = M[i] /\ k \in 1..((n + 1) - 1)
        BY <1>3, <1>6, <2>1, <3>2
      <4> QED BY <4>1, <4>2, Zenon
    <3> QED BY <1>6, <3>1, <3>2
  <2> QED BY <1>3, <2>2 DEF ItemsOf, m
<1> QED BY <1>10, <1>11 DEF N

-----------------------------------------------------------------------------
(* The settings of the menu *)

\* extlinux_parse_timeout rounds up to seconds, as far as an int goes.
LEMMA SecondsIs ==
    ASSUME NEW v, v # None => v \in Int, Seconds(v) # None
    PROVE  /\ v \in Int /\ Seconds(v) \in 0..INT_MAX
           /\ v >= 0 => /\ 10 * Seconds(v) >= v \/ Seconds(v) = INT_MAX
                        /\ 10 * (Seconds(v) - 1) < v
<1> DEFINE tenths == IF v < 0 THEN UINT64_MAX + 1 + v ELSE v
           secs == (tenths + 9) \div 10
<1>1. v \in Int /\ ~(v > UINT64_MAX) /\ ~(v < -UINT64_MAX)
  BY DEF Seconds
<1>2. Seconds(v) = IF tenths > UINT64_MAX - 9 THEN None
                   ELSE IF secs > INT_MAX THEN INT_MAX ELSE secs
  BY <1>1 DEF Seconds
<1>3. UINT64_MAX \in Nat /\ INT_MAX \in Nat
  BY WidthAssumption
<1>4. tenths \in Nat /\ (v >= 0 => tenths = v)
  BY <1>1, <1>3
<1> HIDE DEF tenths
<1>5. secs \in Nat /\ 10 * secs <= tenths + 9 /\ 10 * secs >= tenths
  <2>1. \A t \in Nat : /\ (t + 9) \div 10 \in Nat /\ 10 * ((t + 9) \div 10) <= t + 9
                       /\ 10 * ((t + 9) \div 10) >= t
    OBVIOUS
  <2> QED BY <1>4, <2>1
<1> HIDE DEF secs
<1>6. Seconds(v) = IF secs > INT_MAX THEN INT_MAX ELSE secs
  BY <1>2
<1> QED BY <1>1, <1>3, <1>4, <1>5, <1>6

\* The parser's timeout and prompt are those of the last lines on them.
LEMMA SettingsRead ==
    ASSUME NEW c, IsSequence(c), \A i \in 1..Len(c) : IsLine(c[i]), NEW p, SettingsAre(c, p)
    PROVE  LET i == LastLine(c, DOMAIN c, {"TIMEOUT"})
               j == LastLine(c, DOMAIN c, {"PROMPT", "MENU HIDDEN"})
           IN  /\ p.timeout = None <=> i = 0
               /\ i # 0 =>
                    /\ p.timeout \in 0..INT_MAX /\ c[i].value \in Int
                    /\ c[i].value >= 0 =>
                         /\ 10 * p.timeout >= c[i].value \/ p.timeout = INT_MAX
                         /\ 10 * (p.timeout - 1) < c[i].value
               /\ p.prompt = None <=> j = 0
               /\ j # 0 => p.prompt = (c[j].key = "PROMPT" /\ c[j].value = "1")
<1> DEFINE i == LastLine(c, DOMAIN c, {"TIMEOUT"})
           j == LastLine(c, DOMAIN c, {"PROMPT", "MENU HIDDEN"})
           on == c[j].key = "PROMPT" /\ c[j].value = "1"
<1>1. /\ p.timeout = IF i = 0 THEN None ELSE Seconds(c[i].value)
      /\ i # 0 => Seconds(c[i].value) # None
      /\ p.prompt = IF j = 0 THEN None ELSE on
  BY Zenon DEF SettingsAre
<1>2. i # 0 => i \in 1..Len(c) /\ c[i].key = "TIMEOUT"
  <2>1. /\ i \in 0..Len(c)
        /\ i # 0 => c[i].key \in {"TIMEOUT"}
        /\ Len(c) \in Nat
    BY LastOfFile
  <2> HIDE DEF i
  <2> QED BY <2>1
<1>3. on \in BOOLEAN
  OBVIOUS
<1> HIDE DEF i, j, on
<1>4. i # 0 => (c[i].value # None => c[i].value \in Int)
  BY <1>2 DEF IsLine
<1>5. i # 0 => /\ p.timeout \in 0..INT_MAX /\ c[i].value \in Int
               /\ c[i].value >= 0 =>
                    /\ 10 * p.timeout >= c[i].value \/ p.timeout = INT_MAX
                    /\ 10 * (p.timeout - 1) < c[i].value
  <2> SUFFICES ASSUME i # 0
               PROVE  /\ p.timeout \in 0..INT_MAX /\ c[i].value \in Int
                      /\ c[i].value >= 0 =>
                           /\ 10 * p.timeout >= c[i].value \/ p.timeout = INT_MAX
                           /\ 10 * (p.timeout - 1) < c[i].value
    BY Zenon
  <2> DEFINE v == c[i].value
  <2>1. (v # None => v \in Int) /\ Seconds(v) # None /\ p.timeout = Seconds(v)
    BY <1>1, <1>4
  <2> HIDE DEF v
  <2>2. /\ v \in Int /\ Seconds(v) \in 0..INT_MAX
        /\ v >= 0 => /\ 10 * Seconds(v) >= v \/ Seconds(v) = INT_MAX
                     /\ 10 * (Seconds(v) - 1) < v
    BY <2>1, SecondsIs
  <2> QED BY <2>1, <2>2 DEF v
<1>6. p.prompt = None <=> j = 0
  <2>1. \A b \in BOOLEAN : b # None
    BY NoneAssumption
  <2> QED BY <1>1, <1>3, <2>1, Zenon
<1>7. p.timeout = None <=> i = 0
  BY <1>1, Zenon
<1>8. j # 0 => p.prompt = on
  BY <1>1, Zenon
<1> QED BY <1>5, <1>6, <1>7, <1>8, Zenon DEF i, j, on

-----------------------------------------------------------------------------
(* The default *)

\* extlinux_find_name finds the first label with a kernel that has the text.
LEMMA FindNameIs ==
    ASSUME NEW c, NEW p, LabelsAre(c, p.labels, Bootable(c)), IsSequence(c), NEW text
    PROVE  /\ PlaceOf(c, text) \in 0..Len(p.labels)
           /\ FindName(p, text) = IF PlaceOf(c, text) = 0 THEN None
                                  ELSE p.labels[PlaceOf(c, text)].name
           /\ Len(p.labels) \in Nat
           /\ Ascending(Bootable(c)) = Places(p.labels)
<1> DEFINE n == Len(p.labels)
           a == Ascending(Bootable(c))
           S == {k \in 1..n : text # None /\ SameText(c[a[k]].value, text)}
           T == {k \in 1..n : text # None /\ SameText(p.labels[k].label, text)}
           k == IF S # {} THEN Min(S) ELSE 0
<1>1. /\ n \in Nat /\ a = Places(p.labels)
      /\ \A h \in 1..n : p.labels[h].label = c[p.labels[h].at].value
  <2>1. n \in Nat /\ Ascends(Places(p.labels), n, Bootable(c))
    BY DEF LabelsAre, IsSequence
  <2>2. Bootable(c) \in SUBSET Int
    <3>1. Bootable(c) \in SUBSET (1..Len(c)) /\ Len(c) \in Nat
      BY BootableNow, LabelLineIs
    <3> QED BY <3>1
  <2>3. a = Places(p.labels)
    <3> HIDE DEF n
    <3> QED BY <2>1, <2>2, AscendingOnly
  <2>4. \A h \in 1..n : Fits(p.labels[h], EntryOf(c, p.labels[h].at))
    BY DEF LabelsAre
  <2>5. \A i : EntryOf(c, i).label = c[i].value
    BY DEF EntryOf
  <2> QED BY <2>1, <2>3, <2>4, <2>5 DEF Fits
<1>2. /\ DOMAIN a = 1..n /\ Len(a) = n
      /\ \A h \in 1..n : a[h] = p.labels[h].at
  BY <1>1 DEF Places
<1>3. PlaceOf(c, text) = k
  <2>1. PlaceOf(c, text) = LET I == {h \in 1..Len(a) : text # None /\ SameText(c[a[h]].value, text)}
                           IN  IF I # {} THEN Min(I) ELSE 0
    BY DEF PlaceOf, SelectInSeq
  <2> HIDE DEF a
  <2> QED BY <1>2, <2>1
<1>4. FindName(p, text) = LET i == IF T # {} THEN Min(T) ELSE 0
                          IN  IF i = 0 THEN None ELSE p.labels[i].name
  BY DEF FindName, SelectInSeq
<1> HIDE DEF a, n
<1>5. S = T
  <2>1. \A h \in 1..n : c[a[h]].value = p.labels[h].label
    BY <1>1, <1>2
  <2> QED BY <2>1
<1>6. k \in {0} \cup S
  <2>1. S \in SUBSET (1..n)
    OBVIOUS
  <2> HIDE DEF S
  <2> QED BY <1>1, <2>1, FirstPlace
<1>7. k \in 0..n
  <2>1. S \subseteq 1..n
    OBVIOUS
  <2> HIDE DEF k, S
  <2> QED BY <1>1, <1>6, <2>1
<1> HIDE DEF S, T
<1>8. FindName(p, text) = IF k = 0 THEN None ELSE p.labels[k].name
  BY <1>4, <1>5, Zenon
<1> HIDE DEF k
<1> QED BY <1>1, <1>3, <1>7, <1>8 DEF a, n

\* The name that extlinux_publish chooses is that of the file's default label.
LEMMA DefaultNameIs ==
    ASSUME IsSequence(content), SettingsAre(content, parser), parser.labels # <<>>,
           LabelsAre(content, parser.labels, Bootable(content))
    PROVE  /\ DefaultPlace(content) \in 1..Len(parser.labels)
           /\ DefaultName = parser.labels[DefaultPlace(content)].name
<1> DEFINE n == Len(parser.labels)
           P(text) == PlaceOf(content, text)
           F(text) == FindName(parser, text)
           later == ValueAt(content, LastLine(content, DOMAIN content, {"ONTIMEOUT"}))
<1>1. \A text : /\ P(text) \in 0..n
                /\ F(text) = IF P(text) = 0 THEN None ELSE parser.labels[P(text)].name
  BY FindNameIs
<1>2. n \in Nat /\ 1 \in 1..n
  BY DEF LabelsAre, IsSequence
<1>3. \A k \in 1..n : parser.labels[k].name # None
  BY DEF LabelsAre
<1>4. parser.default = DefaultText(content) /\ parser.ontimeout = later
  BY DEF SettingsAre
<1>5. DefaultPlace(content) = IF P(DefaultText(content)) # 0 THEN P(DefaultText(content))
                              ELSE IF P(later) # 0 THEN P(later) ELSE 1
  BY DEF DefaultPlace
<1>6. DefaultName = IF F(DefaultText(content)) # None THEN F(DefaultText(content))
                    ELSE IF F(later) # None THEN F(later) ELSE parser.labels[1].name
  BY <1>4, Zenon DEF DefaultName
<1> HIDE DEF n, P, F, later
<1>7. \A text : P(text) # 0 => P(text) \in 1..n
  BY <1>1, <1>2
<1>8. \A text : F(text) # None <=> P(text) # 0
  BY <1>1, <1>3, <1>7, Zenon
<1>9. \A text : P(text) # 0 => F(text) = parser.labels[P(text)].name
  BY <1>1, Zenon
<1> QED BY <1>2, <1>5, <1>6, <1>7, <1>8, <1>9 DEF n

\* Different labels are of different lines.
LEMMA PlacesDiffer ==
    ASSUME NEW c, NEW labels, NEW S \in SUBSET Int, LabelsAre(c, labels, S)
    PROVE  /\ Len(labels) \in Nat
           /\ \A k \in 1..Len(labels) : labels[k].at \in S
           /\ \A k, l \in 1..Len(labels) : k < l => labels[k].at < labels[l].at
           /\ \A k, l \in 1..Len(labels) : labels[k].at = labels[l].at => k = l
           /\ \A s \in S : \E k \in 1..Len(labels) : labels[k].at = s
<1> DEFINE n == Len(labels)
           p == Places(labels)
<1>1. n \in Nat /\ Ascends(p, n, S)
  BY DEF LabelsAre, IsSequence
<1>2. \A k \in 1..n : p[k] = labels[k].at
  BY DEF Places
<1> HIDE DEF p, n
<1>3. /\ p \in [1..n -> S]
      /\ \A k, l \in 1..n : k < l => p[k] < p[l]
      /\ \A s \in S : \E k \in 1..n : p[k] = s
  BY <1>1 DEF Ascends
<1>4. \A k \in 1..n : p[k] \in S /\ p[k] \in Int
  BY <1>3
<1>5. \A k, l \in 1..n : p[k] = p[l] => k = l
  <2> TAKE k, l \in 1..n
  <2> HAVE p[k] = p[l]
  <2>1. ~(k < l) /\ ~(l < k)
    BY <1>3, <1>4
  <2> QED BY <2>1
<1>6. \A k, l \in 1..n : k < l => labels[k].at < labels[l].at
  BY <1>2, <1>3
<1>7. \A k, l \in 1..n : labels[k].at = labels[l].at => k = l
  BY <1>2, <1>5
<1>8. \A s \in S : \E k \in 1..n : labels[k].at = s
  BY <1>2, <1>3
<1>9. \A k \in 1..n : labels[k].at \in S
  BY <1>2, <1>4
<1> QED BY <1>1, <1>6, <1>7, <1>8, <1>9 DEF n

\* The entries of the menu R that are of the lines S of the file c
OursAre(R, S, c) ==
    LET places == Ascending(S)
        mine == Selection(R, {k \in DOMAIN R : R[k].node.at # 0})
    IN  /\ Len(mine) = Len(places)
        /\ \A k \in DOMAIN mine :
             LET want == EntryOf(c, places[k])
             IN  \A f \in DOMAIN want : mine[k].node[f] = want[f]

\* The new entries of the sorted menu have what their labels ask for.
LEMMA OursFit ==
    ASSUME NEW M, NEW W, NEW c, NEW S \in SUBSET (Nat \ {0}), Extends(M, W, S),
           NEW labels, NEW n \in Nat, Len(labels) \in Nat, n - 1 <= Len(labels),
           ItemsOf(M, W, labels, n), NEW A, LabelsAre(c, labels, A)
    PROVE  OursAre(SortByPriority(M), S, c)
<1> DEFINE R == SortByPriority(M)
           places == Ascending(S)
           mine == Selection(R, {k \in DOMAIN R : R[k].node.at # 0})
<1>1. /\ Len(mine) = Len(places) /\ DOMAIN mine = 1..Len(places)
      /\ \A k \in 1..Len(places) : /\ mine[k].node.at = places[k]
                                   /\ \E i \in (Len(W) + 1)..Len(M) : mine[k] = M[i]
  BY SortedOurs, SMTT(40)
<1>2. \A i \in (Len(W) + 1)..Len(M) : \E k \in 1..Len(labels) : M[i].node = labels[k]
  <2>1. \A i \in (Len(W) + 1)..Len(M) :
           \E k \in 1..(n - 1) : M[i].node = labels[k] /\ M[i].name = labels[k].name
    BY DEF ItemsOf
  <2>2. \A k \in 1..(n - 1) : k \in 1..Len(labels)
    OBVIOUS
  <2> QED BY <2>1, <2>2, Zenon
<1>3. \A k \in 1..Len(labels) : Fits(labels[k], EntryOf(c, labels[k].at))
  BY DEF LabelsAre
<1> HIDE DEF R, places, mine
<1>4. \A l, i : Fits(l, EntryOf(c, i)) =>
                   \A f \in DOMAIN EntryOf(c, i) : l[f] = EntryOf(c, i)[f]
  <2>1. \A i : DOMAIN EntryOf(c, i) = {"label", "at", "title", "kernel", "fdt"}
    BY DEF EntryOf
  <2> QED BY <2>1 DEF Fits
<1>5. ASSUME NEW k \in DOMAIN mine
      PROVE  \A f \in DOMAIN EntryOf(c, places[k]) : mine[k].node[f] = EntryOf(c, places[k])[f]
  <2>1. PICK i \in (Len(W) + 1)..Len(M) : mine[k] = M[i]
    BY <1>1
  <2>2. PICK h \in 1..Len(labels) : M[i].node = labels[h]
    BY <1>2
  <2>3. Fits(mine[k].node, EntryOf(c, mine[k].node.at))
    BY <1>3, <2>1, <2>2
  <2>4. mine[k].node.at = places[k]
    BY <1>1
  <2> QED BY <1>4, <2>3, <2>4
<1> QED BY <1>1, <1>5, Zenon DEF OursAre, R, places, mine

\* A label's name finds its entry in the sorted menu.
LEMMA NameFinds ==
    ASSUME NEW M, NEW W, NEW c, NEW S \in SUBSET (Nat \ {0}), Extends(M, W, S),
           NEW labels, LabelsAre(c, labels, S),
           ItemsOf(M, W, labels, Len(labels) + 1), NamesAre(labels, W),
           NEW j \in 1..Len(labels)
    PROVE  LET R == SortByPriority(M)
               k == FindLoader(R, labels[j].name)
           IN  k # 0 /\ R[k].node.at = labels[j].at
<1> DEFINE R == SortByPriority(M)
           k == FindLoader(R, labels[j].name)
           m == Len(W)
           h == Len(M)
           l == Len(labels)
           name == labels[j].name
<1>1. /\ l \in Nat
      /\ \A a \in 1..l : labels[a].at \in S
      /\ \A a, b \in 1..l : labels[a].at = labels[b].at => a = b
  <2>1. S \in SUBSET Int
    OBVIOUS
  <2> QED BY <2>1, PlacesDiffer
<1>2. name # None
  BY DEF LabelsAre
<1>3. /\ IsSequence(R) /\ Len(R) = h /\ DOMAIN R = 1..h
      /\ \A a \in DOMAIN R : \E i \in 1..h : R[a] = M[i]
      /\ \A i \in 1..h : \E a \in DOMAIN R : R[a] = M[i]
  BY SortedUnique
<1>4. /\ k \in 0..Len(R)
      /\ k # 0 => SameText(R[k].name, name)
      /\ k = 0 => \A a \in 1..Len(R) : ~SameText(R[a].name, name)
  <2> HIDE DEF R, name
  <2> QED BY <1>2, <1>3, FindLoaderIs DEF name
<1>5. /\ m \in Nat /\ h \in Nat /\ m <= h
      /\ \A i \in 1..m : M[i] = W[i]
  BY DEF Extends, IsSequence
<1>6. \A s \in S : \E i \in (m + 1)..h : M[i].node.at = s
  <2> HIDE DEF m, h
  <2> QED BY Zenon DEF Extends, m, h
<1>7. \A i \in (m + 1)..h : \E a \in 1..l : M[i].node = labels[a] /\ M[i].name = labels[a].name
  <2>1. (l + 1) - 1 = l
    BY <1>1
  <2> HIDE DEF m, h
  <2> QED BY <2>1 DEF ItemsOf, m, h
<1>8. /\ \A a \in 1..l, i \in 1..m : ~SameText(W[i].name, labels[a].name)
      /\ \A a, b \in 1..l : SameText(labels[a].name, labels[b].name) => a = b
  BY DEF NamesAre
<1>9. \A a : SameText(a, a)
  BY DEF SameText
<1> HIDE DEF R, k, m, h, l
<1>10. PICK i \in (m + 1)..h : M[i].node = labels[j] /\ M[i].name = name
  <2>1. j \in 1..l
    BY DEF l
  <2>2. PICK i \in (m + 1)..h : M[i].node.at = labels[j].at
    BY <1>1, <1>6, <2>1
  <2>3. PICK a \in 1..l : M[i].node = labels[a] /\ M[i].name = labels[a].name
    BY <1>7
  <2>4. a = j
    BY <1>1, <2>1, <2>2, <2>3
  <2> QED BY <2>3, <2>4
<1>11. k # 0 /\ k \in DOMAIN R
  <2>1. i \in 1..h
    BY <1>5
  <2>2. PICK a \in DOMAIN R : R[a] = M[i]
    BY <1>3, <2>1
  <2>3. SameText(R[a].name, name)
    BY <1>9, <1>10, <2>2
  <2>4. k # 0
    BY <1>3, <1>4, <2>2, <2>3
  <2> QED BY <1>3, <1>4, <1>5, <2>4
<1>12. PICK b \in 1..h : R[k] = M[b]
  BY <1>3, <1>11
<1>13. SameText(M[b].name, name)
  BY <1>4, <1>11, <1>12
<1>14. b \in (m + 1)..h
  <2>1. b \notin 1..m
    BY <1>5, <1>8, <1>13 DEF l
  <2> QED BY <1>5, <2>1
<1>15. PICK a \in 1..l : M[b].node = labels[a] /\ M[b].name = labels[a].name
  BY <1>7, <1>14
<1>16. a = j
  BY <1>8, <1>13, <1>15 DEF l
<1> QED BY <1>11, <1>12, <1>15, <1>16 DEF R, k

-----------------------------------------------------------------------------
(* While the file is published *)

\* The lines of the labels, and of those before the n-th
Placed(labels) == {labels[k].at : k \in 1..Len(labels)}
Loaded(labels, n) == {labels[k].at : k \in 1..(n - 1)}

\* The labels of p are those of the file c that have a kernel, except for those of
\* L; the menu W has none of their names.
EntriesReady(c, p, L, W) ==
    /\ IsSequence(c) /\ \A i \in 1..Len(c) : IsLine(c[i])
    /\ IsParser(p) /\ SettingsAre(c, p)
    /\ p.labels # <<>> /\ NamesAre(p.labels, W)
    /\ LabelsAre(c, p.labels, Placed(p.labels))
    /\ Placed(p.labels) \subseteq Bootable(c)
    /\ Placed(p.labels) \ L = Bootable(c) \ L

\* The menu m is the menu m0 with the labels before the n-th, except for those of L.
ItemsInv(m, m0, labels, n, L) ==
    /\ DOMAIN m = {"loaders", "default", "timeout", "disabled", "title"}
    /\ Extends(m.loaders, m0.loaders, Loaded(labels, n) \ L)
    /\ ItemsOf(m.loaders, m0.loaders, labels, n)
    /\ \A k \in n..Len(labels) : labels[k].at \notin L
    /\ m.default = m0.default /\ m.timeout = m0.timeout
    /\ m.disabled = m0.disabled /\ m.title = m0.title

\* The lines of the labels are numbers from 1 on.
LEMMA PlacedIs ==
    ASSUME NEW c, NEW p, NEW L, NEW W, EntriesReady(c, p, L, W)
    PROVE  /\ Placed(p.labels) \in SUBSET (Nat \ {0})
           /\ Len(p.labels) \in Nat
           /\ \A k \in 1..Len(p.labels) : p.labels[k].at \in Nat \ {0}
           /\ \A k, l \in 1..Len(p.labels) : k < l => p.labels[k].at < p.labels[l].at
           /\ \A k, l \in 1..Len(p.labels) : p.labels[k].at = p.labels[l].at => k = l
<1>1. Bootable(c) \in SUBSET (1..Len(c)) /\ Len(c) \in Nat
  BY BootableNow, LabelLineIs DEF EntriesReady
<1>2. Placed(p.labels) \in SUBSET (Nat \ {0})
  <2>1. Placed(p.labels) \subseteq Bootable(c)
    BY DEF EntriesReady
  <2> QED BY <1>1, <2>1
<1>3. Placed(p.labels) \in SUBSET Int /\ LabelsAre(c, p.labels, Placed(p.labels))
  BY <1>2 DEF EntriesReady
<1>4. /\ Len(p.labels) \in Nat
      /\ \A k \in 1..Len(p.labels) : p.labels[k].at \in Placed(p.labels)
      /\ \A k, l \in 1..Len(p.labels) : k < l => p.labels[k].at < p.labels[l].at
      /\ \A k, l \in 1..Len(p.labels) : p.labels[k].at = p.labels[l].at => k = l
  BY <1>3, PlacesDiffer
<1> QED BY <1>2, <1>4

\* The end of the file makes the labels ready.
LEMMA ReadyToPublish ==
    ASSUME NEW c, NEW p, NEW L, ReadInv(c, p, L), p.labels # <<>>, NEW m, IsMenu(m),
           NamesAre(p.labels, m.loaders)
    PROVE  EntriesReady(c, p, L, m.loaders) /\ ItemsInv(m, m, p.labels, 1, L)
<1> DEFINE A == Bootable(c) \ L
           W == m.loaders
<1>1. IsSequence(c) /\ LabelsAre(c, p.labels, A)
  BY DEF ReadInv
<1>2. A \in SUBSET Int
  <2>1. Bootable(c) \in SUBSET (1..Len(c)) /\ Len(c) \in Nat
    BY <1>1, BootableNow, LabelLineIs
  <2> QED BY <2>1
<1> HIDE DEF A, W
<1>3. /\ Len(p.labels) \in Nat
      /\ \A k \in 1..Len(p.labels) : p.labels[k].at \in A
      /\ \A s \in A : \E k \in 1..Len(p.labels) : p.labels[k].at = s
  BY <1>1, <1>2, PlacesDiffer
<1>4. Placed(p.labels) = A
  BY <1>3 DEF Placed
<1>5. A \subseteq Bootable(c) /\ A \ L = Bootable(c) \ L
  BY DEF A
<1>6. EntriesReady(c, p, L, W)
  BY <1>1, <1>4, <1>5 DEF EntriesReady, ReadInv, W
<1>7. Loaded(p.labels, 1) \ L = {}
  BY DEF Loaded
<1>8. /\ IsSequence(W)
      /\ \A k \in 1..Len(W) : W[k].priority \in Int /\ W[k].node.at = 0
      /\ DOMAIN m = {"loaders", "default", "timeout", "disabled", "title"}
  BY DEF IsMenu, IsSequence, W
<1>9. \A i \in (Len(W) + 1)..Len(W) : FALSE
  BY <1>8 DEF IsSequence
<1>10. Extends(W, W, {}) /\ ItemsOf(W, W, p.labels, 1)
  <2>1. Len(W) <= Len(W)
    BY <1>8 DEF IsSequence
  <2>2. Extends(W, W, {})
    BY <1>8, <1>9, <2>1, Zenon DEF Extends
  <2>3. ItemsOf(W, W, p.labels, 1)
    BY <1>9, Zenon DEF ItemsOf
  <2> QED BY <2>2, <2>3
<1>11. \A k \in 1..Len(p.labels) : p.labels[k].at \notin L
  BY <1>3 DEF A
<1>12. ItemsInv(m, m, p.labels, 1, L)
  BY <1>7, <1>8, <1>10, <1>11 DEF ItemsInv, W
<1> QED BY <1>6, <1>12 DEF W

\* embloader_load_loader adds the entry of a label to the menu.
LEMMA LabelLoaded ==
    ASSUME NEW c, NEW p, NEW L, NEW m, NEW m0, EntriesReady(c, p, L, m0.loaders),
           NEW n \in 1..Len(p.labels), ItemsInv(m, m0, p.labels, n, L),
           NEW item, item.priority = Len(m.loaders) + 1, item.node = p.labels[n],
           item.name = p.labels[n].name,
           NEW q, q = [m EXCEPT !.loaders = Append(@, item)]
    PROVE  ItemsInv(q, m0, p.labels, n + 1, L)
<1> DEFINE labels == p.labels
           S == Loaded(labels, n) \ L
           at == labels[n].at
<1>1. /\ Placed(labels) \in SUBSET (Nat \ {0}) /\ Len(labels) \in Nat
      /\ \A k \in 1..Len(labels) : labels[k].at \in Nat \ {0}
      /\ \A k, l \in 1..Len(labels) : k < l => labels[k].at < labels[l].at
  BY PlacedIs
<1>2. /\ DOMAIN m = {"loaders", "default", "timeout", "disabled", "title"}
      /\ Extends(m.loaders, m0.loaders, S)
      /\ ItemsOf(m.loaders, m0.loaders, labels, n)
      /\ \A k \in n..Len(labels) : labels[k].at \notin L
      /\ m.default = m0.default /\ m.timeout = m0.timeout
      /\ m.disabled = m0.disabled /\ m.title = m0.title
  BY DEF ItemsInv
<1>3. /\ DOMAIN q = DOMAIN m /\ q.loaders = Append(m.loaders, item)
      /\ q.default = m.default /\ q.timeout = m.timeout
      /\ q.disabled = m.disabled /\ q.title = m.title
  BY <1>2
<1>4. /\ n \in Nat /\ n \in 1..Len(labels) /\ n \in n..Len(labels)
      /\ \A k \in 1..(n - 1) : k \in 1..Len(labels) /\ k < n
      /\ \A k \in (n + 1)..Len(labels) : k \in n..Len(labels)
      /\ (n + 1) - 1 = n /\ 1..n = (1..(n - 1)) \cup {n}
  BY <1>1
<1>5. /\ item.priority = Len(m.loaders) + 1 /\ item.node = labels[n]
      /\ item.name = labels[n].name
  OBVIOUS
<1> HIDE DEF labels
<1>6. /\ S \in SUBSET (Nat \ {0}) /\ at \in Nat \ {0} /\ at \notin L
      /\ \A s \in S : s < at
  <2>1. \A k \in 1..(n - 1) : labels[k].at \in Nat \ {0} /\ labels[k].at < at
    BY <1>1, <1>4
  <2> QED BY <1>1, <1>2, <1>4, <2>1 DEF Loaded
<1>7. Loaded(labels, n + 1) \ L = S \cup {at}
  <2>1. Loaded(labels, n + 1) = Loaded(labels, n) \cup {at}
    BY <1>4 DEF Loaded
  <2> QED BY <1>6, <2>1
<1> HIDE DEF S
<1>8. /\ Extends(q.loaders, m0.loaders, S \cup {at})
      /\ ItemsOf(q.loaders, m0.loaders, labels, n + 1)
  BY <1>1, <1>2, <1>3, <1>4, <1>5, <1>6, ItemAdded
<1>9. ItemsInv(q, m0, labels, n + 1, L)
  BY <1>2, <1>3, <1>4, <1>7, <1>8 DEF ItemsInv
<1> QED BY <1>9 DEF labels

\* A label that is lost leaves the menu as it is.
LEMMA LabelLost ==
    ASSUME NEW c, NEW p, NEW L, NEW m, NEW m0, EntriesReady(c, p, L, m0.loaders),
           NEW n \in 1..Len(p.labels), ItemsInv(m, m0, p.labels, n, L)
    PROVE  /\ ItemsInv(m, m0, p.labels, n + 1, L \cup {p.labels[n].at})
           /\ EntriesReady(c, p, L \cup {p.labels[n].at}, m0.loaders)
<1> DEFINE labels == p.labels
           S == Loaded(labels, n) \ L
           at == labels[n].at
           U == L \cup {at}
<1>1. /\ Placed(labels) \in SUBSET (Nat \ {0}) /\ Len(labels) \in Nat
      /\ \A k, l \in 1..Len(labels) : labels[k].at = labels[l].at => k = l
  BY PlacedIs
<1>2. /\ Extends(m.loaders, m0.loaders, S)
      /\ ItemsOf(m.loaders, m0.loaders, labels, n)
      /\ \A k \in n..Len(labels) : labels[k].at \notin L
  BY DEF ItemsInv
<1>3. /\ n \in 1..Len(labels)
      /\ \A k \in 1..(n - 1) : k \in 1..Len(labels) /\ k # n /\ k \in 1..((n + 1) - 1)
      /\ \A k \in (n + 1)..Len(labels) : k \in n..Len(labels) /\ k \in 1..Len(labels) /\ k # n
      /\ (n + 1) - 1 = n /\ 1..n = (1..(n - 1)) \cup {n}
  BY <1>1
<1>4. EntriesReady(c, p, U, m0.loaders)
  <2>1. Placed(labels) \ U = Bootable(c) \ U
    <3>1. Placed(labels) \ L = Bootable(c) \ L
      BY DEF EntriesReady
    <3> QED BY <3>1
  <2> HIDE DEF U
  <2> QED BY <2>1 DEF EntriesReady
<1> HIDE DEF labels
<1>5. Loaded(labels, n + 1) \ U = S
  <2>1. Loaded(labels, n + 1) = Loaded(labels, n) \cup {at}
    BY <1>3 DEF Loaded
  <2>2. at \notin Loaded(labels, n)
    BY <1>1, <1>3 DEF Loaded
  <2> QED BY <2>1, <2>2
<1>6. ItemsOf(m.loaders, m0.loaders, labels, n + 1)
  BY <1>2, <1>3, Zenon DEF ItemsOf
<1>7. \A k \in (n + 1)..Len(labels) : labels[k].at \notin U
  BY <1>1, <1>2, <1>3
<1> HIDE DEF U, S
<1>8. ItemsInv(m, m0, labels, n + 1, U)
  <2>1. ItemsInv(m, m0, labels, n, L)
    BY DEF labels
  <2> QED BY <1>2, <1>5, <1>6, <1>7, <2>1 DEF ItemsInv
<1> QED BY <1>4, <1>8 DEF labels, U

-----------------------------------------------------------------------------
(* The whole file *)

\* Nothing is read yet.
LEMMA NothingRead == FileInv(<<>>, NoParser, {})
<1> DEFINE c == <<>>
<1>1. IsSequence(c) /\ Len(c) = 0 /\ DOMAIN c = {} /\ IsSequence(NoParser.labels)
  BY DEF IsSequence, NoParser
<1>2. \A K : LastLine(c, DOMAIN c, K) = 0
  <2> TAKE K
  <2>1. LastLine(c, DOMAIN c, K) \in 0..Len(c)
    BY <1>1, LastOfFile
  <2> QED BY <1>1, <2>1
<1>3. LabelLine(c) = 0 /\ Ready(c) = {}
  <2>1. LabelLine(c) \in 0..Len(c) /\ Bootable(c) \in SUBSET (1..Len(c))
    BY <1>1, LabelLineIs, BootableNow
  <2> QED BY <1>1, <2>1 DEF Ready
<1> HIDE DEF c
<1>4. SettingsAre(c, NoParser)
  <2>1. DefaultText(c) = None
    BY <1>2 DEF DefaultText, ValueAt
  <2> QED BY <1>2, <2>1, Zenon DEF SettingsAre, ValueAt, NoParser
<1>5. CurrentIs(c, NoParser)
  BY <1>3 DEF CurrentIs, NoParser, NoLabel
<1>6. LabelsAre(c, NoParser.labels, {})
  <2>1. NoParser.labels = <<>> /\ Len(NoParser.labels) = 0
    BY DEF NoParser
  <2> QED BY <1>1, <2>1 DEF LabelsAre, Ascends, Places
<1>7. IsParser(NoParser)
  BY DEF IsParser, NoParser, NoLabel
<1>8. Ready(c) \ {} = {}
  BY <1>3
<1>9. /\ \A i \in 1..Len(c) : IsLine(c[i])
      /\ {} \subseteq Ready(c)
  BY <1>1
<1>10. FileInv(c, NoParser, {})
  BY <1>1, <1>4, <1>5, <1>6, <1>7, <1>8, <1>9, Zenon DEF FileInv
<1> QED BY <1>10 DEF c

\* What a published file has put into the menu M, in place of W
EntriesIn(M, W, c, L) ==
    /\ OursAre(M, Bootable(c) \ L, c)
    /\ Selection(M, {k \in DOMAIN M : ~(M[k].node.at # 0)}) = SortByPriority(W)

\* The default of the menu m is that of the file c.
DefaultIn(m, c) ==
    LET k == FindLoader(m.loaders, m.default)
    IN  /\ k # 0
        /\ m.loaders[k].node.at = Ascending(Bootable(c))[DefaultPlace(c)]

\* The settings of the menu m are those of the file c, those of w where the file
\* has none or the configuration f fixes them.
SettingsIn(m, w, c, f) ==
    LET tenths == LastLine(c, DOMAIN c, {"TIMEOUT"})
        prompt == LastLine(c, DOMAIN c, {"PROMPT", "MENU HIDDEN"})
        title == ValueAt(c, LastLine(c, DOMAIN c, {"MENU TITLE"}))
    IN  /\ IF tenths = 0 \/ f.hasTimeout THEN m.timeout = w.timeout
           ELSE c[tenths].value >= 0 =>
                  /\ \/ 10 * m.timeout >= c[tenths].value
                     \/ m.timeout = INT_MAX
                  /\ 10 * (m.timeout - 1) < c[tenths].value
        /\ m.disabled = IF prompt = 0 THEN w.disabled
                        ELSE ~(c[prompt].key = "PROMPT" /\ c[prompt].value = "1")
        /\ m.title = IF title = None \/ f.hasTitle THEN w.title ELSE title
        /\ f.hasDefault => m.default = w.default

\* The control state and the cursors
ControlInv ==
    /\ input \in Inputs
    /\ pc \in {"start", "open", "parse", "publish", "load", "done"}
    /\ path \in 1..3
    /\ IsSequence(content) /\ Len(content) <= MaxLines
    /\ IsParser(parser) /\ IsSequence(parser.labels)
    /\ next \in 1..(Len(parser.labels) + 1)
    /\ menu.timeout \in (-INT_MAX - 1)..INT_MAX /\ menu.disabled \in BOOLEAN

\* What each phase of the call knows
PhaseInv ==
    /\ pc \in {"start", "open"} =>
         content = <<>> /\ parser = NoParser /\ lost = {} /\ status # "SUCCESS"
    /\ pc \in {"start", "open", "parse", "publish"} => menu = menu0 /\ next = 1
    /\ pc = "parse" =>
         FileInv(content, parser, lost) /\ NamesAre(parser.labels, menu0.loaders)
    /\ pc \in {"publish", "load"} =>
         /\ EntriesReady(content, parser, lost, menu0.loaders)
         /\ ItemsInv(menu, menu0, parser.labels, next, lost)
    /\ pc = "done" /\ status # "SUCCESS" => menu = menu0
    /\ pc = "done" /\ status = "SUCCESS" =>
         /\ EntriesIn(menu.loaders, menu0.loaders, content, lost)
         /\ SettingsIn(menu, menu0, content, cfg)
         /\ ~cfg.hasDefault /\ lost = {} => DefaultIn(menu, content)
         /\ UniqueIn(menu0.loaders) => UniqueIn(menu.loaders)

\* The properties are what the phases know.
LEMMA PhasesMatch ==
    ASSUME ControlInv, PhaseInv
    PROVE  MenuMatchesFile /\ DefaultBoots
<1>1. TypeOK
  BY DEF ControlInv, TypeOK, IsParser
<1>2. EntriesMatchFile
  BY DEF PhaseInv, EntriesMatchFile, EntriesIn, OursAre
<1>3. SettingsFollowFile
  BY DEF PhaseInv, SettingsFollowFile, SettingsIn
<1>4. DefaultFound
  BY DEF PhaseInv, DefaultFound, DefaultIn
<1>5. UniqueNames
  <2>1. CASE menu = menu0
    BY <2>1 DEF UniqueNames
  <2>2. CASE pc = "load"
    <3>1. EntriesReady(content, parser, lost, menu0.loaders) /\ ItemsInv(menu, menu0, parser.labels, next, lost)
      BY <2>2 DEF PhaseInv
    <3>2. /\ Placed(parser.labels) \in SUBSET (Nat \ {0}) /\ Len(parser.labels) \in Nat
          /\ NamesAre(parser.labels, menu0.loaders)
      BY <3>1, PlacedIs DEF EntriesReady
    <3>3. next \in Nat /\ next - 1 <= Len(parser.labels)
      BY <3>2 DEF ControlInv
    <3>4. /\ Extends(menu.loaders, menu0.loaders, Loaded(parser.labels, next) \ lost)
          /\ ItemsOf(menu.loaders, menu0.loaders, parser.labels, next)
      BY <3>1 DEF ItemsInv
    <3>5. Loaded(parser.labels, next) \ lost \in SUBSET (Nat \ {0})
      BY <3>2, <3>3 DEF Loaded, Placed
    <3>6. UniqueIn(menu0.loaders) => UniqueIn(menu.loaders)
      BY <3>2, <3>3, <3>4, <3>5, ItemsUnique
    <3> QED BY <3>6 DEF UniqueNames, UniqueIn
  <2>3. CASE pc = "done" /\ status = "SUCCESS"
    <3>1. UniqueIn(menu0.loaders) => UniqueIn(menu.loaders)
      BY <2>3 DEF PhaseInv
    <3> QED BY <3>1 DEF UniqueNames, UniqueIn
  <2> QED BY <2>1, <2>2, <2>3 DEF ControlInv, PhaseInv
<1> QED BY <1>1, <1>2, <1>3, <1>4, <1>5 DEF MenuMatchesFile, DefaultBoots

\* What is in the menu before the final sort
Loading ==
    /\ EntriesReady(content, parser, lost, menu0.loaders)
    /\ ItemsInv(menu, menu0, parser.labels, Len(parser.labels) + 1, lost)

\* Sorting keeps the entries of the file.
LEMMA LoadedEntries ==
    ASSUME Loading
    PROVE  LET R == SortByPriority(menu.loaders)
           IN  /\ EntriesIn(R, menu0.loaders, content, lost)
               /\ UniqueIn(menu0.loaders) => UniqueIn(R)
               /\ lost = {} /\ parser.labels # <<>> =>
                    \A j \in 1..Len(parser.labels) :
                       LET k == FindLoader(R, parser.labels[j].name)
                       IN  k # 0 /\ R[k].node.at = parser.labels[j].at
<1> DEFINE labels == parser.labels
           W == menu0.loaders
           M == menu.loaders
           R == SortByPriority(M)
           n == Len(labels) + 1
           P == Placed(labels)
           S == Bootable(content) \ lost
<1>1. /\ P \in SUBSET (Nat \ {0}) /\ Len(labels) \in Nat
      /\ NamesAre(labels, W) /\ LabelsAre(content, labels, P)
      /\ P \ lost = S
  BY PlacedIs DEF Loading, EntriesReady
<1>2. Extends(M, W, Loaded(labels, n) \ lost) /\ ItemsOf(M, W, labels, n)
  BY DEF Loading, ItemsInv
<1> HIDE DEF labels, W, M, S, P
<1>3. n \in Nat /\ n - 1 <= Len(labels) /\ n - 1 = Len(labels)
  BY <1>1
<1>4. Loaded(labels, n) \ lost = S
  <2>1. Loaded(labels, n) = P
    BY <1>3 DEF Loaded, Placed, P
  <2> QED BY <1>1, <2>1
<1>5. S \in SUBSET (Nat \ {0}) /\ Extends(M, W, S)
  BY <1>1, <1>2, <1>4
<1>6. EntriesIn(R, W, content, lost)
  <2>1. OursAre(R, S, content)
    <3> HIDE DEF n
    <3> QED BY <1>1, <1>2, <1>3, <1>5, OursFit
  <2>2. Selection(R, {k \in DOMAIN R : ~(R[k].node.at # 0)}) = SortByPriority(W)
    BY <1>5, SortedOthers
  <2> QED BY <2>1, <2>2 DEF EntriesIn, S
<1>7. UniqueIn(W) => UniqueIn(R)
  <2>1. UniqueIn(W) => UniqueIn(M)
    <3> HIDE DEF n
    <3> QED BY <1>1, <1>2, <1>3, <1>5, ItemsUnique
  <2>2. UniqueIn(M) => UniqueIn(R)
    BY <1>5, SortedUnique
  <2> QED BY <2>1, <2>2
<1>8. ASSUME lost = {}, NEW j \in 1..Len(labels)
      PROVE  LET k == FindLoader(R, labels[j].name)
             IN  k # 0 /\ R[k].node.at = labels[j].at
  <2>1. S = P
    BY <1>1, <1>8
  <2>2. LabelsAre(content, labels, S) /\ ItemsOf(M, W, labels, Len(labels) + 1)
    BY <1>1, <1>2, <2>1
  <2> QED BY <1>1, <1>5, <2>2, NameFinds
<1> QED BY <1>6, <1>7, <1>8 DEF labels, W, M, R

\* The default is found by its name.
LEMMA LoadedDefault ==
    ASSUME Loading, lost = {}
    PROVE  LET R == SortByPriority(menu.loaders)
               k == FindLoader(R, DefaultName)
           IN  k # 0 /\ R[k].node.at = Ascending(Bootable(content))[DefaultPlace(content)]
<1> DEFINE labels == parser.labels
           j == DefaultPlace(content)
<1>1. /\ IsSequence(content) /\ SettingsAre(content, parser) /\ labels # <<>>
      /\ LabelsAre(content, labels, Bootable(content))
  <2>1. Placed(labels) \ {} = Bootable(content) \ {}
    BY DEF Loading, EntriesReady
  <2>2. Placed(labels) = Bootable(content)
    BY <2>1
  <2> QED BY <2>2 DEF Loading, EntriesReady
<1>2. j \in 1..Len(labels) /\ DefaultName = labels[j].name
  BY <1>1, DefaultNameIs
<1>3. Ascending(Bootable(content)) = Places(labels)
  <2>1. Ascending(Bootable(content)) = Places(labels)
    BY <1>1, FindNameIs
  <2> QED BY <2>1
<1>4. Places(labels)[j] = labels[j].at
  BY <1>2 DEF Places
<1>5. LET R == SortByPriority(menu.loaders)
          k == FindLoader(R, labels[j].name)
      IN  k # 0 /\ R[k].node.at = labels[j].at
  BY <1>1, <1>2, LoadedEntries
<1> QED BY <1>2, <1>3, <1>4, <1>5

\* The settings are those of the file.
LEMMA LoadedSettings ==
    ASSUME Loading, menu.timeout \in (-INT_MAX - 1)..INT_MAX, menu.disabled \in BOOLEAN,
           NEW m, m.timeout = IF cfg.hasTimeout \/ parser.timeout = None
                              THEN menu.timeout ELSE parser.timeout,
           m.disabled = IF parser.prompt = None THEN menu.disabled ELSE ~parser.prompt,
           m.title = IF cfg.hasTitle \/ parser.title = None THEN menu.title ELSE parser.title,
           m.default = IF cfg.hasDefault THEN menu.default ELSE DefaultName
    PROVE  /\ SettingsIn(m, menu0, content, cfg)
           /\ m.timeout \in (-INT_MAX - 1)..INT_MAX /\ m.disabled \in BOOLEAN
<1> DEFINE i == LastLine(content, DOMAIN content, {"TIMEOUT"})
           j == LastLine(content, DOMAIN content, {"PROMPT", "MENU HIDDEN"})
           t == ValueAt(content, LastLine(content, DOMAIN content, {"MENU TITLE"}))
           on == content[j].key = "PROMPT" /\ content[j].value = "1"
<1>1. /\ IsSequence(content) /\ \A k \in 1..Len(content) : IsLine(content[k])
      /\ SettingsAre(content, parser)
      /\ menu.default = menu0.default /\ menu.timeout = menu0.timeout
      /\ menu.disabled = menu0.disabled /\ menu.title = menu0.title
  BY DEF Loading, EntriesReady, ItemsInv
<1>2. /\ parser.timeout = None <=> i = 0
      /\ i # 0 =>
           /\ parser.timeout \in 0..INT_MAX /\ content[i].value \in Int
           /\ content[i].value >= 0 =>
                /\ 10 * parser.timeout >= content[i].value \/ parser.timeout = INT_MAX
                /\ 10 * (parser.timeout - 1) < content[i].value
      /\ parser.prompt = None <=> j = 0
      /\ j # 0 => parser.prompt = on
  BY <1>1, SettingsRead
<1>3. parser.title = t
  BY <1>1 DEF SettingsAre
<1>4. on \in BOOLEAN
  OBVIOUS
<1> HIDE DEF i, j, t, on
<1>5. /\ IF i = 0 \/ cfg.hasTimeout THEN m.timeout = menu0.timeout
         ELSE content[i].value >= 0 =>
                /\ \/ 10 * m.timeout >= content[i].value
                   \/ m.timeout = INT_MAX
                /\ 10 * (m.timeout - 1) < content[i].value
  <2>1. CASE i = 0 \/ cfg.hasTimeout
    BY <1>1, <1>2, <2>1
  <2>2. CASE i # 0 /\ ~cfg.hasTimeout
    <3>1. m.timeout = parser.timeout
      BY <1>2, <2>2
    <3> QED BY <1>2, <2>2, <3>1
  <2> QED BY <2>1, <2>2
<1>6. m.disabled = IF j = 0 THEN menu0.disabled ELSE ~on
  BY <1>1, <1>2, Zenon
<1>7. m.title = IF t = None \/ cfg.hasTitle THEN menu0.title ELSE t
  BY <1>1, <1>3, Zenon
<1>8. cfg.hasDefault => m.default = menu0.default
  BY <1>1
<1>9. m.timeout \in (-INT_MAX - 1)..INT_MAX
  <2>1. \A k \in 0..INT_MAX : k \in (-INT_MAX - 1)..INT_MAX
    BY WidthAssumption
  <2>2. parser.timeout # None => parser.timeout \in 0..INT_MAX
    BY <1>2
  <2>3. m.timeout = menu.timeout \/ (m.timeout = parser.timeout /\ parser.timeout # None)
    BY Zenon
  <2> QED BY <2>1, <2>2, <2>3, Zenon
<1>10. m.disabled \in BOOLEAN
  <2>1. CASE j = 0
    BY <1>2, <2>1, Zenon
  <2>2. CASE j # 0
    <3>1. m.disabled = ~on
      BY <1>6, <2>2, Zenon
    <3> QED BY <1>4, <3>1, Zenon
  <2> QED BY <2>1, <2>2
<1> QED BY <1>5, <1>6, <1>7, <1>8, <1>9, <1>10, Zenon DEF SettingsIn, i, j, t, on

-----------------------------------------------------------------------------
(* The steps *)

\* What embloader_extlinux_load_menu may find
LEMMA InputIs ==
    ASSUME input \in Inputs
    PROVE  /\ MaxLines \in Nat /\ "SUCCESS" \notin Faults /\ IsMenu(menu0)
           /\ IsSequence(menu0.loaders)
           /\ menu0.timeout \in (-INT_MAX - 1)..INT_MAX /\ menu0.disabled \in BOOLEAN
           /\ \A line \in Lines : IsLine(line)
           /\ 2..(MaxLines + Len(menu0.loaders) + 2) \subseteq DOMAIN Numeral
<1>1. MaxLines \in Nat /\ "SUCCESS" \notin Faults /\ IsMenu(menu0) /\ \A line \in Lines : IsLine(line)
  BY InputAssumption DEF MaxLines, Faults, menu0, Lines
<1>2. 2..(MaxLines + Len(menu0.loaders) + 2) \subseteq DOMAIN Numeral
  BY NumeralAssumption DEF MaxLines, menu0
<1> QED BY <1>1, <1>2 DEF IsMenu

\* A line finds enough numbers for a new name.
LEMMA LineFinds ==
    ASSUME ControlInv, PhaseInv, pc = "parse"
    PROVE  Reading /\ menu = menu0 /\ next = 1
<1>1. /\ menu = menu0 /\ next = 1
      /\ FileInv(content, parser, lost) /\ NamesAre(parser.labels, menu.loaders)
  BY DEF PhaseInv
<1>2. /\ MaxLines \in Nat /\ IsSequence(menu.loaders)
      /\ 2..(MaxLines + Len(menu.loaders) + 2) \subseteq DOMAIN Numeral
  BY <1>1, InputIs DEF ControlInv
<1>3. /\ IsSequence(content) /\ Len(content) \in Nat /\ Len(content) <= MaxLines
  BY DEF ControlInv, IsSequence
<1>4. Len(parser.labels) \in Nat /\ Len(parser.labels) <= Len(content)
  <2>1. Ready(content) \ lost \in SUBSET (1..Len(content))
    <3>1. Bootable(content) \in SUBSET (1..Len(content))
      BY <1>3, BootableNow
    <3> QED BY <3>1 DEF Ready
  <2>2. LabelsAre(content, parser.labels, Ready(content) \ lost)
    BY <1>1 DEF FileInv
  <2> DEFINE S == Ready(content) \ lost
  <2> HIDE DEF S
  <2>3. S \in SUBSET (1..Len(content)) /\ LabelsAre(content, parser.labels, S)
    BY <2>1, <2>2 DEF S
  <2> QED BY <1>3, <2>3, LabelsFew
<1>5. NumbersFor(parser.labels, menu.loaders)
  <2>1. Len(menu.loaders) \in Nat
    BY <1>2 DEF IsSequence
  <2>2. \A k \in 2..(Len(parser.labels) + Len(menu.loaders) + 2) :
           k \in 2..(MaxLines + Len(menu.loaders) + 2)
    <3>1. \A a, b, n, m \in Nat : a <= n /\ n <= m =>
             \A k \in 2..(a + b + 2) : k \in 2..(m + b + 2)
      OBVIOUS
    <3>2. MaxLines \in Nat
      BY <1>2
    <3> QED BY <1>3, <1>4, <2>1, <3>1, <3>2
  <2> QED BY <1>2, <2>2 DEF NumbersFor
<1> QED BY <1>1, <1>2, <1>5 DEF Reading

\* Every session starts in the invariant.
LEMMA PhasesInit == Init => ControlInv /\ PhaseInv
<1> SUFFICES ASSUME Init PROVE ControlInv /\ PhaseInv
  OBVIOUS
<1>1. input \in Inputs /\ menu = menu0 /\ pc = "start" /\ status = "NOT_FOUND" /\ path = 1
      /\ parser = NoParser /\ content = <<>> /\ next = 1 /\ lost = {}
  BY DEF Init
<1>2. /\ MaxLines \in Nat
      /\ menu0.timeout \in (-INT_MAX - 1)..INT_MAX /\ menu0.disabled \in BOOLEAN
  BY <1>1, InputIs
<1>3. /\ IsParser(NoParser) /\ IsSequence(NoParser.labels) /\ Len(NoParser.labels) = 0
      /\ IsSequence(<<>>) /\ Len(<<>>) = 0
  BY DEF IsParser, NoParser, NoLabel, IsSequence
<1>4. ControlInv
  BY <1>1, <1>2, <1>3 DEF ControlInv
<1>5. PhaseInv
  BY <1>1 DEF PhaseInv
<1> QED BY <1>4, <1>5

\* The steps that read no line and load no entry
LEMMA OpeningSteps ==
    ASSUME ControlInv, PhaseInv, Start \/ SkipPath \/ OpenPath \/ NoPath \/ Publish
    PROVE  ControlInv' /\ PhaseInv'
<1>1. /\ input' = input /\ menu' = menu /\ parser' = parser /\ content' = content
      /\ next' = next /\ lost' = lost
  BY DEF Start, SkipPath, OpenPath, NoPath, Publish
<1>2. /\ pc' \in {"start", "open", "parse", "publish", "load", "done"}
      /\ path' \in 1..3
  BY DEF ControlInv, Start, SkipPath, OpenPath, NoPath, Publish, Return, Goto, Paths
<1>3. ControlInv'
  BY <1>1, <1>2 DEF ControlInv, MaxLines, IsSequence, IsParser
<1>4. menu0' = menu0 /\ cfg' = cfg
  BY <1>1 DEF menu0, cfg
<1>5. CASE Start \/ SkipPath \/ NoPath
  <2>1. /\ pc \in {"start", "open"} /\ pc' \in {"open", "done"}
        /\ status' # "SUCCESS"
    <3>1. "SUCCESS" \notin Faults
      BY InputIs DEF ControlInv
    <3>2. pc \in {"start", "open"} => status # "SUCCESS"
      BY DEF PhaseInv
    <3> QED BY <1>5, <3>1, <3>2 DEF Start, SkipPath, NoPath, Return, Goto
  <2>2. content = <<>> /\ parser = NoParser /\ lost = {} /\ menu = menu0 /\ next = 1
    BY <2>1 DEF PhaseInv
  <2> QED BY <1>1, <1>3, <1>4, <2>1, <2>2 DEF PhaseInv
<1>6. CASE OpenPath
  <2>1. pc = "open" /\ pc' = "parse"
    BY <1>6 DEF OpenPath
  <2>2. content = <<>> /\ parser = NoParser /\ lost = {} /\ menu = menu0 /\ next = 1
    BY <2>1 DEF PhaseInv
  <2>3. FileInv(content, parser, lost)
    BY <2>2, NothingRead
  <2>4. NamesAre(parser.labels, menu0.loaders)
    <3>1. Len(parser.labels) = 0
      BY <2>2 DEF NoParser
    <3> QED BY <3>1 DEF NamesAre
  <2> QED BY <1>1, <1>3, <1>4, <2>1, <2>2, <2>3, <2>4 DEF PhaseInv
<1>7. CASE Publish
  <2>1. pc = "publish" /\ (pc' = "load" \/ (pc' = "done" /\ status' # "SUCCESS"))
    BY <1>7 DEF Publish, Return, Goto
  <2>2. /\ menu = menu0 /\ next = 1
        /\ EntriesReady(content, parser, lost, menu0.loaders)
        /\ ItemsInv(menu, menu0, parser.labels, next, lost)
    BY <2>1 DEF PhaseInv
  <2> QED BY <1>1, <1>3, <1>4, <2>1, <2>2 DEF PhaseInv
<1> QED BY <1>5, <1>6, <1>7

\* A line keeps what the parser knows.
LEMMA ParseStep ==
    ASSUME ControlInv, PhaseInv, NEW line \in Lines, ParseNext(line)
    PROVE  ControlInv' /\ PhaseInv'
<1>1. /\ pc = "parse" /\ Len(content) < MaxLines /\ content' = Append(content, line)
      /\ input' = input /\ menu' = menu /\ path' = path /\ next' = next
      /\ menu0' = menu0 /\ cfg' = cfg /\ MaxLines' = MaxLines
  BY DEF ParseNext, menu0, cfg, MaxLines
<1>2. Reading /\ menu = menu0 /\ next = 1 /\ IsLine(line) /\ MaxLines \in Nat
  BY <1>1, LineFinds, InputIs DEF ControlInv
<1>3. IsSequence(content') /\ Len(content') = Len(content) + 1 /\ Len(content') <= MaxLines
  <2>1. IsSequence(content) /\ Len(content) \in Nat
    BY DEF ControlInv, IsSequence
  <2>2. IsSequence(Append(content, line)) /\ Len(Append(content, line)) = Len(content) + 1
    BY <2>1, Appended
  <2> QED BY <1>1, <1>2, <2>1, <2>2
<1>4. CASE /\ pc' = "parse" /\ FileInv(content', parser', lost')
           /\ NamesAre(parser'.labels, menu0.loaders)
  <2>1. IsParser(parser') /\ IsSequence(parser'.labels)
    BY <1>4 DEF FileInv, LabelsAre
  <2>2. next' \in 1..(Len(parser'.labels) + 1)
    BY <1>1, <1>2, <2>1 DEF IsSequence
  <2>3. ControlInv'
    BY <1>1, <1>3, <1>4, <2>1, <2>2 DEF ControlInv
  <2> QED BY <1>1, <1>2, <1>4, <2>3 DEF PhaseInv
<1>5. CASE ParseLine(parser, line).ok /\ Goto("parse")
           /\ parser' = ParseLine(parser, line).parser /\ UNCHANGED lost
  <2>1. /\ FileInv(Append(content, line), ParseLine(parser, line).parser, lost)
        /\ NamesAre(ParseLine(parser, line).parser.labels, menu.loaders)
    BY <1>2, <1>5, LineRead
  <2> QED BY <1>1, <1>2, <1>4, <1>5, <2>1 DEF Goto
<1>6. CASE /\ line.key = "LABEL" /\ line.value # None /\ DropLabel
           /\ parser' = ParseLine(Unlabelled, line).parser /\ Goto("parse")
  <2>1. /\ FileInv(Append(content, line), ParseLine(Unlabelled, line).parser,
                   lost \cup {parser.current.at})
        /\ NamesAre(ParseLine(Unlabelled, line).parser.labels, menu.loaders)
    BY <1>2, <1>6, LineDropped DEF DropLabel
  <2>2. lost' = lost \cup {parser.current.at}
    BY <1>6 DEF DropLabel
  <2> QED BY <1>1, <1>2, <1>4, <1>6, <2>1, <2>2 DEF Goto
<1>7. CASE Return("LOAD_ERROR") /\ UNCHANGED <<parser, lost>>
  <2>1. pc' = "done" /\ status' # "SUCCESS" /\ parser' = parser
    BY <1>7 DEF Return
  <2>2. ControlInv'
    BY <1>1, <1>3, <2>1 DEF ControlInv
  <2> QED BY <1>1, <1>2, <2>1, <2>2 DEF PhaseInv
<1> QED BY <1>5, <1>6, <1>7 DEF ParseNext

\* The end of the file makes the labels ready, and the first one next.
LEMMA EndStep ==
    ASSUME ControlInv, PhaseInv, EndOfFile
    PROVE  ControlInv' /\ PhaseInv'
<1>1. /\ pc = "parse" /\ content' = content
      /\ input' = input /\ menu' = menu /\ path' = path /\ next' = next
      /\ menu0' = menu0 /\ cfg' = cfg /\ MaxLines' = MaxLines
  BY DEF EndOfFile, menu0, cfg, MaxLines
<1>2. Reading /\ menu = menu0 /\ next = 1 /\ IsMenu(menu0)
  BY <1>1, LineFinds, InputIs DEF ControlInv
<1>3. CASE Return("LOAD_ERROR") /\ UNCHANGED <<parser, lost>>
  <2>1. pc' = "done" /\ status' # "SUCCESS" /\ parser' = parser
    BY <1>3 DEF Return
  <2>2. ControlInv'
    BY <1>1, <2>1 DEF ControlInv
  <2> QED BY <1>1, <1>2, <2>1, <2>2 DEF PhaseInv
<1>4. CASE /\ \/ parser' = FinishLabel(parser) /\ UNCHANGED lost
              \/ DropLabel /\ parser' = Unlabelled
           /\ IF parser'.labels = <<>> THEN Return("NOT_FOUND") ELSE Goto("publish")
  <2>1. ReadInv(content, parser', lost') /\ NamesAre(parser'.labels, menu0.loaders)
    <3>1. CASE parser' = FinishLabel(parser) /\ UNCHANGED lost
      BY <1>2, <3>1, FileRead
    <3>2. CASE DropLabel /\ parser' = Unlabelled
      <4>1. InLabel(parser) /\ parser.current.kernel # None /\ lost' = lost \cup {parser.current.at}
        BY <3>2 DEF DropLabel
      <4> QED BY <1>2, <3>2, <4>1, FileRead
    <3> QED BY <1>4, <3>1, <3>2
  <2>2. IsParser(parser') /\ IsSequence(parser'.labels)
    BY <2>1 DEF ReadInv, LabelsAre
  <2>3. next' \in 1..(Len(parser'.labels) + 1)
    BY <1>1, <1>2, <2>2 DEF IsSequence
  <2>4. pc' = "publish" \/ (pc' = "done" /\ status' # "SUCCESS")
    BY <1>4 DEF Return, Goto
  <2>5. ControlInv'
    BY <1>1, <2>2, <2>3, <2>4 DEF ControlInv
  <2>6. CASE pc' = "publish"
    <3>1. parser'.labels # <<>>
      BY <1>4, <2>6 DEF Return
    <3>2. /\ EntriesReady(content, parser', lost', menu0.loaders)
          /\ ItemsInv(menu0, menu0, parser'.labels, 1, lost')
      BY <1>2, <2>1, <3>1, ReadyToPublish
    <3> QED BY <1>1, <1>2, <2>5, <2>6, <3>2 DEF PhaseInv
  <2>7. CASE pc' = "done" /\ status' # "SUCCESS"
    BY <1>1, <1>2, <2>5, <2>7 DEF PhaseInv
  <2> QED BY <2>4, <2>6, <2>7
<1> QED BY <1>3, <1>4 DEF EndOfFile

\* The entry of one label more
LEMMA LoadStep ==
    ASSUME ControlInv, PhaseInv, LoadLoader
    PROVE  ControlInv' /\ PhaseInv'
<1> DEFINE l == parser.labels[next]
           item == [name |-> l.name, title |-> l.title, priority |-> Len(menu.loaders) + 1,
                    node |-> l]
<1>1. /\ pc = "load" /\ next <= Len(parser.labels) /\ next' = next + 1
      /\ input' = input /\ pc' = pc /\ status' = status /\ path' = path /\ parser' = parser
      /\ content' = content /\ menu0' = menu0 /\ cfg' = cfg /\ MaxLines' = MaxLines
  BY DEF LoadLoader, menu0, cfg, MaxLines
<1>2. /\ EntriesReady(content, parser, lost, menu0.loaders)
      /\ ItemsInv(menu, menu0, parser.labels, next, lost)
  BY <1>1 DEF PhaseInv
<1>3. next \in 1..Len(parser.labels) /\ next' \in 1..(Len(parser.labels) + 1)
  BY <1>1 DEF ControlInv, IsSequence
<1>4. /\ item.priority = Len(menu.loaders) + 1 /\ item.node = l /\ item.name = l.name
  OBVIOUS
<1>5. \/ menu' = [menu EXCEPT !.loaders = Append(@, item)] /\ lost' = lost
      \/ lost' = lost \cup {l.at} /\ menu' = menu
  BY DEF LoadLoader
<1> HIDE DEF item
<1>6. /\ EntriesReady(content, parser, lost', menu0.loaders)
      /\ ItemsInv(menu', menu0, parser.labels, next + 1, lost')
  <2>1. CASE menu' = [menu EXCEPT !.loaders = Append(@, item)] /\ lost' = lost
    <3>1. ItemsInv(menu', menu0, parser.labels, next + 1, lost)
      BY <1>2, <1>3, <1>4, <2>1, LabelLoaded
    <3> QED BY <1>2, <2>1, <3>1
  <2>2. CASE lost' = lost \cup {l.at} /\ menu' = menu
    BY <1>2, <1>3, <2>2, LabelLost
  <2> QED BY <1>5, <2>1, <2>2
<1>7. menu'.timeout = menu.timeout /\ menu'.disabled = menu.disabled
  BY <1>2, <1>6 DEF ItemsInv
<1>8. ControlInv'
  BY <1>1, <1>3, <1>7 DEF ControlInv
<1>9. PhaseInv'
  BY <1>1, <1>6 DEF PhaseInv
<1> QED BY <1>8, <1>9

\* The settings and the final sort
LEMMA FinishStep ==
    ASSUME ControlInv, PhaseInv, Finish
    PROVE  ControlInv' /\ PhaseInv'
<1>1. /\ pc = "load" /\ next > Len(parser.labels) /\ next' = next /\ pc' = "done"
      /\ status' = "SUCCESS" /\ input' = input /\ path' = path /\ parser' = parser
      /\ content' = content /\ lost' = lost
      /\ menu0' = menu0 /\ cfg' = cfg /\ MaxLines' = MaxLines
  BY DEF Finish, Return, menu0, cfg, MaxLines
<1>2. next = Len(parser.labels) + 1
  BY <1>1 DEF ControlInv, IsSequence
<1>3. Loading
  BY <1>1, <1>2 DEF PhaseInv, Loading
<1>4. /\ menu'.loaders = SortByPriority(menu.loaders)
      /\ menu'.default = IF cfg.hasDefault THEN menu.default ELSE DefaultName
      /\ menu'.timeout = IF cfg.hasTimeout \/ parser.timeout = None
                         THEN menu.timeout ELSE parser.timeout
      /\ menu'.disabled = IF parser.prompt = None THEN menu.disabled ELSE ~parser.prompt
      /\ menu'.title = IF cfg.hasTitle \/ parser.title = None
                       THEN menu.title ELSE parser.title
  <2> HIDE DEF DefaultName
  <2> QED BY Zenon DEF Finish
<1>5. /\ EntriesIn(menu'.loaders, menu0.loaders, content, lost)
      /\ UniqueIn(menu0.loaders) => UniqueIn(menu'.loaders)
  BY <1>3, <1>4, LoadedEntries
<1>6. /\ SettingsIn(menu', menu0, content, cfg)
      /\ menu'.timeout \in (-INT_MAX - 1)..INT_MAX /\ menu'.disabled \in BOOLEAN
  <2>1. menu.timeout \in (-INT_MAX - 1)..INT_MAX /\ menu.disabled \in BOOLEAN
    BY DEF ControlInv
  <2> QED BY <1>3, <1>4, <2>1, LoadedSettings
<1>7. ~cfg.hasDefault /\ lost = {} => DefaultIn(menu', content)
  <2> SUFFICES ASSUME ~cfg.hasDefault, lost = {} PROVE DefaultIn(menu', content)
    OBVIOUS
  <2>1. menu'.default = DefaultName
    BY <1>4
  <2> QED BY <1>3, <1>4, <2>1, LoadedDefault DEF DefaultIn
<1>8. ControlInv'
  BY <1>1, <1>6 DEF ControlInv
<1>9. PhaseInv'
  BY <1>1, <1>5, <1>6, <1>7 DEF PhaseInv
<1> QED BY <1>8, <1>9

\* So the invariant holds for every file.
LEMMA PhasesHold == Spec => [](ControlInv /\ PhaseInv)
<1>1. Init => ControlInv /\ PhaseInv
  BY PhasesInit
<1>2. (ControlInv /\ PhaseInv) /\ [Next]_vars => (ControlInv /\ PhaseInv)'
  <2> SUFFICES ASSUME ControlInv, PhaseInv, [Next]_vars
               PROVE  ControlInv' /\ PhaseInv'
    OBVIOUS
  <2>1. CASE Start \/ SkipPath \/ OpenPath \/ NoPath \/ Publish
    BY <2>1, OpeningSteps
  <2>2. ASSUME NEW line \in Lines, ParseNext(line)
        PROVE  ControlInv' /\ PhaseInv'
    BY <2>2, ParseStep
  <2>3. CASE EndOfFile
    BY <2>3, EndStep
  <2>4. CASE LoadLoader
    BY <2>4, LoadStep
  <2>5. CASE Finish
    BY <2>5, FinishStep
  <2>6. CASE UNCHANGED vars
    <3>1. /\ input' = input /\ menu' = menu /\ pc' = pc /\ status' = status /\ path' = path
          /\ parser' = parser /\ content' = content /\ next' = next /\ lost' = lost
          /\ menu0' = menu0 /\ cfg' = cfg /\ MaxLines' = MaxLines
      BY <2>6 DEF vars, menu0, cfg, MaxLines
    <3> QED BY <3>1 DEF ControlInv, PhaseInv
  <2> QED BY <2>1, <2>2, <2>3, <2>4, <2>5, <2>6 DEF Next
<1> QED BY <1>1, <1>2, PTL DEF Spec

\* What a published file says is in the menu.
THEOREM FileIsMatched == Spec => []MenuMatchesFile
<1>1. ControlInv /\ PhaseInv => MenuMatchesFile
  BY PhasesMatch
<1> QED BY <1>1, PhasesHold, PTL

\* The default of a published file names one entry, the right one.
THEOREM DefaultIsRight == Spec => []DefaultBoots
<1>1. ControlInv /\ PhaseInv => DefaultBoots
  BY PhasesMatch
<1> QED BY <1>1, PhasesHold, PTL

-----------------------------------------------------------------------------
(* What holds whatever fails *)

\* The menu is changed by a file as a whole or not at all, for files of any length
\* and whatever fails: AllOrNothing is inductive, because the only way from the
\* first change of the menu leads to EFI_SUCCESS.
THEOREM PublishedWhole == Spec => []AllOrNothing
<1>1. Init => AllOrNothing
  BY DEF Init, AllOrNothing
<1>2. AllOrNothing /\ [Next]_vars => AllOrNothing'
  <2> SUFFICES ASSUME AllOrNothing, [Next]_vars
               PROVE  AllOrNothing'
    OBVIOUS
  <2>1. CASE Start
    BY <2>1 DEF AllOrNothing, Start, Return, Goto, menu0
  <2>2. CASE SkipPath
    BY <2>2 DEF AllOrNothing, SkipPath, menu0
  <2>3. CASE OpenPath
    BY <2>3 DEF AllOrNothing, OpenPath, menu0
  <2>4. CASE NoPath
    BY <2>4 DEF AllOrNothing, NoPath, Return, menu0
  <2>5. ASSUME NEW line \in Lines, ParseNext(line)
        PROVE  AllOrNothing'
    <3>1. pc = "parse" /\ menu' = menu /\ menu0' = menu0
      BY <2>5 DEF ParseNext, menu0
    <3> QED
      BY <3>1 DEF AllOrNothing
  <2>6. CASE EndOfFile
    <3>1. pc = "parse" /\ menu' = menu /\ menu0' = menu0
      BY <2>6 DEF EndOfFile, menu0
    <3> QED
      BY <3>1 DEF AllOrNothing
  <2>7. CASE Publish
    BY <2>7 DEF AllOrNothing, Publish, Return, Goto, menu0
  <2>8. CASE LoadLoader
    BY <2>8 DEF AllOrNothing, LoadLoader, menu0
  <2>9. CASE Finish
    BY <2>9 DEF AllOrNothing, Finish, Return, menu0
  <2>10. CASE UNCHANGED vars
    BY <2>10 DEF AllOrNothing, vars, menu0
  <2> QED
    BY <2>1, <2>2, <2>3, <2>4, <2>5, <2>6, <2>7, <2>8, <2>9, <2>10 DEF Next
<1> QED
  BY <1>1, <1>2, PTL DEF Spec

=============================================================================
