----------------------------- MODULE Recursion ------------------------------
(***************************************************************************)
(* Lemmas that the proofs of several components share: induction and        *)
(* recursion over an initial part of the natural numbers, with the property *)
(* given as a set and the step as a function, so that first-order provers   *)
(* can apply them; and what the selections and the sort of MenuOrder give.  *)
(***************************************************************************)
EXTENDS Integers, Sequences, SequencesExt, MenuOrder, FiniteSetTheorems,
        WellFoundedInduction, TLAPS

\* A set of natural numbers that is not empty has a least member.
LEMMA LeastMember ==
    ASSUME NEW S \in SUBSET Nat, S # {}
    PROVE  \E m \in S : \A k \in S : m <= k
  <1>1. PICK m \in S : \A k \in S : ~(<<k, m>> \in OpToRel(<, Nat))
    BY NatLessThanWellFounded, WFMin, Zenon
  <1>2. \A k \in S : ~(k < m)
    BY <1>1, Zenon DEF OpToRel
  <1>3. \A k \in S : m <= k
    BY <1>2
  <1> QED BY <1>1, <1>3

\* What holds at 0 and passes from k to k + 1 holds up to n.
LEMMA SetInduction ==
    ASSUME NEW n \in Nat, NEW S, 0 \in S,
           \A k \in 0..(n - 1) : k \in S => k + 1 \in S
    PROVE  \A k \in 0..n : k \in S
  <1> SUFFICES ASSUME NEW j \in 0..n, j \notin S
               PROVE  FALSE
    OBVIOUS
  <1> DEFINE bad == {k \in 0..n : k \notin S}
  <1>1. bad \in SUBSET Nat /\ bad # {}
    OBVIOUS
  <1>2. PICK m \in bad : \A k \in bad : m <= k
    BY <1>1, LeastMember
  <1>3. m # 0 /\ m \in 0..n
    BY <1>2
  <1>4. m - 1 \in 0..(n - 1) /\ m - 1 \notin bad
    BY <1>2, <1>3
  <1>5. m - 1 \in S
    BY <1>4
  <1>6. (m - 1) + 1 \in S
    BY <1>4, <1>5
  <1> QED BY <1>2, <1>3, <1>6

\* A step gives the next value of X from a value and its number; g holds the
\* values that n steps give.
IsStep(step, X, n) == step \in [X \X (1..n) -> X]

Iterates(g, X, n, start, step) ==
    /\ g \in [0..n -> X]
    /\ g[0] = start
    /\ \A k \in 1..n : g[k] = step[<<g[k - 1], k>>]

\* A step function can be iterated n times from a start value.
LEMMA Iteration ==
    ASSUME NEW X, NEW n \in Nat, NEW start \in X, NEW step, IsStep(step, X, n)
    PROVE  \E g : Iterates(g, X, n, start, step)
  <1> DEFINE Runs(m) == {g \in [0..m -> X] :
                           /\ g[0] = start
                           /\ \A k \in 1..m : g[k] = step[<<g[k - 1], k>>]}
             S == {m \in 0..n : Runs(m) # {}}
  <1>0. step \in [X \X (1..n) -> X]
    BY DEF IsStep
  <1>1. 0 \in S
    <2>1. [k \in 0..0 |-> start] \in Runs(0)
      OBVIOUS
    <2> QED BY <2>1
  <1>2. ASSUME NEW m \in 0..(n - 1), m \in S
        PROVE  m + 1 \in S
    <2>1. PICK g \in Runs(m) : TRUE
      BY <1>2
    <2>g. /\ g \in [0..m -> X] /\ g[0] = start
          /\ \A k \in 1..m : g[k] = step[<<g[k - 1], k>>]
      BY <2>1
    <2> DEFINE h == [k \in 0..(m + 1) |->
                       IF k = m + 1 THEN step[<<g[m], m + 1>>] ELSE g[k]]
    <2>2. g[m] \in X /\ m + 1 \in 1..n /\ m \in Nat
      BY <2>g
    <2>3. step[<<g[m], m + 1>>] \in X
      BY <1>0, <2>2
    <2>4. h \in [0..(m + 1) -> X]
      <3>1. ASSUME NEW k \in 0..(m + 1), k # m + 1 PROVE g[k] \in X
        <4>1. k \in 0..m
          BY <2>2, <3>1
        <4> QED BY <2>g, <4>1
      <3> QED BY <2>3, <3>1
    <2>5. h[0] = start
      BY <2>2, <2>g
    <2>6. \A k \in 1..(m + 1) : h[k] = step[<<h[k - 1], k>>]
      <3> TAKE k \in 1..(m + 1)
      <3>1. CASE k = m + 1
        <4>1. h[k - 1] = g[m]
          BY <2>2, <3>1
        <4>2. h[k] = step[<<g[m], m + 1>>]
          BY <2>2, <3>1
        <4> QED BY <3>1, <4>1, <4>2
      <3>2. CASE k # m + 1
        <4>1. k \in 1..m /\ h[k] = g[k] /\ h[k - 1] = g[k - 1]
          BY <2>2, <3>2
        <4> QED BY <2>g, <4>1
      <3> QED BY <3>1, <3>2
    <2>7. h \in Runs(m + 1)
      BY <2>4, <2>5, <2>6
    <2>8. m + 1 \in 0..n
      BY <2>2
    <2> HIDE DEF h, Runs
    <2> QED BY <2>7, <2>8
  <1> HIDE DEF S
  <1>3. n \in S
    BY <1>1, <1>2, SetInduction
  <1>4. Runs(n) # {}
    BY <1>3 DEF S
  <1> QED BY <1>4 DEF Iterates

\* What FlattenSeq has built after each of its sequences.
IsFlattening(h, T, seqs) ==
    /\ h \in [0..Len(seqs) -> Seq(T)]
    /\ h[0] = <<>>
    /\ \A k \in 1..Len(seqs) : h[k] = h[k - 1] \o seqs[k]

\* FlattenSeq joins its sequences step by step from the front.
LEMMA FlattenSteps ==
    ASSUME NEW T, NEW seqs \in Seq(Seq(T))
    PROVE  \E h : IsFlattening(h, T, seqs) /\ FlattenSeq(seqs) = h[Len(seqs)]
  <1> DEFINE n == Len(seqs)
             Body(f) == [i \in 1..n |->
                           IF i = 1 THEN seqs[i] ELSE f[i - 1] \o seqs[i]]
             fl == CHOOSE f : f = Body(f)
  <1>1. CASE n = 0
    <2> DEFINE h == [k \in 0..0 |-> <<>>]
    <2>1. seqs = <<>> /\ <<>> \in Seq(T)
      BY <1>1
    <2>2. h \in [0..0 -> Seq(T)] /\ h[0] = <<>>
      BY <2>1
    <2>3. IsFlattening(h, T, seqs)
      BY <1>1, <2>2 DEF IsFlattening
    <2>4. FlattenSeq(seqs) = h[n]
      BY <1>1, <2>1, <2>2 DEF FlattenSeq
    <2> QED BY <2>3, <2>4
  <1>2. CASE n # 0
    <2>0. n \in Nat \ {0} /\ \A i \in 1..n : seqs[i] \in Seq(T)
      BY <1>2
    <2>1. FlattenSeq(seqs) = fl[n]
      BY <1>2, Zenon DEF FlattenSeq
    <2> DEFINE step == [p \in Seq(T) \X (1..n) |->
                          IF p[2] = 1 THEN seqs[1] ELSE p[1] \o seqs[p[2]]]
    <2>2. step \in [Seq(T) \X (1..n) -> Seq(T)]
      <3>1. ASSUME NEW p \in Seq(T) \X (1..n)
            PROVE  (IF p[2] = 1 THEN seqs[1] ELSE p[1] \o seqs[p[2]]) \in Seq(T)
        BY <2>0
      <3> QED BY <3>1
    <2>3. \A x \in Seq(T), k \in 1..n :
            step[<<x, k>>] = IF k = 1 THEN seqs[k] ELSE x \o seqs[k]
      OBVIOUS
    <2> HIDE DEF step, n
    <2>4. PICK g \in [0..n -> Seq(T)] :
            /\ g[0] = <<>>
            /\ \A k \in 1..n : g[k] = step[<<g[k - 1], k>>]
      <3>1. <<>> \in Seq(T) /\ n \in Nat
        BY <2>0
      <3>2. IsStep(step, Seq(T), n)
        BY <2>2 DEF IsStep
      <3>3. \E g : Iterates(g, Seq(T), n, <<>>, step)
        BY <3>1, <3>2, Iteration, Zenon
      <3> QED BY <3>3 DEF Iterates
    <2> DEFINE h == [i \in 1..n |-> g[i]]
    <2>5. h = Body(h)
      <3>1. ASSUME NEW i \in 1..n
            PROVE  h[i] = IF i = 1 THEN seqs[i] ELSE h[i - 1] \o seqs[i]
        <4>1. i - 1 \in 0..n /\ g[i - 1] \in Seq(T)
          BY <2>0
        <4>2. g[i] = IF i = 1 THEN seqs[i] ELSE g[i - 1] \o seqs[i]
          BY <2>3, <2>4, <4>1
        <4>3. i # 1 => i - 1 \in 1..n
          BY <2>0
        <4> QED BY <4>2, <4>3
      <3> QED BY <3>1
    <2>6. fl = Body(fl)
      <3> HIDE DEF Body, h
      <3> QED BY <2>5, Zenon
    <2> HIDE DEF fl
    <2>7. \A i \in 1..n : fl[i] = IF i = 1 THEN seqs[i] ELSE fl[i - 1] \o seqs[i]
      <3> DEFINE B == Body(fl)
      <3>1. \A i \in 1..n :
              B[i] = IF i = 1 THEN seqs[i] ELSE fl[i - 1] \o seqs[i]
        OBVIOUS
      <3> HIDE DEF B
      <3> QED BY <2>6, <3>1 DEF B
    <2> DEFINE S == {i \in 0..n : i = 0 \/ fl[i] \in Seq(T)}
    <2>8. 0 \in S
      BY <2>0
    <2>9. ASSUME NEW k \in 0..(n - 1), k \in S PROVE k + 1 \in S
      <3>1. k + 1 \in 1..n /\ (k + 1) - 1 = k
        BY <2>0
      <3>2. CASE k = 0
        <4>1. fl[1] = seqs[1] /\ seqs[1] \in Seq(T) /\ 1 \in 0..n
          BY <2>0, <2>7
        <4> QED BY <3>2, <4>1
      <3>3. CASE k # 0
        <4>1. fl[k] \in Seq(T) /\ k + 1 # 1
          BY <2>0, <2>9, <3>3
        <4>2. fl[k + 1] = fl[k] \o seqs[k + 1]
          BY <2>7, <3>1, <4>1
        <4>3. seqs[k + 1] \in Seq(T)
          BY <2>0, <3>1
        <4>4. fl[k] \o seqs[k + 1] \in Seq(T)
          BY <4>1, <4>3
        <4>5. k + 1 \in 0..n /\ fl[k + 1] \in Seq(T)
          BY <3>1, <4>2, <4>4
        <4> QED BY <4>5
      <3> QED BY <3>2, <3>3
    <2>10. \A i \in 0..n : i \in S
      <3> HIDE DEF S
      <3> QED BY <2>0, <2>8, <2>9, SetInduction
    <2>11. \A i \in 1..n : fl[i] \in Seq(T)
      <3> TAKE i \in 1..n
      <3>1. i \in 0..n /\ i # 0
        BY <2>0
      <3> QED BY <2>10, <3>1
    <2> HIDE DEF S
    <2> DEFINE q == [k \in 0..n |-> IF k = 0 THEN <<>> ELSE fl[k]]
    <2>12. q \in [0..n -> Seq(T)] /\ q[0] = <<>> /\ q[n] = fl[n]
      <3>1. ASSUME NEW k \in 0..n, k # 0 PROVE fl[k] \in Seq(T)
        <4>1. k \in 1..n
          BY <2>0, <3>1
        <4> QED BY <2>11, <4>1
      <3> QED BY <2>0, <3>1
    <2>13. ASSUME NEW k \in 1..n PROVE q[k] = q[k - 1] \o seqs[k]
      <3>1. k \in 0..n /\ k - 1 \in 0..n /\ k # 0 /\ q[k] = fl[k]
        BY <2>0
      <3>2. CASE k = 1
        <4>1. q[k - 1] = <<>> /\ fl[k] = seqs[k] /\ seqs[k] \in Seq(T)
          BY <2>0, <2>7, <3>2
        <4>2. \A s \in Seq(T) : <<>> \o s = s
          OBVIOUS
        <4> QED BY <3>1, <4>1, <4>2, Zenon
      <3>3. CASE k # 1
        <4>1. q[k - 1] = fl[k - 1]
          BY <2>0, <3>3
        <4> QED BY <2>7, <3>1, <3>3, <4>1
      <3> QED BY <3>2, <3>3
    <2> HIDE DEF q
    <2>14. IsFlattening(q, T, seqs)
      BY <2>12, <2>13 DEF IsFlattening, n
    <2>15. FlattenSeq(seqs) = q[Len(seqs)]
      BY <2>1, <2>12 DEF n
    <2> QED BY <2>14, <2>15
  <1> QED BY <1>1, <1>2

\* FlattenSeq of sequences over T is a sequence over T.
LEMMA FlattenIsSeq ==
    ASSUME NEW T, NEW seqs \in Seq(Seq(T))
    PROVE  FlattenSeq(seqs) \in Seq(T)
  <1>1. PICK h : IsFlattening(h, T, seqs) /\ FlattenSeq(seqs) = h[Len(seqs)]
    BY FlattenSteps
  <1> QED BY <1>1 DEF IsFlattening

\* The sequences stand in the result one after the other, each as a whole.
LEMMA FlattenBlocks ==
    ASSUME NEW T, NEW seqs \in Seq(Seq(T))
    PROVE  \E at \in [1..Len(seqs) -> Nat] :
             \A k \in 1..Len(seqs) :
                /\ at[k] + Len(seqs[k]) <= Len(FlattenSeq(seqs))
                /\ \A m \in 1..Len(seqs[k]) :
                      FlattenSeq(seqs)[at[k] + m] = seqs[k][m]
                /\ \A j \in 1..Len(seqs) : j < k => at[j] + Len(seqs[j]) <= at[k]
  <1> DEFINE n == Len(seqs)
  <1>1. PICK h : IsFlattening(h, T, seqs) /\ FlattenSeq(seqs) = h[n]
    BY FlattenSteps
  <1>n. n \in Nat /\ \A k \in 1..n : seqs[k] \in Seq(T)
    OBVIOUS
  <1> HIDE DEF n
  <1>2. /\ h \in [0..n -> Seq(T)]
        /\ \A k \in 1..n : h[k] = h[k - 1] \o seqs[k]
    BY <1>1 DEF IsFlattening, n
  <1>3. \A k \in 0..n : Len(h[k]) \in Nat
    BY <1>2
  <1>4. ASSUME NEW k \in 1..n
        PROVE  /\ k \in 0..n /\ k - 1 \in 0..n
               /\ Len(seqs[k]) \in Nat
               /\ Len(h[k]) = Len(h[k - 1]) + Len(seqs[k])
               /\ \A m \in 1..Len(h[k - 1]) : h[k][m] = h[k - 1][m]
               /\ \A m \in 1..Len(seqs[k]) : h[k][Len(h[k - 1]) + m] = seqs[k][m]
    <2>1. k \in 0..n /\ k - 1 \in 0..n
      BY <1>n
    <2> DEFINE a == h[k - 1]
               b == seqs[k]
    <2>2. a \in Seq(T) /\ b \in Seq(T) /\ h[k] = a \o b
      BY <1>n, <1>2, <2>1
    <2> HIDE DEF a, b
    <2>3. /\ Len(b) \in Nat /\ Len(a \o b) = Len(a) + Len(b)
          /\ \A m \in 1..Len(a) : (a \o b)[m] = a[m]
          /\ \A m \in 1..Len(b) : (a \o b)[Len(a) + m] = b[m]
      BY <2>2
    <2> QED BY <2>1, <2>2, <2>3 DEF a, b
  \* What was built stays in front.
  <1> DEFINE S == {i \in 0..n : \A k \in 0..i :
                     /\ Len(h[k]) <= Len(h[i])
                     /\ \A m \in 1..Len(h[k]) : h[i][m] = h[k][m]}
  <1>5. 0 \in S
    BY <1>n, <1>3
  <1>6. ASSUME NEW i \in 0..(n - 1), i \in S PROVE i + 1 \in S
    <2>1. i + 1 \in 1..n /\ (i + 1) - 1 = i /\ i + 1 \in 0..n /\ i \in 0..n
      BY <1>n
    <2>2. /\ Len(h[i + 1]) = Len(h[i]) + Len(seqs[i + 1])
          /\ Len(seqs[i + 1]) \in Nat
          /\ \A m \in 1..Len(h[i]) : h[i + 1][m] = h[i][m]
      <3>1. PICK k \in 1..n : k = i + 1 /\ k - 1 = i
        BY <2>1
      <3>2. /\ Len(h[k]) = Len(h[k - 1]) + Len(seqs[k])
            /\ Len(seqs[k]) \in Nat
            /\ \A m \in 1..Len(h[k - 1]) : h[k][m] = h[k - 1][m]
        BY <1>4
      <3> QED BY <3>1, <3>2
    <2>3. ASSUME NEW k \in 0..(i + 1)
          PROVE  /\ Len(h[k]) <= Len(h[i + 1])
                 /\ \A m \in 1..Len(h[k]) : h[i + 1][m] = h[k][m]
      <3>1. CASE k = i + 1
        BY <1>3, <2>1, <3>1
      <3>2. CASE k # i + 1
        <4>1. k \in 0..i /\ k \in 0..n
          BY <1>n, <3>2
        <4>2. /\ Len(h[k]) <= Len(h[i])
              /\ \A m \in 1..Len(h[k]) : h[i][m] = h[k][m]
          BY <1>6, <4>1
        <4>3. Len(h[k]) \in Nat /\ Len(h[i]) \in Nat
          BY <1>3, <2>1, <4>1
        <4>4. \A m \in 1..Len(h[k]) : m \in 1..Len(h[i])
          BY <4>2, <4>3
        <4>5. Len(h[k]) <= Len(h[i + 1])
          <5>1. \A x, y, z \in Nat : x <= y => x <= y + z
            OBVIOUS
          <5> QED BY <2>2, <4>2, <4>3, <5>1, Zenon
        <4>6. \A m \in 1..Len(h[k]) : h[i + 1][m] = h[k][m]
          BY <2>2, <4>2, <4>4, Zenon
        <4> QED BY <4>5, <4>6
      <3> QED BY <3>1, <3>2
    <2> QED BY <2>1, <2>3
  <1>7. \A i \in 0..n : i \in S
    <2> HIDE DEF S
    <2> QED BY <1>n, <1>5, <1>6, SetInduction
  <1>8. \A i \in 0..n : \A k \in 0..i :
          /\ Len(h[k]) <= Len(h[i])
          /\ \A m \in 1..Len(h[k]) : h[i][m] = h[k][m]
    BY <1>7
  <1> HIDE DEF S
  <1> DEFINE at == [k \in 1..n |-> Len(h[k - 1])]
  <1>9. at \in [1..n -> Nat] /\ \A k \in 1..n : at[k] = Len(h[k - 1])
    BY <1>3, <1>4
  <1> HIDE DEF at
  <1>10. ASSUME NEW k \in 1..n
         PROVE  /\ at[k] + Len(seqs[k]) <= Len(h[n])
                /\ \A m \in 1..Len(seqs[k]) : h[n][at[k] + m] = seqs[k][m]
                /\ \A j \in 1..n : j < k => at[j] + Len(seqs[j]) <= at[k]
    <2>1. at[k] + Len(seqs[k]) = Len(h[k]) /\ at[k] \in Nat
      BY <1>3, <1>4, <1>9
    <2>2. k \in 0..n /\ n \in 0..n
      BY <1>n
    <2>3. /\ Len(h[k]) <= Len(h[n])
          /\ \A m \in 1..Len(h[k]) : h[n][m] = h[k][m]
      BY <1>8, <2>2
    <2>4. ASSUME NEW m \in 1..Len(seqs[k]) PROVE h[n][at[k] + m] = seqs[k][m]
      <3>1. at[k] + m \in 1..Len(h[k])
        BY <1>4, <2>1
      <3>2. h[k][at[k] + m] = seqs[k][m]
        BY <1>4, <1>9
      <3> QED BY <2>3, <3>1, <3>2
    <2>5. ASSUME NEW j \in 1..n, j < k PROVE at[j] + Len(seqs[j]) <= at[k]
      <3>1. at[j] + Len(seqs[j]) = Len(h[j])
        BY <1>3, <1>4, <1>9
      <3>2. j \in 0..(k - 1) /\ k - 1 \in 0..n
        BY <1>n, <2>5
      <3>3. Len(h[j]) <= Len(h[k - 1])
        BY <1>8, <3>2
      <3> QED BY <1>9, <3>1, <3>3
    <2> QED BY <2>1, <2>3, <2>4, <2>5
  <1>11. \A k \in 1..n :
           /\ at[k] + Len(seqs[k]) <= Len(FlattenSeq(seqs))
           /\ \A m \in 1..Len(seqs[k]) :
                 FlattenSeq(seqs)[at[k] + m] = seqs[k][m]
           /\ \A j \in 1..n : j < k => at[j] + Len(seqs[j]) <= at[k]
    BY <1>1, <1>10, Zenon
  <1> QED BY <1>9, <1>11, Zenon DEF n

\* The greatest member of a bounded set
LEMMA Greatest ==
    ASSUME NEW n \in Nat, NEW S \in SUBSET (0..n), 0 \in S
    PROVE  Max(S) \in S /\ \A j \in S : j <= Max(S)
  <1> DEFINE up == {k \in 0..n : \A j \in S : j <= k}
  <1>1. up \in SUBSET Nat /\ n \in up
    OBVIOUS
  <1>2. PICK m \in up : \A k \in up : m <= k
    BY <1>1, LeastMember
  <1>3. m \in 0..n /\ \A j \in S : j <= m
    BY <1>2
  <1>4. m \in S
    <2> SUFFICES ASSUME m \notin S PROVE FALSE
      OBVIOUS
    <2>1. m # 0
      OBVIOUS
    <2>2. m - 1 \in 0..n /\ ~(m <= m - 1)
      BY <1>3, <2>1
    <2>3. ASSUME NEW j \in S PROVE j <= m - 1
      BY <1>3
    <2>4. m - 1 \in up
      BY <2>2, <2>3
    <2> QED BY <1>2, <2>2, <2>4
  <1> DEFINE P(x) == x \in S /\ \A y \in S : x >= y
  <1>5. P(m)
    BY <1>3, <1>4
  <1>6. Max(S) = CHOOSE x : P(x)
    BY DEF Max
  <1> HIDE DEF P
  <1>7. P(Max(S))
    BY <1>5, <1>6
  <1> QED BY <1>7 DEF P

\* The greatest of integers below a bound and of 0
LEMMA GreatestOr0 ==
    ASSUME NEW S \in SUBSET Int, NEW n \in Nat, \A i \in S : i <= n
    PROVE  Max({0} \cup S) \in Nat /\ \A i \in S : i <= Max({0} \cup S)
  <1> DEFINE T == ({0} \cup S) \cap 0..n
             m == Max(T)
             P(x) == x \in {0} \cup S /\ \A y \in {0} \cup S : x >= y
  <1>1. T \in SUBSET (0..n) /\ 0 \in T
    OBVIOUS
  <1>2. m \in T /\ \A j \in T : j <= m
    <2> HIDE DEF T
    <2> QED BY <1>1, Greatest
  <1>3. P(m)
    <2> HIDE DEF m
    <2>1. m \in 0..n /\ m \in {0} \cup S
      BY <1>2
    <2>2. ASSUME NEW y \in {0} \cup S PROVE m >= y
      <3>1. CASE y \in 0..n
        BY <1>2, <2>1, <3>1
      <3>2. CASE y \notin 0..n
        BY <2>1, <3>2
      <3> QED BY <3>1, <3>2
    <2> QED BY <2>1, <2>2
  <1> HIDE DEF P
  <1>4. Max({0} \cup S) = CHOOSE x : P(x)
    BY DEF Max, P
  <1> DEFINE M == Max({0} \cup S)
  <1>5. P(M)
    BY <1>3, <1>4, Zenon
  <1> HIDE DEF M
  <1>6. M \in {0} \cup S /\ \A y \in {0} \cup S : M >= y
    BY <1>5 DEF P
  <1>7. M \in Int /\ M >= 0 /\ \A i \in S : i <= M
    BY <1>6
  <1> QED BY <1>7 DEF M

\* The first index of a set of places
LEMMA LeastIs ==
    ASSUME NEW S \in SUBSET Nat, S # {}
    PROVE  Min(S) \in S
  <1> DEFINE P(x) == x \in S /\ \A y \in S : x =< y
  <1>1. \E x : P(x)
    BY LeastMember
  <1>2. Min(S) = CHOOSE x : P(x)
    BY DEF Min
  <1> HIDE DEF P
  <1>3. P(Min(S))
    BY <1>1, <1>2, Zenon
  <1> QED BY <1>3 DEF P

-----------------------------------------------------------------------------
(* Orders *)

\* R is a strict total order of S.
Orders(R, S) ==
    /\ \A i \in S : <<i, i>> \notin R
    /\ \A i, j, k \in S : <<i, j>> \in R /\ <<j, k>> \in R => <<i, k>> \in R
    /\ \A i, j \in S : i = j \/ <<i, j>> \in R \/ <<j, i>> \in R

\* The members of S before j, and the place this gives j
Below(R, S, j) == {i \in S : <<i, j>> \in R}
Rank(R, S, j) == Cardinality(Below(R, S, j)) + 1

\* The members of S by their places
Ranked(R, S) == [k \in 1..Cardinality(S) |-> CHOOSE j \in S : Rank(R, S, j) = k]

\* p lists the members of S in the order R.
Lists(p, m, S, R) ==
    /\ p \in [1..m -> S]
    /\ \A k, l \in 1..m : k < l => <<p[k], p[l]>> \in R
    /\ \A j \in S : \E k \in 1..m : p[k] = j

\* A greater member has a greater place.
LEMMA RankGrows ==
    ASSUME NEW S, IsFiniteSet(S), NEW R, Orders(R, S)
    PROVE  /\ Cardinality(S) \in Nat
           /\ \A j \in S : Rank(R, S, j) \in 1..Cardinality(S)
           /\ \A i, j \in S : <<i, j>> \in R => Rank(R, S, i) < Rank(R, S, j)
           /\ \A i, j \in S : Rank(R, S, i) = Rank(R, S, j) => i = j
  <1> DEFINE B(j) == Below(R, S, j)
  <1>1. \A j \in S : B(j) \subseteq S /\ j \notin B(j)
    BY DEF Below, Orders
  <1>2. /\ Cardinality(S) \in Nat
        /\ \A j \in S : IsFiniteSet(B(j)) /\ Cardinality(B(j)) \in Nat
    BY <1>1, FS_Subset, FS_CardinalityType
  <1>3. ASSUME NEW j \in S PROVE Rank(R, S, j) \in 1..Cardinality(S)
    <2>1. /\ Cardinality(B(j)) <= Cardinality(S)
          /\ Cardinality(B(j)) # Cardinality(S)
      BY <1>1, FS_Subset
    <2>2. Rank(R, S, j) = Cardinality(B(j)) + 1
      BY DEF Rank
    <2> HIDE DEF B
    <2> QED BY <1>2, <2>1, <2>2
  <1>4. ASSUME NEW i \in S, NEW j \in S, <<i, j>> \in R
        PROVE  Rank(R, S, i) < Rank(R, S, j)
    <2>1. B(i) \subseteq B(j)
      BY <1>4 DEF Below, Orders
    <2>2. i \in B(j) /\ i \notin B(i)
      BY <1>1, <1>4 DEF Below
    <2>3. /\ Cardinality(B(i)) <= Cardinality(B(j))
          /\ Cardinality(B(i)) # Cardinality(B(j))
      BY <1>2, <2>1, <2>2, FS_Subset
    <2>4. /\ Rank(R, S, i) = Cardinality(B(i)) + 1
          /\ Rank(R, S, j) = Cardinality(B(j)) + 1
      BY DEF Rank
    <2> HIDE DEF B
    <2> QED BY <1>2, <2>3, <2>4
  <1>5. ASSUME NEW i \in S, NEW j \in S, Rank(R, S, i) = Rank(R, S, j)
        PROVE  i = j
    <2>1. Rank(R, S, i) \in Nat
      BY <1>2, <1>3
    <2>2. ~(Rank(R, S, i) < Rank(R, S, j)) /\ ~(Rank(R, S, j) < Rank(R, S, i))
      BY <1>5, <2>1
    <2> QED BY <1>4, <2>2 DEF Orders
  <1> QED BY <1>2, <1>3, <1>4, <1>5

\* Counting lists a finite set in its order.
LEMMA RankedLists ==
    ASSUME NEW S, IsFiniteSet(S), NEW R, Orders(R, S)
    PROVE  /\ Lists(Ranked(R, S), Cardinality(S), S, R)
           /\ \A k \in 1..Cardinality(S) : Rank(R, S, Ranked(R, S)[k]) = k
  <1> DEFINE n == Cardinality(S)
             p == Ranked(R, S)
             f == [j \in S |-> Rank(R, S, j)]
  <1>1. n \in Nat /\ IsFiniteSet(1..n) /\ Cardinality(1..n) = n
    BY RankGrows, FS_Interval
  <1>2. f \in Injection(S, 1..n)
    BY RankGrows DEF Injection, IsInjective
  <1>3. f \in Surjection(S, 1..n)
    BY <1>1, <1>2, FS_Injection
  <1>4. \A k \in 1..n : \E j \in S : Rank(R, S, j) = k
    BY <1>3 DEF Surjection
  <1>5. \A k \in 1..n : p[k] \in S /\ Rank(R, S, p[k]) = k
    BY <1>4 DEF Ranked
  <1>6. p \in [1..n -> S]
    BY <1>5 DEF Ranked
  <1> HIDE DEF p, n
  <1>7. ASSUME NEW k \in 1..n, NEW l \in 1..n, k < l PROVE <<p[k], p[l]>> \in R
    <2>1. Rank(R, S, p[k]) = k /\ Rank(R, S, p[l]) = l /\ p[k] \in S /\ p[l] \in S
      BY <1>5
    <2>2. p[k] # p[l] /\ ~(Rank(R, S, p[l]) < Rank(R, S, p[k]))
      BY <1>1, <1>7, <2>1
    <2> QED BY <2>1, <2>2, RankGrows DEF Orders
  <1>8. ASSUME NEW j \in S PROVE \E k \in 1..n : p[k] = j
    <2>1. Rank(R, S, j) \in 1..n
      BY RankGrows DEF n
    <2>2. p[Rank(R, S, j)] = j
      BY <1>5, <2>1, RankGrows
    <2> QED BY <2>1, <2>2
  <1> QED BY <1>5, <1>6, <1>7, <1>8 DEF Lists, p, n

\* There is no other way to list it.
LEMMA ListsUnique ==
    ASSUME NEW S, NEW R, Orders(R, S), NEW m \in Nat, NEW p, Lists(p, m, S, R)
    PROVE  IsFiniteSet(S) /\ Cardinality(S) = m /\ p = Ranked(R, S)
  <1>1. ASSUME NEW k \in 1..m, NEW l \in 1..m, p[k] = p[l] PROVE k = l
    <2>1. ~(k < l) /\ ~(l < k)
      BY <1>1 DEF Lists, Orders
    <2> QED BY <2>1
  <1>2. p \in Bijection(1..m, S)
    BY <1>1 DEF Lists, Bijection, Injection, Surjection, IsInjective
  <1>3. IsFiniteSet(1..m) /\ Cardinality(1..m) = m
    BY FS_Interval
  <1>4. IsFiniteSet(S) /\ Cardinality(S) = m
    BY <1>2, <1>3, FS_Bijection DEF ExistsBijection
  <1>5. ASSUME NEW k \in 1..m PROVE Rank(R, S, p[k]) = k
    <2> DEFINE B == Below(R, S, p[k])
               f == [i \in 1..(k - 1) |-> p[i]]
    <2>1. \A i \in 1..(k - 1) : i \in 1..m /\ p[i] \in B
      BY DEF Below, Lists
    <2>2. ASSUME NEW j \in B PROVE \E i \in 1..(k - 1) : p[i] = j
      <3>1. j \in S /\ <<j, p[k]>> \in R /\ p[k] \in S
        BY DEF Below, Lists
      <3>2. PICK i \in 1..m : p[i] = j
        BY <3>1 DEF Lists
      <3>3. ~(k < i) /\ i # k
        BY <3>1, <3>2 DEF Lists, Orders
      <3>4. i \in 1..(k - 1)
        BY <3>3
      <3> QED BY <3>2, <3>4
    <2>3. f \in Bijection(1..(k - 1), B)
      <3> HIDE DEF B
      <3>1. f \in [1..(k - 1) -> B]
        BY <2>1
      <3>2. \A x, y \in 1..(k - 1) : f[x] = f[y] => x = y
        BY <1>1, <2>1
      <3>3. \A j \in B : \E i \in 1..(k - 1) : f[i] = j
        BY <2>2
      <3> QED BY <3>1, <3>2, <3>3 DEF Bijection, Injection, Surjection, IsInjective
    <2>4. IsFiniteSet(1..(k - 1)) /\ Cardinality(1..(k - 1)) = k - 1
      BY FS_Interval
    <2>5. Cardinality(B) = k - 1
      BY <2>3, <2>4, FS_Bijection DEF ExistsBijection
    <2> QED BY <2>5 DEF Rank
  <1>6. ASSUME NEW k \in 1..m PROVE p[k] = Ranked(R, S)[k]
    <2>1. p[k] \in S /\ Rank(R, S, p[k]) = k
      BY <1>5 DEF Lists
    <2>2. \A j \in S : Rank(R, S, j) = k => j = p[k]
      BY <1>4, <2>1, RankGrows
    <2>3. p[k] = CHOOSE j \in S : Rank(R, S, j) = k
      BY <2>1, <2>2
    <2> QED BY <1>4, <2>3 DEF Ranked
  <1>7. p = [k \in 1..m |-> p[k]] /\ Ranked(R, S) = [k \in 1..m |-> Ranked(R, S)[k]]
    BY <1>4 DEF Lists, Ranked
  <1> QED BY <1>4, <1>6, <1>7

-----------------------------------------------------------------------------
(* Selecting from a list, and sorting it *)

\* S as an ordered set of numbers
Less(S) == {p \in S \X S : p[1] < p[2]}

\* Numbers are ordered by their size.
LEMMA LessOrders == ASSUME NEW S \in SUBSET Int PROVE Orders(Less(S), S)
  <1>1. \A i, j \in S : <<i, j>> \in Less(S) <=> i < j
    BY DEF Less
  <1> QED BY <1>1 DEF Orders

\* Ascending lists a finite set of numbers in this order.
LEMMA AscendingRanked ==
    ASSUME NEW S \in SUBSET Int, IsFiniteSet(S)
    PROVE  Orders(Less(S), S) /\ Ascending(S) = Ranked(Less(S), S)
  <1> DEFINE R == Less(S)
             m == Cardinality(S)
             p == Ranked(R, S)
             a == Ascending(S)
  <1>1. \A i, j \in S : <<i, j>> \in R <=> i < j
    BY DEF Less
  <1>2. Orders(R, S)
    BY LessOrders
  <1>3. \A j \in S : Below(R, S, j) = {i \in S : i < j}
    BY <1>1 DEF Below
  <1>4. \A j \in S : Rank(R, S, j) = Cardinality({i \in S : i < j}) + 1
    BY <1>3 DEF Rank
  <1>5. /\ p \in [1..m -> S]
        /\ \A k \in 1..m : Rank(R, S, p[k]) = k
        /\ \A i, j \in S : Rank(R, S, i) = Rank(R, S, j) => i = j
    BY <1>2, RankedLists, RankGrows DEF Lists
  <1> HIDE DEF R, p
  <1>6. ASSUME NEW k \in 1..m PROVE a[k] = p[k]
    <2>1. /\ p[k] \in S /\ Cardinality({i \in S : i < p[k]}) + 1 = k
      BY <1>4, <1>5
    <2>2. \A j \in S : Cardinality({i \in S : i < j}) + 1 = k => j = p[k]
      BY <1>4, <1>5, <2>1
    <2>3. p[k] = CHOOSE j \in S : Cardinality({i \in S : i < j}) + 1 = k
      BY <2>1, <2>2
    <2> QED BY <2>3 DEF Ascending
  <1>7. a = [k \in 1..m |-> a[k]] /\ p = [k \in 1..m |-> p[k]]
    <2>1. a = [k \in 1..m |-> a[k]]
      BY DEF Ascending
    <2> HIDE DEF a, m
    <2>2. p = [k \in 1..m |-> p[k]]
      BY <1>5
    <2> QED BY <2>1, <2>2
  <1>8. a = p
    BY <1>6, <1>7
  <1> QED BY <1>2, <1>8 DEF R, p

\* p lists the numbers of S ascending.
Ascends(p, m, S) ==
    /\ p \in [1..m -> S]
    /\ \A k, l \in 1..m : k < l => p[k] < p[l]
    /\ \A j \in S : \E k \in 1..m : p[k] = j

\* Ascending lists a finite set of numbers, ascending.
LEMMA AscendingIs ==
    ASSUME NEW S \in SUBSET Int, IsFiniteSet(S)
    PROVE  Cardinality(S) \in Nat /\ Ascends(Ascending(S), Cardinality(S), S)
  <1> DEFINE a == Ascending(S)
             m == Cardinality(S)
  <1>1. m \in Nat
    BY FS_CardinalityType
  <1>2. Lists(a, m, S, Less(S))
    BY AscendingRanked, RankedLists
  <1> HIDE DEF a, m
  <1>3. \A i, j \in S : <<i, j>> \in Less(S) <=> i < j
    BY DEF Less
  <1>4. Ascends(a, m, S)
    BY <1>2, <1>3 DEF Lists, Ascends
  <1> QED BY <1>1, <1>4 DEF a, m

\* And nothing else does.
LEMMA AscendingOnly ==
    ASSUME NEW S \in SUBSET Int, NEW m \in Nat, NEW p, Ascends(p, m, S)
    PROVE  IsFiniteSet(S) /\ Cardinality(S) = m /\ p = Ascending(S)
  <1>1. \A i, j \in S : <<i, j>> \in Less(S) <=> i < j
    BY DEF Less
  <1>2. Lists(p, m, S, Less(S))
    BY <1>1 DEF Lists, Ascends
  <1>3. IsFiniteSet(S) /\ Cardinality(S) = m /\ p = Ranked(Less(S), S)
    BY <1>2, LessOrders, ListsUnique
  <1> QED BY <1>3, AscendingRanked

\* Numbers that come after all others are listed after them.
LEMMA AscendingJoin ==
    ASSUME NEW S \in SUBSET Int, IsFiniteSet(S), NEW T \in SUBSET Int, IsFiniteSet(T),
           \A i \in S, j \in T : i < j
    PROVE  /\ IsFiniteSet(S \cup T)
           /\ Cardinality(S \cup T) = Cardinality(S) + Cardinality(T)
           /\ \A k \in 1..Cardinality(S) : Ascending(S \cup T)[k] = Ascending(S)[k]
           /\ \A k \in 1..Cardinality(T) :
                 Ascending(S \cup T)[Cardinality(S) + k] = Ascending(T)[k]
  <1> DEFINE a == Ascending(S)
             b == Ascending(T)
             m == Cardinality(S)
             n == Cardinality(T)
             c == [k \in 1..(m + n) |-> IF k <= m THEN a[k] ELSE b[k - m]]
  <1>1. /\ m \in Nat /\ a \in [1..m -> S]
        /\ \A k, l \in 1..m : k < l => a[k] < a[l]
        /\ \A j \in S : \E k \in 1..m : a[k] = j
    BY AscendingIs DEF Ascends
  <1>2. /\ n \in Nat /\ b \in [1..n -> T]
        /\ \A k, l \in 1..n : k < l => b[k] < b[l]
        /\ \A j \in T : \E k \in 1..n : b[k] = j
    BY AscendingIs DEF Ascends
  <1> HIDE DEF a, b, m, n
  <1>3. c \in [1..(m + n) -> S \cup T]
    <2>1. ASSUME NEW k \in 1..(m + n), k <= m PROVE a[k] \in S
      BY <1>1, <2>1
    <2>2. ASSUME NEW k \in 1..(m + n), ~(k <= m) PROVE b[k - m] \in T
      <3>1. k - m \in 1..n
        BY <1>1, <1>2, <2>2
      <3> QED BY <1>2, <3>1
    <2> QED BY <2>1, <2>2
  <1>4. ASSUME NEW k \in 1..(m + n), NEW l \in 1..(m + n), k < l
        PROVE  c[k] < c[l]
    <2>1. CASE l <= m
      <3>1. k \in 1..m /\ l \in 1..m /\ c[k] = a[k] /\ c[l] = a[l]
        BY <1>1, <1>2, <1>4, <2>1
      <3> QED BY <1>1, <1>4, <3>1
    <2>2. CASE ~(l <= m) /\ k <= m
      <3>1. k \in 1..m /\ l - m \in 1..n /\ c[k] = a[k] /\ c[l] = b[l - m]
        BY <1>1, <1>2, <2>2
      <3>2. c[k] \in S /\ c[l] \in T
        BY <1>1, <1>2, <3>1
      <3> QED BY <3>2
    <2>3. CASE ~(k <= m)
      <3>1. k - m \in 1..n /\ l - m \in 1..n /\ k - m < l - m
        BY <1>1, <1>2, <1>4, <2>3
      <3>2. c[k] = b[k - m] /\ c[l] = b[l - m]
        BY <1>1, <1>2, <1>4, <2>3
      <3>3. \A x, y \in 1..n : x < y => b[x] < b[y]
        BY <1>2
      <3>4. b[k - m] < b[l - m]
        BY <3>1, <3>3, Zenon
      <3> QED BY <3>2, <3>4
    <2> QED BY <2>1, <2>2, <2>3
  <1>5. ASSUME NEW j \in S \cup T PROVE \E k \in 1..(m + n) : c[k] = j
    <2>1. CASE j \in S
      <3>1. PICK k \in 1..m : a[k] = j
        BY <1>1, <2>1
      <3>2. k \in 1..(m + n) /\ c[k] = j
        BY <1>1, <1>2, <3>1
      <3> QED BY <3>2
    <2>2. CASE j \in T
      <3>1. PICK k \in 1..n : b[k] = j
        BY <1>2, <2>2
      <3>2. m + k \in 1..(m + n) /\ ~(m + k <= m) /\ (m + k) - m = k
        BY <1>1, <1>2, <3>1
      <3>3. c[m + k] = j
        BY <3>1, <3>2
      <3> QED BY <3>2, <3>3
    <2> QED BY <2>1, <2>2
  <1>6. Ascends(c, m + n, S \cup T)
    <2> HIDE DEF c
    <2> QED BY <1>3, <1>4, <1>5 DEF Ascends
  <1>7. /\ IsFiniteSet(S \cup T) /\ Cardinality(S \cup T) = m + n
        /\ c = Ascending(S \cup T)
    <2>1. S \cup T \in SUBSET Int /\ m + n \in Nat
      BY <1>1, <1>2
    <2> HIDE DEF c
    <2> QED BY <1>6, <2>1, AscendingOnly
  <1>8. \A k \in 1..m : c[k] = a[k]
    BY <1>1, <1>2
  <1>9. \A k \in 1..n : c[m + k] = b[k]
    <2> TAKE k \in 1..n
    <2>1. m + k \in 1..(m + n) /\ ~(m + k <= m) /\ (m + k) - m = k
      BY <1>1, <1>2
    <2> QED BY <2>1
  <1> HIDE DEF c
  <1>10. /\ \A k \in 1..m : Ascending(S \cup T)[k] = a[k]
         /\ \A k \in 1..n : Ascending(S \cup T)[m + k] = b[k]
    BY <1>7, <1>8, <1>9, Zenon
  <1> QED BY <1>7, <1>10, Zenon DEF a, b, m, n

\* What is selected are as many elements as places.
LEMMA SelectionIs ==
    ASSUME NEW T, NEW s \in Seq(T), NEW S \in SUBSET (1..Len(s))
    PROVE  /\ IsFiniteSet(S) /\ Cardinality(S) \in Nat
           /\ Selection(s, S) \in Seq(T)
           /\ Len(Selection(s, S)) = Cardinality(S)
           /\ \A k \in 1..Cardinality(S) : /\ Ascending(S)[k] \in S
                                           /\ Selection(s, S)[k] = s[Ascending(S)[k]]
  <1> DEFINE a == Ascending(S)
             m == Cardinality(S)
  <1>1. IsFiniteSet(S) /\ S \in SUBSET Int
    <2>1. PICK n \in Nat : n = Len(s)
      OBVIOUS
    <2>2. IsFiniteSet(1..n)
      BY FS_Interval
    <2>3. S \subseteq 1..n /\ S \in SUBSET Int
      BY <2>1
    <2> QED BY <2>2, <2>3, FS_Subset
  <1>2. m \in Nat /\ a \in [1..m -> S]
    BY <1>1, AscendingIs DEF Ascends
  <1>3. Selection(s, S) = [k \in 1..m |-> s[a[k]]]
    <2> HIDE DEF m
    <2>1. DOMAIN a = 1..m
      BY <1>2
    <2>2. Selection(s, S) = [k \in DOMAIN a |-> s[a[k]]]
      BY DEF Selection
    <2> HIDE DEF a
    <2> QED BY <2>1, <2>2
  <1> HIDE DEF a, m
  <1>t. \A i \in S : s[i] \in T
    OBVIOUS
  <1>4. \A k \in 1..m : a[k] \in S /\ s[a[k]] \in T
    BY <1>2, <1>t
  <1>5. [k \in 1..m |-> s[a[k]]] \in Seq(T)
    BY <1>2, <1>4
  <1>6. Len([k \in 1..m |-> s[a[k]]]) = m
    BY <1>2
  <1>7. \A k \in 1..m : a[k] \in S /\ Selection(s, S)[k] = s[a[k]]
    BY <1>3, <1>4
  <1> QED BY <1>1, <1>2, <1>3, <1>5, <1>6, <1>7, Zenon DEF a, m

\* Of two parts of a sequence first the one is selected, then the other.
LEMMA SelectionJoin ==
    ASSUME NEW Q, NEW s \in Seq(Q), NEW S \in SUBSET (1..Len(s)),
           NEW T \in SUBSET (1..Len(s)), \A i \in S, j \in T : i < j
    PROVE  Selection(s, S \cup T) = Selection(s, S) \o Selection(s, T)
  <1> DEFINE U == S \cup T
             A == Selection(s, S)
             B == Selection(s, T)
             C == Selection(s, U)
             m == Cardinality(S)
             n == Cardinality(T)
  <1>0. Len(s) \in Nat /\ S \in SUBSET Int /\ T \in SUBSET Int
    OBVIOUS
  <1>1. /\ m \in Nat /\ A \in Seq(Q) /\ Len(A) = m
        /\ \A k \in 1..m : A[k] = s[Ascending(S)[k]]
        /\ IsFiniteSet(S)
    BY SelectionIs
  <1>2. /\ n \in Nat /\ B \in Seq(Q) /\ Len(B) = n
        /\ \A k \in 1..n : B[k] = s[Ascending(T)[k]]
        /\ IsFiniteSet(T)
    BY SelectionIs
  <1>3. /\ Cardinality(U) = m + n
        /\ \A k \in 1..m : Ascending(U)[k] = Ascending(S)[k]
        /\ \A k \in 1..n : Ascending(U)[m + k] = Ascending(T)[k]
    BY <1>0, <1>1, <1>2, AscendingJoin
  <1>4. /\ C \in Seq(Q) /\ Len(C) = m + n
        /\ \A k \in 1..(m + n) : C[k] = s[Ascending(U)[k]]
    <2>1. U \in SUBSET (1..Len(s))
      BY Zenon
    <2> HIDE DEF A, B, m, n, U
    <2>2. /\ C \in Seq(Q) /\ Len(C) = Cardinality(U)
          /\ \A k \in 1..Cardinality(U) : C[k] = s[Ascending(U)[k]]
      BY <2>1, SelectionIs
    <2> QED BY <1>3, <2>2
  <1> HIDE DEF A, B, C, m, n, U
  <1>n. m \in Nat /\ n \in Nat
    BY <1>1, <1>2
  <1>i. \A x, y \in Nat : \A k \in 1..x : k \in 1..(x + y)
    OBVIOUS
  <1>5. \A k \in 1..m : C[k] = A[k]
    <2> TAKE k \in 1..m
    <2>1. k \in 1..(m + n)
      BY <1>n, <1>i, Zenon
    <2>2. C[k] = s[Ascending(U)[k]] /\ Ascending(U)[k] = Ascending(S)[k]
      BY ONLY <1>3, <1>4, <2>1, k \in 1..m, Zenon
    <2>3. A[k] = s[Ascending(S)[k]]
      BY ONLY <1>1, k \in 1..m, Zenon
    <2> QED BY ONLY <2>2, <2>3, Zenon
  <1>6. \A k \in 1..n : C[m + k] = B[k]
    <2> TAKE k \in 1..n
    <2>1. m + k \in 1..(m + n)
      BY <1>n
    <2>2. C[m + k] = s[Ascending(U)[m + k]] /\ Ascending(U)[m + k] = Ascending(T)[k]
      BY ONLY <1>3, <1>4, <2>1, k \in 1..n, Zenon
    <2>3. B[k] = s[Ascending(T)[k]]
      BY ONLY <1>2, k \in 1..n, Zenon
    <2> QED BY ONLY <2>2, <2>3, Zenon
  <1>7. Len(A \o B) = m + n /\ A \o B \in Seq(Q)
    <2>1. \A x, y \in Seq(Q) : Len(x \o y) = Len(x) + Len(y) /\ x \o y \in Seq(Q)
      OBVIOUS
    <2> QED BY <1>1, <1>2, <2>1, Zenon
  <1>8. \A k \in 1..(m + n) : C[k] = (A \o B)[k]
    <2> TAKE k \in 1..(m + n)
    <2>1. CASE k <= m
      <3>1. k \in 1..m
        BY <1>1, <2>1
      <3>2. (A \o B)[k] = A[k]
        BY <1>1, <1>2, <3>1
      <3> QED BY <1>5, <3>1, <3>2
    <2>2. CASE ~(k <= m)
      <3>1. k - m \in 1..n /\ m + (k - m) = k
        BY <1>1, <1>2, <2>2
      <3>2. (A \o B)[k] = B[k - m]
        BY <1>1, <1>2, <2>2
      <3>3. C[m + (k - m)] = B[k - m]
        BY <1>6, <3>1, Zenon
      <3> QED BY <3>1, <3>2, <3>3
    <2> QED BY <2>1, <2>2
  <1>9. C = A \o B
    <2>1. \A x, y \in Seq(Q) : Len(x) = Len(y) /\ (\A k \in 1..Len(x) : x[k] = y[k]) => x = y
      OBVIOUS
    <2> QED BY <1>4, <1>7, <1>8, <2>1
  <1> QED BY <1>9 DEF A, B, C, U

\* Entry i of the menu is to come before entry j.
Earlier(loaders, i, j) ==
    \/ loaders[i].priority < loaders[j].priority
    \/ loaders[i].priority = loaders[j].priority /\ i < j

\* p lists the places of n entries as sorting does.
SortsTo(p, n, loaders) ==
    /\ p \in [1..n -> 1..n]
    /\ \A k, l \in 1..n : k < l => Earlier(loaders, p[k], p[l])
    /\ \A j \in 1..n : \E k \in 1..n : p[k] = j

ByPriority(n, loaders) ==
    {q \in (1..n) \X (1..n) : Earlier(loaders, q[1], q[2])}

\* Priorities, and places among equal ones, order the entries.
LEMMA PrioritiesOrder ==
    ASSUME NEW n \in Nat, NEW loaders, \A i \in 1..n : loaders[i].priority \in Int
    PROVE  Orders(ByPriority(n, loaders), 1..n)
  <1> DEFINE p(i) == loaders[i].priority
             e(i, j) == \/ p(i) < p(j)
                        \/ p(i) = p(j) /\ i < j
  <1>1. \A i, j \in 1..n : <<i, j>> \in ByPriority(n, loaders) <=> e(i, j)
    <2>1. \A i, j \in 1..n : <<i, j>> \in ByPriority(n, loaders)
                               <=> Earlier(loaders, i, j)
      BY DEF ByPriority
    <2> QED BY <2>1, Zenon DEF Earlier
  <1>2. \A i \in 1..n : p(i) \in Int /\ i \in Int
    OBVIOUS
  <1> HIDE DEF p
  <1>3. \A i \in 1..n : ~e(i, i)
    BY <1>2
  <1>4. ASSUME NEW i \in 1..n, NEW j \in 1..n, NEW k \in 1..n, e(i, j), e(j, k)
        PROVE  e(i, k)
    <2>1. p(i) \in Int /\ p(j) \in Int /\ p(k) \in Int
      BY <1>2
    <2> QED BY <1>4, <2>1
  <1>5. ASSUME NEW i \in 1..n, NEW j \in 1..n PROVE i = j \/ e(i, j) \/ e(j, i)
    <2>1. p(i) \in Int /\ p(j) \in Int
      BY <1>2
    <2> QED BY <2>1
  <1> HIDE DEF e
  <1> QED BY <1>1, <1>3, <1>4, <1>5 DEF Orders

\* SortByPriority lists every entry, in this order.
LEMMA SortLists ==
    ASSUME NEW n \in Nat, NEW loaders, DOMAIN loaders = 1..n,
           \A i \in 1..n : loaders[i].priority \in Int
    PROVE  \E p : /\ SortsTo(p, n, loaders)
                  /\ p = Ranked(ByPriority(n, loaders), 1..n)
                  /\ SortByPriority(loaders) = [k \in 1..n |-> loaders[p[k]]]
  <1> DEFINE R == ByPriority(n, loaders)
             p == Ranked(R, 1..n)
             before(i, j) == \/ loaders[i].priority < loaders[j].priority
                             \/ loaders[i].priority = loaders[j].priority /\ i < j
             rank(j) == Cardinality({i \in DOMAIN loaders : before(i, j)}) + 1
  <1>1. \A i, j \in 1..n : <<i, j>> \in R <=> Earlier(loaders, i, j)
    BY DEF ByPriority
  <1>2. Orders(R, 1..n)
    BY PrioritiesOrder
  <1>f. IsFiniteSet(1..n) /\ Cardinality(1..n) = n
    BY FS_Interval
  <1>3. \A j \in 1..n : Below(R, 1..n, j) = {i \in DOMAIN loaders : before(i, j)}
    <2> TAKE j \in 1..n
    <2>1. Below(R, 1..n, j) = {i \in 1..n : Earlier(loaders, i, j)}
      BY <1>1, Zenon DEF Below
    <2> QED BY <2>1, Zenon DEF Earlier
  <1>4. \A j \in 1..n : Rank(R, 1..n, j) = rank(j)
    BY <1>3, Zenon DEF Rank
  <1>5. /\ p \in [1..n -> 1..n]
        /\ \A k, l \in 1..n : k < l => <<p[k], p[l]>> \in R
        /\ \A j \in 1..n : \E k \in 1..n : p[k] = j
        /\ \A k \in 1..n : Rank(R, 1..n, p[k]) = k
        /\ \A i, j \in 1..n : Rank(R, 1..n, i) = Rank(R, 1..n, j) => i = j
    <2>1. Lists(p, n, 1..n, R) /\ \A k \in 1..n : Rank(R, 1..n, p[k]) = k
      <3> HIDE DEF R
      <3> QED BY <1>2, <1>f, RankedLists
    <2> HIDE DEF R, p
    <2>2. \A i, j \in 1..n : Rank(R, 1..n, i) = Rank(R, 1..n, j) => i = j
      BY <1>2, <1>f, RankGrows
    <2> QED BY <2>1, <2>2, Zenon DEF Lists
  <1> HIDE DEF R, p
  <1>6. SortsTo(p, n, loaders)
    <2>1. \A k, l \in 1..n : k < l => Earlier(loaders, p[k], p[l])
      BY <1>1, <1>5
    <2> QED BY <1>5, <2>1 DEF SortsTo
  <1>7. SortByPriority(loaders)
          = [k \in DOMAIN loaders |->
               loaders[CHOOSE j \in DOMAIN loaders : rank(j) = k]]
    BY Zenon DEF SortByPriority
  <1> HIDE DEF rank
  <1>8. ASSUME NEW k \in 1..n
        PROVE  (CHOOSE j \in DOMAIN loaders : rank(j) = k) = p[k]
    <2>1. p[k] \in DOMAIN loaders /\ rank(p[k]) = k
      BY <1>4, <1>5
    <2>2. \A j \in DOMAIN loaders : rank(j) = k => j = p[k]
      BY <1>4, <1>5, <2>1
    <2> QED BY <2>1, <2>2
  <1>9. SortByPriority(loaders) = [k \in 1..n |-> loaders[p[k]]]
    <2> DEFINE pick(k) == CHOOSE j \in DOMAIN loaders : rank(j) = k
    <2>1. \A k \in 1..n : pick(k) = p[k]
      BY <1>8
    <2>2. SortByPriority(loaders) = [k \in 1..n |-> loaders[pick(k)]]
      BY <1>7
    <2> HIDE DEF pick
    <2> QED BY <2>1, <2>2
  <1> QED BY <1>6, <1>9 DEF p, R

\* And no other list of them is in it.
LEMMA SortOnly ==
    ASSUME NEW n \in Nat, NEW loaders, DOMAIN loaders = 1..n,
           \A i \in 1..n : loaders[i].priority \in Int,
           NEW p, SortsTo(p, n, loaders)
    PROVE  SortByPriority(loaders) = [k \in 1..n |-> loaders[p[k]]]
  <1> DEFINE R == ByPriority(n, loaders)
  <1>1. \A i, j \in 1..n : <<i, j>> \in R <=> Earlier(loaders, i, j)
    BY DEF ByPriority
  <1>2. Lists(p, n, 1..n, R)
    BY <1>1 DEF Lists, SortsTo
  <1>3. p = Ranked(R, 1..n)
    <2>1. Orders(R, 1..n)
      BY PrioritiesOrder
    <2> HIDE DEF R
    <2> QED BY <1>2, <2>1, ListsUnique
  <1> QED BY <1>3, SortLists

\* A part of one sequence is selected from a longer one as from it, and the
\* sequence that was appended as a whole.
LEMMA SelectionOfJoined ==
    ASSUME NEW T, NEW s \in Seq(T), NEW t \in Seq(T)
    PROVE  /\ \A S \in SUBSET (1..Len(s)) : Selection(s \o t, S) = Selection(s, S)
           /\ Selection(s \o t, (Len(s) + 1)..(Len(s) + Len(t))) = t
  <1> DEFINE m == Len(s)
             n == Len(t)
             c == s \o t
             U == (m + 1)..(m + n)
             p == [k \in 1..n |-> m + k]
  <1>1. m \in Nat /\ n \in Nat /\ c \in Seq(T) /\ Len(c) = m + n
    OBVIOUS
  <1>2. /\ \A k \in 1..m : c[k] = s[k]
        /\ \A k \in 1..n : c[m + k] = t[k]
    OBVIOUS
  <1>3. ASSUME NEW S \in SUBSET (1..Len(s)) PROVE Selection(c, S) = Selection(s, S)
    <2>1. S \in SUBSET (1..Len(c))
      <3>1. \A i \in 1..m : i \in 1..(m + n)
        BY <1>1
      <3> QED BY <1>1, <3>1, Zenon
    <2> DEFINE A == Selection(c, S)
               B == Selection(s, S)
               d == Cardinality(S)
    <2> HIDE DEF c
    <2>2. /\ A \in Seq(T) /\ Len(A) = d
          /\ \A k \in 1..d : Ascending(S)[k] \in S /\ A[k] = c[Ascending(S)[k]]
      BY <1>1, <2>1, SelectionIs
    <2>3. /\ B \in Seq(T) /\ Len(B) = d
          /\ \A k \in 1..d : B[k] = s[Ascending(S)[k]]
      BY SelectionIs
    <2> HIDE DEF A, B, d, m
    <2>4. \A k \in 1..d : A[k] = B[k]
      <3>1. \A i \in S : c[i] = s[i]
        BY <1>2 DEF m
      <3> QED BY <2>2, <2>3, <3>1, Zenon
    <2>5. \A x, y \in Seq(T) : Len(x) = Len(y) /\ (\A k \in 1..Len(x) : x[k] = y[k]) => x = y
      BY SMTT(30)
    <2>6. A = B
      BY <2>2, <2>3, <2>4, <2>5, Zenon
    <2> QED BY <2>6 DEF A, B
  <1>4. Ascends(p, n, U)
    <2>1. p \in [1..n -> U]
      BY <1>1
    <2>2. \A k, l \in 1..n : k < l => p[k] < p[l]
      BY <1>1
    <2>3. ASSUME NEW j \in U PROVE \E k \in 1..n : p[k] = j
      <3>1. j - m \in 1..n /\ m + (j - m) = j
        BY <1>1
      <3>2. p[j - m] = j
        BY <3>1
      <3> QED BY <3>1, <3>2
    <2> HIDE DEF p, U
    <2> QED BY <2>1, <2>2, <2>3 DEF Ascends
  <1>5. U \in SUBSET Int /\ U \in SUBSET (1..Len(c))
    BY <1>1
  <1>6. Cardinality(U) = n /\ p = Ascending(U)
    <2> HIDE DEF p, U, n
    <2> QED BY <1>1, <1>4, <1>5, AscendingOnly
  <1>7. Selection(c, U) = t
    <2> DEFINE A == Selection(c, U)
    <2>0. \A k \in 1..n : p[k] = m + k
      OBVIOUS
    <2> HIDE DEF c, p, U, n, m
    <2>1. /\ A \in Seq(T) /\ Len(A) = n
          /\ \A k \in 1..n : A[k] = c[p[k]]
      BY <1>1, <1>5, <1>6, SelectionIs
    <2> HIDE DEF A
    <2>2. \A k \in 1..n : A[k] = t[k]
      BY <1>2, <2>0, <2>1, Zenon
    <2>3. \A x, y \in Seq(T) : Len(x) = Len(y) /\ (\A k \in 1..Len(x) : x[k] = y[k]) => x = y
      OBVIOUS
    <2>4. A = t
      BY <2>1, <2>2, <2>3, Zenon DEF n
    <2> QED BY <2>4 DEF A
  <1> QED BY <1>3, <1>7

\* Nothing is selected at no place.
LEMMA SelectionOfNone == ASSUME NEW T, NEW s \in Seq(T) PROVE Selection(s, {}) = <<>>
  <1>1. Len(Selection(s, {})) = Cardinality({}) /\ Selection(s, {}) \in Seq(T)
    BY SelectionIs
  <1>2. Cardinality({}) = 0
    BY FS_EmptySet
  <1> QED BY <1>1, <1>2

\* FlattenSeq joins a further sequence at the end.
LEMMA FlattenAppend ==
    ASSUME NEW T, NEW seqs \in Seq(Seq(T)), NEW s \in Seq(T)
    PROVE  FlattenSeq(Append(seqs, s)) = FlattenSeq(seqs) \o s
  <1> DEFINE n == Len(seqs)
             q == Append(seqs, s)
  <1>1. /\ n \in Nat /\ q \in Seq(Seq(T)) /\ Len(q) = n + 1 /\ q[n + 1] = s
        /\ \A k \in 1..n : q[k] = seqs[k]
    OBVIOUS
  <1> HIDE DEF q, n
  <1>2. PICK h : IsFlattening(h, T, seqs) /\ FlattenSeq(seqs) = h[n]
    BY FlattenSteps DEF n
  <1>3. PICK g : IsFlattening(g, T, q) /\ FlattenSeq(q) = g[n + 1]
    <2>1. \E g : IsFlattening(g, T, q) /\ FlattenSeq(q) = g[Len(q)]
      BY <1>1, FlattenSteps
    <2> QED BY <1>1, <2>1
  <1>4. /\ h[0] = <<>> /\ \A k \in 1..n : h[k] = h[k - 1] \o seqs[k]
        /\ g[0] = <<>> /\ \A k \in 1..(n + 1) : g[k] = g[k - 1] \o q[k]
    BY <1>1, <1>2, <1>3 DEF IsFlattening, n
  <1> DEFINE S == {k \in 0..n : g[k] = h[k]}
  <1>5. 0 \in S
    BY <1>1, <1>4
  <1>6. ASSUME NEW k \in 0..(n - 1), k \in S PROVE k + 1 \in S
    <2>1. PICK j \in 1..n : j = k + 1 /\ j - 1 = k
      BY <1>1
    <2>2. j \in 1..(n + 1) /\ j \in 0..n
      BY <1>1
    <2>3. g[j] = g[k] \o q[j] /\ h[j] = h[k] \o seqs[j] /\ q[j] = seqs[j]
      BY <1>1, <1>4, <2>1, <2>2
    <2>4. g[k] = h[k]
      BY <1>6
    <2> QED BY <2>1, <2>2, <2>3, <2>4
  <1>7. n \in S
    <2> HIDE DEF S
    <2>1. \A k \in 0..n : k \in S
      BY <1>1, <1>5, <1>6, SetInduction
    <2> QED BY <1>1, <2>1
  <1>8. g[n + 1] = g[n] \o q[n + 1]
    <2>1. n + 1 \in 1..(n + 1) /\ (n + 1) - 1 = n
      BY <1>1
    <2> QED BY <1>4, <2>1
  <1>9. FlattenSeq(q) = h[n] \o s
    BY <1>1, <1>3, <1>7, <1>8
  <1> QED BY <1>2, <1>9 DEF q
=============================================================================
