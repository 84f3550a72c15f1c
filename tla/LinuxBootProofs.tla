-------------------------- MODULE LinuxBootProofs ---------------------------
(***************************************************************************)
(* The Linux boot path, for every situation, every sequence of attempts and *)
(* every size of the memory map:                                            *)
(*  - the memory of an attempt is accounted for, and none is used after it  *)
(*    was freed (MemoryIsAccounted);                                        *)
(*  - the device tree is the one that the entry asks for (TreeIsOwn);       *)
(*  - so are the initramfs, the command line and /chosen (InputIsOwn);      *)
(*  - a tree that was read has the overlays that were asked for, or as the   *)
(*    error policy says without them (OverlaysFollowPolicy);                *)
(*  - the attempts of linux_exit_boot_services suffice for one change of    *)
(*    the memory map (ExitSurvives);                                        *)
(*  - a raw Image is told of exactly the usable memory (MapExact), and an   *)
(*    old kernel goes to the lowest place where it fits (PlaceIsLowest).    *)
(***************************************************************************)
EXTENDS LinuxBoot, MemoryMap, Recursion, FiniteSetTheorems, TLAPS

\* A set of numbers up to n that is not empty has a greatest member.
LEMMA GreatestMember ==
    ASSUME NEW n \in Nat, NEW S \in SUBSET (1..n), S # {}
    PROVE  \E m \in S : \A k \in S : m >= k
  <1> DEFINE T == {n - i : i \in S}
  <1>0. S \subseteq Int /\ \A i \in S : n - i \in Nat
    OBVIOUS
  <1>1. T \in SUBSET Nat /\ T # {}
    BY <1>0
  <1>2. PICK t \in T : \A u \in T : t <= u
    BY <1>1, LeastMember
  <1>3. PICK m \in S : t = n - m
    BY <1>2
  <1>4. ASSUME NEW k \in S PROVE m >= k
    <2>1. n - k \in T
      OBVIOUS
    <2>2. n - m <= n - k
      BY <1>2, <1>3, <2>1
    <2>3. k \in Int /\ m \in Int
      BY <1>0
    <2> HIDE DEF T
    <2> QED BY <2>2, <2>3
  <1> QED BY <1>3, <1>4

\* A list, of whatever it holds.
IsSeqn(s) == \E T : s \in Seq(T)

\* The shortest lists.
LEMMA ShortIsSeqn == IsSeqn(<<>>) /\ \A x : IsSeqn(<<x>>)
  <1>1. <<>> \in Seq({}) /\ \A x : <<x>> \in Seq({x})
    OBVIOUS
  <1> QED BY <1>1 DEF IsSeqn

\* A list has a length, and that many members.
LEMMA SeqnShape ==
    ASSUME NEW s, IsSeqn(s)
    PROVE  Len(s) \in Nat /\ DOMAIN s = 1..Len(s)
  BY DEF IsSeqn

\* A list that is turned round is a list.
LEMMA ReverseIsSeqn ==
    ASSUME NEW s, IsSeqn(s) PROVE IsSeqn(Reverse(s))
  <1>1. PICK T : s \in Seq(T)
    BY DEF IsSeqn
  <1>2. Reverse(s) \in Seq(T)
    BY <1>1 DEF Reverse
  <1> QED BY <1>2 DEF IsSeqn

\* What a piece of a path stands for is a list.
LEMMA ExpandIsSeqn ==
    ASSUME NEW path, NEW var, NEW values, IsSeqn(values)
    PROVE  IsSeqn(Expand(path, var, values))
  <1> DEFINE T == {path} \cup {Replace(path, var, values[i]) : i \in DOMAIN values}
  <1>1. Len(values) \in Nat /\ DOMAIN values = 1..Len(values)
    BY SeqnShape
  <1>2. [i \in DOMAIN values |-> Replace(path, var, values[i])] \in Seq(T)
    BY <1>1
  <1>3. <<path>> \in Seq(T)
    OBVIOUS
  <1> HIDE DEF T
  <1>4. Expand(path, var, values) \in Seq(T)
    BY <1>2, <1>3 DEF Expand
  <1> QED BY <1>4 DEF IsSeqn

\* What a list of pieces stands for is a list.
LEMMA ExpandAllIsSeqn ==
    ASSUME NEW paths, IsSeqn(paths), NEW var, NEW values, IsSeqn(values)
    PROVE  IsSeqn(ExpandAll(paths, var, values))
  <1> DEFINE E(i) == Expand(paths[i], var, values)
             T == UNION {Range(E(i)) : i \in DOMAIN paths}
             es == [i \in DOMAIN paths |-> E(i)]
  <1>1. Len(paths) \in Nat /\ DOMAIN paths = 1..Len(paths)
    BY SeqnShape
  <1>2. ASSUME NEW i \in DOMAIN paths PROVE E(i) \in Seq(T)
    <2>1. IsSeqn(E(i))
      BY ExpandIsSeqn
    <2> HIDE DEF E
    <2>2. PICK U : E(i) \in Seq(U)
      BY <2>1 DEF IsSeqn
    <2>3. \A j \in 1..Len(E(i)) : E(i)[j] \in T
      BY <2>2 DEF Range
    <2> HIDE DEF T
    <2> QED BY <2>2, <2>3
  <1> HIDE DEF E, T
  <1>3. es \in Seq(Seq(T))
    BY <1>1, <1>2
  <1>4. FlattenSeq(es) \in Seq(T)
    BY <1>3, FlattenIsSeq
  <1>5. ExpandAll(paths, var, values) = FlattenSeq(es)
    BY Zenon DEF ExpandAll, E
  <1> QED BY <1>4, <1>5 DEF IsSeqn

\* The identifiers of those profiles that have one.
LEMMA SelectedIsSeqn ==
    ASSUME NEW ps, IsSeqn(ps), NEW id
    PROVE  IsSeqn(FlattenSeq([i \in DOMAIN ps |->
                    IF id[ps[i]] = None THEN <<>> ELSE <<id[ps[i]]>>]))
  <1> DEFINE T == {id[ps[i]] : i \in DOMAIN ps}
             e(i) == IF id[ps[i]] = None THEN <<>> ELSE <<id[ps[i]]>>
             es == [i \in DOMAIN ps |-> e(i)]
  <1>1. Len(ps) \in Nat /\ DOMAIN ps = 1..Len(ps)
    BY SeqnShape
  <1>2. ASSUME NEW i \in DOMAIN ps PROVE e(i) \in Seq(T)
    <2>1. id[ps[i]] \in T
      OBVIOUS
    <2> HIDE DEF T
    <2> QED BY <2>1
  <1> HIDE DEF T, e
  <1>3. es \in Seq(Seq(T))
    BY <1>1, <1>2
  <1>4. FlattenSeq(es) \in Seq(T)
    BY <1>3, FlattenIsSeq
  <1>5. IsSeqn(FlattenSeq(es))
    BY <1>4 DEF IsSeqn
  <1> QED BY <1>5, Zenon DEF e

\* The values of a pattern are a list.
LEMMA ValuesIsSeqn ==
    ASSUME NEW c, IsSeqn(c.profiles), NEW loader, NEW k,
           NEW var \in {"{version}", "{ktype}", "{profile}", "{dtb-id}"}
    PROVE  IsSeqn(Values(c, loader, k, var))
  <1>3. CASE var = "{version}"
    BY <1>3, ShortIsSeqn DEF Values
  <1>4. CASE var = "{ktype}"
    BY <1>4, ShortIsSeqn DEF Values
  <1>5. CASE var = "{profile}"
    BY <1>5 DEF Values
  <1>6. CASE var = "{dtb-id}"
    <2>1. IsSeqn(FlattenSeq([i \in DOMAIN c.profiles |->
                    IF c.dtbId[c.profiles[i]] = None THEN <<>>
                    ELSE <<c.dtbId[c.profiles[i]]>>]))
      BY SelectedIsSeqn, Zenon
    <2> QED BY <1>6, <2>1 DEF Values
  <1> QED BY <1>3, <1>4, <1>5, <1>6

\* embloader_resolve_path returns a list.
LEMMA ResolvePathIsSeqn ==
    ASSUME NEW c, IsSeqn(c.profiles), NEW loader, NEW k, NEW path
    PROVE  IsSeqn(ResolvePath(c, loader, k, path))
  <1> DEFINE V(var) == Values(c, loader, k, var)
             p1 == Expand(path, "{version}", V("{version}"))
             p2 == ExpandAll(p1, "{ktype}", V("{ktype}"))
             p3 == ExpandAll(p2, "{profile}", V("{profile}"))
             p4 == ExpandAll(p3, "{dtb-id}", V("{dtb-id}"))
  <1>1. /\ IsSeqn(V("{version}")) /\ IsSeqn(V("{ktype}"))
        /\ IsSeqn(V("{profile}")) /\ IsSeqn(V("{dtb-id}"))
    BY ValuesIsSeqn
  <1>2. IsSeqn(p1)
    <2> HIDE DEF V
    <2> QED BY <1>1, ExpandIsSeqn
  <1>3. IsSeqn(p2)
    <2> HIDE DEF p1, V
    <2> QED BY <1>1, <1>2, ExpandAllIsSeqn
  <1>4. IsSeqn(p3)
    <2> HIDE DEF p2, V
    <2> QED BY <1>1, <1>3, ExpandAllIsSeqn
  <1>5. IsSeqn(p4)
    <2> HIDE DEF p3, V
    <2> QED BY <1>1, <1>4, ExpandAllIsSeqn
  <1>7. ResolvePath(c, loader, k, path) = IF path = None \/ loader = None
                                          THEN <<>> ELSE p4
    BY Zenon DEF ResolvePath
  <1> HIDE DEF p4
  <1> QED BY <1>5, <1>7, ShortIsSeqn

\* do_load_dtbo_dirs applies an overlay from a file that is there.
LEMMA PickedIsThere ==
    ASSUME NEW disk, NEW o, NEW dirs, IsSeqn(dirs),
           PickOverlay(disk, o, dirs) # None
    PROVE  PickOverlay(disk, o, dirs) \in DOMAIN disk
  <1> DEFINE fs == OverlayFiles(o, dirs)
             ok == {i \in DOMAIN fs : /\ fs[i] \in DOMAIN disk
                                      /\ disk[fs[i]].applies
                                      /\ WriteOverrides(disk[fs[i]], o.params)}
             i0 == CHOOSE i \in ok : \A j \in ok : i <= j
  <1>1. PickOverlay(disk, o, dirs) = IF ok = {} THEN None ELSE fs[i0]
    BY Zenon DEF PickOverlay
  <1>2. ok # {}
    BY <1>1
  <1>3. DOMAIN fs \subseteq Nat
    BY SeqnShape DEF OverlayFiles
  <1> HIDE DEF fs
  <1>4. ok \in SUBSET Nat
    BY <1>3
  <1>5. \E i \in ok : \A j \in ok : i <= j
    <2> HIDE DEF ok
    <2> QED BY <1>2, <1>4, LeastMember
  <1>6. i0 \in ok
    <2> HIDE DEF ok
    <2> QED BY <1>5
  <1>7. fs[i0] \in DOMAIN disk
    BY <1>6
  <1> QED BY <1>1, <1>2, <1>7

\* linux_load_default_dtb takes the last path of the list that is there.
LEMMA DefaultIsLast ==
    ASSUME NEW c, IsSeqn(c.profiles), NEW disk, NEW loader, NEW k,
           DefaultDtb(c, disk, loader, k) # None
    PROVE  LET ps == ResolvePath(c, loader, k, c.defaultDtb)
           IN  \E i \in DOMAIN ps :
                 /\ ps[i] = DefaultDtb(c, disk, loader, k)
                 /\ ps[i] \in DOMAIN disk
                 /\ \A j \in DOMAIN ps : j > i => ps[j] \notin DOMAIN disk
  <1> DEFINE ps == ResolvePath(c, loader, k, c.defaultDtb)
             hit == {i \in DOMAIN ps : ps[i] \in DOMAIN disk}
             i0 == CHOOSE i \in hit : \A j \in hit : i >= j
  <1>1. DefaultDtb(c, disk, loader, k) = IF hit = {} THEN None ELSE ps[i0]
    BY Zenon DEF DefaultDtb
  <1>2. hit # {}
    BY <1>1
  <1>3. Len(ps) \in Nat /\ DOMAIN ps = 1..Len(ps)
    <2>1. IsSeqn(ps)
      BY ResolvePathIsSeqn
    <2> HIDE DEF ps
    <2> QED BY <2>1, SeqnShape
  <1> HIDE DEF ps
  <1>4. hit \in SUBSET (1..Len(ps))
    BY <1>3
  <1>5. \E i \in hit : \A j \in hit : i >= j
    <2> HIDE DEF hit
    <2> QED BY <1>2, <1>3, <1>4, GreatestMember
  <1>6. i0 \in hit /\ \A j \in hit : i0 >= j
    <2> HIDE DEF hit
    <2> QED BY <1>5
  <1> HIDE DEF i0
  <1>7. i0 \in DOMAIN ps /\ ps[i0] \in DOMAIN disk
    BY <1>6
  <1>8. ASSUME NEW j \in DOMAIN ps, j > i0 PROVE ps[j] \notin DOMAIN disk
    BY <1>3, <1>6, <1>7, <1>8
  <1>9. ps[i0] = DefaultDtb(c, disk, loader, k)
    BY <1>1, <1>2
  <1>10. \E i \in DOMAIN ps :
           /\ ps[i] = DefaultDtb(c, disk, loader, k)
           /\ ps[i] \in DOMAIN disk
           /\ \A j \in DOMAIN ps : j > i => ps[j] \notin DOMAIN disk
    BY <1>7, <1>8, <1>9
  <1> QED BY <1>10, Zenon DEF ps

\* What linux_load_dtbos keeps in its loop.
Loaded(O) == [ovs : Seq(O), count : Int]

\* An overlay that is configured is applied, passed over or fails.
LEMMA LoadConfiguredTyped ==
    ASSUME NEW disk, NEW dirs, IsSeqn(dirs), NEW onError, NEW O, NEW o,
           \A f \in DOMAIN disk : Applied(disk, o, f) \in O,
           NEW r \in Loaded(O)
    PROVE  LoadConfigured(disk, dirs, onError, r, o) \in Loaded(O)
  <1> DEFINE file == PickOverlay(disk, o, dirs)
  <1>1. file # None => Applied(disk, o, file) \in O
    BY PickedIsThere
  <1> HIDE DEF file
  <1>2. file # None => Append(r.ovs, Applied(disk, o, file)) \in Seq(O)
    BY <1>1 DEF Loaded
  <1>3. LoadConfigured(disk, dirs, onError, r, o) =
          IF r.count = -1 THEN r
          ELSE IF file # None
          THEN [ovs |-> Append(r.ovs, Applied(disk, o, file)),
                count |-> r.count + 1]
          ELSE IF onError \in {"failure", "revert"}
          THEN [ovs |-> r.ovs, count |-> -1]
          ELSE r
    BY Zenon DEF LoadConfigured, file
  <1>4. r.count + 1 \in Int /\ -1 \in Int /\ r.ovs \in Seq(O)
    BY DEF Loaded
  <1> QED BY <1>2, <1>3, <1>4 DEF Loaded

\* The loop of linux_load_dtbos, step by step.
ConfiguredRuns(r, c, disk, dirs, O, ovs) ==
    /\ \A k \in 0..Len(c.overlays) : r[k] \in Loaded(O)
    /\ r[0] = [ovs |-> ovs, count |-> 0]
    /\ \A k \in 1..Len(c.overlays) :
         r[k] = IF ~IsActive(c, c.overlays[k]) THEN r[k - 1]
                ELSE LoadConfigured(disk, dirs, OnError(c), r[k - 1],
                                    c.overlays[k])

\* Every overlay of the loop of linux_load_dtbos is one step of it.
LEMMA ConfiguredSteps ==
    ASSUME NEW c, NEW disk, NEW dirs, IsSeqn(dirs), NEW O, NEW ovs \in Seq(O),
           Len(c.overlays) \in Nat,
           \A k \in 1..Len(c.overlays) : \A f \in DOMAIN disk :
              Applied(disk, c.overlays[k], f) \in O
    PROVE  ConfiguredRuns(ConfiguredLoop(c, disk, dirs, ovs), c, disk, dirs, O, ovs)
  <1> DEFINE n == Len(c.overlays)
             X == Loaded(O)
             start == [ovs |-> ovs, count |-> 0]
             St(x, k) == IF ~IsActive(c, c.overlays[k]) THEN x
                         ELSE LoadConfigured(disk, dirs, OnError(c), x,
                                             c.overlays[k])
             Body(f) == [k \in 0..n |-> IF k = 0 THEN start ELSE St(f[k - 1], k)]
             r == CHOOSE f : f = Body(f)
             step == [p \in X \X (1..n) |-> St(p[1], p[2])]
  <1>1. \A x \in X, k \in 1..n : St(x, k) \in X
    BY LoadConfiguredTyped
  <1>2. ConfiguredLoop(c, disk, dirs, ovs) = r
    BY Zenon DEF ConfiguredLoop
  <1>3. start \in X
    BY DEF Loaded
  <1> HIDE DEF start, X, St
  <1>4. IsStep(step, X, n) /\ \A x \in X, k \in 1..n : step[<<x, k>>] = St(x, k)
    BY <1>1 DEF IsStep
  <1> HIDE DEF n, step
  <1>n. n \in Nat
    BY DEF n
  <1>5. PICK g : Iterates(g, X, n, start, step)
    BY <1>n, <1>3, <1>4, Iteration, Zenon
  <1>6. g = Body(g)
    <2>1. g \in [0..n -> X] /\ g[0] = start
      BY <1>5 DEF Iterates
    <2>2. ASSUME NEW k \in 0..n, k # 0 PROVE g[k] = St(g[k - 1], k)
      <3>1. k \in 1..n /\ k - 1 \in 0..n
        BY <1>n, <2>2
      <3> QED BY <1>4, <1>5, <2>1, <3>1 DEF Iterates
    <2> QED BY <2>1, <2>2
  <1>7. r = Body(r)
    <2> HIDE DEF Body
    <2> QED BY <1>6, Zenon
  <1> HIDE DEF r
  <1>8. r[0] = start /\ \A k \in 1..n : r[k] = St(r[k - 1], k)
    <2> DEFINE B == Body(r)
    <2>1. B[0] = start /\ \A k \in 1..n : B[k] = St(r[k - 1], k)
      BY <1>n
    <2> HIDE DEF B
    <2> QED BY <1>7, <2>1 DEF B
  <1> DEFINE S == {k \in 0..n : r[k] \in X}
  <1>9. 0 \in S
    BY <1>n, <1>3, <1>8
  <1>10. ASSUME NEW k \in 0..(n - 1), k \in S PROVE k + 1 \in S
    <2>1. k + 1 \in 1..n /\ (k + 1) - 1 = k /\ k + 1 \in 0..n
      BY <1>n
    <2>2. r[k + 1] = St(r[k], k + 1)
      BY <1>8, <2>1
    <2> QED BY <1>1, <1>10, <2>1, <2>2
  <1>11. \A k \in 0..n : k \in S
    <2> HIDE DEF S
    <2> QED BY <1>n, <1>9, <1>10, SetInduction
  <1>12. \A k \in 0..n : r[k] \in X
    BY <1>11
  <1> QED BY <1>2, <1>8, <1>12, Zenon DEF n, X, start, St, ConfiguredRuns

\* linux_load_dtbos returns the overlays that are applied and their number.
LEMMA LoadDtbosTyped ==
    ASSUME NEW c, IsSeqn(c.profiles), NEW disk, NEW loader, NEW k, NEW O,
           NEW ovs \in Seq(O), Len(c.overlays) \in Nat,
           \A i \in 1..Len(c.overlays) : \A f \in DOMAIN disk :
              Applied(disk, c.overlays[i], f) \in O
    PROVE  LoadDtbos(c, disk, loader, k, ovs) \in Loaded(O)
  <1> DEFINE dirs == Reverse(ResolvePath(c, loader, k, c.dtboDir))
             r == ConfiguredLoop(c, disk, dirs, ovs)[Len(c.overlays)]
             isEmpty == \A j \in DOMAIN c.overlays : ~IsActive(c, c.overlays[j])
  <1>1. IsSeqn(dirs)
    BY ResolvePathIsSeqn, ReverseIsSeqn
  <1>2. r \in Loaded(O)
    <2> HIDE DEF dirs
    <2>1. ConfiguredRuns(ConfiguredLoop(c, disk, dirs, ovs), c, disk, dirs, O, ovs)
      BY <1>1, ConfiguredSteps
    <2> QED BY <2>1 DEF ConfiguredRuns
  <1>3. LoadDtbos(c, disk, loader, k, ovs) =
          IF ~isEmpty /\ r.count = 0 /\ OnError(c) = "needone"
          THEN [ovs |-> r.ovs, count |-> -1] ELSE r
    BY Zenon DEF LoadDtbos
  <1> HIDE DEF r, isEmpty
  <1>4. [ovs |-> r.ovs, count |-> -1] \in Loaded(O)
    BY <1>2 DEF Loaded
  <1> QED BY <1>2, <1>3, <1>4

\* What linux_load_dtoverlay keeps in its loop.
OwnLoaded(O) == [ovs : Seq(O), stop : BOOLEAN, ok : BOOLEAN, applied : Int,
                 failed : Int]

\* One overlay of the entry.
LEMMA LoadOwnTyped ==
    ASSUME NEW disk, NEW dirs, IsSeqn(dirs), NEW onError, NEW O, NEW o,
           \A f \in DOMAIN disk : Applied(disk, o, f) \in O,
           NEW before \in Seq(O), NEW r \in OwnLoaded(O)
    PROVE  LoadOwn(disk, dirs, onError, before, r, o) \in OwnLoaded(O)
  <1> DEFINE file == PickOverlay(disk, o, dirs)
             a == Append(r.ovs, Applied(disk, o, file))
  <1>1. file # None => Applied(disk, o, file) \in O
    BY PickedIsThere
  <1>2. LoadOwn(disk, dirs, onError, before, r, o) =
          IF r.stop THEN r
          ELSE IF file # None
          THEN [r EXCEPT !.ovs = a, !.applied = r.applied + 1]
          ELSE IF onError = "failure"
          THEN [r EXCEPT !.stop = TRUE, !.ok = FALSE]
          ELSE IF onError = "revert"
          THEN [r EXCEPT !.stop = TRUE, !.ovs = before,
                         !.applied = 0, !.failed = 0]
          ELSE [r EXCEPT !.failed = r.failed + 1]
    BY DEF LoadOwn, RevertTo
  <1> HIDE DEF file
  <1>3. file # None => a \in Seq(O)
    BY <1>1 DEF OwnLoaded
  <1>4. r.applied + 1 \in Int /\ r.failed + 1 \in Int
    BY DEF OwnLoaded
  <1> HIDE DEF a
  <1>5. file # None =>
          [r EXCEPT !.ovs = a, !.applied = r.applied + 1] \in OwnLoaded(O)
    BY <1>3, <1>4 DEF OwnLoaded
  <1>6. [r EXCEPT !.stop = TRUE, !.ok = FALSE] \in OwnLoaded(O)
    BY DEF OwnLoaded
  <1>7. [r EXCEPT !.stop = TRUE, !.ovs = before, !.applied = 0,
                  !.failed = 0] \in OwnLoaded(O)
    <2> DEFINE e == [r EXCEPT !.stop = TRUE, !.ovs = before]
    <2>1. e \in OwnLoaded(O)
      BY DEF OwnLoaded
    <2>2. [r EXCEPT !.stop = TRUE, !.ovs = before, !.applied = 0,
                    !.failed = 0] = [e EXCEPT !.applied = 0, !.failed = 0]
      OBVIOUS
    <2> HIDE DEF e
    <2>3. ASSUME NEW z \in Int
          PROVE  [e EXCEPT !.applied = z, !.failed = z] \in OwnLoaded(O)
      BY <2>1 DEF OwnLoaded
    <2>4. 0 \in Int
      OBVIOUS
    <2>5. [e EXCEPT !.applied = 0, !.failed = 0] \in OwnLoaded(O)
      BY <2>3, <2>4, Zenon
    <2> QED BY <2>2, <2>5
  <1>8. [r EXCEPT !.failed = r.failed + 1] \in OwnLoaded(O)
    BY <1>4 DEF OwnLoaded
  <1> QED BY <1>2, <1>5, <1>6, <1>7, <1>8

\* The loop of linux_load_dtoverlay, step by step.
OwnRuns(r, c, disk, dirs, O, before, start, todo) ==
    /\ \A k \in 0..Len(todo) : r[k] \in OwnLoaded(O)
    /\ r[0] = start
    /\ \A k \in 1..Len(todo) :
         r[k] = LoadOwn(disk, dirs, OnError(c), before, r[k - 1], todo[k])

\* Every overlay of the loop of linux_load_dtoverlay is one step of it.
LEMMA OwnSteps ==
    ASSUME NEW c, NEW disk, NEW dirs, IsSeqn(dirs), NEW O, NEW before \in Seq(O),
           NEW start \in OwnLoaded(O), NEW todo, Len(todo) \in Nat,
           \A k \in 1..Len(todo) : \A f \in DOMAIN disk :
              Applied(disk, todo[k], f) \in O
    PROVE  OwnRuns(OwnLoop(c, disk, dirs, before, start, todo),
                   c, disk, dirs, O, before, start, todo)
  <1> DEFINE n == Len(todo)
             X == OwnLoaded(O)
             St(x, k) == LoadOwn(disk, dirs, OnError(c), before, x, todo[k])
             Body(f) == [k \in 0..n |-> IF k = 0 THEN start ELSE St(f[k - 1], k)]
             r == CHOOSE f : f = Body(f)
             step == [p \in X \X (1..n) |-> St(p[1], p[2])]
  <1>1. \A x \in X, k \in 1..n : St(x, k) \in X
    BY LoadOwnTyped
  <1>2. OwnLoop(c, disk, dirs, before, start, todo) = r
    BY Zenon DEF OwnLoop
  <1>3. start \in X
    OBVIOUS
  <1> HIDE DEF X, St
  <1>4. IsStep(step, X, n) /\ \A x \in X, k \in 1..n : step[<<x, k>>] = St(x, k)
    BY <1>1 DEF IsStep
  <1> HIDE DEF n, step
  <1>n. n \in Nat
    BY DEF n
  <1>5. PICK g : Iterates(g, X, n, start, step)
    BY <1>n, <1>3, <1>4, Iteration, Zenon
  <1>6. g = Body(g)
    <2>1. g \in [0..n -> X] /\ g[0] = start
      BY <1>5 DEF Iterates
    <2>2. ASSUME NEW k \in 0..n, k # 0 PROVE g[k] = St(g[k - 1], k)
      <3>1. k \in 1..n /\ k - 1 \in 0..n
        BY <1>n, <2>2
      <3> QED BY <1>4, <1>5, <2>1, <3>1 DEF Iterates
    <2> QED BY <2>1, <2>2
  <1>7. r = Body(r)
    <2> HIDE DEF Body
    <2> QED BY <1>6, Zenon
  <1> HIDE DEF r
  <1>8. r[0] = start /\ \A k \in 1..n : r[k] = St(r[k - 1], k)
    <2> DEFINE B == Body(r)
    <2>1. B[0] = start /\ \A k \in 1..n : B[k] = St(r[k - 1], k)
      BY <1>n
    <2> HIDE DEF B
    <2> QED BY <1>7, <2>1 DEF B
  <1> DEFINE S == {k \in 0..n : r[k] \in X}
  <1>9. 0 \in S
    BY <1>n, <1>3, <1>8
  <1>10. ASSUME NEW k \in 0..(n - 1), k \in S PROVE k + 1 \in S
    <2>1. k + 1 \in 1..n /\ (k + 1) - 1 = k /\ k + 1 \in 0..n
      BY <1>n
    <2>2. r[k + 1] = St(r[k], k + 1)
      BY <1>8, <2>1
    <2> QED BY <1>1, <1>10, <2>1, <2>2
  <1>11. \A k \in 0..n : k \in S
    <2> HIDE DEF S
    <2> QED BY <1>n, <1>9, <1>10, SetInduction
  <1>12. \A k \in 0..n : r[k] \in X
    BY <1>11
  <1> QED BY <1>2, <1>8, <1>12, Zenon DEF n, X, St, OwnRuns

\* The overlays of linux_load_dtoverlay.
LEMMA ApplyOverlaysTyped ==
    ASSUME NEW c, IsSeqn(c.profiles), NEW disk, NEW loader, NEW k, NEW O,
           NEW ovs \in Seq(O), Len(c.overlays) \in Nat,
           Len(loader.overlays) \in Nat,
           \A i \in 1..Len(c.overlays) : \A f \in DOMAIN disk :
              Applied(disk, c.overlays[i], f) \in O,
           \A i \in 1..Len(loader.overlays) : \A f \in DOMAIN disk :
              Applied(disk, loader.overlays[i], f) \in O
    PROVE  /\ ApplyOverlays(c, disk, loader, k, ovs).ovs \in Seq(O)
           /\ ApplyOverlays(c, disk, loader, k, ovs).ok \in BOOLEAN
  <1> DEFINE l == LoadDtbos(c, disk, loader, k, ovs)
             dirs == ResolvePath(c, loader, k, c.dtboDir)
             start == [ovs |-> l.ovs, stop |-> FALSE, ok |-> TRUE,
                       applied |-> IF l.count > 0 THEN l.count ELSE 0,
                       failed |-> IF l.count = -1 THEN 1 ELSE 0]
             r == OwnLoop(c, disk, dirs, ovs, start, loader.overlays)[
                    Len(loader.overlays)]
  <1>1. l \in Loaded(O)
    BY LoadDtbosTyped
  <1>2. IsSeqn(dirs)
    BY ResolvePathIsSeqn
  <1> HIDE DEF l, dirs
  <1>3. start \in OwnLoaded(O)
    BY <1>1 DEF Loaded, OwnLoaded
  <1>4. r \in OwnLoaded(O)
    <2> HIDE DEF start
    <2>1. OwnRuns(OwnLoop(c, disk, dirs, ovs, start, loader.overlays),
                  c, disk, dirs, O, ovs, start, loader.overlays)
      BY <1>2, <1>3, OwnSteps
    <2> QED BY <2>1 DEF OwnRuns
  <1> DEFINE a == ApplyOverlays(c, disk, loader, k, ovs)
  <1>5. a = IF l.count = -1 /\ OnError(c) = "failure"
            THEN [ovs |-> l.ovs, ok |-> FALSE]
            ELSE IF l.count = -1 /\ OnError(c) = "revert"
            THEN [ovs |-> ovs, ok |-> TRUE]
            ELSE [ovs |-> r.ovs,
                  ok |-> r.ok /\ ~(/\ OnError(c) = "needone"
                                   /\ r.applied = 0 /\ r.failed > 0)]
    BY Zenon DEF ApplyOverlays, l, dirs
  <1>6. r.ovs \in Seq(O) /\ l.ovs \in Seq(O)
    BY <1>1, <1>4 DEF Loaded, OwnLoaded
  <1> HIDE DEF r, a
  <1>7. a.ovs \in Seq(O) /\ a.ok \in BOOLEAN
    BY <1>5, <1>6
  <1> QED BY <1>7 DEF a

\* The buffers of linux_data, what outlives an attempt, and the protocol that
\* this attempt has registered.
Owned == ({data.kernel, data.initramfs} \ {None}) \cup AddrOf(data.fdt)
Kept == AddrOf(gfdt) \cup ({installed} \ {None}) \cup leaked
Protocol == IF hand THEN {reg.loader} ELSE {}

\* Every live allocation has exactly one owner.
Ledger == mem = Kept \cup Owned \cup temps \cup Protocol

\* What each pointer can point to.  Buffers of earlier attempts are told from
\* those of this one by their number.
FileAddress == {"file"} \X Nat \X Nat
LeakedUpTo(n) == {"initramfs", "loader"} \X (0..n)

Places ==
    /\ data.kernel \in {None, Addr("kernel")}
    /\ data.initramfs \in {None, Addr("initramfs")}
    /\ data.fdt # None => data.fdt.addr = Addr("dtb")
    /\ gfdt # None => gfdt.addr \in {"gfdt", "fetched"} \X Nat
    /\ installed \in ({"table"} \X Nat) \cup {None}
    /\ leaked \subseteq LeakedUpTo(attempt)
    /\ pc \notin {"idle", "clean"} => leaked \subseteq LeakedUpTo(attempt - 1)
    /\ data.initramfs \notin leaked
    /\ table # None => table.addr \in {Firmware, installed}

\* The protocol of this attempt, or one that an earlier attempt had to leave.
Registration ==
    /\ hand => /\ pc \in {"image", "start", "stop", "unregister", "os"}
               /\ data.initramfs # None
               /\ reg.addr = data.initramfs /\ reg.loader = Addr("loader")
    /\ reg # None /\ ~hand => {reg.addr, reg.loader} \subseteq leaked

\* The allocations of a function that is running.
Temporaries ==
    /\ pc = "initramfs" => temps \subseteq FileAddress
    /\ pc \in {"image64", "handoff"} =>
         temps \subseteq {"kernel64", "tree64", "memory64"} \X Nat
    /\ pc \in {"start", "stop"} => temps \subseteq {"image", "options"} \X Nat
    /\ pc = "start" => Addr("image") \in temps
    /\ pc \notin {"initramfs", "image64", "handoff", "start", "stop", "os"} =>
         temps = {}

\* Between two attempts there is nothing but what outlives them.
Phases ==
    /\ pc \in {"idle", "returned"} => cur = None
    /\ cur = None => /\ data = NoData
                     /\ pc \in {"idle", "prepare", "unprepared",
                                "installPrepared", "returned"}
    /\ pc \in {"install", "installPrepared"} => SourceTree # None

\* The types of what the memory depends on.
Types ==
    /\ sit \in DOMAIN Situations /\ attempt \in 0..MaxAttempts
    /\ cur \in DOMAIN cf.entries \cup {None}
    /\ DOMAIN data = {"kernel", "initramfs", "fdt", "bootargs"}
    /\ data = [kernel |-> data.kernel, initramfs |-> data.initramfs,
               fdt |-> data.fdt, bootargs |-> data.bootargs]
    /\ {gfdt, table, data.fdt} \subseteq TreeOf(cf) \cup {None}
    /\ hand \in BOOLEAN

MemInv == Types /\ Ledger /\ Places /\ Registration /\ Temporaries /\ Phases

\* Everything but the loader's tree.
Rest == ({installed} \ {None}) \cup leaked \cup Owned \cup temps \cup Protocol

\* The first component of an address tells what it was allocated for.
LEMMA Tags ==
    ASSUME MemInv, pc # "os"
    PROVE  /\ data.kernel # None => data.kernel[1] = "kernel"
           /\ data.initramfs # None => data.initramfs[1] = "initramfs"
           /\ data.fdt # None => data.fdt.addr[1] = "dtb"
           /\ gfdt # None => gfdt.addr[1] \in {"gfdt", "fetched"}
           /\ installed # None => installed[1] = "table"
           /\ \A x \in leaked : x[1] \in {"initramfs", "loader"}
           /\ \A x \in temps : x[1] \in {"file", "kernel64", "tree64", "memory64",
                                         "image", "options"}
           /\ hand => /\ reg.loader[1] = "loader" /\ reg.loader \notin leaked
                      /\ reg.loader # None
  <1> USE DEF MemInv
  <1>1. /\ data.kernel # None => data.kernel[1] = "kernel"
        /\ data.initramfs # None => data.initramfs[1] = "initramfs"
        /\ data.fdt # None => data.fdt.addr[1] = "dtb"
    BY DEF Places, Addr
  <1>2. /\ gfdt # None => gfdt.addr[1] \in {"gfdt", "fetched"}
        /\ installed # None => installed[1] = "table"
    BY DEF Places
  <1>3. \A x \in leaked : x[1] \in {"initramfs", "loader"}
    BY DEF Places, LeakedUpTo
  <1>4. \A x \in temps : x[1] \in {"file", "kernel64", "tree64", "memory64",
                                   "image", "options"}
    <2>1. CASE pc = "initramfs"
      BY <2>1 DEF Temporaries, FileAddress
    <2>2. CASE pc \in {"image64", "handoff"}
      BY <2>2 DEF Temporaries
    <2>3. CASE pc \in {"start", "stop"}
      BY <2>3 DEF Temporaries
    <2>4. CASE pc \notin {"initramfs", "image64", "handoff", "start", "stop"}
      BY <2>4 DEF Temporaries
    <2> QED BY <2>1, <2>2, <2>3, <2>4
  <1>5. ASSUME hand
        PROVE  /\ reg.loader[1] = "loader" /\ reg.loader \notin leaked
               /\ reg.loader # None
    <2>1. reg.loader = <<"loader", attempt>> /\ pc \notin {"idle", "clean"}
      BY <1>5 DEF Registration, Addr
    <2>2. leaked \subseteq LeakedUpTo(attempt - 1) /\ attempt \in Nat
      BY <2>1, AttemptsAssumption DEF Places, Types
    <2>3. <<"loader", attempt>> \notin LeakedUpTo(attempt - 1)
      BY <2>2 DEF LeakedUpTo
    <2>4. <<"loader", attempt>> # None
      BY <2>2, SituationAssumption DEF Types, cf, Address, Uses
    <2> QED BY <2>1, <2>2, <2>3, <2>4
  <1> QED BY <1>1, <1>2, <1>3, <1>4, <1>5

\* NULL is the address of nothing.
LEMMA NoneIsNoAddress ==
    ASSUME Types PROVE None \notin Address /\ None \notin TreeOf(cf)
                       /\ None \notin Files(cf) /\ None \notin DOMAIN cf.entries
  BY SituationAssumption DEF Types, cf

\* Different owners have different buffers.
LEMMA Apart ==
    ASSUME MemInv, pc # "os"
    PROVE  /\ Owned \cap Kept = {}
           /\ temps \cap (Kept \cup Owned) = {}
           /\ Protocol \cap (Kept \cup Owned \cup temps) = {}
           /\ \A n \in Nat : <<"gfdt", n>> \notin Rest /\ <<"fetched", n>> \notin Rest
           /\ installed # None =>
                installed \notin AddrOf(gfdt) \cup leaked \cup Owned \cup temps
           /\ None \notin Kept \cup Owned
  <1>t. Types /\ Places
    BY DEF MemInv
  <1>1. Owned \cap Kept = {}
    BY Tags, <1>t DEF Owned, Kept, AddrOf, Places
  <1>2. temps \cap (Kept \cup Owned) = {}
    BY Tags DEF Owned, Kept, AddrOf
  <1>3. Protocol \cap (Kept \cup Owned \cup temps) = {}
    BY Tags DEF Owned, Kept, AddrOf, Protocol
  <1>4. ASSUME NEW n \in Nat
        PROVE  <<"gfdt", n>> \notin Rest /\ <<"fetched", n>> \notin Rest
    BY Tags DEF Owned, Rest, AddrOf, Protocol
  <1>5. installed # None => installed \notin AddrOf(gfdt) \cup leaked \cup Owned \cup temps
    BY Tags DEF Owned, AddrOf
  <1>6. None \notin Kept \cup Owned
    <2>a. attempt \in Nat /\ \A x \in Address : x # None
      BY <1>t, NoneIsNoAddress, AttemptsAssumption DEF Types
    <2>1. leaked \subseteq Address
      BY <1>t, <2>a DEF Places, LeakedUpTo, Address, Uses
    <2>2. gfdt # None => gfdt.addr \in Address
      BY <1>t DEF Places, Address, Uses
    <2>3. data.fdt # None => data.fdt.addr \in Address
      <3>1. <<"dtb", attempt>> \in Address
        BY <2>a DEF Address, Uses
      <3> QED BY <1>t, <3>1 DEF Places, Addr
    <2> QED BY <2>a, <2>1, <2>2, <2>3 DEF Owned, Kept, AddrOf
  <1> QED BY <1>1, <1>2, <1>3, <1>4, <1>5, <1>6

\* What the assumption on the situations says of the one in use.
LEMMA Machine ==
    ASSUME Types
    PROVE  /\ IsSeqn(cf.profiles) /\ Len(cf.overlays) \in Nat
           /\ Root \in DOMAIN cf.disk
           /\ \A f \in DOMAIN Disk : f # None /\ <<Root, f>> \in Files(cf)
           /\ \A i \in 1..Len(cf.overlays) : \A f \in DOMAIN Disk :
                Applied(Disk, cf.overlays[i], f) \in OverlaysOf(cf)
           /\ cur # None => Len(entry.overlays) \in Nat
           /\ cur # None =>
                \A i \in 1..Len(entry.overlays) : \A f \in DOMAIN Disk :
                  Applied(Disk, entry.overlays[i], f) \in OverlaysOf(cf)
  <1>1. sit \in DOMAIN Situations /\ cf = Situations[sit]
    BY DEF Types, cf
  <1>2. /\ cf.profiles \in Seq(Range(cf.profiles))
        /\ cf.overlays \in Seq(Range(cf.overlays))
        /\ "boot" \in DOMAIN cf.disk /\ None \notin Paths(cf)
        /\ \A e \in DOMAIN cf.entries :
             /\ cf.entries[e].root \in DOMAIN cf.disk
             /\ cf.entries[e].overlays \in Seq(Range(cf.entries[e].overlays))
    BY <1>1, SituationAssumption
  <1>3. cur # None => cur \in DOMAIN cf.entries /\ entry = cf.entries[cur]
    BY DEF Types, entry
  <1>r. Root \in DOMAIN cf.disk
    BY <1>2, <1>3 DEF Root
  <1>4. PICK d \in DOMAIN cf.disk : Disk = cf.disk[d] /\ d = Root
    BY <1>r DEF Disk
  <1>5. IsSeqn(cf.profiles) /\ Len(cf.overlays) \in Nat
    BY <1>2 DEF IsSeqn
  <1>6. \A f \in DOMAIN Disk : f # None /\ <<Root, f>> \in Files(cf)
    BY <1>2, <1>4 DEF Files, Paths
  <1>7. ASSUME NEW o \in AskedFor(cf), NEW f \in DOMAIN Disk
        PROVE  Applied(Disk, o, f) \in OverlaysOf(cf)
    <2> DEFINE S(x) == {Applied(cf.disk[x], oo, ff) :
                          oo \in AskedFor(cf), ff \in DOMAIN cf.disk[x]}
    <2>1. Applied(cf.disk[d], o, f) \in S(d)
      BY <1>4
    <2>2. OverlaysOf(cf) = UNION {S(x) : x \in DOMAIN cf.disk}
      BY DEF OverlaysOf
    <2> HIDE DEF S
    <2>3. Applied(cf.disk[d], o, f) \in OverlaysOf(cf)
      BY <2>1, <2>2
    <2> QED BY <1>4, <2>3
  <1>8. ASSUME NEW i \in 1..Len(cf.overlays)
        PROVE  cf.overlays[i] \in AskedFor(cf)
    <2>1. cf.overlays[i] \in Range(cf.overlays)
      BY <1>2
    <2> QED BY <2>1 DEF AskedFor
  <1>9. cur # None => Len(entry.overlays) \in Nat
    BY <1>2, <1>3
  <1>10. ASSUME cur # None, NEW i \in 1..Len(entry.overlays)
         PROVE  entry.overlays[i] \in AskedFor(cf)
    <2>1. entry.overlays[i] \in Range(entry.overlays)
      BY <1>2, <1>3, <1>10
    <2>2. Range(entry.overlays) \subseteq AskedFor(cf)
      BY <1>3, <1>10 DEF AskedFor
    <2> QED BY <2>1, <2>2
  <1> QED BY <1>r, <1>5, <1>6, <1>7, <1>8, <1>9, <1>10

\* A tree of the loader, with the memory that goes with it.
LoadersTree(g, m) ==
    /\ g \in TreeOf(cf) \cup {None}
    /\ g # None => g.addr \in {"gfdt", "fetched"} \X Nat
    /\ m = AddrOf(g) \cup Rest

\* The parts of a tree.
LEMMA TreeParts ==
    ASSUME NEW t \in TreeOf(cf)
    PROVE  /\ t.addr \in Address /\ t.file \in Files(cf)
           /\ t.ovs \in Seq(OverlaysOf(cf))
           /\ \A a \in Address : [t EXCEPT !.addr = a] \in TreeOf(cf)
           /\ \A a \in Address : [t EXCEPT !.addr = a].addr = a
           /\ \A o \in Seq(OverlaysOf(cf)) : /\ [t EXCEPT !.ovs = o] \in TreeOf(cf)
                                             /\ [t EXCEPT !.ovs = o].addr = t.addr
                                             /\ [t EXCEPT !.ovs = o].file = t.file
  BY DEF TreeOf

\* A tree that is read has no overlays.
LEMMA NewTree ==
    ASSUME NEW a \in Address, NEW f \in Files(cf)
    PROVE  Tree(a, f) \in TreeOf(cf) /\ Tree(a, f).addr = a
  <1>1. <<>> \in Seq(OverlaysOf(cf))
    OBVIOUS
  <1> QED BY <1>1 DEF Tree, TreeOf

\* The address of a tree that is there.
LEMMA AddrIs ==
    ASSUME Types, NEW u \in Uses
    PROVE  Addr(u) \in Address /\ Addr(u) = <<u, attempt>> /\ attempt \in Nat
  BY AttemptsAssumption DEF Types, Addr, Address

\* The default tree is a file on the disk.
LEMMA DefaultIsFile ==
    ASSUME Types, DefaultDtb(cf, Disk, entry, ktype) # None
    PROVE  <<Root, DefaultDtb(cf, Disk, entry, ktype)>> \in Files(cf)
  <1>1. IsSeqn(cf.profiles) /\ \A f \in DOMAIN Disk : <<Root, f>> \in Files(cf)
    BY Machine
  <1>2. DefaultDtb(cf, Disk, entry, ktype) \in DOMAIN Disk
    BY <1>1, DefaultIsLast
  <1> QED BY <1>1, <1>2

\* linux_load_default_dtb frees the tree that it replaces.
LEMMA LoadDefaultKeeps ==
    ASSUME MemInv, pc # "os", NEW g, NEW m, LoadersTree(g, m)
    PROVE  /\ LoadersTree(LoadDefaultDtb(g, m).gfdt, LoadDefaultDtb(g, m).mem)
           /\ LoadDefaultDtb(g, m).ok \in BOOLEAN
           /\ LoadDefaultDtb(g, m).ok => LoadDefaultDtb(g, m).gfdt # None
  <1> DEFINE drop == DependsOnLoader(cf.defaultDtb)
             g1 == IF drop THEN None ELSE g
             m1 == IF drop THEN m \ AddrOf(g) ELSE m
             file == DefaultDtb(cf, Disk, entry, ktype)
             d == LoadDefaultDtb(g, m)
  <1>t. Types
    BY DEF MemInv
  <1>1. d = IF file = None THEN [gfdt |-> g1, mem |-> m1, ok |-> FALSE]
            ELSE [gfdt |-> Tree(Addr("gfdt"), <<Root, file>>),
                  mem |-> (m1 \ AddrOf(g1)) \cup {Addr("gfdt")},
                  ok |-> TRUE]
    BY Zenon DEF LoadDefaultDtb, ReplacedDefault
  <1>2. AddrOf(g) \cap Rest = {}
    <2>1. CASE g = None
      BY <2>1 DEF AddrOf
    <2>2. CASE g # None
      <3>1. PICK n \in Nat : g.addr = <<"gfdt", n>> \/ g.addr = <<"fetched", n>>
        BY <2>2 DEF LoadersTree
      <3>2. g.addr \notin Rest
        BY <3>1, Apart
      <3> QED BY <2>2, <3>2 DEF AddrOf
    <2> QED BY <2>1, <2>2
  <1>3. LoadersTree(g1, m1)
    BY <1>2 DEF LoadersTree, AddrOf
  <1>4. m1 \ AddrOf(g1) = Rest
    BY <1>2 DEF LoadersTree, AddrOf
  <1>5. file # None => <<Root, file>> \in Files(cf)
    BY <1>t, DefaultIsFile
  <1> HIDE DEF drop, g1, m1, file, d
  <1>6. CASE file = None
    <2>1. d.gfdt = g1 /\ d.mem = m1 /\ d.ok = FALSE
      BY <1>1, <1>6
    <2> QED BY <1>3, <2>1 DEF d
  <1>7. CASE file # None
    <2>1. d.gfdt = Tree(Addr("gfdt"), <<Root, file>>)
          /\ d.mem = Rest \cup {Addr("gfdt")}
          /\ d.ok = TRUE
      BY <1>1, <1>4, <1>7
    <2>2. Addr("gfdt") \in Address /\ Addr("gfdt") \in {"gfdt", "fetched"} \X Nat
      BY <1>t, AddrIs DEF Uses
    <2>3. /\ Tree(Addr("gfdt"), <<Root, file>>) \in TreeOf(cf)
          /\ Tree(Addr("gfdt"), <<Root, file>>).addr = Addr("gfdt")
      BY <1>5, <1>7, <2>2, NewTree
    <2>4. Tree(Addr("gfdt"), <<Root, file>>) # None
      BY <1>t, <2>3, NoneIsNoAddress
    <2>5. LoadersTree(d.gfdt, d.mem)
      BY <2>1, <2>2, <2>3, <2>4 DEF LoadersTree, AddrOf
    <2> QED BY <2>1, <2>4, <2>5 DEF d
  <1> QED BY <1>6, <1>7

\* embloader_fetch_fdt copies the firmware's tree when the loader has none.
LEMMA FetchKeeps ==
    ASSUME MemInv, NEW g, NEW m, LoadersTree(g, m)
    PROVE  LoadersTree(FetchFdt(g, m).gfdt, FetchFdt(g, m).mem)
  <1>t. Types
    BY DEF MemInv
  <1>1. CASE g # None \/ table = None
    BY <1>1 DEF FetchFdt
  <1>2. CASE g = None /\ table # None
    <2>1. table \in TreeOf(cf)
      BY <1>2, <1>t DEF Types
    <2>2. /\ Addr("fetched") \in Address
          /\ Addr("fetched") \in {"gfdt", "fetched"} \X Nat
      BY <1>t, AddrIs DEF Uses
    <2> DEFINE t == [table EXCEPT !.addr = Addr("fetched")]
    <2>3. t \in TreeOf(cf) /\ t.addr = Addr("fetched")
      BY <2>1, <2>2, TreeParts
    <2>4. t # None
      BY <1>t, <2>3, NoneIsNoAddress
    <2>5. FetchFdt(g, m).gfdt = t /\ FetchFdt(g, m).mem = m \cup {Addr("fetched")}
      BY <1>2 DEF FetchFdt
    <2>6. m = Rest
      BY <1>2 DEF LoadersTree, AddrOf
    <2> HIDE DEF t
    <2> QED BY <2>2, <2>3, <2>4, <2>5, <2>6 DEF LoadersTree, AddrOf
  <1> QED BY <1>1, <1>2

\* The tree that is read or copied is the only one of the loader.
LEMMA PrepareKeeps ==
    ASSUME MemInv, pc # "os", NEW oom \in BOOLEAN
    PROVE  /\ LoadersTree(PrepareDtoverlayFdt(oom).gfdt,
                          PrepareDtoverlayFdt(oom).mem)
           /\ PrepareDtoverlayFdt(oom).ok \in BOOLEAN
  <1> DEFINE d == LoadDefaultDtb(gfdt, mem)
             f == FetchFdt(d.gfdt, d.mem)
             p == PrepareDtoverlayFdt(oom)
  <1>1. LoadersTree(gfdt, mem)
    BY DEF MemInv, Types, Places, Ledger, LoadersTree, Kept, Rest
  <1>2. LoadersTree(d.gfdt, d.mem) /\ d.ok \in BOOLEAN
    BY <1>1, LoadDefaultKeeps
  <1>3. LoadersTree(f.gfdt, f.mem)
    BY <1>2, FetchKeeps
  <1>4. p = IF data.fdt # None THEN [gfdt |-> gfdt, mem |-> mem, ok |-> TRUE]
            ELSE IF d.ok \/ DependsOnLoader(cf.defaultDtb) THEN d
            ELSE IF oom /\ d.gfdt = None /\ table # None THEN d
            ELSE [gfdt |-> f.gfdt, mem |-> f.mem, ok |-> TRUE]
    BY Zenon DEF PrepareDtoverlayFdt
  <1> HIDE DEF d, f, p
  <1>5. LoadersTree(p.gfdt, p.mem) /\ p.ok \in BOOLEAN
    BY <1>1, <1>2, <1>3, <1>4
  <1> QED BY <1>5 DEF p

\* Overlays change neither the place of a tree nor its origin.
LEMMA OverlaysKeep ==
    ASSUME Types, cur # None, NEW t \in TreeOf(cf)
    PROVE  /\ WithOverlays(t).tree \in TreeOf(cf)
           /\ WithOverlays(t).tree.addr = t.addr
           /\ WithOverlays(t).tree.file = t.file
           /\ WithOverlays(t).ok \in BOOLEAN
  <1> DEFINE a == ApplyOverlays(cf, Disk, entry, ktype, t.ovs)
  <1>1. t.ovs \in Seq(OverlaysOf(cf))
    BY TreeParts
  <1>2. a.ovs \in Seq(OverlaysOf(cf)) /\ a.ok \in BOOLEAN
    BY <1>1, Machine, ApplyOverlaysTyped
  <1>3. /\ WithOverlays(t).tree = [t EXCEPT !.ovs = a.ovs]
        /\ WithOverlays(t).ok = a.ok
    BY DEF WithOverlays
  <1> HIDE DEF a
  <1> QED BY <1>2, <1>3, TreeParts

\* Before the first attempt nothing is allocated.
LEMMA MemInit == ASSUME Init PROVE MemInv
  <1> USE DEF Init, NoData
  <1>1. Types
    <2>1. Firmware \in Address /\ <<"firmware">> \in Files(cf)
      BY DEF Firmware, Address, Uses, Files
    <2>2. FirmwareTree \in TreeOf(cf)
      BY <2>1, NewTree DEF FirmwareTree
    <2>3. {gfdt, table, data.fdt} \subseteq TreeOf(cf) \cup {None}
      BY <2>2
    <2>a. attempt \in 0..MaxAttempts
      BY AttemptsAssumption
    <2>4. /\ sit \in DOMAIN Situations
          /\ cur \in DOMAIN cf.entries \cup {None} /\ hand \in BOOLEAN
      BY Zenon
    <2>5. /\ DOMAIN data = {"kernel", "initramfs", "fdt", "bootargs"}
          /\ data = [kernel |-> data.kernel, initramfs |-> data.initramfs,
                     fdt |-> data.fdt, bootargs |-> data.bootargs]
      OBVIOUS
    <2> QED BY <2>3, <2>4, <2>a, <2>5, Zenon DEF Types
  <1>2. Ledger
    BY DEF Ledger, Kept, Owned, Protocol, AddrOf
  <1>3. Places
    BY DEF Places, FirmwareTree, Tree, Firmware
  <1>4. Registration /\ Temporaries /\ Phases
    BY DEF Registration, Temporaries, Phases
  <1> QED BY <1>1, <1>2, <1>3, <1>4 DEF MemInv

\* An attempt that fails leaves what outlives it and nothing else.
LEMMA AbandonKeeps ==
    ASSUME MemInv, pc # "os", ~hand, Abandon(temps) PROVE MemInv'
  <1> USE DEF Abandon, CleanUp
  <1>0. cf' = cf
    BY DEF cf
  <1>1. Types'
    <2>1. data' = NoData /\ cur' = None /\ hand' = FALSE
      OBVIOUS
    <2>2. sit' = sit /\ attempt' = attempt /\ gfdt' = gfdt /\ table' = table
      OBVIOUS
    <2>3. /\ DOMAIN data' = {"kernel", "initramfs", "fdt", "bootargs"}
          /\ data' = [kernel |-> data'.kernel, initramfs |-> data'.initramfs,
                      fdt |-> data'.fdt, bootargs |-> data'.bootargs]
          /\ data'.fdt = None
      BY <2>1 DEF NoData
    <2>4. {gfdt', table', data'.fdt} \subseteq TreeOf(cf') \cup {None}
      BY <1>0, <2>2, <2>3 DEF MemInv, Types
    <2>5. /\ sit' \in DOMAIN Situations /\ attempt' \in 0..MaxAttempts
          /\ cur' \in DOMAIN cf'.entries \cup {None} /\ hand' \in BOOLEAN
      BY <2>1, <2>2 DEF MemInv, Types
    <2> QED BY <2>3, <2>4, <2>5, Zenon DEF Types
  <1>2. Ledger'
    <2>1. mem' = mem \ (temps \cup AddrOf(data.fdt) \cup {data.kernel, data.initramfs})
      OBVIOUS
    <2>2. mem = Kept \cup Owned \cup temps
      BY DEF MemInv, Ledger, Protocol
    <2>3. mem' = Kept
      BY <2>1, <2>2, Apart DEF Owned
    <2>4. Kept' = Kept /\ Owned' = {} /\ temps' = {} /\ Protocol' = {}
      BY DEF Kept, Owned, Protocol, AddrOf, NoData
    <2> QED BY <2>3, <2>4 DEF Ledger
  <1>3. Places'
    <2>1. None \notin leaked
      BY Apart DEF Kept
    <2> QED BY <2>1 DEF MemInv, Places, NoData, LeakedUpTo, Firmware
  <1>4. Registration'
    BY DEF MemInv, Registration
  <1>5. Temporaries' /\ Phases'
    BY DEF Temporaries, Phases
  <1> QED BY <1>1, <1>2, <1>3, <1>4, <1>5 DEF MemInv

\* embloader_loader_boot starts with an empty linux_data.
LEMMA BootEntryKeeps ==
    ASSUME MemInv, NEW e \in DOMAIN cf.entries, BootEntry(e) PROVE MemInv'
  <1> DEFINE drop == cf.entries[e].kernel # None /\ DependsOnLoader(cf.defaultDtb)
  <1>a. /\ pc = "idle" /\ attempt < MaxAttempts /\ attempt' = attempt + 1
        /\ cur' = e /\ pc' \in {"image", "kernel"}
        /\ gfdt' = IF drop THEN None ELSE gfdt
        /\ mem' = IF drop THEN mem \ AddrOf(gfdt) ELSE mem
        /\ UNCHANGED <<sit, data, temps, table, installed, reg, hand, leaked>>
    BY DEF BootEntry
  <1>0. cf' = cf
    BY <1>a DEF cf
  <1>d. data = NoData /\ temps = {} /\ hand = FALSE
    BY <1>a DEF MemInv, Phases, Temporaries, Registration, Types
  <1>n. attempt \in Nat /\ attempt + 1 \in 0..MaxAttempts
        /\ e # None
    BY <1>a, AttemptsAssumption, NoneIsNoAddress DEF MemInv, Types
  <1> HIDE DEF drop
  <1>1. Types'
    BY <1>a, <1>0, <1>n DEF MemInv, Types
  <1>2. Ledger'
    <2>1. mem = Kept
      BY <1>d DEF MemInv, Ledger, Owned, Protocol, AddrOf, NoData
    <2>2. Owned' = {} /\ temps' = {} /\ Protocol' = {}
      BY <1>a, <1>d DEF Owned, Protocol, AddrOf, NoData
    <2>3. \A x \in AddrOf(gfdt) : x \notin Rest
      <3> SUFFICES ASSUME gfdt # None PROVE gfdt.addr \notin Rest
        BY DEF AddrOf
      <3>1. PICK n \in Nat : gfdt.addr = <<"gfdt", n>> \/ gfdt.addr = <<"fetched", n>>
        BY DEF MemInv, Places
      <3> QED BY <3>1, <1>a, Apart
    <2>4. mem' = Kept'
      BY <1>a, <2>1, <2>3 DEF Kept, Rest, AddrOf
    <2> QED BY <2>2, <2>4 DEF Ledger
  <1>3. Places'
    <2>1. data' = NoData
      BY <1>a, <1>d
    <2>2. LeakedUpTo(attempt) \subseteq LeakedUpTo(attempt + 1)
      BY <1>n DEF LeakedUpTo
    <2>3. attempt' - 1 = attempt
      BY <1>a, <1>n
    <2>4. leaked' \subseteq LeakedUpTo(attempt)
      BY <1>a DEF MemInv, Places
    <2>5. /\ leaked' \subseteq LeakedUpTo(attempt')
          /\ leaked' \subseteq LeakedUpTo(attempt' - 1)
      BY <1>a, <2>2, <2>3, <2>4
    <2>6. None \notin leaked'
      BY <1>a, Apart DEF Kept
    <2> QED BY <1>a, <2>1, <2>5, <2>6 DEF MemInv, Places, NoData, Firmware
  <1>4. Registration' /\ Temporaries' /\ Phases'
    BY <1>a, <1>d, <1>n DEF MemInv, Registration, Temporaries, Phases
  <1> QED BY <1>1, <1>2, <1>3, <1>4 DEF MemInv

\* An entry that is refused has touched no memory.
LEMMA BootRefusedKeeps ==
    ASSUME MemInv, PrepareOnly \/ \E e \in DOMAIN cf.entries : BootRefused(e)
    PROVE  MemInv'
  <1>a. /\ pc = "idle" /\ attempt < MaxAttempts /\ attempt' = attempt + 1
        /\ pc' \in {"idle", "prepare"}
        /\ UNCHANGED <<sit, cur, mem, data, temps, gfdt, table, installed, reg,
                       hand, leaked>>
    <2>1. CASE \E e \in DOMAIN cf.entries : BootRefused(e)
      BY <2>1 DEF BootRefused
    <2>2. CASE PrepareOnly
      BY <2>2, AttemptsAssumption DEF PrepareOnly
    <2> QED BY <2>1, <2>2
  <1>0. cf' = cf
    BY <1>a DEF cf
  <1>d. data = NoData /\ temps = {} /\ hand = FALSE /\ cur = None
    BY <1>a DEF MemInv, Phases, Temporaries, Registration, Types
  <1>n. attempt \in Nat /\ attempt + 1 \in 0..MaxAttempts
    BY <1>a, AttemptsAssumption DEF MemInv, Types
  <1>1. Types'
    BY <1>a, <1>0, <1>n DEF MemInv, Types
  <1>2. Ledger'
    BY <1>a DEF MemInv, Ledger, Owned, Protocol, AddrOf, Kept
  <1>3. Places'
    <2>1. data' = NoData
      BY <1>a, <1>d
    <2>2. LeakedUpTo(attempt) \subseteq LeakedUpTo(attempt + 1)
      BY <1>n DEF LeakedUpTo
    <2>3. attempt' - 1 = attempt
      BY <1>a, <1>n
    <2>4. leaked' \subseteq LeakedUpTo(attempt)
      BY <1>a DEF MemInv, Places
    <2>5. /\ leaked' \subseteq LeakedUpTo(attempt')
          /\ leaked' \subseteq LeakedUpTo(attempt' - 1)
      BY <1>a, <2>2, <2>3, <2>4
    <2>6. None \notin leaked'
      BY <1>a, Apart DEF Kept
    <2> QED BY <1>a, <2>1, <2>5, <2>6 DEF MemInv, Places, NoData, Firmware
  <1>4. Registration' /\ Temporaries' /\ Phases'
    BY <1>a, <1>d, <1>n DEF MemInv, Registration, Temporaries, Phases
  <1> QED BY <1>1, <1>2, <1>3, <1>4 DEF MemInv

\* A step that keeps all the memory and all that points to it.
Still == UNCHANGED <<sit, attempt, cur, mem, data, temps, gfdt, table, installed,
                     reg, hand, leaked>>

\* Such a step keeps the invariant.
LEMMA StillKeeps ==
    ASSUME MemInv, Still, pc # "idle", pc' \notin {"idle", "clean"} \/ pc' = pc,
           pc # "clean" \/ pc' = pc,
           (Registration /\ Temporaries /\ Phases)'
    PROVE  MemInv'
  <1> USE DEF Still
  <1>0. cf' = cf
    BY DEF cf
  <1>1. Types'
    BY <1>0 DEF MemInv, Types
  <1>2. Ledger'
    BY DEF MemInv, Ledger, Owned, Protocol, AddrOf, Kept
  <1>3. Places'
    BY DEF MemInv, Places, Addr, Firmware
  <1> QED BY <1>1, <1>2, <1>3 DEF MemInv

\* What linux_data keeps of its shape when one field is set.
IsData(d) ==
    /\ DOMAIN d = {"kernel", "initramfs", "fdt", "bootargs"}
    /\ d = [kernel |-> d.kernel, initramfs |-> d.initramfs, fdt |-> d.fdt,
            bootargs |-> d.bootargs]

\* A field of linux_data is set and the others stay.
LEMMA DataSet ==
    ASSUME Types, NEW v
    PROVE  /\ IsData([data EXCEPT !.kernel = v])
           /\ IsData([data EXCEPT !.initramfs = v])
           /\ IsData([data EXCEPT !.bootargs = v])
           /\ IsData([data EXCEPT !.fdt = v])
  <1>1. IsData(data)
    BY DEF Types, IsData
  <1>2. IsData([data EXCEPT !.kernel = v])
    BY <1>1 DEF IsData
  <1>3. IsData([data EXCEPT !.initramfs = v])
    BY <1>1 DEF IsData
  <1>4. IsData([data EXCEPT !.bootargs = v])
    BY <1>1 DEF IsData
  <1>5. IsData([data EXCEPT !.fdt = v])
    BY <1>1 DEF IsData
  <1> QED BY <1>2, <1>3, <1>4, <1>5

\* linux_load_kernel owns the kernel or gives up.
LEMMA LoadKernelKeeps == ASSUME MemInv, LoadKernel PROVE MemInv'
  <1>p. pc = "kernel" /\ temps = {} /\ ~hand /\ cur # None
    BY DEF LoadKernel, MemInv, Temporaries, Registration, Phases, Types
  <1>1. CASE Abandon({})
    BY <1>1, <1>p, AbandonKeeps
  <1>2. CASE ~Abandon({})
    <2>a. /\ data' = [data EXCEPT !.kernel = Addr("kernel")]
          /\ mem' = mem \cup {Addr("kernel")}
          /\ pc' = "initramfs"
          /\ UNCHANGED <<sit, attempt, cur, temps, gfdt, table, installed, reg,
                         hand, leaked>>
      BY <1>2 DEF LoadKernel, KeepBoot
    <2>0. cf' = cf
      BY <2>a DEF cf
    <2>d. /\ data'.kernel = Addr("kernel") /\ data'.initramfs = data.initramfs
          /\ data'.fdt = data.fdt
      BY <2>a DEF MemInv, Types
    <2>1. Types'
      BY <2>a, <2>0, <2>d, DataSet DEF MemInv, Types, IsData
    <2>2. Ledger'
      <3>1. AddrOf(gfdt)' = AddrOf(gfdt) /\ AddrOf(data.fdt)' = AddrOf(data.fdt)
        BY <2>a, <2>d DEF AddrOf
      <3>2. Addr("kernel") # None
        BY AddrIs, NoneIsNoAddress DEF MemInv, Uses
      <3>3. Owned' = Owned \cup {Addr("kernel")}
        BY <2>d, <3>1, <3>2 DEF Owned, MemInv, Places
      <3>4. Kept' = Kept /\ Protocol' = Protocol
        BY <2>a, <3>1 DEF Kept, Protocol
      <3> QED BY <2>a, <3>3, <3>4 DEF MemInv, Ledger
    <2>3. Places'
      BY <2>a, <2>d, <1>p DEF MemInv, Places, Addr, Firmware
    <2>4. Registration' /\ Temporaries' /\ Phases'
      BY <2>a, <1>p DEF MemInv, Registration, Temporaries, Phases
    <2> QED BY <2>1, <2>2, <2>3, <2>4 DEF MemInv
  <1> QED BY <1>1, <1>2

\* linux_load_initramfs holds one buffer per file.
LEMMA ReadInitramfsKeeps == ASSUME MemInv, ReadInitramfs PROVE MemInv'
  <1>p. pc = "initramfs" /\ ~hand /\ cur # None
    BY DEF ReadInitramfs, MemInv, Registration, Phases, Types
  <1>1. CASE Abandon(temps)
    BY <1>1, <1>p, AbandonKeeps
  <1>2. CASE ~Abandon(temps)
    <2>a. PICK i \in DOMAIN entry.initramfs :
            /\ mem' = mem \cup {<<"file", attempt, i>>}
            /\ temps' = temps \cup {<<"file", attempt, i>>}
            /\ UNCHANGED <<sit, attempt, pc, cur, data, gfdt, table, installed,
                           reg, hand, leaked>>
      BY <1>2 DEF ReadInitramfs, KeepBoot, FilesToFree
    <2>0. cf' = cf
      BY <2>a DEF cf
    <2>i. i \in Nat /\ attempt \in Nat
      <3>1. sit \in DOMAIN Situations /\ cur \in DOMAIN cf.entries
            /\ attempt \in Nat
        BY <1>p, AttemptsAssumption DEF MemInv, Types
      <3>2. entry.initramfs \in Seq(Range(entry.initramfs))
        BY <1>p, <3>1, SituationAssumption DEF entry, cf
      <3> QED BY <3>1, <3>2
    <2>1. Types'
      BY <2>a, <2>0 DEF MemInv, Types
    <2>2. Ledger'
      BY <2>a DEF MemInv, Ledger, Owned, Kept, Protocol, AddrOf
    <2>3. Places'
      BY <2>a DEF MemInv, Places, Addr, Firmware
    <2>4. Temporaries'
      <3>1. <<"file", attempt, i>> \in FileAddress
        BY <2>i DEF FileAddress
      <3> QED BY <2>a, <1>p, <3>1 DEF MemInv, Temporaries
    <2>5. Registration' /\ Phases'
      BY <2>a, <1>p DEF MemInv, Registration, Phases
    <2> QED BY <2>1, <2>2, <2>3, <2>4, <2>5 DEF MemInv
  <1> QED BY <1>1, <1>2

\* The files are joined into one buffer and freed.
LEMMA JoinInitramfsKeeps == ASSUME MemInv, JoinInitramfs PROVE MemInv'
  <1>p. pc = "initramfs" /\ ~hand /\ cur # None
    BY DEF JoinInitramfs, MemInv, Registration, Phases, Types
  <1>1. CASE Abandon(temps)
    BY <1>1, <1>p, AbandonKeeps
  <1>2. CASE ~Abandon(temps)
    <2>a. /\ IF temps = {} THEN UNCHANGED <<mem, data>>
             ELSE /\ mem' = (mem \ temps) \cup {Addr("initramfs")}
                  /\ data' = [data EXCEPT !.initramfs = Addr("initramfs")]
          /\ temps' = {} /\ pc' = "bootargs"
          /\ UNCHANGED <<sit, attempt, cur, gfdt, table, installed, reg, hand,
                         leaked>>
      BY <1>2 DEF JoinInitramfs, KeepBoot, FilesToFree
    <2>0. cf' = cf
      BY <2>a DEF cf
    <2>d. /\ data'.kernel = data.kernel /\ data'.fdt = data.fdt
          /\ data'.initramfs = IF temps = {} THEN data.initramfs
                               ELSE Addr("initramfs")
      BY <2>a DEF MemInv, Types
    <2>1. Types'
      BY <2>a, <2>0, <2>d, DataSet DEF MemInv, Types, IsData
    <2>n. Addr("initramfs") # None /\ Addr("initramfs") = <<"initramfs", attempt>>
          /\ attempt \in Nat
      BY AddrIs, NoneIsNoAddress DEF MemInv, Uses
    <2>2. Ledger'
      <3>1. AddrOf(gfdt)' = AddrOf(gfdt) /\ AddrOf(data.fdt)' = AddrOf(data.fdt)
        BY <2>a, <2>d DEF AddrOf
      <3>2. Owned' = IF temps = {} THEN Owned ELSE Owned \cup {Addr("initramfs")}
        BY <2>d, <2>n, <3>1 DEF Owned, MemInv, Places
      <3>3. Kept' = Kept /\ Protocol = {} /\ Protocol' = {}
        BY <2>a, <1>p, <3>1 DEF Kept, Protocol
      <3>4. temps \cap (Kept \cup Owned) = {}
        BY <1>p, Apart
      <3> QED BY <2>a, <3>2, <3>3, <3>4 DEF MemInv, Ledger
    <2>3. Places'
      <3>1. <<"initramfs", attempt>> \notin LeakedUpTo(attempt - 1)
        BY <2>n DEF LeakedUpTo
      <3>2. data'.initramfs \notin leaked'
        BY <2>a, <2>d, <2>n, <3>1, <1>p DEF MemInv, Places
      <3> QED BY <2>a, <2>d, <1>p, <3>2 DEF MemInv, Places, Addr, Firmware
    <2>4. Registration' /\ Temporaries' /\ Phases'
      BY <2>a, <1>p DEF MemInv, Registration, Temporaries, Phases
    <2> QED BY <2>1, <2>2, <2>3, <2>4 DEF MemInv
  <1> QED BY <1>1, <1>2

\* linux_load_bootargs allocates nothing that is counted.
LEMMA LoadBootargsKeeps == ASSUME MemInv, LoadBootargs PROVE MemInv'
  <1>p. pc = "bootargs" /\ temps = {} /\ ~hand /\ cur # None
    BY DEF LoadBootargs, MemInv, Temporaries, Registration, Phases, Types
  <1>1. CASE Abandon({})
    BY <1>1, <1>p, AbandonKeeps
  <1>2. CASE ~Abandon({})
    <2>a. /\ data' = [data EXCEPT !.bootargs = PrepareBootargs(entry)]
          /\ pc' = "devicetree"
          /\ UNCHANGED <<sit, attempt, cur, mem, temps, gfdt, table, installed,
                         reg, hand, leaked>>
      BY <1>2 DEF LoadBootargs, KeepBoot
    <2>0. cf' = cf
      BY <2>a DEF cf
    <2>d. /\ data'.kernel = data.kernel /\ data'.initramfs = data.initramfs
          /\ data'.fdt = data.fdt
      BY <2>a DEF MemInv, Types
    <2>1. Types'
      BY <2>a, <2>0, <2>d, DataSet DEF MemInv, Types, IsData
    <2>2. Ledger'
      BY <2>a, <2>d DEF MemInv, Ledger, Owned, Kept, Protocol, AddrOf
    <2>3. Places'
      BY <2>a, <2>d, <1>p DEF MemInv, Places, Addr, Firmware
    <2>4. Registration' /\ Temporaries' /\ Phases'
      BY <2>a, <1>p DEF MemInv, Registration, Temporaries, Phases
    <2> QED BY <2>1, <2>2, <2>3, <2>4 DEF MemInv
  <1> QED BY <1>1, <1>2

\* linux_load_devicetree owns the tree of the entry or gives up.
LEMMA LoadDevicetreeKeeps == ASSUME MemInv, LoadDevicetree PROVE MemInv'
  <1>p. pc = "devicetree" /\ temps = {} /\ ~hand /\ cur # None
    BY DEF LoadDevicetree, MemInv, Temporaries, Registration, Phases, Types
  <1>1. CASE Abandon({})
    BY <1>1, <1>p, AbandonKeeps
  <1>2. CASE pc' = "overlays" /\ UNCHANGED <<mem, data, temps, gfdt>> /\ KeepBoot
    <2>1. Registration' /\ Temporaries' /\ Phases'
      BY <1>2, <1>p DEF MemInv, Registration, Temporaries, Phases, KeepBoot
    <2> QED BY <1>2, <1>p, <2>1, StillKeeps DEF Still, KeepBoot
  <1>3. CASE ~Abandon({}) /\ ~UNCHANGED <<mem, data, temps, gfdt>>
    <2> DEFINE t == Tree(Addr("dtb"), <<Root, entry.devicetree>>)
    <2>a. /\ entry.devicetree \in DOMAIN Disk
          /\ data' = [data EXCEPT !.fdt = t]
          /\ mem' = mem \cup {Addr("dtb")}
          /\ pc' = "overlays"
          /\ UNCHANGED <<sit, attempt, cur, temps, gfdt, table, installed, reg,
                         hand, leaked>>
      BY <1>3 DEF LoadDevicetree, KeepBoot
    <2>0. cf' = cf
      BY <2>a DEF cf
    <2>t. Addr("dtb") \in Address /\ t \in TreeOf(cf) /\ t.addr = Addr("dtb")
          /\ t # None
      <3>1. Addr("dtb") \in Address
        BY AddrIs DEF MemInv, Uses
      <3>2. <<Root, entry.devicetree>> \in Files(cf)
        BY <2>a, Machine DEF MemInv
      <3> QED BY <3>1, <3>2, NewTree, NoneIsNoAddress DEF MemInv
    <2> HIDE DEF t
    <2>d. /\ data'.kernel = data.kernel /\ data'.initramfs = data.initramfs
          /\ data'.fdt = t
      BY <2>a DEF MemInv, Types
    <2>1. Types'
      BY <2>a, <2>0, <2>d, <2>t, DataSet, SMTT(20) DEF MemInv, Types, IsData
    <2>2. Ledger'
      <3>1. AddrOf(gfdt)' = AddrOf(gfdt) /\ AddrOf(data.fdt)' = {Addr("dtb")}
        BY <2>a, <2>d, <2>t DEF AddrOf
      <3>2. Owned' = Owned \cup {Addr("dtb")}
        BY <2>d, <3>1 DEF Owned, MemInv, Places, AddrOf
      <3>4. Kept' = Kept /\ Protocol' = Protocol
        BY <2>a, <3>1 DEF Kept, Protocol
      <3> QED BY <2>a, <3>2, <3>4 DEF MemInv, Ledger
    <2>3. Places'
      BY <2>a, <2>d, <2>t, <1>p DEF MemInv, Places, Addr, Firmware
    <2>4. Registration' /\ Temporaries' /\ Phases'
      BY <2>a, <1>p DEF MemInv, Registration, Temporaries, Phases
    <2> QED BY <2>1, <2>2, <2>3, <2>4 DEF MemInv
  <1> QED BY <1>1, <1>2, <1>3 DEF LoadDevicetree

\* The parts of LoadDtoverlay: the tree to start from, the one that gets the
\* overlays, what becomes of it, and g_embloader.fdt afterwards.
Base(oom) ==
    IF HasOverlays THEN PrepareDtoverlayFdt(oom)
    ELSE [gfdt |-> gfdt, mem |-> mem, ok |-> TRUE]
Target(p) == IF data.fdt # None THEN data.fdt ELSE p.gfdt
Result(oom, p, t) ==
    IF ~(HasOverlays /\ p.ok /\ t # None) THEN [tree |-> t, ok |-> p.ok]
    ELSE IF oom /\ OnError(cf) = "revert" THEN [tree |-> t, ok |-> FALSE]
    ELSE WithOverlays(t)
Loaders(p, r) == IF data.fdt = None THEN r.tree ELSE p.gfdt

GoesOn(p, r) ==
    /\ gfdt' = Loaders(p, r) /\ mem' = p.mem
    /\ data' = IF data.fdt = None THEN data ELSE [data EXCEPT !.fdt = r.tree]
    /\ pc' = BootPath(entry, Loaders(p, r))
    /\ UNCHANGED temps /\ KeepBoot
GivesUp(p, r) ==
    /\ gfdt' = Loaders(p, r)
    /\ mem' = p.mem \ (AddrOf(data.fdt) \cup {data.kernel, data.initramfs})
    /\ data' = NoData /\ pc' = "idle" /\ cur' = None
    /\ UNCHANGED <<sit, attempt, temps, table, installed, reg, hand, ktype,
                   leaked, chosen, exit>>

\* LoadDtoverlay in terms of its parts.
LEMMA LoadDtoverlayIs ==
    ASSUME LoadDtoverlay
    PROVE  \E oom, p, t, r :
             /\ oom \in BOOLEAN
             /\ p = Base(oom) /\ t = Target(p) /\ r = Result(oom, p, t)
             /\ IF Continue(r.ok) THEN GoesOn(p, r) ELSE GivesUp(p, r)
  <1>1. \E oom \in BOOLEAN : \E p \in {Base(oom)} : \E t \in {Target(p)} :
          \E r \in {Result(oom, p, t)} :
            IF Continue(r.ok) THEN GoesOn(p, r) ELSE GivesUp(p, r)
    BY Zenon DEF LoadDtoverlay, Base, Target, Result, Loaders, GoesOn, GivesUp
  <1>2. PICK oom \in BOOLEAN :
          \E p \in {Base(oom)} : \E t \in {Target(p)} : \E r \in {Result(oom, p, t)} :
            IF Continue(r.ok) THEN GoesOn(p, r) ELSE GivesUp(p, r)
    BY <1>1, Zenon
  <1>3. PICK p \in {Base(oom)} : \E t \in {Target(p)} : \E r \in {Result(oom, p, t)} :
          IF Continue(r.ok) THEN GoesOn(p, r) ELSE GivesUp(p, r)
    BY <1>2, Zenon
  <1>4. PICK t \in {Target(p)} : \E r \in {Result(oom, p, t)} :
          IF Continue(r.ok) THEN GoesOn(p, r) ELSE GivesUp(p, r)
    BY <1>3, Zenon
  <1>5. PICK r \in {Result(oom, p, t)} :
          IF Continue(r.ok) THEN GoesOn(p, r) ELSE GivesUp(p, r)
    BY <1>4, Zenon
  <1>6. oom \in BOOLEAN /\ p = Base(oom) /\ t = Target(p) /\ r = Result(oom, p, t)
    BY Zenon
  <1> QED BY ONLY <1>5, <1>6

\* The tree that gets the overlays stays where it is.
LEMMA ResultTree ==
    ASSUME Types, cur # None, NEW oom, NEW p, NEW t \in TreeOf(cf) \cup {None}
    PROVE  /\ Result(oom, p, t).tree \in TreeOf(cf) \cup {None}
           /\ t = None => Result(oom, p, t).tree = None
           /\ t # None => /\ Result(oom, p, t).tree # None
                          /\ Result(oom, p, t).tree.addr = t.addr
                          /\ Result(oom, p, t).tree.file = t.file
  <1>1. CASE t = None
    BY <1>1 DEF Result
  <1>2. CASE t # None
    <2>1. t \in TreeOf(cf)
      BY <1>2
    <2>2. /\ WithOverlays(t).tree \in TreeOf(cf)
          /\ WithOverlays(t).tree.addr = t.addr
          /\ WithOverlays(t).tree.file = t.file
      BY <2>1, OverlaysKeep
    <2>3. \/ Result(oom, p, t).tree = t
          \/ Result(oom, p, t).tree = WithOverlays(t).tree
      BY DEF Result
    <2> QED BY <1>2, <2>1, <2>2, <2>3, NoneIsNoAddress
  <1> QED BY <1>1, <1>2

\* linux_load_dtoverlay keeps one tree of the loader, also when it gives up.
LEMMA LoadDtoverlayKeeps == ASSUME MemInv, LoadDtoverlay PROVE MemInv'
  <1>p. pc = "overlays" /\ temps = {} /\ ~hand /\ cur # None /\ Types
    BY DEF LoadDtoverlay, MemInv, Temporaries, Registration, Phases, Types
  <1>2. \A oom \in BOOLEAN : LoadersTree(Base(oom).gfdt, Base(oom).mem)
    <2> TAKE oom \in BOOLEAN
    <2>1. LoadersTree(gfdt, mem)
      BY DEF MemInv, Types, Places, Ledger, LoadersTree, Kept, Rest
    <2>2. CASE HasOverlays
      BY <1>p, <2>2, PrepareKeeps DEF Base
    <2>3. CASE ~HasOverlays
      BY <2>1, <2>3 DEF Base
    <2> QED BY <2>2, <2>3
  <1>4. PICK oom, p, t, r :
          /\ oom \in BOOLEAN
          /\ p = Base(oom) /\ t = Target(p) /\ r = Result(oom, p, t)
          /\ IF Continue(r.ok) THEN GoesOn(p, r) ELSE GivesUp(p, r)
    BY LoadDtoverlayIs, Zenon
  <1>5. LoadersTree(p.gfdt, p.mem)
    BY <1>2, <1>4
  <1>6. t \in TreeOf(cf) \cup {None}
    BY <1>p, <1>4, <1>5 DEF LoadersTree, Types, Target
  <1>7. /\ r.tree \in TreeOf(cf) \cup {None}
        /\ t = None => r.tree = None
        /\ t # None => r.tree # None /\ r.tree.addr = t.addr
    BY <1>p, <1>4, <1>6, ResultTree
  <1> DEFINE g == Loaders(p, r)
  <1>8. LoadersTree(g, p.mem)
    BY <1>4, <1>5, <1>7 DEF LoadersTree, AddrOf, Loaders, Target
  <1>9. gfdt' = g /\ sit' = sit /\ attempt' = attempt /\ temps' = temps
        /\ table' = table /\ installed' = installed /\ reg' = reg /\ hand' = hand
        /\ leaked' = leaked
    BY <1>4 DEF GoesOn, GivesUp, KeepBoot
  <1>c. cf' = cf
    BY <1>9 DEF cf
  <1> HIDE DEF g
  <1>10. CASE GoesOn(p, r)
    <2>1. /\ data'.kernel = data.kernel /\ data'.initramfs = data.initramfs
          /\ IsData(data')
          /\ data.fdt = None => data'.fdt = None
          /\ data.fdt # None => data'.fdt = r.tree
      <3>1. data' = data \/ data' = [data EXCEPT !.fdt = r.tree]
        BY <1>10 DEF GoesOn
      <3>2. IsData(data) /\ IsData([data EXCEPT !.fdt = r.tree])
        BY <1>p, DataSet DEF Types, IsData
      <3>3. IsData(data')
        BY <3>1, <3>2
      <3> QED BY <1>p, <1>10, <3>3 DEF GoesOn, Types
    <2>2. /\ mem' = p.mem /\ cur' = cur
          /\ pc' = BootPath(entry, g)
      BY <1>10 DEF GoesOn, KeepBoot, g
    <2>3. AddrOf(data'.fdt) = AddrOf(data.fdt)
      BY <1>4, <1>7, <2>1 DEF AddrOf, Target
    <2>4. Types'
      BY <1>p, <1>c, <1>7, <1>8, <1>9, <2>1, <2>2 DEF Types, IsData, LoadersTree
    <2>5. Ledger'
      <3>1. Owned' = Owned /\ Protocol' = Protocol
        BY <1>9, <2>1, <2>3 DEF Owned, Protocol
      <3>2. Kept' = AddrOf(g) \cup ({installed} \ {None}) \cup leaked
        BY <1>9 DEF Kept, AddrOf
      <3>3. mem' = AddrOf(g) \cup Rest
        BY <1>8, <2>2 DEF LoadersTree
      <3> QED BY <1>9, <3>1, <3>2, <3>3 DEF Ledger, Rest
    <2>6. pc' \in {"image64", "install", "prepare"}
      BY <2>2 DEF BootPath
    <2>7. Places'
      <3>1. data'.fdt # None => data'.fdt.addr = Addr("dtb")
        BY <1>4, <1>7, <2>1 DEF MemInv, Places, Target
      <3> QED BY <1>p, <1>8, <1>9, <2>1, <2>6, <3>1
          DEF MemInv, Places, Addr, Firmware, LoadersTree
    <2>8. Registration' /\ Temporaries'
      BY <1>p, <1>9, <2>1, <2>6 DEF MemInv, Registration, Temporaries
    <2>9. Phases'
      <3>1. pc' = "install" => data.fdt # None \/ g # None
        BY <2>2 DEF BootPath
      <3>2. pc' = "install" => SourceTree' # None
        BY <3>1, <1>4, <1>7, <1>9, <2>1 DEF SourceTree, Target
      <3> QED BY <1>p, <2>2, <2>6, <3>2 DEF MemInv, Phases
    <2> QED BY <2>4, <2>5, <2>7, <2>8, <2>9 DEF MemInv
  <1>11. CASE GivesUp(p, r)
    <2>1. /\ mem' = p.mem \ (AddrOf(data.fdt) \cup {data.kernel, data.initramfs})
          /\ data' = NoData /\ pc' = "idle" /\ cur' = None
      BY <1>11 DEF GivesUp
    <2>2. IsData(data') /\ data'.fdt = None
      BY <2>1 DEF NoData, IsData
    <2>3. Types'
      BY <1>p, <1>c, <1>8, <1>9, <2>1, <2>2 DEF Types, IsData, LoadersTree
    <2>4. Ledger'
      <3>1. Owned' = {} /\ Protocol' = {} /\ temps' = {} /\ Protocol = {}
        BY <1>p, <1>9, <2>1 DEF Owned, Protocol, AddrOf, NoData
      <3>2. Kept' = AddrOf(g) \cup ({installed} \ {None}) \cup leaked
        BY <1>9 DEF Kept, AddrOf
      <3>3. p.mem = AddrOf(g) \cup ({installed} \ {None}) \cup leaked \cup Owned
        BY <1>8, <1>p, <3>1 DEF LoadersTree, Rest
      <3>4. AddrOf(g) \cap Owned = {}
        <4> SUFFICES ASSUME g # None PROVE g.addr \notin Owned
          BY DEF AddrOf
        <4>1. PICK n \in Nat : g.addr = <<"gfdt", n>> \/ g.addr = <<"fetched", n>>
          BY <1>8 DEF LoadersTree
        <4> QED BY <4>1, <1>p, Apart DEF Rest
      <3>5. (({installed} \ {None}) \cup leaked) \cap Owned = {} /\ None \notin leaked
        BY <1>p, Apart DEF Kept
      <3>6. None \notin AddrOf(g)
        <4>1. g # None => g.addr \in Address
          BY <1>8, TreeParts DEF LoadersTree
        <4> QED BY <4>1, <1>p, NoneIsNoAddress DEF AddrOf
      <3>7. mem' = AddrOf(g) \cup ({installed} \ {None}) \cup leaked
        BY <2>1, <3>3, <3>4, <3>5, <3>6 DEF Owned
      <3> QED BY <3>1, <3>2, <3>7 DEF Ledger
    <2>5. Places'
      <3>1. None \notin leaked
        BY <1>p, Apart DEF Kept
      <3> QED BY <1>8, <1>9, <2>1, <3>1
          DEF MemInv, Places, NoData, Firmware, LoadersTree
    <2>6. Registration' /\ Temporaries' /\ Phases'
      BY <1>p, <1>9, <2>1 DEF MemInv, Registration, Temporaries, Phases
    <2> QED BY <2>3, <2>4, <2>5, <2>6 DEF MemInv
  <1> QED BY <1>4, <1>10, <1>11

\* The parts of PrepareTree.
Default == LoadDefaultDtb(gfdt, mem)
Missing == ~Default.ok /\ DependsOnLoader(cf.defaultDtb)
Found(oom) ==
    IF Missing \/ oom THEN Default ELSE FetchFdt(Default.gfdt, Default.mem)
Stop(oom) ==
    Missing \/ Found(oom).gfdt = None \/ (oom /\ OnError(cf) = "revert")
Configured(oom) == LoadDtbos(cf, Disk, entry, ktype, Found(oom).gfdt.ovs)
Prepared(oom) ==
    IF Stop(oom) THEN [tree |-> Found(oom).gfdt, count |-> -1]
    ELSE [tree |-> [Found(oom).gfdt EXCEPT !.ovs = Configured(oom).ovs],
          count |-> Configured(oom).count]
Reverts(oom) ==
    ~Stop(oom) /\ Prepared(oom).count = -1 /\ OnError(cf) = "revert"

\* PrepareTree in terms of its parts.
LEMMA PrepareTreeIs ==
    ASSUME PrepareTree
    PROVE  \E oom \in BOOLEAN :
             /\ gfdt' = IF Reverts(oom) THEN Found(oom).gfdt
                        ELSE Prepared(oom).tree
             /\ mem' = Found(oom).mem
             /\ pc' = IF Prepared(oom).count >= 0 \/ Reverts(oom)
                      THEN "installPrepared" ELSE "unprepared"
  BY DEF PrepareTree, Default, Missing, Found, Stop, Configured, Prepared, Reverts

\* embloader_prepare_boot replaces the tree of the loader and frees the old one.
LEMMA PrepareTreeKeeps == ASSUME MemInv, PrepareTree PROVE MemInv'
  <1>p. pc = "prepare" /\ temps = {} /\ ~hand /\ Types
    BY DEF PrepareTree, MemInv, Temporaries, Registration, Types
  <1>2. PICK oom \in BOOLEAN :
          /\ gfdt' = IF Reverts(oom) THEN Found(oom).gfdt ELSE Prepared(oom).tree
          /\ mem' = Found(oom).mem
          /\ pc' = IF Prepared(oom).count >= 0 \/ Reverts(oom)
                   THEN "installPrepared" ELSE "unprepared"
    BY PrepareTreeIs, Zenon
  <1> DEFINE f == Found(oom)
             d == Default
  <1>3. LoadersTree(f.gfdt, f.mem)
    <2>1. LoadersTree(gfdt, mem)
      BY DEF MemInv, Types, Places, Ledger, LoadersTree, Kept, Rest
    <2>2. LoadersTree(d.gfdt, d.mem)
      BY <1>p, <2>1, LoadDefaultKeeps DEF Default
    <2>3. LoadersTree(FetchFdt(d.gfdt, d.mem).gfdt, FetchFdt(d.gfdt, d.mem).mem)
      BY <2>2, FetchKeeps
    <2> QED BY <2>2, <2>3 DEF Found
  <1>4. ~Stop(oom) => /\ Prepared(oom).tree \in TreeOf(cf)
                      /\ Prepared(oom).tree.addr = f.gfdt.addr
                      /\ f.gfdt # None /\ Prepared(oom).tree # None
    <2> SUFFICES ASSUME ~Stop(oom)
                 PROVE  /\ Prepared(oom).tree \in TreeOf(cf)
                        /\ Prepared(oom).tree.addr = f.gfdt.addr
                        /\ f.gfdt # None /\ Prepared(oom).tree # None
      OBVIOUS
    <2>1. f.gfdt # None /\ f.gfdt \in TreeOf(cf)
      BY <1>3 DEF LoadersTree, Stop
    <2>2. Configured(oom) \in Loaded(OverlaysOf(cf))
      BY <1>p, <2>1, TreeParts, Machine, LoadDtbosTyped DEF Configured
    <2>3. Configured(oom).ovs \in Seq(OverlaysOf(cf))
      BY <2>2 DEF Loaded
    <2>4. Prepared(oom).tree = [f.gfdt EXCEPT !.ovs = Configured(oom).ovs]
      BY DEF Prepared
    <2> DEFINE t == f.gfdt
               tree == Prepared(oom).tree
    <2>5. t \in TreeOf(cf) /\ tree = [t EXCEPT !.ovs = Configured(oom).ovs]
      BY <2>1, <2>4
    <2> HIDE DEF t, tree
    <2>6. tree \in TreeOf(cf) /\ tree.addr = t.addr
      BY <2>3, <2>5, TreeParts
    <2>7. tree # None
      BY <1>p, <2>6, NoneIsNoAddress
    <2> QED BY <2>1, <2>6, <2>7 DEF t, tree
  <1>5. Stop(oom) => Prepared(oom).tree = f.gfdt /\ Prepared(oom).count = -1
    BY DEF Prepared
  <1>6. /\ LoadersTree(gfdt', f.mem) /\ mem' = f.mem
        /\ pc' \in {"unprepared", "installPrepared"}
        /\ pc' = "installPrepared" => gfdt' # None
    <2>1. gfdt' = f.gfdt \/ (~Stop(oom) /\ gfdt' = Prepared(oom).tree)
      BY <1>2, <1>5
    <2>2. pc' = "installPrepared" => ~Stop(oom)
      BY <1>2, <1>5 DEF Reverts
    <2>3. mem' = f.mem /\ pc' \in {"unprepared", "installPrepared"}
      BY <1>2
    <2> HIDE DEF f
    <2> QED BY <1>3, <1>4, <2>1, <2>2, <2>3 DEF LoadersTree, AddrOf
  <1> HIDE DEF f
  <1>7. UNCHANGED <<sit, attempt, cur, data, temps, table, installed, reg, hand,
                    leaked>>
    BY DEF PrepareTree, KeepBoot
  <1>c. cf' = cf
    BY <1>7 DEF cf
  <1>8. Types'
    BY <1>p, <1>c, <1>6, <1>7 DEF Types, LoadersTree
  <1>9. Ledger'
    <2>1. Owned' = Owned /\ Protocol' = Protocol
          /\ Kept' = AddrOf(gfdt') \cup ({installed} \ {None}) \cup leaked
      BY <1>7 DEF Owned, Protocol, Kept, AddrOf
    <2>2. mem' = AddrOf(gfdt') \cup Rest
      BY <1>6 DEF LoadersTree
    <2> QED BY <1>7, <2>1, <2>2 DEF Ledger, Rest
  <1>10. Places'
    BY <1>p, <1>6, <1>7 DEF MemInv, Places, Addr, Firmware, LoadersTree
  <1>11. Registration' /\ Temporaries'
    BY <1>p, <1>6, <1>7 DEF MemInv, Registration, Temporaries
  <1>12. Phases'
    <2>1. pc' = "installPrepared" => SourceTree' # None
      BY <1>6, <1>7 DEF SourceTree
    <2> QED BY <1>6, <1>7, <2>1 DEF MemInv, Phases
  <1> QED BY <1>8, <1>9, <1>10, <1>11, <1>12 DEF MemInv

\* Giving up after embloader_prepare_boot frees linux_data.
LEMMA UnpreparedKeeps == ASSUME MemInv, Unprepared PROVE MemInv'
  <1>p. pc = "unprepared" /\ temps = {} /\ ~hand
    BY DEF Unprepared, MemInv, Temporaries, Registration, Types
  <1>1. CASE Abandon({})
    BY <1>1, <1>p, AbandonKeeps
  <1>2. CASE ~Abandon({})
    <2>1. /\ pc' = IF cur # None THEN "register" ELSE "returned"
          /\ Still
      BY <1>2 DEF Unprepared, KeepBoot, Still
    <2>2. Registration' /\ Temporaries' /\ Phases'
      BY <1>p, <2>1 DEF MemInv, Registration, Temporaries, Phases, Still
    <2> QED BY <1>p, <2>1, <2>2, StillKeeps
  <1> QED BY <1>1, <1>2

\* linux_install_fdt frees the copy that was installed before.
LEMMA InstallFdtKeeps == ASSUME MemInv, InstallFdt PROVE MemInv'
  <1>p. /\ pc \in {"install", "installPrepared"} /\ temps = {} /\ ~hand /\ Types
        /\ SourceTree \in TreeOf(cf)
    <2>1. /\ pc \in {"install", "installPrepared"} /\ temps = {} /\ ~hand /\ Types
          /\ SourceTree # None
      BY DEF InstallFdt, MemInv, Temporaries, Registration, Phases
    <2> QED BY <2>1 DEF Types, SourceTree
  <1>a. UNCHANGED <<sit, attempt, cur, data, temps, gfdt, reg, hand, leaked>>
    BY DEF InstallFdt
  <1>c. cf' = cf
    BY <1>a DEF cf
  <1>1. ASSUME table' = [SourceTree EXCEPT !.addr = Addr("table")],
               installed' = Addr("table"),
               mem' = (mem \ {installed}) \cup {Addr("table")},
               pc' = IF cur = None THEN "returned"
                     ELSE IF entry.type = "linux" THEN "image64"
                     ELSE "register"
        PROVE  MemInv'
    <2>1. /\ Addr("table") \in Address /\ Addr("table") = <<"table", attempt>>
          /\ attempt \in Nat
      BY <1>p, AddrIs DEF Uses
    <2>2. table' \in TreeOf(cf) /\ table'.addr = Addr("table")
      BY <1>1, <1>p, <2>1, TreeParts
    <2>3. Types'
      BY <1>p, <1>a, <1>c, <2>2 DEF Types
    <2>4. Ledger'
      <3>1. /\ Owned' = Owned /\ Protocol' = {} /\ Protocol = {}
            /\ Kept' = AddrOf(gfdt) \cup {Addr("table")} \cup leaked
        <4>1. Addr("table") # None
          BY <1>p, <2>1, NoneIsNoAddress
        <4> QED BY <1>1, <1>p, <1>a, <4>1 DEF Owned, Protocol, Kept, AddrOf
      <3>2. mem = AddrOf(gfdt) \cup ({installed} \ {None}) \cup leaked \cup Owned
        BY <1>p, <3>1 DEF MemInv, Ledger, Kept
      <3>3. mem \ {installed} = AddrOf(gfdt) \cup leaked \cup Owned
        <4>1. CASE installed = None
          BY <1>p, <3>2, <4>1, Apart DEF Kept
        <4>2. CASE installed # None
          BY <1>p, <3>2, <4>2, Apart
        <4> QED BY <4>1, <4>2
      <3> QED BY <1>1, <1>p, <1>a, <3>1, <3>3 DEF Ledger
    <2>5. pc' \in {"returned", "image64", "register"} /\ (cur = None => pc' = "returned")
      BY <1>1
    <2>6. Places'
      BY <1>1, <1>p, <1>a, <2>1, <2>2, <2>5 DEF MemInv, Places, Addr
    <2>7. Registration' /\ Temporaries'
      BY <1>p, <1>a, <2>5 DEF MemInv, Registration, Temporaries
    <2>8. Phases'
      BY <1>p, <1>a, <2>5, <1>1 DEF MemInv, Phases
    <2> QED BY <2>3, <2>4, <2>6, <2>7, <2>8 DEF MemInv
  <1>2. ASSUME mem' = mem, UNCHANGED <<table, installed>>,
               pc' = IF pc = "install" THEN "clean" ELSE "unprepared"
        PROVE  MemInv'
    <2>1. Types'
      BY <1>2, <1>p, <1>a, <1>c DEF Types
    <2>2. Ledger'
      BY <1>2, <1>a DEF MemInv, Ledger, Owned, Protocol, Kept, AddrOf
    <2>3. Places'
      BY <1>2, <1>p, <1>a DEF MemInv, Places, Addr, Firmware
    <2>4. Registration' /\ Temporaries' /\ Phases'
      BY <1>2, <1>p, <1>a DEF MemInv, Registration, Temporaries, Phases
    <2> QED BY <2>1, <2>2, <2>3, <2>4 DEF MemInv
  <1> QED BY <1>1, <1>2 DEF InstallFdt, AfterFailedInstall

\* linux_initramfs_register owns the protocol or gives up.
LEMMA RegisterKeeps == ASSUME MemInv, Register PROVE MemInv'
  <1>p. pc = "register" /\ temps = {} /\ ~hand /\ cur # None /\ Types
    BY DEF Register, MemInv, Temporaries, Registration, Phases
  <1>a. UNCHANGED <<sit, attempt, cur, data, temps, gfdt, table, installed,
                    leaked>>
    BY DEF Register
  <1>1. ASSUME pc' \in {"image", "clean"}, UNCHANGED <<mem, reg, hand>>
        PROVE  MemInv'
    <2>c. cf' = cf
      BY <1>a DEF cf
    <2>1. Types'
      BY <1>1, <1>p, <1>a, <2>c DEF Types
    <2>2. Ledger'
      BY <1>1, <1>a DEF MemInv, Ledger, Owned, Protocol, Kept, AddrOf
    <2>3. Places'
      BY <1>1, <1>p, <1>a DEF MemInv, Places, Addr, Firmware
    <2>4. Registration' /\ Temporaries' /\ Phases'
      BY <1>1, <1>p, <1>a DEF MemInv, Registration, Temporaries, Phases
    <2> QED BY <2>1, <2>2, <2>3, <2>4 DEF MemInv
  <1>2. ASSUME data.initramfs # None,
               reg' = [addr |-> data.initramfs, loader |-> Addr("loader"),
                       files |-> entry.initramfs],
               mem' = mem \cup {Addr("loader")}, hand' = TRUE, pc' = "image"
        PROVE  MemInv'
    <2>c. cf' = cf
      BY <1>a DEF cf
    <2>1. Types'
      BY <1>2, <1>p, <1>a, <2>c DEF Types
    <2>2. Ledger'
      BY <1>2, <1>p, <1>a DEF MemInv, Ledger, Owned, Protocol, Kept, AddrOf
    <2>3. Places'
      BY <1>2, <1>p, <1>a DEF MemInv, Places, Addr, Firmware
    <2>4. Registration' /\ Temporaries' /\ Phases'
      BY <1>2, <1>p, <1>a DEF MemInv, Registration, Temporaries, Phases, Addr
    <2> QED BY <2>1, <2>2, <2>3, <2>4 DEF MemInv
  <1> QED BY <1>1, <1>2 DEF Register, AfterFailedRegister

\* The image and its options are the only temporaries.
LEMMA LoadImageKeeps == ASSUME MemInv, LoadImage PROVE MemInv'
  <1>p. pc = "image" /\ temps = {} /\ cur # None /\ Types
    BY DEF LoadImage, MemInv, Temporaries, Phases
  <1>a. UNCHANGED <<sit, attempt, cur, data, gfdt, table, installed, reg, hand,
                    leaked>>
    BY DEF LoadImage, KeepBoot
  <1>1. CASE pc' = "unregister" /\ UNCHANGED <<mem, temps>>
    <2>1. Registration' /\ Temporaries' /\ Phases'
      BY <1>1, <1>p, <1>a DEF MemInv, Registration, Temporaries, Phases, Addr
    <2> QED BY <1>1, <1>p, <1>a, <2>1, StillKeeps DEF Still
  <1>2. ASSUME temps' = {Addr("image"), Addr("options")}, mem' = mem \cup temps',
               pc' = "start"
        PROVE  MemInv'
    <2>c. cf' = cf
      BY <1>a DEF cf
    <2>1. Types'
      BY <1>p, <1>a, <2>c DEF Types
    <2>2. Ledger'
      BY <1>2, <1>p, <1>a DEF MemInv, Ledger, Owned, Protocol, Kept, AddrOf
    <2>3. Places'
      BY <1>2, <1>p, <1>a DEF MemInv, Places, Addr, Firmware
    <2>4. Registration' /\ Phases'
      BY <1>2, <1>p, <1>a DEF MemInv, Registration, Phases, Addr
    <2>5. Temporaries'
      <3>1. attempt \in Nat
        BY <1>p, AttemptsAssumption DEF Types
      <3>2. temps' \subseteq {"image", "options"} \X Nat
        BY <1>2, <3>1 DEF Addr
      <3>3. Addr("image")' = Addr("image")
        BY <1>a DEF Addr
      <3> QED BY <1>2, <3>2, <3>3 DEF Temporaries
    <2> QED BY <2>1, <2>2, <2>3, <2>4, <2>5 DEF MemInv
  <1> QED BY <1>1, <1>2 DEF LoadImage

\* Once the kernel runs nothing is claimed of what was freed.
LEMMA OsTakesOverKeeps == ASSUME MemInv, OsTakesOver PROVE MemInv'
  <1>p. pc \in {"start", "handoff"} /\ cur # None
    BY DEF OsTakesOver, MemInv, Phases
  <1>1. pc' = "os" /\ Still
    BY DEF OsTakesOver, KeepBoot, Still
  <1>2. Registration' /\ Temporaries' /\ Phases'
    BY <1>p, <1>1 DEF MemInv, Registration, Temporaries, Phases, Addr, Still
  <1> QED BY <1>p, <1>1, <1>2, StillKeeps

\* Some of the temporaries are freed, all of them before the protocol goes.
LEMMA TempsFreed ==
    ASSUME MemInv, pc \in {"start", "stop"}, NEW gone \in SUBSET temps,
           mem' = mem \ gone, temps' = temps \ gone,
           pc' = "stop" \/ (pc' = "unregister" /\ temps' = {}),
           UNCHANGED <<sit, attempt, cur, data, gfdt, table, installed, reg, hand,
                       leaked>>
    PROVE  MemInv'
  <1>p. cur # None /\ Types
    BY DEF MemInv, Phases
  <1>c. cf' = cf
    BY DEF cf
  <1>1. Types'
    BY <1>p, <1>c DEF Types
  <1>2. Ledger'
    <2>1. Kept' = Kept /\ Owned' = Owned /\ Protocol' = Protocol
      BY DEF Kept, Owned, Protocol, AddrOf
    <2>2. temps \cap (Kept \cup Owned \cup Protocol) = {}
      BY Apart
    <2> QED BY <2>1, <2>2 DEF MemInv, Ledger
  <1>3. Places'
    BY <1>p DEF MemInv, Places, Addr, Firmware
  <1>4. Temporaries'
    BY DEF MemInv, Temporaries
  <1>5. Registration' /\ Phases'
    BY <1>p DEF MemInv, Registration, Phases, Addr
  <1> QED BY <1>1, <1>2, <1>3, <1>4, <1>5 DEF MemInv

\* An image that returns is freed by the firmware or left to the fail label.
LEMMA ImageReturnsKeeps == ASSUME MemInv, ImageReturns PROVE MemInv'
  <1>1. PICK gone \in {{}, {Addr("image")} \cap temps} :
           mem' = mem \ gone /\ temps' = temps \ gone
    <2>1. CASE UNCHANGED <<mem, temps>>
      BY <2>1
    <2>2. CASE Addr("image") \in temps
      BY <2>2 DEF ImageReturns
    <2>3. pc = "start" => Addr("image") \in temps
      BY DEF MemInv, Temporaries
    <2> QED BY <2>1, <2>2, <2>3 DEF ImageReturns
  <1> QED BY <1>1, TempsFreed DEF ImageReturns, KeepBoot

\* The fail label of embloader_start_efi frees what is left.
LEMMA UnloadImageKeeps == ASSUME MemInv, UnloadImage PROVE MemInv'
  <1>1. temps \in SUBSET temps /\ temps \ temps = {}
    OBVIOUS
  <1> QED BY <1>1, TempsFreed DEF UnloadImage, KeepBoot, AfterUnload

\* A protocol that cannot be removed keeps its buffers.
LEMMA UnregisterKeeps == ASSUME MemInv, Unregister PROVE MemInv'
  <1>p. pc = "unregister" /\ cur # None /\ Types /\ temps = {}
    BY DEF Unregister, MemInv, Phases, Temporaries
  <1>a. pc' = "clean" /\ UNCHANGED <<sit, attempt, cur, temps, gfdt, table, installed>>
    BY DEF Unregister
  <1>c. cf' = cf
    BY <1>a DEF cf
  <1>n. attempt \in Nat
    BY <1>p, AttemptsAssumption DEF Types
  <1>1. ASSUME ~hand, UNCHANGED <<mem, data, reg, hand, leaked>> PROVE MemInv'
    <2>1. Types'
      BY <1>1, <1>p, <1>a, <1>c DEF Types
    <2>2. Ledger'
      BY <1>1, <1>a DEF MemInv, Ledger, Owned, Protocol, Kept, AddrOf
    <2>3. Places'
      BY <1>1, <1>p, <1>a DEF MemInv, Places, Addr, Firmware
    <2>4. Registration' /\ Temporaries' /\ Phases'
      BY <1>1, <1>p, <1>a DEF MemInv, Registration, Temporaries, Phases
    <2> QED BY <2>1, <2>2, <2>3, <2>4 DEF MemInv
  <1>2. ASSUME hand, mem' = mem \ {reg.loader}, reg' = None, hand' = FALSE,
               UNCHANGED <<data, leaked>>
        PROVE  MemInv'
    <2>1. Types'
      BY <1>2, <1>p, <1>a, <1>c DEF Types
    <2>2. Ledger'
      <3>1. Kept' = Kept /\ Owned' = Owned /\ Protocol' = {}
            /\ Protocol = {reg.loader}
        BY <1>2, <1>a DEF Kept, Owned, Protocol, AddrOf
      <3>2. reg.loader \notin Kept \cup Owned
        BY <1>p, <3>1, Apart
      <3> QED BY <1>2, <1>p, <1>a, <3>1, <3>2 DEF MemInv, Ledger
    <2>3. Places'
      BY <1>2, <1>p, <1>a DEF MemInv, Places, Addr, Firmware
    <2>4. Registration' /\ Temporaries' /\ Phases'
      BY <1>2, <1>p, <1>a DEF MemInv, Registration, Temporaries, Phases
    <2> QED BY <2>1, <2>2, <2>3, <2>4 DEF MemInv
  <1>3. ASSUME hand, leaked' = leaked \cup {data.initramfs, reg.loader},
               data' = [data EXCEPT !.initramfs = None], hand' = FALSE,
               UNCHANGED <<mem, reg>>
        PROVE  MemInv'
    <2>d. /\ data'.kernel = data.kernel /\ data'.initramfs = None
          /\ data'.fdt = data.fdt
      BY <1>3, <1>p DEF Types
    <2>r. /\ data.initramfs = <<"initramfs", attempt>> /\ data.initramfs # None
          /\ reg.addr = data.initramfs /\ reg.loader = <<"loader", attempt>>
      BY <1>3 DEF MemInv, Registration, Places, Addr
    <2>1. Types'
      BY <1>3, <1>p, <1>a, <1>c, <2>d, DataSet DEF Types, IsData
    <2>2. Ledger'
      <3>1. Kept' = Kept \cup {data.initramfs, reg.loader}
        BY <1>3, <1>a DEF Kept, AddrOf
      <3>2. /\ Owned' = ({data.kernel} \ {None}) \cup AddrOf(data.fdt)
            /\ Owned = Owned' \cup {data.initramfs}
        BY <2>d, <2>r DEF Owned, AddrOf
      <3>3. Protocol' = {} /\ Protocol = {reg.loader}
        BY <1>3 DEF Protocol
      <3> QED BY <1>3, <1>p, <1>a, <3>1, <3>2, <3>3 DEF MemInv, Ledger
    <2>3. Places'
      <3>1. {<<"initramfs", attempt>>, <<"loader", attempt>>}
              \subseteq LeakedUpTo(attempt)
        BY <1>n DEF LeakedUpTo
      <3>2. leaked' \subseteq LeakedUpTo(attempt)
        BY <1>3, <2>r, <3>1 DEF MemInv, Places
      <3>3. None \notin leaked'
        <4>1. reg.loader # None
          BY <1>3, <1>p, Tags
        <4> QED BY <1>3, <1>p, <2>r, <4>1, Apart DEF Kept
      <3> QED BY <1>p, <1>a, <2>d, <3>2, <3>3 DEF MemInv, Places, Addr, Firmware
    <2>4. Registration' /\ Temporaries' /\ Phases'
      BY <1>3, <1>p, <1>a, <2>r DEF MemInv, Registration, Temporaries, Phases
    <2> QED BY <2>1, <2>2, <2>3, <2>4 DEF MemInv
  <1> QED BY <1>1, <1>2, <1>3 DEF Unregister, InitramfsKept

\* linux_data is freed at the end of an attempt.
LEMMA CleanKeeps == ASSUME MemInv, Clean PROVE MemInv'
  <1>1. pc = "clean" /\ temps = {} /\ ~hand /\ Abandon({})
    BY DEF Clean, MemInv, Temporaries, Registration
  <1> QED BY <1>1, AbandonKeeps

\* The pages of the raw Image are the only temporaries.
LEMMA PrepareImageKeeps == ASSUME MemInv, PrepareImage PROVE MemInv'
  <1>p. pc = "image64" /\ ~hand /\ cur # None /\ Types
    BY DEF PrepareImage, MemInv, Registration, Phases
  <1>1. CASE Abandon(temps)
    BY <1>1, <1>p, AbandonKeeps
  <1>2. CASE ~Abandon(temps)
    <2>a. PICK i \in DOMAIN Buffers64 :
            /\ temps' = temps \cup {Addr(Buffers64[i])}
            /\ mem' = mem \cup temps'
            /\ pc' \in {"image64", "handoff"}
            /\ UNCHANGED <<sit, attempt, cur, data, gfdt, table, installed, reg,
                           hand, leaked>>
      BY <1>2, <1>p DEF PrepareImage
    <2>c. cf' = cf
      BY <2>a DEF cf
    <2>1. Types'
      BY <1>p, <2>a, <2>c DEF Types
    <2>2. Ledger'
      BY <2>a DEF MemInv, Ledger, Owned, Protocol, Kept, AddrOf
    <2>3. Places'
      BY <1>p, <2>a DEF MemInv, Places, Addr, Firmware
    <2>4. Registration' /\ Phases'
      BY <1>p, <2>a DEF MemInv, Registration, Phases, Addr
    <2>5. Temporaries'
      <3>1. attempt \in Nat /\ Buffers64[i] \in {"kernel64", "tree64", "memory64"}
        BY <1>p, AttemptsAssumption DEF Types, Buffers64
      <3>2. temps' \subseteq {"kernel64", "tree64", "memory64"} \X Nat
        BY <1>p, <2>a, <3>1 DEF Addr, MemInv, Temporaries
      <3> QED BY <2>a, <3>2 DEF Temporaries
    <2> QED BY <2>1, <2>2, <2>3, <2>4, <2>5 DEF MemInv
  <1> QED BY <1>1, <1>2

\* invoke_boot frees its pages or hands over to the kernel.
LEMMA HandoffKeeps == ASSUME MemInv, Handoff \/ HandoffFails PROVE MemInv'
  <1>p. pc = "handoff" /\ ~hand /\ cur # None /\ Types
    BY DEF Handoff, HandoffFails, MemInv, Registration, Phases
  <1>1. CASE HandoffFails
    BY <1>1, <1>p, AbandonKeeps DEF HandoffFails
  <1>2. CASE Handoff
    <2>1. pc' = pc /\ Still
      BY <1>2 DEF Handoff, Still
    <2>2. Registration' /\ Temporaries' /\ Phases'
      BY <1>p, <2>1 DEF MemInv, Registration, Temporaries, Phases, Still
    <2> QED BY <1>p, <2>1, <2>2, StillKeeps
  <1> QED BY <1>1, <1>2

\* Every step keeps the owners of the memory.
LEMMA MemStep == ASSUME MemInv, [Next]_vars PROVE MemInv'
  <1>1. CASE UNCHANGED vars
    <2>1. cf' = cf
      BY <1>1 DEF vars, cf
    <2>2. Types' /\ Ledger'
      BY <1>1, <2>1 DEF vars, MemInv, Types, Ledger, Owned, Protocol, Kept, AddrOf
    <2>3. Places'
      BY <1>1 DEF vars, MemInv, Places, Addr, Firmware
    <2>4. Registration' /\ Temporaries' /\ Phases'
      BY <1>1 DEF vars, MemInv, Registration, Temporaries, Phases, Addr,
                  SourceTree
    <2> QED BY <2>2, <2>3, <2>4 DEF MemInv
  <1>2. CASE Next
    BY <1>2, BootEntryKeeps, BootRefusedKeeps, LoadKernelKeeps,
       ReadInitramfsKeeps, JoinInitramfsKeeps, LoadBootargsKeeps,
       LoadDevicetreeKeeps, LoadDtoverlayKeeps, PrepareTreeKeeps,
       UnpreparedKeeps, InstallFdtKeeps, RegisterKeeps, LoadImageKeeps,
       OsTakesOverKeeps, ImageReturnsKeeps, UnloadImageKeeps, UnregisterKeeps, CleanKeeps,
       PrepareImageKeeps, HandoffKeeps
    DEF Next
  <1> QED BY <1>1, <1>2

\* Owners that hold everything leave nothing freed in use and nothing lost.
LEMMA MemImplies == ASSUME MemInv PROVE MemoryAccounted
  <1>t. Types
    BY DEF MemInv
  <1>1. TypeOK
    <2>1. temps \subseteq mem
      BY DEF MemInv, Ledger
    <2>2. ASSUME NEW t \in {gfdt, table, data.fdt}, t # None
          PROVE  /\ t.addr \in Address /\ t.file \in Files(cf)
                 /\ t.ovs \in Seq(OverlaysOf(cf))
      BY <1>t, <2>2 DEF Types, TreeOf
    <2>3. ASSUME NEW ov \in OverlaysOf(cf) PROVE OverlayFrom(cf, ov)
      <3>1. PICK d \in DOMAIN cf.disk :
               ov \in {Applied(cf.disk[d], o, f) :
                        o \in AskedFor(cf), f \in DOMAIN cf.disk[d]}
        BY DEF OverlaysOf
      <3>2. PICK o \in AskedFor(cf), f \in DOMAIN cf.disk[d] :
               ov = Applied(cf.disk[d], o, f)
        BY <3>1
      <3>3. ov.file = f
        BY <3>2 DEF Applied
      <3> QED BY <3>2, <3>3 DEF OverlayFrom
    <2>4. ASSUME NEW t \in {gfdt, table, data.fdt}, t # None,
                 NEW i \in DOMAIN t.ovs
          PROVE  OverlayFrom(cf, t.ovs[i])
      <3>1. t.ovs[i] \in OverlaysOf(cf)
        BY <2>2, <2>4
      <3> QED BY <2>3, <3>1
    <2> QED BY <1>t, <2>1, <2>2, <2>4 DEF Types, TypeOK
  <1>2. HeldIsLive
    <2>1. Kept \subseteq mem /\ Owned \subseteq mem /\ Protocol \subseteq mem
      BY DEF MemInv, Ledger
    <2>2. AddrOf(table) \subseteq mem \cup {Firmware}
      <3> SUFFICES ASSUME table # None, table.addr # Firmware
                   PROVE  table.addr \in mem
        BY DEF AddrOf
      <3>1. table.addr = installed /\ table.addr \in Address
        BY <1>t, TreeParts DEF MemInv, Places, Types
      <3>2. installed # None
        BY <1>t, <3>1, NoneIsNoAddress
      <3> QED BY <2>1, <3>1, <3>2 DEF Kept
    <2>3. reg # None => {reg.addr, reg.loader} \subseteq mem
      BY <1>t, <2>1 DEF MemInv, Registration, Owned, Protocol, Kept, Types
    <2> QED BY <2>1, <2>2, <2>3 DEF HeldIsLive, Owned, Kept
  <1>3. NothingLost
    <2> SUFFICES ASSUME pc \in {"idle", "returned"}
                 PROVE  mem = Kept
      BY DEF NothingLost, Kept
    <2>1. data = NoData /\ temps = {} /\ ~hand
      BY DEF MemInv, Phases, Temporaries, Registration
    <2> QED BY <2>1 DEF MemInv, Ledger, Owned, Protocol, AddrOf, NoData
  <1> QED BY <1>1, <1>2, <1>3 DEF MemoryAccounted

\* Through every failure of every attempt linux_data_clean, linux_install_fdt
\* and linux_boot_use_efi free nothing that is still pointed to, and an attempt
\* that comes back has freed all but the loader's tree, the copy in the table
\* and the initramfs of a protocol that could not be removed.
THEOREM MemoryIsAccounted == Spec => []MemoryAccounted
<1>1. Init => MemInv
  BY MemInit
<1>2. MemInv /\ [Next]_vars => MemInv'
  BY MemStep
<1>3. MemInv => MemoryAccounted
  BY MemImplies
<1> QED
  BY <1>1, <1>2, <1>3, PTL DEF Spec

\* A tree of the loader is the default tree of this entry where it was read in
\* this attempt, and wherever the path of the default tree depends on the entry.
DefaultOf(g) ==
    /\ g # None => g.addr \in {"gfdt", "fetched"} \X (0..attempt)
    /\ (/\ cur # None /\ g # None
        /\ \/ g.addr = Addr("gfdt")
           \/ entry.kernel # None /\ DependsOnLoader(cf.defaultDtb))
       => /\ DefaultDtb(cf, Disk, entry, ktype) # None
          /\ g.file = <<Root, DefaultDtb(cf, Disk, entry, ktype)>>

DefaultInv == DefaultOf(gfdt)

\* The tree that linux_load_default_dtb reads is the one of this entry.
LEMMA LoadDefaultOf ==
    ASSUME Types, NEW g, NEW m, DefaultOf(g)
    PROVE  LET d == LoadDefaultDtb(g, m)
           IN  /\ DefaultOf(d.gfdt)
               /\ d.ok \in BOOLEAN
               /\ ~d.ok /\ DependsOnLoader(cf.defaultDtb) => d.gfdt = None
               /\ d.ok => d.gfdt # None
  <1> DEFINE drop == DependsOnLoader(cf.defaultDtb)
             g1 == IF drop THEN None ELSE g
             file == DefaultDtb(cf, Disk, entry, ktype)
             d == LoadDefaultDtb(g, m)
  <1>1. CASE file = None
    <2>1. d.gfdt = g1 /\ d.ok = FALSE
      BY <1>1 DEF LoadDefaultDtb
    <2>2. DefaultOf(g1)
      BY DEF DefaultOf
    <2> HIDE DEF d
    <2>3. d.ok \in BOOLEAN /\ (drop => d.gfdt = None)
      BY <2>1, Zenon
    <2>4. DefaultOf(d.gfdt)
      BY <2>1, <2>2, Zenon
    <2> QED BY <2>1, <2>3, <2>4 DEF d
  <1>2. CASE file # None
    <2>1. d.gfdt = Tree(Addr("gfdt"), <<Root, file>>) /\ d.ok = TRUE
      BY <1>2 DEF LoadDefaultDtb
    <2>2. Addr("gfdt") \in Address /\ Addr("gfdt") \in {"gfdt", "fetched"} \X (0..attempt)
      <3>1. Addr("gfdt") \in Address /\ Addr("gfdt") = <<"gfdt", attempt>>
            /\ attempt \in Nat
        BY AddrIs DEF Uses
      <3>2. attempt \in 0..attempt
        BY <3>1
      <3> QED BY <3>1, <3>2
    <2>3. d.gfdt.addr = Addr("gfdt") /\ d.gfdt.file = <<Root, file>>
      BY <2>1 DEF Tree
    <2>4. d.gfdt # None
      <3>2. <<Root, file>> \in Files(cf)
        BY <1>2, DefaultIsFile
      <3>3. Tree(Addr("gfdt"), <<Root, file>>) \in TreeOf(cf)
        BY <2>2, <3>2, NewTree
      <3> QED BY <2>1, <3>3, NoneIsNoAddress
    <2> HIDE DEF d
    <2>5. DefaultOf(d.gfdt)
      BY <1>2, <2>2, <2>3 DEF DefaultOf
    <2> QED BY <2>1, <2>4, <2>5 DEF d
  <1> QED BY <1>1, <1>2

\* The firmware's tree is the default of no entry.
LEMMA FetchOf ==
    ASSUME Types, NEW g, NEW m, DefaultOf(g),
           g # None \/ ~DependsOnLoader(cf.defaultDtb)
    PROVE  DefaultOf(FetchFdt(g, m).gfdt)
  <1>1. CASE g # None \/ table = None
    BY <1>1 DEF FetchFdt
  <1>2. CASE g = None /\ table # None
    <2> DEFINE t == [table EXCEPT !.addr = Addr("fetched")]
    <2>1. /\ Addr("fetched") = <<"fetched", attempt>> /\ attempt \in Nat
          /\ Addr("gfdt") = <<"gfdt", attempt>> /\ Addr("fetched") \in Address
      BY AddrIs DEF Uses
    <2>2. t.addr = Addr("fetched")
      BY <1>2, <2>1, TreeParts DEF Types
    <2>3. FetchFdt(g, m).gfdt = t
      BY <1>2 DEF FetchFdt
    <2> HIDE DEF t
    <2>4. attempt \in 0..attempt
      BY <2>1
    <2> QED BY <1>2, <2>1, <2>2, <2>3, <2>4 DEF DefaultOf
  <1> QED BY <1>1, <1>2

\* So is the tree that linux_load_dtoverlay starts from.
LEMMA BaseOf ==
    ASSUME Types, DefaultInv, NEW oom \in BOOLEAN
    PROVE  DefaultOf(Base(oom).gfdt)
  <1>1. CASE ~HasOverlays
    BY <1>1 DEF Base, DefaultInv
  <1>2. CASE HasOverlays
    <2> DEFINE d == LoadDefaultDtb(gfdt, mem)
               f == FetchFdt(d.gfdt, d.mem)
               p == PrepareDtoverlayFdt(oom)
    <2>1. /\ DefaultOf(d.gfdt) /\ d.ok \in BOOLEAN
          /\ ~d.ok /\ DependsOnLoader(cf.defaultDtb) => d.gfdt = None
      BY LoadDefaultOf DEF DefaultInv
    <2>2. ~DependsOnLoader(cf.defaultDtb) => DefaultOf(f.gfdt)
      BY <2>1, FetchOf
    <2>3. p = IF data.fdt # None THEN [gfdt |-> gfdt, mem |-> mem, ok |-> TRUE]
              ELSE IF d.ok \/ DependsOnLoader(cf.defaultDtb) THEN d
              ELSE IF oom /\ d.gfdt = None /\ table # None THEN d
              ELSE [gfdt |-> f.gfdt, mem |-> f.mem, ok |-> TRUE]
      BY Zenon DEF PrepareDtoverlayFdt
    <2> HIDE DEF d, f, p
    <2>4. DefaultOf(p.gfdt)
      BY <2>1, <2>2, <2>3 DEF DefaultInv
    <2> QED BY <1>2, <2>4 DEF Base, p
  <1> QED BY <1>1, <1>2

\* Steps that leave the loader's tree alone.
SameDefault ==
    UNCHANGED <<sit, attempt, gfdt, ktype>> /\ (cur' = cur \/ cur' = None)

\* All steps but three leave it alone.
LEMMA DefaultSteps ==
    ASSUME [Next]_vars
    PROVE  \/ SameDefault \/ LoadDtoverlay \/ PrepareTree \/ PrepareOnly
           \/ \E e \in DOMAIN cf.entries : BootEntry(e) \/ BootRefused(e)
<1>1. CASE UNCHANGED vars
  BY <1>1 DEF vars, SameDefault
<1>3. CASE LoadKernel \/ ReadInitramfs \/ JoinInitramfs \/ LoadBootargs
  BY <1>3 DEF LoadKernel, ReadInitramfs, JoinInitramfs, LoadBootargs, Abandon,
              CleanUp, KeepBoot, SameDefault
<1>4. CASE LoadDevicetree
  BY <1>4 DEF LoadDevicetree, Abandon, CleanUp, KeepBoot, SameDefault
<1>6. CASE Unprepared
  BY <1>6 DEF Unprepared, Abandon, CleanUp, KeepBoot, SameDefault
<1>7. CASE InstallFdt
  BY <1>7 DEF InstallFdt, SameDefault
<1>8. CASE Register \/ LoadImage \/ OsTakesOver
  BY <1>8 DEF Register, LoadImage, OsTakesOver, KeepBoot, SameDefault
<1>9. CASE ImageReturns \/ UnloadImage \/ Unregister \/ Clean
  BY <1>9 DEF ImageReturns, UnloadImage, Unregister, Clean, Abandon, CleanUp, KeepBoot,
              SameDefault
<1>10. CASE PrepareImage \/ HandoffFails
  BY <1>10 DEF PrepareImage, HandoffFails, Abandon, CleanUp, SameDefault
<1>11. CASE Handoff
  BY <1>11 DEF Handoff, SameDefault
<1> QED
  BY <1>1, <1>3, <1>4, <1>6, <1>7, <1>8, <1>9, <1>10, <1>11 DEF Next

\* DefaultOf does not depend on what else a step changes.
LEMMA DefaultOfStays ==
    ASSUME NEW g, DefaultOf(g), UNCHANGED <<sit, attempt, ktype>>,
           cur' = cur \/ cur' = None, gfdt' = g
    PROVE  DefaultInv'
  <1>1. cf' = cf
    BY DEF cf
  <1>2. CASE cur' = None
    BY <1>2 DEF DefaultInv, DefaultOf
  <1>3. CASE cur' = cur
    <2>1. entry' = entry /\ Root' = Root /\ Disk' = Disk
          /\ Addr("gfdt")' = Addr("gfdt")
      BY <1>1, <1>3 DEF entry, Root, Disk, Addr
    <2> QED BY <1>1, <1>3, <2>1 DEF DefaultInv, DefaultOf
  <1> QED BY <1>2, <1>3

\* Every step keeps what is known of the loader's tree.
LEMMA DefaultStep == ASSUME MemInv, DefaultInv, [Next]_vars PROVE DefaultInv'
  <1>t. Types
    BY DEF MemInv
  <1>1. CASE SameDefault
    BY <1>1, DefaultOfStays DEF SameDefault, DefaultInv
  <1>2. CASE LoadDtoverlay
    <2>p. cur # None
      BY <1>2 DEF LoadDtoverlay, MemInv, Phases
    <2>1. PICK oom, p, t, r :
            /\ oom \in BOOLEAN
            /\ p = Base(oom) /\ t = Target(p) /\ r = Result(oom, p, t)
            /\ IF Continue(r.ok) THEN GoesOn(p, r) ELSE GivesUp(p, r)
      BY <1>2, LoadDtoverlayIs, Zenon
    <2>2. DefaultOf(p.gfdt)
      BY <1>t, <2>1, BaseOf
    <2>3. p.gfdt \in TreeOf(cf) \cup {None}
      <3>1. CASE HasOverlays
        BY <1>2, <2>1, <3>1, PrepareKeeps DEF Base, LoadersTree, LoadDtoverlay
      <3>2. CASE ~HasOverlays
        BY <1>t, <2>1, <3>2 DEF Base, Types
      <3> QED BY <3>1, <3>2
    <2>4. DefaultOf(Loaders(p, r))
      <3>1. CASE data.fdt # None
        BY <2>2, <3>1 DEF Loaders
      <3>2. CASE data.fdt = None
        <4>1. t = p.gfdt /\ Loaders(p, r) = r.tree
          BY <2>1, <3>2 DEF Target, Loaders
        <4>2. /\ t = None => r.tree = None
              /\ t # None => r.tree.addr = t.addr /\ r.tree.file = t.file
          BY <1>t, <2>p, <2>1, <2>3, <4>1, ResultTree
        <4> QED BY <2>2, <4>1, <4>2 DEF DefaultOf
      <3> QED BY <3>1, <3>2
    <2>5. gfdt' = Loaders(p, r) /\ UNCHANGED <<sit, attempt, ktype>>
          /\ (cur' = cur \/ cur' = None)
      BY <2>1 DEF GoesOn, GivesUp, KeepBoot
    <2> QED BY <2>4, <2>5, DefaultOfStays
  <1>3. CASE PrepareTree
    <2>1. PICK oom \in BOOLEAN :
            gfdt' = IF Reverts(oom) THEN Found(oom).gfdt ELSE Prepared(oom).tree
      BY <1>3, PrepareTreeIs
    <2>2. DefaultOf(Found(oom).gfdt)
      <3>1. /\ DefaultOf(Default.gfdt) /\ Default.ok \in BOOLEAN
            /\ ~Default.ok /\ DependsOnLoader(cf.defaultDtb) => Default.gfdt = None
            /\ Default.ok => Default.gfdt # None
        BY <1>t, LoadDefaultOf DEF Default, DefaultInv
      <3>2. ~Missing => DefaultOf(FetchFdt(Default.gfdt, Default.mem).gfdt)
        BY <1>t, <3>1, FetchOf DEF Missing
      <3> QED BY <3>1, <3>2 DEF Found
    <2>3. DefaultOf(Prepared(oom).tree)
      <3>1. CASE Stop(oom)
        BY <2>2, <3>1 DEF Prepared
      <3>2. CASE ~Stop(oom)
        <4>1. Found(oom).gfdt # None
          BY <3>2 DEF Stop
        <4>2. Found(oom).gfdt \in TreeOf(cf)
          <5>1. LoadersTree(gfdt, mem) /\ pc # "os"
            BY <1>3 DEF MemInv, Types, Places, Ledger, LoadersTree, Kept, Rest,
                        PrepareTree
          <5>2. LoadersTree(Default.gfdt, Default.mem)
            BY <5>1, LoadDefaultKeeps DEF Default
          <5>3. LoadersTree(Found(oom).gfdt, Found(oom).mem)
            BY <5>2, FetchKeeps DEF Found
          <5> QED BY <4>1, <5>3 DEF LoadersTree
        <4> DEFINE g == Found(oom).gfdt
                   o == Configured(oom).ovs
        <4>3. Prepared(oom).tree = [g EXCEPT !.ovs = o]
          BY <3>2 DEF Prepared
        <4> HIDE DEF g, o
        <4>4. /\ [g EXCEPT !.ovs = o].addr = g.addr
              /\ [g EXCEPT !.ovs = o].file = g.file
          BY <4>2 DEF TreeOf, g
        <4>5. g # None /\ DefaultOf(g)
          BY <2>2, <4>1 DEF g
        <4> QED BY <4>3, <4>4, <4>5 DEF DefaultOf
      <3> QED BY <3>1, <3>2
    <2>4. UNCHANGED <<sit, attempt, ktype, cur>>
      BY <1>3 DEF PrepareTree, KeepBoot
    <2>5. gfdt' = Found(oom).gfdt \/ gfdt' = Prepared(oom).tree
      BY <2>1
    <2> QED BY <2>2, <2>3, <2>4, <2>5, DefaultOfStays
  <1>4. ASSUME sit' = sit, attempt' = attempt + 1,
               \/ gfdt' = gfdt /\ cur' = None
               \/ \E e \in DOMAIN cf.entries :
                    /\ cur' = e
                    /\ gfdt' = IF cf.entries[e].kernel # None
                                  /\ DependsOnLoader(cf.defaultDtb)
                               THEN None ELSE gfdt
        PROVE  DefaultInv'
    <2>1. cf' = cf /\ attempt \in Nat
      BY <1>4, <1>t, AttemptsAssumption DEF cf, Types
    <2>2. gfdt' # None => /\ gfdt' = gfdt
                          /\ gfdt.addr \in {"gfdt", "fetched"} \X (0..attempt)
      BY <1>4 DEF DefaultInv, DefaultOf
    <2>3. gfdt' # None => /\ gfdt'.addr \in {"gfdt", "fetched"} \X (0..attempt')
                          /\ gfdt'.addr # <<"gfdt", attempt + 1>>
      BY <1>4, <2>1, <2>2
    <2>4. gfdt' # None /\ cur' # None =>
            ~(entry'.kernel # None /\ DependsOnLoader(cf.defaultDtb))
      BY <1>4, <2>1 DEF entry
    <2> QED BY <1>4, <2>1, <2>3, <2>4 DEF DefaultInv, DefaultOf, Addr
  <1>5. CASE PrepareOnly \/ \E e \in DOMAIN cf.entries : BootRefused(e)
    <2>1. pc = "idle" /\ sit' = sit /\ attempt' = attempt + 1 /\ gfdt' = gfdt
          /\ cur' = cur
      BY <1>5 DEF PrepareOnly, BootRefused
    <2>2. cur = None
      BY <2>1 DEF MemInv, Phases
    <2> QED BY <2>1, <2>2, <1>4
  <1>6. CASE \E e \in DOMAIN cf.entries : BootEntry(e)
    BY <1>6, <1>4 DEF BootEntry
  <1> QED BY <1>1, <1>2, <1>3, <1>5, <1>6, DefaultSteps

\* Which steps an entry without a kernel takes, and one that is a raw Image.
PathInv ==
    /\ cur # None /\ entry.kernel = None =>
         pc \in {"image", "start", "stop", "unregister", "clean", "os"}
    /\ pc \in {"image64", "handoff"} => entry.type = "linux"

\* linux_data and the protocol hold what the entry asks for, from the step on
\* that loads it.
EntryInv ==
    /\ cur # None /\ entry.kernel # None
       /\ pc \notin {"kernel", "initramfs", "bootargs"} =>
         data.bootargs = PrepareBootargs(entry)
    /\ pc \in {"kernel", "initramfs"} => data.initramfs = None
    /\ pc = "initramfs" => IsFiniteSet(temps)
    /\ cur # None /\ entry.kernel # None
       /\ pc \notin {"kernel", "initramfs", "clean"} =>
         (data.initramfs # None <=> entry.initramfs # <<>>)
    /\ hand => reg.files = entry.initramfs
    /\ pc \in {"image", "start"} /\ ~hand => data.initramfs = None

\* /chosen is filled in when the tree has been copied.
ChosenInv ==
    /\ pc \in {"image64", "handoff"} /\ Addr("tree64") \in temps =>
         chosen.bootargs = data.bootargs /\ chosen.initrd = data.initramfs
    /\ pc = "handoff" => Addr("tree64") \in temps

\* The three together.
InputInv == PathInv /\ EntryInv /\ ChosenInv

\* What the invariant is about stays the same while the entry does.
LEMMA EntryStays ==
    ASSUME UNCHANGED <<sit, cur>>
    PROVE  /\ cf' = cf /\ entry' = entry
           /\ PrepareBootargs(entry)' = PrepareBootargs(entry)
  <1>1. cf' = cf
    BY DEF cf
  <1>2. entry' = entry
    BY <1>1 DEF entry
  <1>3. PrepareBootargs(entry)' = PrepareBootargs(entry)
    BY <1>1, <1>2 DEF PrepareBootargs
  <1> QED BY <1>1, <1>2, <1>3

\* Between two entries it says nothing.
LEMMA InputIdle ==
    ASSUME cur' = None, ~hand',
           pc' \in {"idle", "prepare", "unprepared", "installPrepared", "returned"}
    PROVE  InputInv'
  BY DEF InputInv, PathInv, EntryInv, ChosenInv

\* An attempt that fails leaves nothing to say.
LEMMA InputAbandon == ASSUME NEW more, Abandon(more) PROVE InputInv'
  BY InputIdle DEF Abandon, CleanUp

\* A step that changes neither linux_data nor the protocol.
LEMMA InputMoves ==
    ASSUME InputInv, cur # None, UNCHANGED <<sit, cur, attempt, reg, hand>>,
           pc \notin {"kernel", "initramfs", "bootargs", "clean", "handoff"},
           pc' \notin {"kernel", "initramfs", "bootargs", "image64", "handoff"}
             \/ (pc' = "image64" /\ entry.type = "linux" /\ temps' = {}),
           entry.kernel = None =>
             pc' \in {"image", "start", "stop", "unregister", "clean", "os"},
           data'.initramfs = data.initramfs, data'.bootargs = data.bootargs,
           pc' \in {"image", "start"} /\ ~hand => data.initramfs = None
    PROVE  InputInv'
  <1>1. entry' = entry /\ PrepareBootargs(entry)' = PrepareBootargs(entry)
    BY EntryStays
  <1>2. PathInv'
    BY <1>1 DEF InputInv, PathInv
  <1>3. EntryInv'
    BY <1>1 DEF InputInv, EntryInv
  <1>4. ChosenInv'
    BY DEF ChosenInv
  <1> QED BY <1>2, <1>3, <1>4 DEF InputInv

\* Every step keeps what the kernel is to be given.
LEMMA InputStep == ASSUME MemInv, InputInv, [Next]_vars PROVE InputInv'
  <1>t. Types
    BY DEF MemInv
  <1>h. hand => pc \in {"image", "start", "stop", "unregister", "os"}
    BY DEF MemInv, Registration
  <1>k. cur = None => pc \in {"idle", "prepare", "unprepared",
                              "installPrepared", "returned"}
    BY DEF MemInv, Phases
  <1>p. /\ pc \in {"image64", "handoff"} => entry.type = "linux"
        /\ cur # None /\ entry.kernel = None =>
             pc \in {"image", "start", "stop", "unregister", "clean", "os"}
    BY DEF InputInv, PathInv
  <1>1. CASE UNCHANGED vars
    <2>1. /\ UNCHANGED <<pc, cur, data, temps, reg, hand, attempt, chosen>>
          /\ entry' = entry /\ PrepareBootargs(entry)' = PrepareBootargs(entry)
      BY <1>1, EntryStays DEF vars
    <2>2. PathInv'
      BY <2>1 DEF InputInv, PathInv
    <2>3. EntryInv'
      BY <2>1 DEF InputInv, EntryInv
    <2>4. ChosenInv'
      BY <2>1 DEF InputInv, ChosenInv, Addr
    <2> QED BY <2>2, <2>3, <2>4 DEF InputInv
  <1>2. CASE \E e \in DOMAIN cf.entries : BootEntry(e)
    <2>1. PICK e \in DOMAIN cf.entries : BootEntry(e)
      BY <1>2
    <2>2. /\ pc = "idle" /\ sit' = sit /\ cur' = e /\ data' = data /\ temps' = temps
          /\ hand' = hand
          /\ pc' = IF cf.entries[e].kernel = None THEN "image" ELSE "kernel"
      BY <2>1 DEF BootEntry
    <2>3. data = NoData /\ temps = {} /\ ~hand
      BY <2>2 DEF MemInv, Phases, Temporaries, Registration
    <2>4. cf' = cf /\ e # None
      BY <1>t, <2>2, NoneIsNoAddress DEF cf
    <2>5. entry' = cf.entries[e]
      BY <2>2, <2>4 DEF entry
    <2>6. PathInv'
      BY <2>2, <2>5 DEF PathInv
    <2>7. EntryInv'
      BY <2>2, <2>3, <2>5 DEF EntryInv, NoData
    <2>8. ChosenInv'
      BY <2>2 DEF ChosenInv
    <2> QED BY <2>6, <2>7, <2>8 DEF InputInv
  <1>3. CASE PrepareOnly \/ \E e \in DOMAIN cf.entries : BootRefused(e)
    <2>1. pc = "idle" /\ cur' = cur /\ hand' = hand /\ pc' \in {"idle", "prepare"}
      BY <1>3 DEF PrepareOnly, BootRefused
    <2>2. cur = None /\ ~hand
      BY <2>1, <1>h DEF MemInv, Phases
    <2> QED BY <2>1, <2>2, InputIdle
  <1>4. CASE LoadKernel
    <2>1. CASE Abandon({})
      BY <2>1, InputAbandon
    <2>2. CASE ~Abandon({})
      <3>1. /\ pc = "kernel" /\ pc' = "initramfs"
            /\ data' = [data EXCEPT !.kernel = Addr("kernel")]
            /\ UNCHANGED <<sit, cur, temps, hand, reg>>
        BY <1>4, <2>2 DEF LoadKernel, KeepBoot
      <3>2. data'.initramfs = data.initramfs /\ data.initramfs = None
        BY <1>t, <3>1 DEF Types, InputInv, EntryInv
      <3>3. temps' = {} /\ ~hand /\ IsFiniteSet({})
        BY <3>1, <1>h, FS_EmptySet DEF MemInv, Temporaries
      <3>4. entry' = entry /\ entry.kernel # None
        BY <3>1, <1>k, <1>p, EntryStays
      <3> QED BY <3>1, <3>2, <3>3, <3>4 DEF InputInv, PathInv, EntryInv, ChosenInv
    <2> QED BY <2>1, <2>2
  <1>5. CASE ReadInitramfs
    <2>1. CASE Abandon(temps)
      BY <2>1, InputAbandon
    <2>2. CASE ~Abandon(temps)
      <3>1. PICK i \in DOMAIN entry.initramfs :
              /\ pc = "initramfs" /\ pc' = pc
              /\ temps' = temps \cup {<<"file", attempt, i>>}
              /\ UNCHANGED <<sit, cur, data, reg, hand>>
        BY <1>5, <2>2 DEF ReadInitramfs, KeepBoot, FilesToFree
      <3>2. IsFiniteSet(temps')
        BY <3>1, FS_AddElement DEF InputInv, EntryInv
      <3>3. entry' = entry /\ entry.kernel # None /\ ~hand
        BY <3>1, <1>h, <1>k, <1>p, EntryStays
      <3> QED BY <3>1, <3>2, <3>3 DEF InputInv, PathInv, EntryInv, ChosenInv
    <2> QED BY <2>1, <2>2
  <1>6. CASE JoinInitramfs
    <2>1. CASE Abandon(temps)
      BY <2>1, InputAbandon
    <2>2. CASE ~Abandon(temps)
      <3>1. /\ pc = "initramfs" /\ pc' = "bootargs"
            /\ Cardinality(temps) = Len(entry.initramfs)
            /\ IF temps = {} THEN data' = data
               ELSE data' = [data EXCEPT !.initramfs = Addr("initramfs")]
            /\ UNCHANGED <<sit, cur, reg, hand>>
        BY <1>6, <2>2 DEF JoinInitramfs, KeepBoot, FilesToFree
      <3>2. entry' = entry /\ entry.kernel # None /\ ~hand /\ cur # None
        BY <3>1, <1>h, <1>k, <1>p, EntryStays
      <3>3. temps # {} <=> Len(entry.initramfs) # 0
        <4>1. IsFiniteSet(temps)
          BY <3>1 DEF InputInv, EntryInv
        <4> QED BY <3>1, <4>1, FS_EmptySet
      <3>4. entry.initramfs \in Seq(Range(entry.initramfs))
        BY <1>t, <3>2, SituationAssumption DEF Types, entry, cf
      <3>5. Len(entry.initramfs) # 0 <=> entry.initramfs # <<>>
        BY <3>4
      <3>6. Addr("initramfs") # None
        BY <1>t, AddrIs, NoneIsNoAddress DEF Uses
      <3>7. data'.initramfs # None <=> temps # {}
        BY <1>t, <3>1, <3>6 DEF Types, InputInv, EntryInv
      <3> QED BY <3>1, <3>2, <3>3, <3>5, <3>7
          DEF InputInv, PathInv, EntryInv, ChosenInv
    <2> QED BY <2>1, <2>2
  <1>7. CASE LoadBootargs
    <2>1. CASE Abandon({})
      BY <2>1, InputAbandon
    <2>2. CASE ~Abandon({})
      <3>1. /\ pc = "bootargs" /\ pc' = "devicetree"
            /\ data' = [data EXCEPT !.bootargs = PrepareBootargs(entry)]
            /\ UNCHANGED <<sit, cur, reg, hand>>
        BY <1>7, <2>2 DEF LoadBootargs, KeepBoot
      <3>2. /\ entry' = entry /\ entry.kernel # None /\ ~hand /\ cur # None
            /\ PrepareBootargs(entry)' = PrepareBootargs(entry)
        BY <3>1, <1>h, <1>k, <1>p, EntryStays
      <3>3. /\ data'.bootargs = PrepareBootargs(entry)
            /\ data'.initramfs = data.initramfs
        BY <1>t, <3>1 DEF Types
      <3> QED BY <3>1, <3>2, <3>3 DEF InputInv, PathInv, EntryInv, ChosenInv
    <2> QED BY <2>1, <2>2
  <1>8. CASE LoadDevicetree
    <2>1. CASE Abandon({})
      BY <2>1, InputAbandon
    <2>2. CASE ~Abandon({})
      <3>1. /\ pc = "devicetree" /\ pc' = "overlays"
            /\ \/ data' = data
               \/ data' = [data EXCEPT !.fdt = Tree(Addr("dtb"), <<Root, entry.devicetree>>)]
            /\ UNCHANGED <<sit, attempt, cur, reg, hand>>
        BY <1>8, <2>2 DEF LoadDevicetree, KeepBoot
      <3>2. /\ data'.bootargs = data.bootargs
            /\ data'.initramfs = data.initramfs
        BY <1>t, <3>1 DEF Types
      <3>3. cur # None /\ entry.kernel # None
        BY <3>1, <1>k, <1>p
      <3> QED BY <3>1, <3>2, <3>3, InputMoves
    <2> QED BY <2>1, <2>2
  <1>9. CASE LoadDtoverlay
    <2>1. pc = "overlays" /\ ~hand /\ cur # None /\ entry.kernel # None /\ temps = {}
      BY <1>9, <1>h, <1>k, <1>p DEF LoadDtoverlay, MemInv, Temporaries
    <2>2. PICK oom, p, t, r :
            IF Continue(r.ok) THEN GoesOn(p, r) ELSE GivesUp(p, r)
      BY <1>9, LoadDtoverlayIs, Zenon
    <2>3. CASE GivesUp(p, r)
      BY <2>1, <2>3, InputIdle DEF GivesUp
    <2>4. CASE GoesOn(p, r)
      <3>1. /\ UNCHANGED <<sit, attempt, cur, reg, hand>> /\ temps' = {}
            /\ pc' = BootPath(entry, Loaders(p, r))
            /\ data' = data \/ data' = [data EXCEPT !.fdt = r.tree]
        BY <2>1, <2>4 DEF GoesOn, KeepBoot
      <3>2. /\ data'.bootargs = data.bootargs
            /\ data'.initramfs = data.initramfs
        BY <1>t, <3>1 DEF Types
      <3>3. \/ pc' \in {"install", "prepare"}
            \/ pc' = "image64" /\ entry.type = "linux"
        BY <3>1 DEF BootPath
      <3> QED BY <2>1, <3>1, <3>2, <3>3, InputMoves
    <2> QED BY <2>2, <2>3, <2>4
  <1>10. CASE PrepareTree
    <2>1. /\ pc = "prepare" /\ pc' \in {"installPrepared", "unprepared"}
          /\ UNCHANGED <<sit, attempt, cur, data, reg, hand>>
      BY <1>10, PrepareTreeIs DEF PrepareTree, KeepBoot
    <2>2. CASE cur = None
      BY <2>1, <2>2, <1>h, InputIdle
    <2>3. CASE cur # None
      BY <2>1, <2>3, <1>h, <1>p, InputMoves
    <2> QED BY <2>2, <2>3
  <1>11. CASE Unprepared
    <2>1. CASE Abandon({})
      BY <2>1, InputAbandon
    <2>2. CASE ~Abandon({})
      <3>1. /\ pc = "unprepared"
            /\ pc' = IF cur = None THEN "returned" ELSE "register"
            /\ UNCHANGED <<sit, attempt, cur, data, reg, hand>>
        BY <1>11, <2>2 DEF Unprepared, KeepBoot
      <3>2. CASE cur = None
        BY <3>1, <3>2, <1>h, InputIdle
      <3>3. CASE cur # None
        BY <3>1, <3>3, <1>h, <1>p, InputMoves
      <3> QED BY <3>2, <3>3
    <2> QED BY <2>1, <2>2
  <1>12. CASE InstallFdt
    <2>1. /\ pc \in {"install", "installPrepared"} /\ ~hand /\ temps = {}
          /\ UNCHANGED <<sit, attempt, cur, data, reg, hand, temps>>
          /\ \/ pc' \in {"clean", "unprepared"} /\ (pc' = "clean" => pc = "install")
             \/ pc' = IF cur = None THEN "returned"
                      ELSE IF entry.type = "linux" THEN "image64" ELSE "register"
      BY <1>12, <1>h DEF InstallFdt, MemInv, Temporaries
    <2>2. CASE cur = None
      BY <2>1, <2>2, <1>k, InputIdle
    <2>3. CASE cur # None
      <3>1. entry.kernel # None
        BY <2>1, <2>3, <1>p
      <3> QED BY <2>1, <2>3, <3>1, InputMoves
    <2> QED BY <2>2, <2>3
  <1>13. CASE Register
    <2>1. /\ pc = "register" /\ ~hand /\ cur # None /\ entry.kernel # None
          /\ UNCHANGED <<sit, attempt, cur, data>>
      BY <1>13, <1>h, <1>k, <1>p DEF Register
    <2>2. CASE UNCHANGED <<reg, hand>>
      <3>1. pc' = "clean" \/ (pc' = "image" /\ data.initramfs = None)
        BY <1>13, <2>1, <2>2 DEF Register, AfterFailedRegister
      <3> QED BY <2>1, <2>2, <3>1, InputMoves
    <2>3. CASE /\ hand' = TRUE /\ pc' = "image"
               /\ reg' = [addr |-> data.initramfs, loader |-> Addr("loader"),
                          files |-> entry.initramfs]
      <3>1. /\ entry' = entry
            /\ PrepareBootargs(entry)' = PrepareBootargs(entry)
        BY <2>1, EntryStays
      <3>2. reg'.files = entry.initramfs
        BY <2>3
      <3>3. PathInv' /\ ChosenInv'
        BY <2>3, <3>1 DEF PathInv, ChosenInv
      <3>4. EntryInv'
        BY <2>1, <2>3, <3>1, <3>2 DEF InputInv, EntryInv
      <3> QED BY <3>3, <3>4 DEF InputInv
    <2> QED BY <1>13, <2>2, <2>3 DEF Register
  <1>14. CASE LoadImage \/ ImageReturns \/ UnloadImage \/ OsTakesOver
    <2>1. /\ pc \in {"image", "start", "stop", "handoff"} /\ cur # None
          /\ UNCHANGED <<sit, attempt, cur, data, reg, hand>>
          /\ pc' \in {"start", "stop", "unregister", "os"}
          /\ pc' = "start" => pc = "image"
          /\ pc = "handoff" => pc' = "os"
      BY <1>14, <1>k DEF LoadImage, ImageReturns, UnloadImage, OsTakesOver,
                         KeepBoot
    <2>2. CASE pc # "handoff"
      <3>1. pc' \in {"image", "start"} /\ ~hand => data.initramfs = None
        BY <2>1 DEF InputInv, EntryInv
      <3> QED BY <2>1, <2>2, <3>1, InputMoves
    <2>3. CASE pc = "handoff"
      <3>1. /\ pc' = "os" /\ entry' = entry
            /\ PrepareBootargs(entry)' = PrepareBootargs(entry)
        BY <2>1, <2>3, EntryStays
      <3> QED BY <2>1, <2>3, <3>1 DEF InputInv, PathInv, EntryInv, ChosenInv
    <2> QED BY <2>2, <2>3
  <1>15. CASE Unregister
    <2>1. /\ pc = "unregister" /\ pc' = "clean" /\ cur # None
          /\ UNCHANGED <<sit, cur>> /\ ~hand'
          /\ data' = data \/ data' = [data EXCEPT !.initramfs = None]
      BY <1>15, <1>k DEF Unregister, InitramfsKept
    <2>2. /\ entry' = entry
          /\ PrepareBootargs(entry)' = PrepareBootargs(entry)
      BY <2>1, EntryStays
    <2>3. data'.bootargs = data.bootargs
      BY <1>t, <2>1 DEF Types
    <2> QED BY <2>1, <2>2, <2>3 DEF InputInv, PathInv, EntryInv, ChosenInv
  <1>16. CASE Clean \/ HandoffFails
    BY <1>16, InputAbandon DEF Clean, HandoffFails
  <1>17. CASE PrepareImage
    <2>1. CASE Abandon(temps)
      BY <2>1, InputAbandon
    <2>2. CASE ~Abandon(temps)
      <3>1. PICK i \in DOMAIN Buffers64 :
              /\ temps = {Addr(Buffers64[j]) : j \in 1..(i - 1)}
              /\ temps' = temps \cup {Addr(Buffers64[i])}
              /\ pc' = IF i = Len(Buffers64) THEN "handoff" ELSE pc
              /\ chosen' = IF Buffers64[i] # "tree64" THEN chosen
                           ELSE FillInitrd(FillBootargs(ChosenOf(SourceTree),
                                                        data.bootargs),
                                           data.initramfs)
              /\ UNCHANGED <<sit, attempt, cur, data, reg, hand>>
        BY <1>17, <2>2 DEF PrepareImage
      <3>2. /\ pc = "image64" /\ pc' \in {"image64", "handoff"}
            /\ cur # None /\ ~hand /\ entry.kernel # None
        BY <1>17, <1>h, <1>k, <1>p, <3>1 DEF PrepareImage
      <3>3. /\ entry' = entry /\ Addr("tree64")' = Addr("tree64")
            /\ PrepareBootargs(entry)' = PrepareBootargs(entry)
        BY <3>1, EntryStays DEF Addr
      <3>4. PathInv'
        BY <3>2, <3>3, <3>1 DEF InputInv, PathInv
      <3>5. EntryInv'
        BY <3>1, <3>2, <3>3 DEF InputInv, EntryInv
      <3>6. i \in 1..3 /\ Len(Buffers64) = 3
            /\ Buffers64[1] = "kernel64" /\ Buffers64[2] = "tree64"
            /\ Buffers64[3] = "memory64"
        BY DEF Buffers64
      <3>7. CASE i = 2
        <4>1. /\ chosen'.bootargs = data.bootargs
              /\ chosen'.initrd = data.initramfs
          BY <3>1, <3>6, <3>7 DEF FillInitrd, FillBootargs, ChosenOf
        <4>2. pc' = "image64"
          BY <3>1, <3>2, <3>6, <3>7
        <4> QED BY <3>1, <3>4, <3>5, <4>1, <4>2 DEF InputInv, ChosenInv
      <3>8. CASE i # 2
        <4>1. chosen' = chosen
          BY <3>1, <3>6, <3>8
        <4>2. Addr(Buffers64[i]) # Addr("tree64")
          BY <3>6, <3>8 DEF Addr
        <4>3. i = 3 => Addr("tree64") \in temps
          BY <3>1, <3>6
        <4>4. pc' = "handoff" => i = 3
          BY <3>1, <3>2, <3>6
        <4>5. ChosenInv'
          BY <3>1, <3>2, <3>3, <4>1, <4>2, <4>3, <4>4 DEF InputInv, ChosenInv
        <4> QED BY <3>4, <3>5, <4>5 DEF InputInv
      <3> QED BY <3>7, <3>8
    <2> QED BY <2>1, <2>2
  <1>18. CASE Handoff
    <2>1. UNCHANGED <<sit, attempt, pc, cur, data, temps, reg, hand, chosen>>
      BY <1>18 DEF Handoff
    <2>2. /\ entry' = entry /\ Addr("tree64")' = Addr("tree64")
          /\ PrepareBootargs(entry)' = PrepareBootargs(entry)
      BY <2>1, EntryStays DEF Addr
    <2>3. PathInv' /\ ChosenInv'
      BY <2>1, <2>2 DEF InputInv, PathInv, ChosenInv
    <2>4. EntryInv'
      BY <2>1, <2>2 DEF InputInv, EntryInv
    <2> QED BY <2>3, <2>4 DEF InputInv
  <1> QED
    BY <1>1, <1>2, <1>3, <1>4, <1>5, <1>6, <1>7, <1>8, <1>9, <1>10, <1>11,
       <1>12, <1>13, <1>14, <1>15, <1>16, <1>17, <1>18 DEF Next

\* linux_prepare_bootargs puts the lists in the order of their priority.
LEMMA ArgsInOrder ==
    ASSUME Types, cur # None, data.bootargs = PrepareBootargs(entry), Starting
    PROVE  BootargsPriority
  <1> DEFINE n == Len(cf.profiles)
             Of(i) == cf.bootargs[cf.profiles[i]]
             ps == Reverse(cf.profiles)
             seqs == [i \in DOMAIN ps |-> cf.bootargs[ps[i]]]
             T == UNION {Range(Of(i)) : i \in 1..n}
             fl == FlattenSeq(seqs)
             menu == cf.menuBootargs
             own == entry.bootargs
             all == data.bootargs
  <1>1. /\ cf.profiles \in Seq(Range(cf.profiles))
        /\ menu \in Seq(Range(menu)) /\ own \in Seq(Range(own))
        /\ \A i \in DOMAIN cf.profiles : Of(i) \in Seq(Range(Of(i)))
    BY SituationAssumption DEF Types, entry, cf
  <1>2. n \in Nat /\ DOMAIN cf.profiles = 1..n
    BY <1>1
  <1>3. ASSUME NEW i \in 1..n
        PROVE  /\ Len(Of(i)) \in Nat /\ DOMAIN Of(i) = 1..Len(Of(i))
               /\ Of(i) \in Seq(T)
    <2>1. Of(i) \in Seq(Range(Of(i)))
      BY <1>1, <1>2
    <2> DEFINE a == Of(i)
    <2>2. \A m \in 1..Len(a) : a[m] \in T
      <3>1. a \in Seq(Range(a)) /\ Range(a) \subseteq T
        BY <2>1
      <3> HIDE DEF T, a
      <3> QED BY <3>1
    <2>3. a \in Seq(Range(a))
      BY <2>1
    <2> HIDE DEF T, a
    <2>4. Len(a) \in Nat /\ DOMAIN a = 1..Len(a) /\ a \in Seq(T)
      BY <2>2, <2>3
    <2> QED BY <2>4 DEF a
  <1>4. /\ DOMAIN ps = 1..n
        /\ \A i \in 1..n : ps[i] = cf.profiles[n - i + 1] /\ n - i + 1 \in 1..n
    BY <1>2 DEF Reverse
  <1> HIDE DEF n, ps, T
  <1>5. \A i \in 1..n : n - i + 1 \in 1..n /\ seqs[i] = Of(n - i + 1)
    BY <1>4
  <1> HIDE DEF Of
  <1>6. Len(seqs) = n /\ seqs \in Seq(Seq(T))
    <2>1. \A i \in 1..n : seqs[i] \in Seq(T)
      BY <1>3, <1>5
    <2>2. seqs = [i \in 1..n |-> seqs[i]]
      BY <1>4
    <2> HIDE DEF seqs
    <2> QED BY <1>2, <2>1, <2>2
  <1> HIDE DEF seqs
  <1>7. PICK at \in [1..n -> Nat] :
          \A k \in 1..n :
             /\ at[k] + Len(seqs[k]) <= Len(fl)
             /\ \A m \in 1..Len(seqs[k]) : fl[at[k] + m] = seqs[k][m]
             /\ \A j \in 1..n : j < k => at[j] + Len(seqs[j]) <= at[k]
    BY <1>6, FlattenBlocks, SMTT(20)
  <1>8. fl \in Seq(T)
    BY <1>6, FlattenIsSeq
  <1>9. all = fl \o menu \o own
    BY DEF PrepareBootargs, seqs, ps
  <1> HIDE DEF fl, menu, own, all
  <1>10. /\ Len(fl) \in Nat /\ Len(menu) \in Nat /\ Len(own) \in Nat
         /\ Len(all) = Len(fl) + Len(menu) + Len(own)
         /\ \A m \in 1..Len(fl) : all[m] = fl[m]
         /\ \A m \in DOMAIN menu : all[Len(fl) + m] = menu[m]
         /\ \A m \in DOMAIN own : all[Len(fl) + Len(menu) + m] = own[m]
    <2> DEFINE U == T \cup Range(menu) \cup Range(own)
    <2>1. fl \in Seq(U) /\ menu \in Seq(U) /\ own \in Seq(U)
      BY <1>1, <1>8
    <2> HIDE DEF U
    <2>2. /\ Len(fl \o menu) = Len(fl) + Len(menu) /\ (fl \o menu) \in Seq(U)
          /\ \A m \in 1..Len(fl) : (fl \o menu)[m] = fl[m]
          /\ \A m \in DOMAIN menu : (fl \o menu)[Len(fl) + m] = menu[m]
      BY <2>1
    <2> DEFINE fm == fl \o menu
    <2>3. all = fm \o own
      BY <1>9
    <2>4. /\ fm \in Seq(U) /\ Len(fm) = Len(fl) + Len(menu)
          /\ \A m \in 1..Len(fl) : fm[m] = fl[m]
          /\ \A m \in DOMAIN menu : fm[Len(fl) + m] = menu[m]
      BY <2>2
    <2> HIDE DEF fm
    <2>5. /\ Len(all) = Len(fm) + Len(own)
          /\ \A m \in 1..Len(fm) : all[m] = fm[m]
          /\ \A m \in DOMAIN own : all[Len(fm) + m] = own[m]
      <3>1. fm \in Seq(U) /\ own \in Seq(U)
        BY <2>1, <2>4
      <3>2. /\ Len(fm \o own) = Len(fm) + Len(own)
            /\ \A m \in 1..Len(fm) : (fm \o own)[m] = fm[m]
            /\ \A m \in DOMAIN own : (fm \o own)[Len(fm) + m] = own[m]
        BY <3>1
      <3> QED BY <2>3, <3>2, Zenon
    <2>6. /\ Len(fl) \in Nat /\ Len(menu) \in Nat /\ Len(own) \in Nat
          /\ DOMAIN menu = 1..Len(menu)
      BY <2>1
    <2>7. \A m \in 1..Len(fl) : m \in 1..Len(fm)
      BY <2>4, <2>6
    <2>8. \A m \in DOMAIN menu : Len(fl) + m \in 1..Len(fm)
      BY <2>4, <2>6
    <2>9. \A m \in 1..Len(fl) : all[m] = fl[m]
      BY <2>4, <2>5, <2>7, Zenon
    <2>10. \A m \in DOMAIN menu : all[Len(fl) + m] = menu[m]
      BY <2>4, <2>5, <2>8, Zenon
    <2> QED BY <2>4, <2>5, <2>6, <2>9, <2>10
  <1> DEFINE end == Len(all) - Len(own)
             mid == end - Len(menu)
  <1>11. /\ end = Len(fl) + Len(menu) /\ mid = Len(fl)
         /\ end + Len(own) <= Len(all) /\ mid + Len(menu) <= Len(all)
    BY <1>10
  <1>12. StandAfter(own, end)
    BY <1>10, <1>11 DEF StandAfter, all
  <1>13. StandAfter(menu, mid)
    BY <1>10, <1>11 DEF StandAfter, all
  <1> DEFINE to == [i \in 1..n |-> at[n - i + 1]]
  <1>14. ASSUME NEW i \in 1..n
         PROVE  /\ n - i + 1 \in 1..n /\ to[i] = at[n - i + 1]
                /\ seqs[n - i + 1] = Of(i) /\ to[i] \in Nat
                /\ Len(Of(i)) \in Nat /\ DOMAIN Of(i) = 1..Len(Of(i))
    <2>1. n - i + 1 \in 1..n /\ n - (n - i + 1) + 1 = i
      BY <1>2
    <2>2. seqs[n - i + 1] = Of(n - (n - i + 1) + 1)
      BY <1>5, <2>1
    <2>3. seqs[n - i + 1] = Of(i)
      BY <2>1, <2>2
    <2>4. to[i] = at[n - i + 1]
      OBVIOUS
    <2>5. at[n - i + 1] \in Nat
      BY <1>3, <2>1
    <2>6. Len(Of(i)) \in Nat /\ DOMAIN Of(i) = 1..Len(Of(i))
      BY <1>3
    <2> QED BY <2>1, <2>3, <2>4, <2>5, <2>6
  <1>15. ASSUME NEW i \in 1..n
         PROVE  /\ to[i] + Len(Of(i)) <= Len(fl)
                /\ \A m \in DOMAIN Of(i) : fl[to[i] + m] = Of(i)[m]
                /\ \A j \in 1..n : i < j => to[j] + Len(Of(j)) <= to[i]
    <2>1. /\ to[i] + Len(Of(i)) <= Len(fl)
          /\ \A m \in DOMAIN Of(i) : fl[to[i] + m] = Of(i)[m]
      <3>1. PICK k \in 1..n : k = n - i + 1
        BY <1>14
      <3>2. to[i] = at[k] /\ seqs[k] = Of(i) /\ DOMAIN Of(i) = 1..Len(Of(i))
        BY <1>14, <3>1
      <3>3. /\ at[k] + Len(seqs[k]) <= Len(fl)
            /\ \A m \in 1..Len(seqs[k]) : fl[at[k] + m] = seqs[k][m]
        BY <1>7
      <3> QED BY <3>2, <3>3
    <2>2. ASSUME NEW j \in 1..n, i < j PROVE to[j] + Len(Of(j)) <= to[i]
      <3>1. n - j + 1 \in 1..n /\ n - i + 1 \in 1..n /\ n - j + 1 < n - i + 1
        BY <1>2, <2>2
      <3>2. at[n - j + 1] + Len(seqs[n - j + 1]) <= at[n - i + 1]
        BY <1>7, <3>1
      <3> QED BY <1>14, <3>2
    <2> QED BY <2>1, <2>2
  <1> HIDE DEF to
  <1>16. to \in [1..n -> 0..Len(all)]
    <2>1. \A i \in 1..n : to[i] \in 0..Len(all)
      BY <1>10, <1>14, <1>15, SMTT(20)
    <2> QED BY <2>1 DEF to
  <1>17. ASSUME NEW i \in 1..n
         PROVE  StandAfter(Of(i), to[i]) /\ to[i] + Len(Of(i)) <= mid
    <2>1. to[i] + Len(Of(i)) <= Len(all) /\ to[i] + Len(Of(i)) <= mid
      BY <1>10, <1>11, <1>14, <1>15, SMTT(20)
    <2>2. ASSUME NEW m \in DOMAIN Of(i) PROVE all[to[i] + m] = Of(i)[m]
      <3>1. to[i] + m \in 1..Len(fl)
        <4>1. m \in 1..Len(Of(i)) /\ to[i] \in Nat /\ Len(Of(i)) \in Nat
          BY <1>14
        <4>2. to[i] + Len(Of(i)) <= Len(fl) /\ Len(fl) \in Nat
          BY <1>10, <1>15
        <4>3. \A x, y, z \in Nat : \A k \in 1..y : x + y <= z => x + k \in 1..z
          OBVIOUS
        <4> QED BY <4>1, <4>2, <4>3, Zenon
      <3> QED BY <1>10, <1>15, <3>1, Zenon
    <2> QED BY <2>1, <2>2 DEF StandAfter, all
  <1>18. \E f \in [DOMAIN cf.profiles -> 0..Len(all)] :
           \A i \in DOMAIN cf.profiles :
             /\ StandAfter(Of(i), f[i])
             /\ f[i] + Len(Of(i)) <= mid
             /\ \A j \in DOMAIN cf.profiles : i < j => f[j] + Len(Of(j)) <= f[i]
    <2> HIDE DEF mid, end
    <2> QED BY <1>2, <1>15, <1>16, <1>17, Zenon
  <1> QED BY <1>12, <1>13, <1>18, Zenon DEF BootargsPriority, Of, all, own, menu

\* With the owners of the memory it gives the property.
LEMMA InputImplies == ASSUME MemInv, InputInv PROVE OwnInput
  <1>t. Types
    BY DEF MemInv
  <1>1. OwnInitramfs
    <2> SUFFICES ASSUME Starting, entry.type # "linux", reg # None
                 PROVE  \/ reg.files = entry.initramfs /\ reg.addr = data.initramfs
                        \/ entry.initramfs = <<>> /\ reg.addr \in leaked
      BY DEF OwnInitramfs
    <2>1. pc = "start" /\ entry.kernel # None /\ cur # None
      BY DEF Starting, InputInv, PathInv, MemInv, Phases
    <2>2. CASE hand
      BY <2>2 DEF InputInv, EntryInv, MemInv, Registration
    <2>3. CASE ~hand
      BY <2>1, <2>3 DEF InputInv, EntryInv, MemInv, Registration
    <2> QED BY <2>2, <2>3
  <1>2. OwnChosen
    <2> SUFFICES ASSUME pc = "handoff"
                 PROVE  /\ chosen.bootargs = PrepareBootargs(entry)
                        /\ chosen.initrd = data.initramfs
                        /\ data.initramfs # None <=> entry.initramfs # <<>>
      BY DEF OwnChosen
    <2>1. cur # None /\ entry.kernel # None
      BY DEF InputInv, PathInv, MemInv, Phases
    <2> QED BY <2>1 DEF InputInv, EntryInv, ChosenInv
  <1>3. BootargsPriority
    <2> SUFFICES ASSUME Starting PROVE BootargsPriority
      BY DEF BootargsPriority
    <2>1. cur # None /\ data.bootargs = PrepareBootargs(entry)
      BY DEF Starting, InputInv, EntryInv, MemInv, Phases
    <2> QED BY <1>t, <2>1, ArgsInOrder
  <1> QED BY <1>1, <1>2, <1>3 DEF OwnInput

\* The initramfs that the protocol hands out, the command line of
\* linux_prepare_bootargs with its lists in the order of their priority, and
\* /chosen of a raw Image are those of the entry that is started.
THEOREM InputIsOwn == Spec => []OwnInput
<1>1. Init => MemInv /\ InputInv
  BY MemInit DEF Init, InputInv, PathInv, EntryInv, ChosenInv
<1>2. MemInv /\ InputInv /\ [Next]_vars => (MemInv /\ InputInv)'
  BY MemStep, InputStep
<1>3. MemInv /\ InputInv => OwnInput
  BY InputImplies
<1> QED
  BY <1>1, <1>2, <1>3, PTL DEF Spec

\* The overlay ov is what o adds to a tree: it comes from a file that
\* do_load_dtbo_dirs tries and that takes all the parameters.
Gives(disk, dirs, o, ov) ==
    \E f \in DOMAIN disk :
       /\ ov = Applied(disk, o, f)
       /\ \E i \in DOMAIN OverlayFiles(o, dirs) : OverlayFiles(o, dirs)[i] = f
       /\ WriteOverrides(disk[f], o.params)

\* Of the first n overlays that are wanted, ovs has some, and nothing else.
Covered(disk, dirs, want, n, ovs) ==
    /\ Len(ovs) <= n
    /\ \A j \in DOMAIN ovs : \E i \in 1..n : Gives(disk, dirs, want[i], ovs[j])

\* It has all of them.
Complete(disk, dirs, want, n, ovs) ==
    \A i \in 1..n : \E j \in DOMAIN ovs : Gives(disk, dirs, want[i], ovs[j])

\* The order in which the directories are searched does not matter for that.
LEMMA PickedGives ==
    ASSUME NEW disk, NEW o, NEW all, IsSeqn(all), NEW dirs,
           dirs = all \/ dirs = Reverse(all),
           PickOverlay(disk, o, dirs) # None
    PROVE  Gives(disk, all, o, Applied(disk, o, PickOverlay(disk, o, dirs)))
  <1> DEFINE fs == OverlayFiles(o, dirs)
             gs == OverlayFiles(o, all)
             ok == {i \in DOMAIN fs : /\ fs[i] \in DOMAIN disk
                                      /\ disk[fs[i]].applies
                                      /\ WriteOverrides(disk[fs[i]], o.params)}
             i0 == CHOOSE i \in ok : \A j \in ok : i <= j
  <1>0. IsSeqn(dirs)
    BY ReverseIsSeqn
  <1>1. PickOverlay(disk, o, dirs) = IF ok = {} THEN None ELSE fs[i0]
    BY Zenon DEF PickOverlay
  <1>2. ok # {}
    BY <1>1
  <1>3. DOMAIN fs \subseteq Nat
    BY <1>0, SeqnShape DEF OverlayFiles
  <1>4. ASSUME NEW i \in DOMAIN fs
        PROVE  \E j \in DOMAIN gs : gs[j] = fs[i]
    <2>1. CASE dirs = all \/ o.absolute
      BY <2>1 DEF OverlayFiles
    <2>2. CASE dirs = Reverse(all) /\ ~o.absolute
      <3>1. /\ Len(all) \in Nat /\ DOMAIN all = 1..Len(all)
            /\ DOMAIN dirs = 1..Len(all)
            /\ \A k \in 1..Len(all) : dirs[k] = all[Len(all) - k + 1]
        <4>1. Len(all) \in Nat /\ DOMAIN all = 1..Len(all)
          BY SeqnShape
        <4> QED BY <2>2, <4>1 DEF Reverse
      <3>2. i \in 1..Len(all) /\ fs[i] = dirs[i] \o o.path
        BY <2>2, <3>1 DEF OverlayFiles
      <3>3. Len(all) - i + 1 \in 1..Len(all)
        BY <3>1, <3>2
      <3>4. DOMAIN gs = 1..Len(all)
            /\ gs[Len(all) - i + 1] = all[Len(all) - i + 1] \o o.path
        BY <2>2, <3>1, <3>3 DEF OverlayFiles
      <3> HIDE DEF fs, gs
      <3>5. gs[Len(all) - i + 1] = fs[i]
        BY <3>1, <3>2, <3>4
      <3> QED BY <3>3, <3>4, <3>5
    <2> QED BY <2>1, <2>2
  <1> HIDE DEF fs, gs
  <1>5. ok \in SUBSET Nat
    BY <1>3
  <1>6. i0 \in ok
    <2> HIDE DEF ok
    <2>1. \E i \in ok : \A j \in ok : i <= j
      BY <1>2, <1>5, LeastMember
    <2> QED BY <2>1
  <1> DEFINE f == fs[i0]
  <1>7. /\ f \in DOMAIN disk /\ WriteOverrides(disk[f], o.params)
        /\ \E j \in DOMAIN gs : gs[j] = f
    BY <1>4, <1>6
  <1>8. PickOverlay(disk, o, dirs) = f
    BY <1>1, <1>2
  <1> HIDE DEF f, ok, i0
  <1> QED BY <1>7, <1>8 DEF Gives, gs

\* One more overlay is wanted, and passed over.
LEMMA CoverSkip ==
    ASSUME NEW disk, NEW dirs, NEW want, NEW n \in Nat, NEW O, NEW ovs \in Seq(O),
           Covered(disk, dirs, want, n, ovs), NEW m \in Nat, n <= m
    PROVE  Covered(disk, dirs, want, m, ovs)
  BY DEF Covered

\* Or it is applied.
LEMMA CoverAdd ==
    ASSUME NEW disk, NEW dirs, NEW want, NEW n \in Nat, NEW O, NEW ovs \in Seq(O),
           NEW x \in O, Gives(disk, dirs, want[n + 1], x)
    PROVE  /\ Covered(disk, dirs, want, n, ovs) =>
                Covered(disk, dirs, want, n + 1, Append(ovs, x))
           /\ Complete(disk, dirs, want, n, ovs) =>
                Complete(disk, dirs, want, n + 1, Append(ovs, x))
  <1> DEFINE a == Append(ovs, x)
  <1>1. /\ Len(ovs) \in Nat /\ DOMAIN ovs = 1..Len(ovs)
        /\ Len(a) = Len(ovs) + 1 /\ DOMAIN a = 1..(Len(ovs) + 1)
        /\ \A j \in 1..Len(ovs) : a[j] = ovs[j]
        /\ a[Len(ovs) + 1] = x
    OBVIOUS
  <1> HIDE DEF a
  <1>2. ASSUME Covered(disk, dirs, want, n, ovs)
        PROVE  Covered(disk, dirs, want, n + 1, a)
    <2>1. Len(a) <= n + 1
      BY <1>1, <1>2 DEF Covered
    <2>2. ASSUME NEW j \in DOMAIN a
          PROVE  \E i \in 1..(n + 1) : Gives(disk, dirs, want[i], a[j])
      <3>1. CASE j = Len(ovs) + 1
        <4>1. n + 1 \in 1..(n + 1) /\ a[j] = x
          BY <1>1, <3>1
        <4> QED BY <4>1, Zenon
      <3>2. CASE j # Len(ovs) + 1
        <4>1. j \in DOMAIN ovs /\ a[j] = ovs[j]
          BY <1>1, <3>2
        <4>2. PICK i \in 1..n : Gives(disk, dirs, want[i], ovs[j])
          BY <1>2, <4>1 DEF Covered
        <4>3. i \in 1..(n + 1)
          BY <4>2
        <4> QED BY <4>1, <4>2, <4>3, Zenon
      <3> QED BY <3>1, <3>2
    <2> QED BY <2>1, <2>2 DEF Covered
  <1>3. ASSUME Complete(disk, dirs, want, n, ovs)
        PROVE  Complete(disk, dirs, want, n + 1, a)
    <2>1. ASSUME NEW i \in 1..(n + 1)
          PROVE  \E j \in DOMAIN a : Gives(disk, dirs, want[i], a[j])
      <3>1. CASE i = n + 1
        <4>1. Len(ovs) + 1 \in DOMAIN a
          BY <1>1
        <4> QED BY <1>1, <3>1, <4>1, Zenon
      <3>2. CASE i # n + 1
        <4>1. i \in 1..n
          BY <3>2
        <4>2. PICK j \in DOMAIN ovs : Gives(disk, dirs, want[i], ovs[j])
          BY <1>3, <4>1 DEF Complete
        <4>3. j \in DOMAIN a /\ a[j] = ovs[j]
          BY <1>1, <4>2
        <4> QED BY <4>2, <4>3, Zenon
      <3> QED BY <3>1, <3>2
    <2> QED BY <2>1 DEF Complete
  <1> QED BY <1>2, <1>3 DEF a

\* Both are about the overlays that are wanted up to n.
LEMMA CoverSame ==
    ASSUME NEW disk, NEW dirs, NEW want, NEW other, NEW n \in Nat, NEW ovs,
           \A i \in 1..n : want[i] = other[i]
    PROVE  /\ Covered(disk, dirs, want, n, ovs) => Covered(disk, dirs, other, n, ovs)
           /\ Complete(disk, dirs, want, n, ovs) => Complete(disk, dirs, other, n, ovs)
  BY DEF Covered, Complete

\* One overlay that cannot be applied decides about all of them.
Strict(c) == OnError(c) \in {"failure", "revert"}

\* The loop of linux_load_dtbos has seen the first n overlays that are active.
LoopKeeps(c, disk, dirs, want, r) ==
    /\ Covered(disk, dirs, want, Len(want), r.ovs)
    /\ r.count = -1 => Strict(c)
    /\ r.count # -1 => r.count = Len(r.ovs)
    /\ r.count # -1 /\ Strict(c) => Complete(disk, dirs, want, Len(want), r.ovs)

\* One more overlay that is active.
LEMMA LoopStep ==
    ASSUME NEW c, NEW disk, NEW all, IsSeqn(all), NEW dirs,
           dirs = all \/ dirs = Reverse(all), NEW A, NEW want \in Seq(A), NEW o \in A,
           NEW O, \A f \in DOMAIN disk : Applied(disk, o, f) \in O,
           NEW r \in Loaded(O), LoopKeeps(c, disk, all, want, r)
    PROVE  LoopKeeps(c, disk, all, want \o <<o>>,
                     LoadConfigured(disk, dirs, OnError(c), r, o))
  <1> DEFINE file == PickOverlay(disk, o, dirs)
             x == Applied(disk, o, file)
             w == want \o <<o>>
             n == Len(want)
             q == LoadConfigured(disk, dirs, OnError(c), r, o)
  <1> SUFFICES LoopKeeps(c, disk, all, w, q)
    OBVIOUS
  <1>1. /\ n \in Nat /\ Len(w) = n + 1 /\ w[n + 1] = o
        /\ \A i \in 1..n : want[i] = w[i]
    OBVIOUS
  <1>2. r.ovs \in Seq(O) /\ r.count \in Int
    BY DEF Loaded
  <1>3. q = IF r.count = -1 THEN r
            ELSE IF file # None
            THEN [ovs |-> Append(r.ovs, x), count |-> r.count + 1]
            ELSE IF OnError(c) \in {"failure", "revert"}
            THEN [ovs |-> r.ovs, count |-> -1]
            ELSE r
    BY Zenon DEF LoadConfigured
  <1>4. file # None => Gives(disk, all, o, x)
    BY PickedGives
  <1>5. file # None => x \in O
    <2>1. IsSeqn(dirs)
      BY ReverseIsSeqn
    <2> QED BY <2>1, PickedIsThere
  <1> HIDE DEF file, x, w, n, q
  <1>6. /\ Covered(disk, all, w, n, r.ovs)
        /\ r.count # -1 /\ Strict(c) => Complete(disk, all, w, n, r.ovs)
    BY <1>1, CoverSame DEF LoopKeeps, n
  <1>7. Covered(disk, all, w, n + 1, r.ovs)
    <2>1. n + 1 \in Nat /\ n <= n + 1
      BY <1>1
    <2> QED BY <1>1, <1>2, <1>6, <2>1, CoverSkip
  <1>8. CASE r.count = -1
    BY <1>1, <1>3, <1>7, <1>8 DEF LoopKeeps
  <1>9. CASE r.count # -1 /\ file # None
    <2>1. q.ovs = Append(r.ovs, x) /\ q.count = r.count + 1
      BY <1>3, <1>9
    <2>2. x \in O /\ Gives(disk, all, w[n + 1], x)
      BY <1>1, <1>4, <1>5, <1>9
    <2>3. /\ Covered(disk, all, w, n + 1, q.ovs)
          /\ Strict(c) => Complete(disk, all, w, n + 1, q.ovs)
      BY <1>1, <1>2, <1>6, <1>9, <2>1, <2>2, CoverAdd
    <2>4. Len(q.ovs) = Len(r.ovs) + 1 /\ Len(r.ovs) \in Nat
      BY <1>2, <2>1, <2>2
    <2>5. r.count = Len(r.ovs)
      BY <1>9 DEF LoopKeeps
    <2>6. q.count = Len(q.ovs) /\ q.count # -1
      BY <2>1, <2>4, <2>5
    <2> QED BY <1>1, <2>3, <2>6 DEF LoopKeeps
  <1>10. CASE r.count # -1 /\ file = None /\ Strict(c)
    <2>1. q.ovs = r.ovs /\ q.count = -1
      BY <1>3, <1>10 DEF Strict
    <2> QED BY <1>1, <1>7, <1>10, <2>1 DEF LoopKeeps
  <1>11. CASE r.count # -1 /\ file = None /\ ~Strict(c)
    <2>1. q = r
      BY <1>3, <1>11 DEF Strict
    <2> QED BY <1>1, <1>7, <1>11, <2>1 DEF LoopKeeps
  <1> QED BY <1>8, <1>9, <1>10, <1>11

\* What linux_load_dtbos promises of a tree that had no overlays.
ConfiguredKeeps(c, disk, dirs, want, l) ==
    /\ Covered(disk, dirs, want, Len(want), l.ovs)
    /\ l.count = -1 => Strict(c) \/ (OnError(c) = "needone" /\ l.ovs = <<>>)
    /\ l.count # -1 => l.count = Len(l.ovs)
    /\ l.count # -1 /\ Strict(c) => Complete(disk, dirs, want, Len(want), l.ovs)
    /\ l.count # -1 /\ OnError(c) = "needone" => l.ovs # <<>> \/ want = <<>>

\* linux_load_dtbos on a tree without overlays.
LEMMA ConfiguredPolicy ==
    ASSUME NEW c, IsSeqn(c.profiles), NEW disk, NEW loader, NEW k, NEW A, NEW O,
           c.overlays \in Seq(A),
           \A i \in 1..Len(c.overlays) : \A f \in DOMAIN disk :
              Applied(disk, c.overlays[i], f) \in O
    PROVE  /\ ConfiguredOverlays(c) \in Seq(A)
           /\ LoadDtbos(c, disk, loader, k, <<>>) \in Loaded(O)
           /\ ConfiguredKeeps(c, disk, ResolvePath(c, loader, k, c.dtboDir),
                              ConfiguredOverlays(c),
                              LoadDtbos(c, disk, loader, k, <<>>))
  <1> DEFINE all == ResolvePath(c, loader, k, c.dtboDir)
             dirs == Reverse(all)
             n == Len(c.overlays)
             r == ConfiguredLoop(c, disk, dirs, <<>>)
             isEmpty == \A j \in DOMAIN c.overlays : ~IsActive(c, c.overlays[j])
             Block(j) == IF IsActive(c, c.overlays[j]) THEN <<c.overlays[j]>> ELSE <<>>
             blocks == [j \in DOMAIN c.overlays |-> Block(j)]
             l == LoadDtbos(c, disk, loader, k, <<>>)
             want == ConfiguredOverlays(c)
  <1>1. IsSeqn(all) /\ IsSeqn(dirs)
    BY ResolvePathIsSeqn, ReverseIsSeqn
  <1>2. n \in Nat /\ DOMAIN c.overlays = 1..n /\ <<>> \in Seq(O) /\ <<>> \in Seq(A)
        /\ \A j \in 1..n : c.overlays[j] \in A
    OBVIOUS
  <1>3. /\ \A j \in 0..n : r[j] \in Loaded(O)
        /\ r[0] = [ovs |-> <<>>, count |-> 0]
        /\ \A j \in 1..n :
             r[j] = IF ~IsActive(c, c.overlays[j]) THEN r[j - 1]
                    ELSE LoadConfigured(disk, dirs, OnError(c), r[j - 1],
                                        c.overlays[j])
    <2> DEFINE e == <<>>
    <2>1. e \in Seq(O)
      BY <1>2
    <2> HIDE DEF dirs, e
    <2>2. ConfiguredRuns(ConfiguredLoop(c, disk, dirs, e), c, disk, dirs, O, e)
      BY <1>1, <1>2, <2>1, ConfiguredSteps
    <2>3. ConfiguredRuns(r, c, disk, dirs, O, <<>>)
      BY <2>2 DEF e
    <2> QED BY <2>3, Zenon DEF ConfiguredRuns
  <1>4. blocks \in Seq(Seq(A)) /\ Len(blocks) = n
        /\ \A j \in 1..n : blocks[j] = Block(j)
    <2>1. \A j \in 1..n : Block(j) \in Seq(A)
      BY <1>2
    <2> HIDE DEF Block
    <2> QED BY <1>2, <2>1
  <1>5. want = FlattenSeq(blocks)
    BY DEF ConfiguredOverlays
  <1> HIDE DEF blocks, want, r, n, dirs
  <1>6. PICK h : IsFlattening(h, A, blocks) /\ want = h[n]
    BY <1>4, <1>5, FlattenSteps
  <1>7. /\ h \in [0..n -> Seq(A)] /\ h[0] = <<>>
        /\ \A j \in 1..n : h[j] = h[j - 1] \o Block(j)
    BY <1>4, <1>6 DEF IsFlattening
  <1> HIDE DEF Block
  <1> DEFINE Quiet(j) == \A i \in 1..j : ~IsActive(c, c.overlays[i])
             S == {j \in 0..n : /\ LoopKeeps(c, disk, all, h[j], r[j])
                                /\ Quiet(j) => h[j] = <<>>}
  <1>8. 0 \in S
    <2>1. LoopKeeps(c, disk, all, h[0], r[0])
      <3> DEFINE e == <<>>
      <3>1. h[0] = e /\ r[0].ovs = e /\ r[0].count = 0
        BY <1>3, <1>7
      <3>2. Len(e) = 0 /\ DOMAIN e = {}
        OBVIOUS
      <3> HIDE DEF e
      <3> QED BY <3>1, <3>2 DEF LoopKeeps, Covered, Complete
    <2> QED BY <1>2, <1>7, <2>1
  <1>9. ASSUME NEW j \in 0..(n - 1), j \in S PROVE j + 1 \in S
    <2>1. /\ j + 1 \in 1..n /\ (j + 1) - 1 = j /\ j + 1 \in 0..n /\ j \in 0..n
          /\ j \in Nat
      BY <1>2
    <2>2. r[j] \in Loaded(O) /\ h[j] \in Seq(A)
      BY <1>3, <1>7, <2>1
    <2>3. /\ r[j + 1] = IF ~IsActive(c, c.overlays[j + 1]) THEN r[j]
                        ELSE LoadConfigured(disk, dirs, OnError(c), r[j],
                                            c.overlays[j + 1])
          /\ h[j + 1] = h[j] \o Block(j + 1)
      BY <1>3, <1>7, <2>1
    <2>4. CASE IsActive(c, c.overlays[j + 1])
      <3> DEFINE o == c.overlays[j + 1]
      <3>1. /\ r[j + 1] = LoadConfigured(disk, dirs, OnError(c), r[j], o)
            /\ h[j + 1] = h[j] \o <<o>>
        BY <2>3, <2>4 DEF Block
      <3>2. o \in A /\ \A f \in DOMAIN disk : Applied(disk, o, f) \in O
        BY <1>2, <2>1 DEF n
      <3>3. LoopKeeps(c, disk, all, h[j], r[j])
        BY <1>9
      <3> HIDE DEF o, all
      <3>4. LoopKeeps(c, disk, all, h[j + 1], r[j + 1])
        BY <1>1, <2>2, <3>1, <3>2, <3>3, LoopStep DEF dirs
      <3>5. ~Quiet(j + 1)
        <4>1. j + 1 \in 1..(j + 1)
          BY <2>1
        <4> QED BY <2>4, <4>1
      <3> HIDE DEF Quiet
      <3> QED BY <2>1, <3>4, <3>5
    <2>5. CASE ~IsActive(c, c.overlays[j + 1])
      <3>1. r[j + 1] = r[j] /\ Block(j + 1) = <<>>
        BY <2>3, <2>5 DEF Block
      <3>2. \A s \in Seq(A) : s \o <<>> = s
        OBVIOUS
      <3>3. h[j + 1] = h[j]
        BY <2>2, <2>3, <3>1, <3>2, Zenon
      <3>4. Quiet(j + 1) => Quiet(j)
        BY <2>1
      <3> HIDE DEF Quiet
      <3> QED BY <1>9, <2>1, <3>1, <3>3, <3>4
    <2> QED BY <2>4, <2>5
  <1>10. n \in S
    <2>1. n \in Nat /\ n \in 0..n
      BY <1>2
    <2> HIDE DEF S
    <2> QED BY <1>8, <1>9, <2>1, SetInduction
  <1>11. LoopKeeps(c, disk, all, want, r[n]) /\ (isEmpty => want = <<>>)
    BY <1>2, <1>6, <1>10
  <1>12. l = IF ~isEmpty /\ r[n].count = 0 /\ OnError(c) = "needone"
             THEN [ovs |-> r[n].ovs, count |-> -1] ELSE r[n]
    BY Zenon DEF LoadDtbos, r, n, dirs
  <1>13. want \in Seq(A)
    BY <1>2, <1>6, <1>7
  <1>14. r[n] \in Loaded(O)
    BY <1>2, <1>3
  <1> HIDE DEF all, l, isEmpty, S
  <1>15. r[n].ovs \in Seq(O) /\ r[n].count \in Int /\ Len(r[n].ovs) \in Nat
         /\ (Len(r[n].ovs) = 0 => r[n].ovs = <<>>)
    BY <1>14 DEF Loaded
  <1>16. CASE ~isEmpty /\ r[n].count = 0 /\ OnError(c) = "needone"
    <2>1. l.ovs = r[n].ovs /\ l.count = -1
      BY <1>12, <1>16
    <2>2. l.ovs = <<>>
      BY <1>11, <1>15, <1>16, <2>1 DEF LoopKeeps
    <2>3. l \in Loaded(O)
      BY <1>12, <1>15, <1>16 DEF Loaded
    <2>4. ConfiguredKeeps(c, disk, all, want, l)
      BY <1>11, <1>16, <2>1, <2>2 DEF LoopKeeps, ConfiguredKeeps
    <2> QED BY <1>13, <2>3, <2>4 DEF all, want, l
  <1>17. CASE ~(~isEmpty /\ r[n].count = 0 /\ OnError(c) = "needone")
    <2>1. l = r[n]
      BY <1>12, <1>17
    <2>2. ASSUME l.count # -1, OnError(c) = "needone", l.ovs = <<>>
          PROVE  want = <<>>
      <3>1. r[n].count = Len(<<>>)
        BY <1>11, <2>1, <2>2 DEF LoopKeeps
      <3>2. r[n].count = 0
        BY <3>1
      <3> QED BY <1>11, <1>17, <2>2, <3>2
    <2>3. ConfiguredKeeps(c, disk, all, want, l)
      BY <1>11, <2>1, <2>2 DEF LoopKeeps, ConfiguredKeeps
    <2> QED BY <1>13, <1>14, <2>1, <2>3 DEF all, want, l
  <1> QED BY <1>16, <1>17

\* The loop over the overlays of the entry has seen the first n that are wanted.
OwnKeeps(c, disk, dirs, want, n, r) ==
    /\ Covered(disk, dirs, want, n, r.ovs)
    /\ r.applied = Len(r.ovs) /\ r.failed >= 0
    /\ r.stop => Strict(c)
    /\ r.stop /\ OnError(c) = "failure" => ~r.ok
    /\ r.stop /\ OnError(c) = "revert" => r.ovs = <<>>
    /\ ~r.stop /\ Strict(c) => Complete(disk, dirs, want, n, r.ovs)
    /\ OnError(c) = "needone" => r.failed > 0 \/ r.ovs # <<>> \/ n = 0

\* The fields that LoadOwn sets in q.
OwnFields(disk, dirs, onError, before, r, o, q) ==
    LET file == PickOverlay(disk, o, dirs)
    IN  /\ r.stop => q = r
        /\ ~r.stop /\ file # None =>
             /\ q.ovs = Append(r.ovs, Applied(disk, o, file))
             /\ q.applied = r.applied + 1 /\ q.failed = r.failed
             /\ q.stop = r.stop
        /\ ~r.stop /\ file = None /\ onError = "failure" =>
             /\ q.ovs = r.ovs /\ q.applied = r.applied
             /\ q.failed = r.failed /\ q.stop = TRUE /\ q.ok = FALSE
        /\ ~r.stop /\ file = None /\ onError = "revert" =>
             /\ q.ovs = before /\ q.applied = 0 /\ q.failed = 0
             /\ q.stop = TRUE
        /\ ~r.stop /\ file = None /\ onError \notin {"failure", "revert"} =>
             /\ q.ovs = r.ovs /\ q.applied = r.applied
             /\ q.failed = r.failed + 1 /\ q.stop = r.stop

\* LoadOwn, field by field.
LEMMA LoadOwnFields ==
    ASSUME NEW disk, NEW dirs, NEW onError, NEW O, NEW before, NEW o,
           NEW r \in OwnLoaded(O)
    PROVE  OwnFields(disk, dirs, onError, before, r, o,
                     LoadOwn(disk, dirs, onError, before, r, o))
  <1> DEFINE file == PickOverlay(disk, o, dirs)
             a == Append(r.ovs, Applied(disk, o, file))
             q == LoadOwn(disk, dirs, onError, before, r, o)
  <1>1. q = IF r.stop THEN r
            ELSE IF file # None
            THEN [r EXCEPT !.ovs = a, !.applied = r.applied + 1]
            ELSE IF onError = "failure"
            THEN [r EXCEPT !.stop = TRUE, !.ok = FALSE]
            ELSE IF onError = "revert"
            THEN [r EXCEPT !.stop = TRUE, !.ovs = before,
                           !.applied = 0, !.failed = 0]
            ELSE [r EXCEPT !.failed = r.failed + 1]
    BY DEF LoadOwn, RevertTo
  <1>2. r \in [{"ovs", "stop", "ok", "applied", "failed"} -> {r[x] : x \in DOMAIN r}]
    BY DEF OwnLoaded
  <1> HIDE DEF file, a, q
  <1>3. r.stop => q = r
    BY <1>1
  <1>4. ASSUME ~r.stop, file # None
        PROVE  /\ q.ovs = a /\ q.applied = r.applied + 1 /\ q.failed = r.failed
               /\ q.stop = r.stop
    <2>1. q = [r EXCEPT !.ovs = a, !.applied = r.applied + 1]
      BY <1>1, <1>4
    <2> QED BY <2>1 DEF OwnLoaded
  <1>5. ASSUME ~r.stop, file = None, onError = "failure"
        PROVE  /\ q.ovs = r.ovs /\ q.applied = r.applied
               /\ q.failed = r.failed /\ q.stop = TRUE /\ q.ok = FALSE
    <2>1. q = [r EXCEPT !.stop = TRUE, !.ok = FALSE]
      BY <1>1, <1>5
    <2> QED BY <2>1 DEF OwnLoaded
  <1>6. ASSUME ~r.stop, file = None, onError = "revert"
        PROVE  /\ q.ovs = before /\ q.applied = 0 /\ q.failed = 0
               /\ q.stop = TRUE
    <2>1. q = [r EXCEPT !.stop = TRUE, !.ovs = before, !.applied = 0, !.failed = 0]
      BY <1>1, <1>6
    <2> QED BY <2>1 DEF OwnLoaded
  <1>7. ASSUME ~r.stop, file = None, onError \notin {"failure", "revert"}
        PROVE  /\ q.ovs = r.ovs /\ q.applied = r.applied
               /\ q.failed = r.failed + 1 /\ q.stop = r.stop
    <2>1. q = [r EXCEPT !.failed = r.failed + 1]
      BY <1>1, <1>7
    <2> QED BY <2>1 DEF OwnLoaded
  <1> QED BY <1>3, <1>4, <1>5, <1>6, <1>7, Zenon DEF file, a, q, OwnFields

\* One more overlay of the entry.
LEMMA OwnStep ==
    ASSUME NEW c, NEW disk, NEW all, IsSeqn(all), NEW want, NEW n \in Nat, NEW O,
           \A f \in DOMAIN disk : Applied(disk, want[n + 1], f) \in O,
           NEW r \in OwnLoaded(O), OwnKeeps(c, disk, all, want, n, r)
    PROVE  OwnKeeps(c, disk, all, want, n + 1,
                    LoadOwn(disk, all, OnError(c), <<>>, r, want[n + 1]))
  <1> DEFINE o == want[n + 1]
             e == <<>>
             q == LoadOwn(disk, all, OnError(c), e, r, o)
             file == PickOverlay(disk, o, all)
             x == Applied(disk, o, file)
  <1> SUFFICES OwnKeeps(c, disk, all, want, n + 1, q)
    OBVIOUS
  <1>e. Len(e) = 0 /\ DOMAIN e = {}
    OBVIOUS
  <1>1. /\ r.stop => q = r
        /\ ~r.stop /\ file # None =>
             /\ q.ovs = Append(r.ovs, x)
             /\ q.applied = r.applied + 1 /\ q.failed = r.failed
             /\ q.stop = r.stop
        /\ ~r.stop /\ file = None /\ OnError(c) = "failure" =>
             /\ q.ovs = r.ovs /\ q.applied = r.applied
             /\ q.failed = r.failed /\ q.stop = TRUE /\ q.ok = FALSE
        /\ ~r.stop /\ file = None /\ OnError(c) = "revert" =>
             /\ q.ovs = e /\ q.applied = 0 /\ q.failed = 0
             /\ q.stop = TRUE
        /\ ~r.stop /\ file = None /\ OnError(c) \notin {"failure", "revert"} =>
             /\ q.ovs = r.ovs /\ q.applied = r.applied
             /\ q.failed = r.failed + 1 /\ q.stop = r.stop
    <2>1. OwnFields(disk, all, OnError(c), e, r, o, q)
      <3> HIDE DEF e, o
      <3> QED BY LoadOwnFields
    <2> HIDE DEF e, o, q
    <2> QED BY <2>1, Zenon DEF OwnFields
  <1>2. r.ovs \in Seq(O) /\ r.applied \in Int /\ r.failed \in Int
    BY DEF OwnLoaded
  <1>3. file # None => Gives(disk, all, o, x)
    BY PickedGives
  <1>4. file # None => x \in O
    BY PickedIsThere
  <1>o. OwnKeeps(c, disk, all, want, n, r)
    OBVIOUS
  <1>5. n + 1 \in Nat /\ n <= n + 1 /\ n + 1 # 0
    OBVIOUS
  <1>6. Covered(disk, all, want, n + 1, r.ovs)
    BY <1>2, <1>5, <1>o, CoverSkip DEF OwnKeeps
  <1>7. CASE r.stop
    <2>1. q = r /\ Strict(c)
      BY <1>1, <1>7, <1>o DEF OwnKeeps
    <2> QED BY <1>6, <1>7, <1>o, <2>1 DEF OwnKeeps, Strict
  <1>8. CASE ~r.stop /\ file # None
    <2>1. /\ q.ovs = Append(r.ovs, x) /\ q.applied = r.applied + 1
          /\ q.failed = r.failed /\ ~q.stop
      BY <1>1, <1>8
    <2>2. x \in O /\ Gives(disk, all, want[n + 1], x)
      BY <1>3, <1>4, <1>8
    <2> HIDE DEF q, x, file, o, e
    <2>3. /\ Covered(disk, all, want, n + 1, q.ovs)
          /\ Strict(c) => Complete(disk, all, want, n + 1, q.ovs)
      BY <1>2, <1>8, <1>o, <2>1, <2>2, CoverAdd DEF OwnKeeps
    <2>4. Len(q.ovs) = Len(r.ovs) + 1 /\ Len(r.ovs) \in Nat
      BY <1>2, <2>1, <2>2
    <2>5. q.ovs # <<>>
      BY <2>4
    <2>6. q.applied = Len(q.ovs) /\ q.failed >= 0
      BY <1>o, <2>1, <2>4 DEF OwnKeeps
    <2> QED BY <2>1, <2>3, <2>5, <2>6, Zenon DEF OwnKeeps
  <1>9. CASE ~r.stop /\ file = None /\ OnError(c) = "failure"
    <2>1. /\ q.ovs = r.ovs /\ q.applied = r.applied
          /\ q.failed = r.failed /\ q.stop = TRUE /\ q.ok = FALSE
      BY <1>1, <1>9
    <2> HIDE DEF q, x, file, o, e
    <2> QED BY <1>6, <1>9, <1>o, <2>1 DEF OwnKeeps, Strict
  <1>10. CASE ~r.stop /\ file = None /\ OnError(c) = "revert"
    <2>1. /\ q.ovs = e /\ q.applied = 0 /\ q.failed = 0 /\ q.stop = TRUE
      BY <1>1, <1>10
    <2>2. 0 >= 0 /\ 0 <= n + 1
      OBVIOUS
    <2> HIDE DEF q, x, file, o
    <2>3. Covered(disk, all, want, n + 1, e)
      <3> HIDE DEF e
      <3> QED BY <1>e, <2>2 DEF Covered
    <2> QED BY <1>10, <1>e, <2>1, <2>2, <2>3 DEF OwnKeeps, Strict
  <1>11. CASE ~r.stop /\ file = None /\ ~Strict(c)
    <2>1. /\ q.ovs = r.ovs /\ q.applied = r.applied
          /\ q.failed = r.failed + 1 /\ ~q.stop
      BY <1>1, <1>11 DEF Strict
    <2> HIDE DEF q, x, file, o, e
    <2>2. r.failed + 1 > 0 /\ r.failed + 1 >= 0
      BY <1>2, <1>o DEF OwnKeeps
    <2>3. q.applied = Len(q.ovs)
      BY <1>o, <2>1 DEF OwnKeeps
    <2>4. Covered(disk, all, want, n + 1, q.ovs)
      BY <1>6, <2>1
    <2> QED BY <1>11, <2>1, <2>2, <2>3, <2>4, Zenon DEF OwnKeeps
  <1> QED BY <1>7, <1>8, <1>9, <1>10, <1>11 DEF Strict

\* What the error policy promises of the overlays of a tree that was read now.
PolicyOf(ovs) ==
    /\ Covered(Disk, Directories, Wanted, Len(Wanted), ovs)
    /\ OnError(cf) = "failure" /\ ~cf.skipOverlaysError =>
         Complete(Disk, Directories, Wanted, Len(Wanted), ovs)
    /\ OnError(cf) = "needone" /\ ~cf.skipOverlaysError /\ Wanted # <<>> =>
         ovs # <<>>
    /\ OnError(cf) = "revert" =>
         ovs = <<>> \/ Complete(Disk, Directories, Wanted, Len(Wanted), ovs)

\* The overlays of the machine and of the entry.
LEMMA MachineLists ==
    ASSUME Types
    PROVE  /\ cf.overlays \in Seq(AskedFor(cf))
           /\ cur # None => entry.overlays \in Seq(AskedFor(cf))
  <1>1. /\ cf.overlays \in Seq(Range(cf.overlays))
        /\ \A e \in DOMAIN cf.entries :
             cf.entries[e].overlays \in Seq(Range(cf.entries[e].overlays))
    BY SituationAssumption DEF Types, cf
  <1>2. Range(cf.overlays) \subseteq AskedFor(cf)
    BY DEF AskedFor
  <1>3. \A e \in DOMAIN cf.entries :
          Range(cf.entries[e].overlays) \subseteq AskedFor(cf)
    BY DEF AskedFor
  <1>4. \A S, T : S \subseteq T => Seq(S) \subseteq Seq(T)
    OBVIOUS
  <1>5. cf.overlays \in Seq(AskedFor(cf))
    BY <1>1, <1>2, <1>4, Zenon
  <1>6. ASSUME cur # None PROVE entry.overlays \in Seq(AskedFor(cf))
    <2>1. cur \in DOMAIN cf.entries /\ entry = cf.entries[cur]
      BY <1>6 DEF Types, entry
    <2> DEFINE os == cf.entries[cur].overlays
    <2>2. os \in Seq(Range(os)) /\ Range(os) \subseteq AskedFor(cf)
      BY <1>1, <1>3, <2>1
    <2>3. entry.overlays = os
      BY <2>1
    <2> HIDE DEF os
    <2> QED BY <1>4, <2>2, <2>3, Zenon
  <1> QED BY <1>5, <1>6

\* The loop over the overlays of the entry, after those of the configuration.
LEMMA OwnPolicy ==
    ASSUME NEW c, NEW disk, NEW all, IsSeqn(all), NEW A, NEW conf \in Seq(A),
           NEW todo \in Seq(A), NEW O,
           \A i \in 1..Len(todo) : \A f \in DOMAIN disk :
              Applied(disk, todo[i], f) \in O,
           NEW start \in OwnLoaded(O),
           OwnKeeps(c, disk, all, conf \o todo, Len(conf), start)
    PROVE  LET r == OwnLoop(c, disk, all, <<>>, start, todo)[Len(todo)]
           IN  /\ r \in OwnLoaded(O)
               /\ OwnKeeps(c, disk, all, conf \o todo, Len(conf \o todo), r)
  <1> DEFINE e == <<>>
             want == conf \o todo
             m == Len(conf)
             n == Len(todo)
             g == OwnLoop(c, disk, all, e, start, todo)
  <1>1. /\ m \in Nat /\ n \in Nat /\ Len(want) = m + n /\ e \in Seq(O)
        /\ \A k \in 1..n : want[m + k] = todo[k]
    OBVIOUS
  <1>2. OwnRuns(g, c, disk, all, O, e, start, todo)
    <2> HIDE DEF e
    <2> QED BY <1>1, OwnSteps
  <1>3. OwnKeeps(c, disk, all, want, m, start)
    OBVIOUS
  <1> HIDE DEF e, g, want
  <1>4. /\ \A k \in 0..n : g[k] \in OwnLoaded(O)
        /\ g[0] = start
        /\ \A k \in 1..n :
             g[k] = LoadOwn(disk, all, OnError(c), e, g[k - 1], todo[k])
    BY <1>2, Zenon DEF OwnRuns
  <1> DEFINE S == {k \in 0..n : OwnKeeps(c, disk, all, want, m + k, g[k])}
  <1>5. 0 \in S
    <2>1. m + 0 = m /\ 0 \in 0..n
      BY <1>1
    <2> HIDE DEF m, n
    <2> QED BY <1>3, <1>4, <2>1
  <1>6. ASSUME NEW k \in 0..(n - 1), k \in S PROVE k + 1 \in S
    <2>1. /\ k + 1 \in 1..n /\ (k + 1) - 1 = k /\ k + 1 \in 0..n /\ k \in 0..n
          /\ m + k \in Nat /\ m + (k + 1) = (m + k) + 1
      BY <1>1
    <2>2. g[k + 1] = LoadOwn(disk, all, OnError(c), e, g[k], todo[k + 1])
      BY <1>4, <2>1
    <2>3. want[(m + k) + 1] = todo[k + 1]
      BY <1>1, <2>1
    <2>4. \A f \in DOMAIN disk : Applied(disk, want[(m + k) + 1], f) \in O
      BY <2>1, <2>3
    <2>5. g[k] \in OwnLoaded(O) /\ OwnKeeps(c, disk, all, want, m + k, g[k])
      BY <1>4, <1>6, <2>1
    <2> DEFINE N == m + k
    <2>6. OwnKeeps(c, disk, all, want, N + 1,
                   LoadOwn(disk, all, OnError(c), e, g[k], want[N + 1]))
      <3>1. /\ N \in Nat /\ OwnKeeps(c, disk, all, want, N, g[k])
            /\ \A f \in DOMAIN disk : Applied(disk, want[N + 1], f) \in O
        BY <2>1, <2>4, <2>5
      <3> HIDE DEF N
      <3> QED BY <2>5, <3>1, OwnStep DEF e
    <2>7. OwnKeeps(c, disk, all, want, m + (k + 1), g[k + 1])
      BY <2>1, <2>2, <2>3, <2>6, Zenon
    <2> QED BY <2>1, <2>7
  <1>7. n \in S
    <2>1. n \in Nat /\ n \in 0..n
      BY <1>1
    <2> HIDE DEF S, n
    <2> QED BY <1>5, <1>6, <2>1, SetInduction
  <1>8. g[n] \in OwnLoaded(O) /\ OwnKeeps(c, disk, all, want, Len(want), g[n])
    BY <1>1, <1>4, <1>7
  <1> QED BY <1>8, Zenon DEF g, want, e, n

\* linux_load_dtoverlay on a tree without overlays, unless it fails.
LEMMA AppliedPolicy ==
    ASSUME Types, cur # None,
           Continue(ApplyOverlays(cf, Disk, entry, ktype, <<>>).ok)
    PROVE  PolicyOf(ApplyOverlays(cf, Disk, entry, ktype, <<>>).ovs)
  <1> DEFINE e == <<>>
             O == OverlaysOf(cf)
             A == AskedFor(cf)
             l == LoadDtbos(cf, Disk, entry, ktype, e)
             dirs == ResolvePath(cf, entry, ktype, cf.dtboDir)
             conf == ConfiguredOverlays(cf)
             todo == entry.overlays
             start == [ovs |-> l.ovs, stop |-> FALSE, ok |-> TRUE,
                       applied |-> IF l.count > 0 THEN l.count ELSE 0,
                       failed |-> IF l.count = -1 THEN 1 ELSE 0]
             r == OwnLoop(cf, Disk, dirs, e, start, todo)[Len(todo)]
             a == ApplyOverlays(cf, Disk, entry, ktype, e)
  <1>1. /\ cf.overlays \in Seq(A) /\ todo \in Seq(A) /\ IsSeqn(cf.profiles)
        /\ \A i \in 1..Len(cf.overlays) : \A f \in DOMAIN Disk :
             Applied(Disk, cf.overlays[i], f) \in O
        /\ \A i \in 1..Len(todo) : \A f \in DOMAIN Disk :
             Applied(Disk, todo[i], f) \in O
    BY Machine, MachineLists
  <1>2. IsSeqn(dirs)
    BY <1>1, ResolvePathIsSeqn
  <1>3. /\ conf \in Seq(A) /\ l \in Loaded(O)
        /\ ConfiguredKeeps(cf, Disk, dirs, conf, l)
    <2> HIDE DEF O, A
    <2> QED BY <1>1, ConfiguredPolicy
  <1>4. a = IF l.count = -1 /\ OnError(cf) = "failure"
            THEN [ovs |-> l.ovs, ok |-> FALSE]
            ELSE IF l.count = -1 /\ OnError(cf) = "revert"
            THEN [ovs |-> e, ok |-> TRUE]
            ELSE [ovs |-> r.ovs,
                  ok |-> r.ok /\ ~(/\ OnError(cf) = "needone"
                                   /\ r.applied = 0 /\ r.failed > 0)]
    BY Zenon DEF ApplyOverlays
  <1>5. Wanted = conf \o todo /\ Directories = dirs
    BY DEF Wanted, Directories
  <1>e. Len(e) = 0 /\ DOMAIN e = {}
    OBVIOUS
  <1> SUFFICES PolicyOf(a.ovs)
    OBVIOUS
  <1>c. a.ok \/ cf.skipOverlaysError
    BY DEF Continue
  <1> DEFINE w == conf \o todo
  <1>6. /\ Len(conf) \in Nat /\ Len(w) \in Nat /\ Len(conf) <= Len(w)
        /\ \A i \in 1..Len(conf) : conf[i] = w[i]
        /\ (Len(w) = 0 => w = <<>>)
    BY <1>1, <1>3
  <1>w. Wanted = w
    BY <1>5
  <1> HIDE DEF O, A, l, dirs, conf, w, a
  <1>7. l.ovs \in Seq(O) /\ l.count \in Int /\ Len(l.ovs) \in Nat
    BY <1>3 DEF Loaded
  <1>8. Covered(Disk, dirs, w, Len(conf), l.ovs)
    BY <1>3, <1>6, CoverSame DEF ConfiguredKeeps
  <1>9. CASE l.count = -1 /\ OnError(cf) = "failure"
    <2>1. a.ovs = l.ovs /\ a.ok = FALSE
      BY <1>4, <1>9
    <2>2. Covered(Disk, dirs, w, Len(w), a.ovs)
      BY <1>6, <1>7, <1>8, <2>1, CoverSkip
    <2> QED BY <1>5, <1>w, <1>9, <1>c, <2>1, <2>2 DEF PolicyOf
  <1>10. CASE l.count = -1 /\ OnError(cf) = "revert"
    <2>1. a.ovs = e
      BY <1>4, <1>10
    <2> HIDE DEF e
    <2>2. Covered(Disk, dirs, w, Len(w), e)
      BY <1>6, <1>e DEF Covered
    <2> QED BY <1>5, <1>w, <1>10, <2>1, <2>2 DEF PolicyOf, e
  <1>11. CASE ~(l.count = -1 /\ Strict(cf))
    <2>1. a.ovs = r.ovs
          /\ (a.ok => r.ok /\ ~(/\ OnError(cf) = "needone"
                                /\ r.applied = 0 /\ r.failed > 0))
      <3>1. a = [ovs |-> r.ovs,
                 ok |-> r.ok /\ ~(/\ OnError(cf) = "needone"
                                  /\ r.applied = 0 /\ r.failed > 0)]
        BY <1>4, <1>11 DEF Strict
      <3> HIDE DEF r
      <3> QED BY <3>1
    <2>2. start \in OwnLoaded(O)
      BY <1>7 DEF OwnLoaded
    <2>3. OwnKeeps(cf, Disk, dirs, w, Len(conf), start)
      <3>1. /\ start.ovs = l.ovs /\ start.stop = FALSE
            /\ start.applied = (IF l.count > 0 THEN l.count ELSE 0)
            /\ start.failed = (IF l.count = -1 THEN 1 ELSE 0)
        OBVIOUS
      <3> HIDE DEF start
      <3>2. start.applied = Len(l.ovs)
        <4>1. CASE l.count = -1
          <5>1. l.ovs = e
            BY <1>3, <1>11, <4>1 DEF ConfiguredKeeps
          <5> QED BY <1>e, <3>1, <4>1, <5>1
        <4>2. CASE l.count # -1
          <5>1. l.count = Len(l.ovs)
            BY <1>3, <4>2 DEF ConfiguredKeeps
          <5> QED BY <1>7, <3>1, <4>2, <5>1
        <4> QED BY <4>1, <4>2
      <3>3. start.failed >= 0 /\ (l.count = -1 => start.failed > 0)
        BY <3>1
      <3>4. ~start.stop /\ Strict(cf) =>
              Complete(Disk, dirs, w, Len(conf), start.ovs)
        <4>1. Strict(cf) => Complete(Disk, dirs, conf, Len(conf), l.ovs)
          BY <1>3, <1>11 DEF ConfiguredKeeps
        <4> QED BY <1>6, <3>1, <4>1, CoverSame
      <3>5. OnError(cf) = "needone" =>
              start.failed > 0 \/ start.ovs # <<>> \/ Len(conf) = 0
        <4>1. OnError(cf) = "needone" /\ l.count # -1 =>
                l.ovs # <<>> \/ conf = <<>>
          BY <1>3 DEF ConfiguredKeeps
        <4>2. conf = <<>> => Len(conf) = 0
          OBVIOUS
        <4> QED BY <3>1, <3>3, <4>1, <4>2, Zenon
      <3> QED BY <1>8, <3>1, <3>2, <3>3, <3>4, <3>5, Zenon DEF OwnKeeps
    <2>4. r \in OwnLoaded(O) /\ OwnKeeps(cf, Disk, dirs, w, Len(w), r)
      <3> HIDE DEF start
      <3> QED BY <1>1, <1>2, <1>3, <2>2, <2>3, OwnPolicy, Zenon DEF w
    <2> HIDE DEF r, start, todo
    <2>5. r.ovs \in Seq(O) /\ Len(r.ovs) \in Nat /\ r.failed \in Int
      BY <2>4 DEF OwnLoaded
    <2>6. Covered(Disk, dirs, w, Len(w), a.ovs)
      BY <2>1, <2>4 DEF OwnKeeps
    <2>7. OnError(cf) = "failure" /\ ~cf.skipOverlaysError =>
            Complete(Disk, dirs, w, Len(w), a.ovs)
      BY <1>c, <2>1, <2>4 DEF OwnKeeps, Strict
    <2>8. ASSUME OnError(cf) = "needone", ~cf.skipOverlaysError, w # <<>>
          PROVE  a.ovs # <<>>
      <3> SUFFICES ASSUME r.ovs = e PROVE FALSE
        BY <2>1
      <3>1. r.applied = 0 /\ Len(w) # 0
        BY <1>e, <1>6, <2>4, <2>8 DEF OwnKeeps
      <3>2. r.failed > 0
        BY <2>4, <2>8, <3>1 DEF OwnKeeps
      <3> QED BY <1>c, <2>1, <2>8, <3>1, <3>2
    <2>9. OnError(cf) = "revert" =>
            a.ovs = <<>> \/ Complete(Disk, dirs, w, Len(w), a.ovs)
      BY <2>1, <2>4 DEF OwnKeeps, Strict
    <2> QED BY <1>5, <1>w, <2>6, <2>7, <2>8, <2>9 DEF PolicyOf
  <1> QED BY <1>9, <1>10, <1>11 DEF Strict

\* The targets of every parameter of an overlay file are a list, and every one
\* of the targets of the given parameters is in the cells.
HasLists(file) ==
    \A p \in DOMAIN file.overrides :
       file.overrides[p] \in Seq(Range(file.overrides[p]))
Reached(file, params, cells) ==
    \A j \in DOMAIN params :
       LET ts == file.overrides[params[j].name]
       IN  /\ params[j].name \in DOMAIN file.overrides
           /\ \A t \in DOMAIN ts : \E w \in DOMAIN cells : cells[w].target = ts[t]

\* The parameters that an overlay took are all in its cells.
LEMMA CellsWritten ==
    ASSUME NEW file, NEW P, NEW params \in Seq(P), WriteOverrides(file, params),
           HasLists(file)
    PROVE  Reached(file, params, OverrideWrites(file, params))
  <1> DEFINE n == Len(params)
             Ts(i) == file.overrides[params[i].name]
             V(i) == ParseOverrideValue(params[i].value)
             Cell(i, k) == [target |-> Ts(i)[k], value |-> V(i)]
             Block(i) == [k \in DOMAIN Ts(i) |-> Cell(i, k)]
             blocks == [i \in DOMAIN params |-> Block(i)]
             T == {Cell(q[1], q[2]) : q \in (1..n) \X Nat}
             all == OverrideWrites(file, params)
  <1>0. \A p \in DOMAIN file.overrides :
          file.overrides[p] \in Seq(Range(file.overrides[p]))
    BY DEF HasLists
  <1>1. \A i \in DOMAIN params : ParameterApplies(file, params[i])
    BY DEF WriteOverrides
  <1>2. all = FlattenSeq(blocks)
    BY <1>1 DEF OverrideWrites
  <1>3. n \in Nat /\ DOMAIN params = 1..n
    OBVIOUS
  <1>4. ASSUME NEW i \in 1..n
        PROVE  /\ params[i].name \in DOMAIN file.overrides
               /\ Len(Ts(i)) \in Nat /\ DOMAIN Ts(i) = 1..Len(Ts(i))
    <2>1. params[i].name \in DOMAIN file.overrides
      BY <1>1, <1>3 DEF ParameterApplies
    <2>2. Ts(i) \in Seq(Range(Ts(i)))
      BY <1>0, <2>1
    <2> HIDE DEF Ts
    <2> QED BY <2>1, <2>2
  <1>5. ASSUME NEW i \in 1..n
        PROVE  /\ Block(i) \in Seq(T) /\ Len(Block(i)) = Len(Ts(i))
               /\ \A k \in DOMAIN Ts(i) : Block(i)[k] = Cell(i, k)
    <2> DEFINE m == Len(Ts(i))
    <2>1. m \in Nat /\ DOMAIN Ts(i) = 1..m
      BY <1>4
    <2>2. \A k \in 1..m : Cell(i, k) \in T
      <3> TAKE k \in 1..m
      <3>1. <<i, k>> \in (1..n) \X Nat
        BY <2>1
      <3>2. <<i, k>>[1] = i /\ <<i, k>>[2] = k
        OBVIOUS
      <3> HIDE DEF Cell
      <3> QED BY <3>1, <3>2
    <2> HIDE DEF T, Cell, Ts, m
    <2>3. Block(i) = [k \in 1..m |-> Cell(i, k)]
      BY <2>1
    <2>4. Block(i) \in Seq(T) /\ Len(Block(i)) = m
      <3> HIDE DEF Block
      <3> QED BY <2>1, <2>2, <2>3
    <2>5. \A k \in DOMAIN Ts(i) : Block(i)[k] = Cell(i, k)
      OBVIOUS
    <2> QED BY <2>4, <2>5 DEF m
  <1>6. /\ blocks \in Seq(Seq(T)) /\ Len(blocks) = n
        /\ \A i \in 1..n : blocks[i] = Block(i)
    <2> HIDE DEF Block, T
    <2> QED BY <1>3, <1>5
  <1> HIDE DEF blocks, T, Block, all, n
  <1>7. PICK at \in [1..n -> Nat] :
          \A k \in 1..n :
             /\ at[k] + Len(blocks[k]) <= Len(all)
             /\ \A m \in 1..Len(blocks[k]) : all[at[k] + m] = blocks[k][m]
    <2>1. \E at \in [1..Len(blocks) -> Nat] :
            \A k \in 1..Len(blocks) :
               /\ at[k] + Len(blocks[k]) <= Len(FlattenSeq(blocks))
               /\ \A m \in 1..Len(blocks[k]) :
                     FlattenSeq(blocks)[at[k] + m] = blocks[k][m]
               /\ \A i \in 1..Len(blocks) : i < k => at[i] + Len(blocks[i]) <= at[k]
      BY <1>6, FlattenBlocks
    <2> QED BY <1>2, <1>6, <2>1
  <1>8. all \in Seq(T)
    BY <1>2, <1>6, FlattenIsSeq
  <1> SUFFICES ASSUME NEW j \in DOMAIN params
               PROVE  /\ params[j].name \in DOMAIN file.overrides
                      /\ \A t \in DOMAIN Ts(j) : \E w \in DOMAIN all :
                           all[w].target = Ts(j)[t]
    BY Zenon DEF Reached, all
  <1> SUFFICES ASSUME NEW t \in DOMAIN Ts(j)
               PROVE  \E w \in DOMAIN all : all[w].target = Ts(j)[t]
    BY <1>3, <1>4
  <1>9. /\ j \in 1..n /\ t \in 1..Len(blocks[j]) /\ Len(blocks[j]) = Len(Ts(j))
        /\ blocks[j][t] = Cell(j, t)
    <2>1. j \in 1..n /\ t \in DOMAIN Ts(j)
      BY <1>3
    <2> HIDE DEF Ts, Cell
    <2> QED BY <1>4, <1>5, <1>6, <2>1
  <1> DEFINE w == at[j] + t
  <1>10. w \in DOMAIN all /\ all[w] = Cell(j, t)
    <2>1. Len(blocks[j]) \in Nat /\ at[j] \in Nat /\ t \in Nat /\ Len(all) \in Nat
          /\ at[j] + Len(blocks[j]) <= Len(all) /\ t <= Len(blocks[j]) /\ 1 <= t
      <3> HIDE DEF Ts, Cell
      <3> QED BY <1>4, <1>7, <1>8, <1>9
    <2>2. w \in 1..Len(all)
      BY <2>1
    <2> HIDE DEF Ts, Cell
    <2> QED BY <1>7, <1>8, <1>9, <2>2
  <1>11. all[w].target = Ts(j)[t]
    BY <1>10
  <1> QED BY <1>10, <1>11

\* Without an overlay to apply there is nothing to promise.
LEMMA NothingWanted ==
    ASSUME Types, cur # None, ~HasOverlays
    PROVE  Wanted = <<>> /\ ConfiguredOverlays(cf) = <<>>
  <1>1. entry.overlays = <<>> /\ cf.overlays = <<>>
    BY DEF HasOverlays
  <1> DEFINE b == [k \in DOMAIN cf.overlays |->
                     IF IsActive(cf, cf.overlays[k]) THEN <<cf.overlays[k]>>
                     ELSE <<>>]
             A == AskedFor(cf)
  <1>2. DOMAIN cf.overlays = 1..0
    BY <1>1
  <1>3. b \in Seq(Seq(A)) /\ Len(b) = 0
    BY <1>2
  <1>4. ConfiguredOverlays(cf) = FlattenSeq(b)
    BY DEF ConfiguredOverlays
  <1> HIDE DEF b, A
  <1>5. FlattenSeq(b) = <<>>
    BY <1>3, FlattenSteps DEF IsFlattening
  <1> QED BY <1>1, <1>4, <1>5 DEF Wanted

\* A tree without overlays keeps the policy when none is wanted, or all may be
\* taken back.
LEMMA NoOverlayPolicy ==
    ASSUME Types, cur # None, ~HasOverlays \/ OnError(cf) = "revert"
    PROVE  PolicyOf(<<>>)
  <1> DEFINE e == <<>>
  <1>1. Len(e) = 0 /\ DOMAIN e = {}
    OBVIOUS
  <1>2. Len(Wanted) \in Nat
    <2>1. ConfiguredOverlays(cf) \in Seq(AskedFor(cf))
      BY Machine, MachineLists, ConfiguredPolicy
    <2> QED BY <2>1, MachineLists DEF Wanted
  <1>3. Covered(Disk, Directories, Wanted, Len(Wanted), e)
    <2> HIDE DEF e
    <2> QED BY <1>1, <1>2 DEF Covered
  <1>4. CASE ~HasOverlays
    <2>1. Wanted = e /\ Len(Wanted) = 0
      BY <1>4, NothingWanted
    <2>2. Complete(Disk, Directories, Wanted, Len(Wanted), e)
      BY <2>1 DEF Complete
    <2> HIDE DEF e
    <2> QED BY <1>3, <2>1, <2>2 DEF PolicyOf, e
  <1>5. CASE OnError(cf) = "revert"
    BY <1>3, <1>5 DEF PolicyOf
  <1> QED BY <1>4, <1>5

\* One of the files that gave the tree its overlays is a file of this one.
IsApplied(o) == \E f \in AppliedFiles : AppliedAs(o, f)

\* What PolicyOf says of the tree that the kernel is given.
LEMMA PolicyImplies ==
    ASSUME Types, cur # None, GivenTree.ovs \in Seq(OverlaysOf(cf)),
           PolicyOf(GivenTree.ovs)
    PROVE  OverlayPolicy
  <1> DEFINE ovs == GivenTree.ovs
             n == Len(Wanted)
  <1>1. Wanted \in Seq(AskedFor(cf)) /\ n \in Nat /\ DOMAIN Wanted = 1..n
    <2>1. ConfiguredOverlays(cf) \in Seq(AskedFor(cf))
      BY Machine, MachineLists, ConfiguredPolicy
    <2>2. Wanted \in Seq(AskedFor(cf))
      BY <2>1, MachineLists DEF Wanted
    <2> QED BY <2>2
  <1>2. ASSUME NEW o, NEW ov, Gives(Disk, Directories, o, ov)
        PROVE  /\ ov.file \in DOMAIN Disk /\ AppliedAs(o, ov.file)
               /\ ov.cells = OverrideWrites(Disk[ov.file], o.params)
               /\ WriteOverrides(Disk[ov.file], o.params)
    <2>1. PICK f \in DOMAIN Disk :
             /\ ov = Applied(Disk, o, f)
             /\ \E i \in DOMAIN OverlayFiles(o, Directories) :
                  OverlayFiles(o, Directories)[i] = f
             /\ WriteOverrides(Disk[f], o.params)
      BY <1>2 DEF Gives
    <2>2. ov.file = f /\ ov.cells = OverrideWrites(Disk[f], o.params)
      BY <2>1 DEF Applied
    <2> QED BY <2>1, <2>2 DEF AppliedAs
  <1>3. \A k \in DOMAIN ovs : \E i \in DOMAIN Wanted :
           Gives(Disk, Directories, Wanted[i], ovs[k])
    BY <1>1 DEF PolicyOf, Covered
  <1>4. Complete(Disk, Directories, Wanted, n, ovs) =>
          \A i \in DOMAIN Wanted : IsApplied(Wanted[i])
    <2> SUFFICES ASSUME Complete(Disk, Directories, Wanted, n, ovs),
                        NEW i \in DOMAIN Wanted
                 PROVE  IsApplied(Wanted[i])
      OBVIOUS
    <2>1. PICK k \in DOMAIN ovs : Gives(Disk, Directories, Wanted[i], ovs[k])
      BY <1>1 DEF Complete
    <2>2. ovs[k].file \in AppliedFiles
      BY DEF AppliedFiles
    <2> QED BY <1>2, <2>1, <2>2 DEF IsApplied
  <1>5. PolicyKept
    <2>1. \A f \in AppliedFiles : \E i \in DOMAIN Wanted : AppliedAs(Wanted[i], f)
      <3> TAKE f \in AppliedFiles
      <3>1. PICK k \in DOMAIN ovs : f = ovs[k].file
        BY DEF AppliedFiles
      <3> QED BY <1>2, <1>3, <3>1
    <2>2. Len(ovs) <= n
      BY DEF PolicyOf, Covered
    <2> QED BY <1>4, <2>1, <2>2 DEF PolicyKept, PolicyOf, IsApplied
  <1>6. ParametersReachTargets
    <2> SUFFICES ASSUME NEW k \in DOMAIN ovs
                 PROVE  \E i \in DOMAIN Wanted :
                          /\ AppliedAs(Wanted[i], ovs[k].file)
                          /\ \A j \in DOMAIN Wanted[i].params :
                               LET p == Wanted[i].params[j]
                                   ts == Disk[ovs[k].file].overrides[p.name]
                               IN  /\ p.name \in DOMAIN Disk[ovs[k].file].overrides
                                   /\ \A t \in DOMAIN ts :
                                        \E w \in DOMAIN ovs[k].cells :
                                           ovs[k].cells[w].target = ts[t]
      BY Zenon DEF ParametersReachTargets
    <2>1. PICK i \in DOMAIN Wanted : Gives(Disk, Directories, Wanted[i], ovs[k])
      BY <1>3
    <2> DEFINE ov == ovs[k]
               o == Wanted[i]
               file == Disk[ov.file]
    <2>2. /\ ov.file \in DOMAIN Disk /\ AppliedAs(o, ov.file)
          /\ ov.cells = OverrideWrites(file, o.params)
          /\ WriteOverrides(file, o.params)
      BY <1>2, <2>1
    <2>3. o \in AskedFor(cf)
      BY <1>1
    <2>4. /\ o.params \in Seq(Range(o.params))
          /\ \A p \in DOMAIN file.overrides :
               file.overrides[p] \in Seq(Range(file.overrides[p]))
      <3>1. /\ \A x \in AskedFor(cf) : x.params \in Seq(Range(x.params))
            /\ \A d \in DOMAIN cf.disk : \A f \in DOMAIN cf.disk[d] :
                 \A p \in DOMAIN cf.disk[d][f].overrides :
                    cf.disk[d][f].overrides[p]
                       \in Seq(Range(cf.disk[d][f].overrides[p]))
            /\ "boot" \in DOMAIN cf.disk
            /\ \A e \in DOMAIN cf.entries : cf.entries[e].root \in DOMAIN cf.disk
        BY SituationAssumption, Zenon DEF Types, cf
      <3>2. PICK d \in DOMAIN cf.disk : Disk = cf.disk[d]
        BY <3>1 DEF Disk, Root, entry, Types
      <3> HIDE DEF o, ov
      <3>3. file = cf.disk[d][ov.file] /\ ov.file \in DOMAIN cf.disk[d]
        BY <2>2, <3>2
      <3>4. \A p \in DOMAIN cf.disk[d][ov.file].overrides :
               cf.disk[d][ov.file].overrides[p]
                  \in Seq(Range(cf.disk[d][ov.file].overrides[p]))
        BY <3>1, <3>3, Zenon
      <3> HIDE DEF file
      <3> QED BY <2>3, <3>1, <3>3, <3>4, Zenon
    <2> HIDE DEF o, ov, file
    <2>5. Reached(file, o.params, ov.cells)
      <3> DEFINE ps == o.params
                 P == Range(ps)
      <3>1. ps \in Seq(P) /\ WriteOverrides(file, ps) /\ HasLists(file)
        BY <2>2, <2>4 DEF HasLists
      <3> HIDE DEF P, ps
      <3>2. Reached(file, ps, OverrideWrites(file, ps))
        BY <3>1, CellsWritten
      <3> QED BY <2>2, <3>2 DEF ps
    <2>6. /\ AppliedAs(o, ov.file)
          /\ \A j \in DOMAIN o.params :
               LET p == o.params[j]
                   ts == file.overrides[p.name]
               IN  /\ p.name \in DOMAIN file.overrides
                   /\ \A t \in DOMAIN ts : \E w \in DOMAIN ov.cells :
                         ov.cells[w].target = ts[t]
      BY <2>2, <2>5, Zenon DEF Reached
    <2> QED BY <2>6, Zenon DEF o, ov, file
  <1> QED BY <1>5, <1>6 DEF OverlayPolicy

\* The steps of linux_data_load, and those that follow the installation.
Loading == {"kernel", "initramfs", "bootargs", "devicetree", "overlays"}
Installed == {"register", "image", "start", "stop", "unregister", "clean", "os",
              "image64", "handoff"}

\* A tree that this attempt put into the configuration table has the file and
\* the overlays of the one it was copied from.
TableInv ==
    /\ table # None =>
         table.addr = Firmware \/ table.addr \in {"table"} \X (0..attempt)
    /\ cur # None /\ table # None /\ table.addr = Addr("table") =>
         /\ pc \in Installed
         /\ SourceTree # None /\ table.ovs = SourceTree.ovs
         /\ table.file = SourceTree.file

\* A tree that was read in this attempt has no overlays before the step that
\* applies them, and those of the error policy after it.
FreshInv ==
    cur # None /\ entry.kernel # None =>
      /\ pc \in Loading => /\ gfdt # None => gfdt.addr # Addr("gfdt")
                           /\ data.fdt # None => data.fdt.ovs = <<>>
      /\ pc = "prepare" =>
           /\ gfdt = None /\ data.fdt = None
           /\ HasOverlays => DefaultDtb(cf, Disk, entry, ktype) = None
      /\ pc \notin Loading =>
           (SourceTree # None /\ SourceTree.addr \in {Addr("dtb"), Addr("gfdt")}
              => PolicyOf(SourceTree.ovs))

\* Both together.
PolicyInv == TableInv /\ FreshInv

\* What the invariant is about stays the same while the entry does.
LEMMA WantedStays ==
    ASSUME UNCHANGED <<sit, cur, ktype>>
    PROVE  /\ cf' = cf /\ entry' = entry /\ Disk' = Disk
           /\ Directories' = Directories /\ Wanted' = Wanted
           /\ HasOverlays' = HasOverlays
           /\ DefaultDtb(cf, Disk, entry, ktype)' = DefaultDtb(cf, Disk, entry, ktype)
  <1>1. cf' = cf
    BY DEF cf
  <1>2. entry' = entry
    BY <1>1 DEF entry
  <1>3. Root' = Root /\ Disk' = Disk
    BY <1>1, <1>2 DEF Root, Disk
  <1>4. Directories' = Directories
    BY <1>1, <1>2 DEF Directories
  <1>5. Wanted' = Wanted
    BY <1>1, <1>2 DEF Wanted
  <1>6. HasOverlays' = HasOverlays
    BY <1>1, <1>2 DEF HasOverlays
  <1>7. DefaultDtb(cf, Disk, entry, ktype)' = DefaultDtb(cf, Disk, entry, ktype)
    BY <1>1, <1>2, <1>3
  <1> QED BY <1>1, <1>2, <1>3, <1>4, <1>5, <1>6, <1>7

\* A promise that was kept stays kept.
LEMMA PolicyStays ==
    ASSUME UNCHANGED <<sit, cur, ktype>>, NEW o, PolicyOf(o), SourceTree'.ovs = o
    PROVE  PolicyOf(SourceTree.ovs)'
  <1>1. /\ cf' = cf /\ Disk' = Disk /\ Directories' = Directories
        /\ Wanted' = Wanted
    BY WantedStays
  <1> QED BY <1>1 DEF PolicyOf

\* Between two entries it only says where the tree of the table is from.
LEMMA PolicyIdle ==
    ASSUME Types, PolicyInv, cur' = None, table' = table,
           attempt' = attempt \/ attempt' = attempt + 1
    PROVE  PolicyInv'
  <1>1. attempt \in Nat
    BY AttemptsAssumption DEF Types
  <1>2. \A x : x \in {"table"} \X (0..attempt) => x \in {"table"} \X (0..attempt')
    BY <1>1
  <1>3. table' # None =>
          table'.addr = Firmware \/ table'.addr \in {"table"} \X (0..attempt')
    BY <1>2 DEF PolicyInv, TableInv
  <1>4. Firmware' = Firmware
    BY DEF Firmware
  <1> QED BY <1>3, <1>4 DEF PolicyInv, TableInv, FreshInv

\* An attempt that fails leaves nothing to promise.
LEMMA PolicyAbandon ==
    ASSUME Types, PolicyInv, NEW more, Abandon(more) PROVE PolicyInv'
  BY PolicyIdle DEF Abandon, CleanUp

\* A step that changes neither of the trees.
LEMMA PolicyMoves ==
    ASSUME PolicyInv,
           UNCHANGED <<sit, attempt, cur, ktype, gfdt, table>>,
           data'.fdt = data.fdt,
           \/ pc' = pc
           \/ pc \in Loading /\ pc' \in Loading
           \/ pc \notin Loading /\ pc' \notin Loading \cup {"prepare"},
           pc \in Installed => pc' \in Installed
    PROVE  PolicyInv'
  <1>1. /\ cf' = cf /\ entry' = entry /\ HasOverlays' = HasOverlays
        /\ DefaultDtb(cf, Disk, entry, ktype)' = DefaultDtb(cf, Disk, entry, ktype)
    BY WantedStays
  <1>2. SourceTree' = SourceTree
    BY DEF SourceTree
  <1>3. \A u : <<u, attempt'>> = <<u, attempt>>
    OBVIOUS
  <1>4. TableInv'
    BY <1>2 DEF PolicyInv, TableInv, Addr, Firmware
  <1>5. FreshInv'
    <2> SUFFICES ASSUME cur' # None, entry'.kernel # None
                 PROVE  /\ pc' \in Loading =>
                             /\ gfdt' # None => gfdt'.addr # Addr("gfdt")'
                             /\ data'.fdt # None => data'.fdt.ovs = <<>>
                        /\ pc' = "prepare" =>
                             /\ gfdt' = None /\ data'.fdt = None
                             /\ HasOverlays' =>
                                  DefaultDtb(cf, Disk, entry, ktype)' = None
                        /\ pc' \notin Loading =>
                             (SourceTree' # None
                              /\ SourceTree'.addr \in {Addr("dtb")', Addr("gfdt")'}
                                => PolicyOf(SourceTree.ovs)')
      BY Zenon DEF FreshInv
    <2>1. /\ pc \in Loading => /\ gfdt # None => gfdt.addr # Addr("gfdt")
                               /\ data.fdt # None => data.fdt.ovs = <<>>
          /\ pc = "prepare" =>
               /\ gfdt = None /\ data.fdt = None
               /\ HasOverlays => DefaultDtb(cf, Disk, entry, ktype) = None
          /\ pc \notin Loading =>
               (SourceTree # None /\ SourceTree.addr \in {Addr("dtb"), Addr("gfdt")}
                  => PolicyOf(SourceTree.ovs))
      BY <1>1, Zenon DEF PolicyInv, FreshInv
    <2>2. PolicyOf(SourceTree.ovs) => PolicyOf(SourceTree.ovs)'
      BY <1>2, PolicyStays
    <2>3. Addr("dtb")' = Addr("dtb") /\ Addr("gfdt")' = Addr("gfdt")
      BY DEF Addr
    <2>4. (pc' \in Loading => pc \in Loading) /\ (pc' = "prepare" => pc = "prepare")
          /\ (pc' \notin Loading => pc \notin Loading)
      BY DEF Loading
    <2> QED BY <1>1, <1>2, <2>1, <2>2, <2>3, <2>4, Zenon
  <1> QED BY <1>4, <1>5 DEF PolicyInv

\* linux_load_default_dtb on the tree of an earlier attempt or on none.
LEMMA DefaultFresh ==
    ASSUME Types, NEW g, NEW m
    PROVE  LET d == LoadDefaultDtb(g, m)
           IN  /\ DefaultDtb(cf, Disk, entry, ktype) = None =>
                    ~d.ok /\ (d.gfdt = None \/ d.gfdt = g)
               /\ DefaultDtb(cf, Disk, entry, ktype) # None =>
                    d.ok /\ d.gfdt # None /\ d.gfdt.ovs = <<>>
  <1> DEFINE drop == DependsOnLoader(cf.defaultDtb)
             g1 == IF drop THEN None ELSE g
             file == DefaultDtb(cf, Disk, entry, ktype)
             d == LoadDefaultDtb(g, m)
  <1>1. CASE file = None
    <2>1. d.gfdt = g1 /\ d.ok = FALSE
      BY <1>1 DEF LoadDefaultDtb
    <2> HIDE DEF d
    <2>2. ~d.ok /\ (d.gfdt = None \/ d.gfdt = g)
      BY <2>1, Zenon
    <2> QED BY <1>1, <2>2, Zenon DEF d
  <1>2. CASE file # None
    <2>1. d.gfdt = Tree(Addr("gfdt"), <<Root, file>>) /\ d.ok = TRUE
      BY <1>2 DEF LoadDefaultDtb
    <2>2. d.gfdt.ovs = <<>>
      BY <2>1 DEF Tree
    <2>3. d.gfdt # None
      <3>2. <<Root, file>> \in Files(cf)
        BY <1>2, DefaultIsFile
      <3>3. Addr("gfdt") \in Address
        BY AddrIs DEF Uses
      <3>4. Tree(Addr("gfdt"), <<Root, file>>) \in TreeOf(cf)
        BY <3>2, <3>3, NewTree
      <3> QED BY <2>1, <3>4, NoneIsNoAddress
    <2> HIDE DEF d
    <2> QED BY <1>2, <2>1, <2>2, <2>3, Zenon DEF d
  <1> QED BY <1>1, <1>2

\* embloader_fetch_fdt makes a copy of its own or none.
LEMMA FetchFresh ==
    ASSUME Types, NEW g, NEW m
    PROVE  /\ g # None => FetchFdt(g, m).gfdt = g
           /\ g = None => \/ FetchFdt(g, m).gfdt = None
                          \/ FetchFdt(g, m).gfdt.addr = Addr("fetched")
  <1>1. CASE g # None \/ table = None
    BY <1>1 DEF FetchFdt
  <1>2. CASE g = None /\ table # None
    <2>1. Addr("fetched") \in Address /\ table \in TreeOf(cf)
      BY <1>2, AddrIs DEF Uses, Types
    <2>2. FetchFdt(g, m).gfdt = [table EXCEPT !.addr = Addr("fetched")]
      BY <1>2 DEF FetchFdt
    <2> QED BY <1>2, <2>1, <2>2, TreeParts
  <1> QED BY <1>1, <1>2

\* A tree that was read is no copy of the firmware's.
LEMMA AddrApart ==
    /\ Addr("gfdt") # Addr("fetched") /\ Addr("gfdt") # Addr("dtb")
    /\ Addr("dtb") # Addr("fetched")
  BY DEF Addr

\* The tree that linux_load_dtoverlay starts from, when nothing was read before.
LEMMA BaseFresh ==
    ASSUME Types, data.fdt = None, gfdt # None => gfdt.addr # Addr("gfdt"),
           NEW oom \in BOOLEAN
    PROVE  LET p == Base(oom)
           IN  /\ p.gfdt # None /\ p.gfdt.addr = Addr("gfdt") =>
                    HasOverlays /\ p.ok /\ p.gfdt.ovs = <<>>
               /\ p.gfdt = None /\ HasOverlays =>
                    DefaultDtb(cf, Disk, entry, ktype) = None
  <1> DEFINE file == DefaultDtb(cf, Disk, entry, ktype)
             d == LoadDefaultDtb(gfdt, mem)
             f == FetchFdt(d.gfdt, d.mem)
             p == Base(oom)
  <1>1. CASE ~HasOverlays
    <2>1. p.gfdt = gfdt
      BY <1>1 DEF Base
    <2> HIDE DEF p
    <2> QED BY <1>1, <2>1 DEF p
  <1>2. CASE HasOverlays
    <2>1. p = IF d.ok \/ DependsOnLoader(cf.defaultDtb) THEN d
              ELSE IF oom /\ d.gfdt = None /\ table # None THEN d
              ELSE [gfdt |-> f.gfdt, mem |-> f.mem, ok |-> TRUE]
      BY <1>2, Zenon DEF Base, PrepareDtoverlayFdt
    <2>2. /\ file = None => ~d.ok /\ (d.gfdt = None \/ d.gfdt = gfdt)
          /\ file # None => d.ok /\ d.gfdt # None /\ d.gfdt.ovs = <<>>
      BY DefaultFresh, Zenon
    <2>3. /\ d.gfdt # None => f.gfdt = d.gfdt
          /\ d.gfdt = None => f.gfdt = None \/ f.gfdt.addr = Addr("fetched")
      BY FetchFresh
    <2> HIDE DEF d, f, p, file
    <2>4. CASE file # None
      BY <1>2, <2>1, <2>2, <2>4, Zenon DEF p, file
    <2>5. CASE file = None
      <3>1. p.gfdt = d.gfdt \/ p.gfdt = f.gfdt
        BY <2>1
      <3>2. p.gfdt # None => p.gfdt.addr # Addr("gfdt")
        BY <2>2, <2>3, <2>5, <3>1, AddrApart
      <3> QED BY <2>5, <3>2, Zenon DEF p, file
    <2> QED BY <2>4, <2>5
  <1> QED BY <1>1, <1>2

\* linux_load_dtoverlay on a tree without overlays keeps the policy's promise.
LEMMA ResultPolicy ==
    ASSUME Types, cur # None, NEW oom, NEW p, NEW t \in TreeOf(cf),
           t.ovs = <<>>, HasOverlays => p.ok,
           Continue(Result(oom, p, t).ok)
    PROVE  PolicyOf(Result(oom, p, t).tree.ovs)
  <1>n. t # None
    BY NoneIsNoAddress
  <1>1. CASE ~HasOverlays
    <2>1. Result(oom, p, t).tree = t
      BY <1>1 DEF Result
    <2> QED BY <1>1, <2>1, NoOverlayPolicy
  <1>2. CASE HasOverlays /\ oom /\ OnError(cf) = "revert"
    <2>1. Result(oom, p, t).tree = t
      BY <1>n, <1>2 DEF Result
    <2> QED BY <1>2, <2>1, NoOverlayPolicy
  <1>3. CASE HasOverlays /\ ~(oom /\ OnError(cf) = "revert")
    <2> DEFINE a == ApplyOverlays(cf, Disk, entry, ktype, <<>>)
    <2>1. Result(oom, p, t) = WithOverlays(t)
      BY <1>n, <1>3 DEF Result
    <2>2. /\ WithOverlays(t).tree = [t EXCEPT !.ovs = a.ovs]
          /\ WithOverlays(t).ok = a.ok
      BY DEF WithOverlays
    <2>3. PolicyOf(a.ovs)
      <3>1. Continue(a.ok)
        BY <2>1, <2>2
      <3> QED BY <3>1, AppliedPolicy
    <2> HIDE DEF a
    <2>4. [t EXCEPT !.ovs = a.ovs].ovs = a.ovs
      BY DEF TreeOf
    <2> QED BY <2>1, <2>2, <2>3, <2>4
  <1> QED BY <1>1, <1>2, <1>3

\* linux_load_dtoverlay.
LEMMA OverlaysPolicy ==
    ASSUME MemInv, PathInv, PolicyInv, LoadDtoverlay
    PROVE  PolicyInv'
  <1>t. Types
    BY DEF MemInv
  <1>p. pc = "overlays" /\ cur # None /\ entry.kernel # None
    BY DEF LoadDtoverlay, MemInv, Phases, PathInv
  <1>1. PICK oom, p, t, r :
          /\ oom \in BOOLEAN
          /\ p = Base(oom) /\ t = Target(p) /\ r = Result(oom, p, t)
          /\ IF Continue(r.ok) THEN GoesOn(p, r) ELSE GivesUp(p, r)
    BY LoadDtoverlayIs, Zenon
  <1>2. CASE ~Continue(r.ok)
    <2>1. GivesUp(p, r)
      BY <1>1, <1>2
    <2> QED BY <1>t, <2>1, PolicyIdle DEF GivesUp
  <1>3. CASE Continue(r.ok)
    <2>1. /\ gfdt' = Loaders(p, r)
          /\ data' = IF data.fdt = None THEN data ELSE [data EXCEPT !.fdt = r.tree]
          /\ pc' = BootPath(entry, Loaders(p, r))
          /\ UNCHANGED <<sit, attempt, cur, ktype, table>>
      BY <1>1, <1>3 DEF GoesOn, KeepBoot
    <2>2. /\ gfdt # None => gfdt.addr # Addr("gfdt")
          /\ data.fdt # None => data.fdt.ovs = <<>>
      BY <1>p DEF PolicyInv, FreshInv, Loading
    <2>3. p.gfdt \in TreeOf(cf) \cup {None}
          /\ (p.gfdt # None => p.gfdt.addr # Addr("dtb"))
      <3>1. LoadersTree(p.gfdt, p.mem)
        <4>1. CASE HasOverlays
          BY <1>p, <1>1, <4>1, PrepareKeeps DEF Base
        <4>2. CASE ~HasOverlays
          BY <1>1, <4>2 DEF Base, MemInv, Types, Places, Ledger, LoadersTree,
                            Kept, Rest
        <4> QED BY <4>1, <4>2
      <3> QED BY <3>1 DEF LoadersTree, Addr
    <2>4. t \in TreeOf(cf) \cup {None}
      BY <1>t, <1>1, <2>3 DEF Types, Target
    <2>5. /\ t = None => r.tree = None
          /\ t # None => r.tree # None /\ r.tree.addr = t.addr
      BY <1>t, <1>p, <1>1, <2>4, ResultTree
    <2>6. SourceTree' = r.tree
      <3>1. CASE data.fdt = None
        BY <2>1, <3>1 DEF SourceTree, Loaders
      <3>2. CASE data.fdt # None
        <4>1. data'.fdt = r.tree
          BY <1>t, <2>1, <3>2 DEF Types
        <4>2. r.tree # None
          BY <1>1, <2>5, <3>2 DEF Target
        <4> QED BY <4>1, <4>2 DEF SourceTree
      <3> QED BY <3>1, <3>2
    <2>7. ASSUME r.tree # None, r.tree.addr \in {Addr("dtb"), Addr("gfdt")}
          PROVE  PolicyOf(r.tree.ovs)
      <3>1. t # None /\ t \in TreeOf(cf)
            /\ t.addr \in {Addr("dtb"), Addr("gfdt")}
        BY <2>4, <2>5, <2>7
      <3>2. t.ovs = <<>> /\ (HasOverlays => p.ok)
        <4>1. CASE data.fdt # None
          <5>1. t = data.fdt
            BY <1>1, <4>1 DEF Target
          <5>2. HasOverlays => p.ok
            BY <1>1, <4>1 DEF Base, PrepareDtoverlayFdt
          <5> QED BY <2>2, <4>1, <5>1, <5>2
        <4>2. CASE data.fdt = None
          <5>1. t = p.gfdt /\ p.gfdt # None /\ p.gfdt.addr = Addr("gfdt")
            BY <1>1, <2>3, <3>1, <4>2 DEF Target
          <5>2. HasOverlays /\ p.ok /\ p.gfdt.ovs = <<>>
            BY <1>t, <1>1, <2>2, <4>2, <5>1, BaseFresh, Zenon
          <5> QED BY <5>1, <5>2
        <4> QED BY <4>1, <4>2
      <3> QED BY <1>t, <1>p, <1>1, <1>3, <3>1, <3>2, ResultPolicy
    <2>8. /\ cf' = cf /\ entry' = entry /\ HasOverlays' = HasOverlays
          /\ DefaultDtb(cf, Disk, entry, ktype)' = DefaultDtb(cf, Disk, entry, ktype)
          /\ Addr("dtb")' = Addr("dtb") /\ Addr("gfdt")' = Addr("gfdt")
          /\ Addr("table")' = Addr("table") /\ Firmware' = Firmware
      BY <2>1, WantedStays DEF Addr, Firmware
    <2>9. pc' \in {"image64", "install", "prepare"}
      BY <2>1 DEF BootPath
    <2>10. ASSUME pc' = "prepare"
           PROVE  /\ gfdt' = None /\ data'.fdt = None
                  /\ HasOverlays => DefaultDtb(cf, Disk, entry, ktype) = None
      <3>1. data.fdt = None /\ Loaders(p, r) = None
        BY <2>1, <2>10 DEF BootPath
      <3>2. gfdt' = None /\ data'.fdt = None
        BY <2>1, <3>1
      <3>3. p.gfdt = None
        BY <1>1, <2>5, <3>1 DEF Loaders, Target
      <3> QED BY <1>t, <1>1, <2>2, <3>1, <3>2, <3>3, BaseFresh, Zenon
    <2>11. TableInv'
      BY <1>p, <2>1, <2>8 DEF PolicyInv, TableInv, Installed
    <2>12. FreshInv'
      <3>1. SourceTree' # None /\ SourceTree'.addr \in {Addr("dtb"), Addr("gfdt")}
              => PolicyOf(SourceTree.ovs)'
        BY <2>1, <2>6, <2>7, PolicyStays
      <3>2. pc' \notin Loading
        BY <2>9 DEF Loading
      <3> QED BY <2>8, <2>10, <3>1, <3>2, Zenon DEF FreshInv
    <2> QED BY <2>11, <2>12 DEF PolicyInv
  <1> QED BY <1>2, <1>3

\* embloader_prepare_boot: a tree is read there only when no overlay is wanted,
\* or it could not be read before and cannot be read now.
LEMMA PreparePolicy ==
    ASSUME MemInv, PathInv, PolicyInv, PrepareTree
    PROVE  PolicyInv'
  <1>t. Types
    BY DEF MemInv
  <1>p. pc = "prepare" /\ UNCHANGED <<sit, attempt, cur, ktype, table, data>>
    BY DEF PrepareTree, KeepBoot
  <1>1. CASE cur = None
    BY <1>t, <1>p, <1>1, PolicyIdle
  <1>2. CASE cur # None
    <2>1. /\ gfdt = None /\ data.fdt = None /\ entry.kernel # None
          /\ HasOverlays => DefaultDtb(cf, Disk, entry, ktype) = None
      BY <1>p, <1>2 DEF PathInv, PolicyInv, FreshInv
    <2>2. PICK oom \in BOOLEAN :
            /\ gfdt' = IF Reverts(oom) THEN Found(oom).gfdt ELSE Prepared(oom).tree
            /\ pc' = IF Prepared(oom).count >= 0 \/ Reverts(oom)
                     THEN "installPrepared" ELSE "unprepared"
      BY PrepareTreeIs, Zenon
    <2> DEFINE g == Found(oom).gfdt
               file == DefaultDtb(cf, Disk, entry, ktype)
    <2>3. SourceTree' = gfdt'
      BY <1>p, <2>1 DEF SourceTree
    <2>4. LoadersTree(g, Found(oom).mem)
      <3>1. LoadersTree(gfdt, mem) /\ pc # "os"
        BY <1>p DEF MemInv, Types, Places, Ledger, LoadersTree, Kept, Rest
      <3>2. LoadersTree(Default.gfdt, Default.mem)
        BY <3>1, LoadDefaultKeeps DEF Default
      <3> QED BY <3>2, FetchKeeps DEF Found
    <2>5. /\ file = None => Default.gfdt = None
          /\ file # None => Default.gfdt # None /\ Default.gfdt.ovs = <<>>
      BY <1>t, <2>1, DefaultFresh, Zenon DEF Default
    <2>6. g = Default.gfdt \/ g = FetchFdt(Default.gfdt, Default.mem).gfdt
      BY DEF Found
    <2>7. g # None /\ g.addr = Addr("gfdt") => g.ovs = <<>> /\ ~HasOverlays
      <3>1. CASE file = None
        BY <1>t, <2>5, <2>6, <3>1, FetchFresh, AddrApart
      <3>2. CASE file # None
        BY <1>t, <2>1, <2>5, <2>6, <3>2, FetchFresh
      <3> QED BY <3>1, <3>2
    <2>8. ~Stop(oom) =>
            /\ g \in TreeOf(cf)
            /\ Prepared(oom).tree = [g EXCEPT !.ovs = Configured(oom).ovs]
      BY <2>4 DEF Stop, LoadersTree, Prepared
    <2>9. Stop(oom) => Prepared(oom).tree = g
      BY DEF Prepared
    <2>10. ASSUME gfdt' # None, gfdt'.addr \in {Addr("dtb"), Addr("gfdt")}
           PROVE  PolicyOf(gfdt'.ovs)
      <3>a. g # None => g.addr # Addr("dtb")
        BY <2>4 DEF LoadersTree, Addr
      <3>1. CASE gfdt' = g
        <4>1. g.ovs = <<>> /\ ~HasOverlays
          BY <2>7, <2>10, <3>a, <3>1
        <4> QED BY <1>t, <1>2, <3>1, <4>1, NoOverlayPolicy
      <3>2. CASE gfdt' # g
        <4>1. gfdt' = Prepared(oom).tree /\ ~Stop(oom)
          BY <2>2, <2>9, <3>2
        <4>2. g \in TreeOf(cf) /\ gfdt' = [g EXCEPT !.ovs = Configured(oom).ovs]
          BY <2>8, <4>1
        <4> DEFINE o == Configured(oom).ovs
        <4>3. gfdt'.addr = g.addr /\ gfdt'.ovs = o /\ g # None
          <5> HIDE DEF g, o
          <5> QED BY <1>t, <4>2, NoneIsNoAddress DEF TreeOf, o
        <4>4. g.ovs = <<>> /\ ~HasOverlays
          BY <2>7, <2>10, <3>a, <4>3
        <4>5. o = <<>>
          <5> DEFINE l == LoadDtbos(cf, Disk, entry, ktype, <<>>)
                     dirs == ResolvePath(cf, entry, ktype, cf.dtboDir)
          <5>1. Configured(oom) = l
            BY <4>4 DEF Configured
          <5>2. ConfiguredOverlays(cf) = <<>>
            BY <1>t, <1>2, <4>4, NothingWanted
          <5>3. /\ l \in Loaded(OverlaysOf(cf))
                /\ ConfiguredKeeps(cf, Disk, dirs, ConfiguredOverlays(cf), l)
            BY <1>t, Machine, MachineLists, ConfiguredPolicy
          <5> HIDE DEF l, dirs
          <5>4. l.ovs \in Seq(OverlaysOf(cf)) /\ Len(l.ovs) <= 0
            BY <5>2, <5>3 DEF Loaded, ConfiguredKeeps, Covered
          <5> QED BY <5>1, <5>4
        <4> QED BY <1>t, <1>2, <4>3, <4>4, <4>5, NoOverlayPolicy
      <3> QED BY <3>1, <3>2
    <2>11. /\ cf' = cf /\ entry' = entry
           /\ Addr("dtb")' = Addr("dtb") /\ Addr("gfdt")' = Addr("gfdt")
           /\ Addr("table")' = Addr("table") /\ Firmware' = Firmware
      BY <1>p, WantedStays DEF Addr, Firmware
    <2>12. pc' \in {"installPrepared", "unprepared"}
      BY <2>2
    <2>13. TableInv'
      BY <1>p, <1>2, <2>11 DEF PolicyInv, TableInv, Installed
    <2>14. FreshInv'
      <3>1. SourceTree' # None /\ SourceTree'.addr \in {Addr("dtb"), Addr("gfdt")}
              => PolicyOf(SourceTree.ovs)'
        BY <1>p, <2>3, <2>10, PolicyStays
      <3>2. pc' \notin Loading /\ pc' # "prepare"
        BY <2>12 DEF Loading
      <3> QED BY <2>11, <3>1, <3>2, Zenon DEF FreshInv
    <2> QED BY <2>13, <2>14 DEF PolicyInv
  <1> QED BY <1>1, <1>2

\* Every step keeps what the policy promises.
LEMMA PolicyStep ==
    ASSUME MemInv, DefaultInv, PathInv, PolicyInv, [Next]_vars
    PROVE  PolicyInv'
  <1>t. Types
    BY DEF MemInv
  <1>k. cur = None => pc \in {"idle", "prepare", "unprepared",
                              "installPrepared", "returned"}
    BY DEF MemInv, Phases
  <1>1. CASE UNCHANGED vars
    BY <1>1, PolicyMoves DEF vars
  <1>2. CASE \E e \in DOMAIN cf.entries : BootEntry(e)
    <2>1. PICK e \in DOMAIN cf.entries : BootEntry(e)
      BY <1>2
    <2>2. /\ pc = "idle" /\ sit' = sit /\ cur' = e /\ data' = data
          /\ attempt' = attempt + 1 /\ table' = table
          /\ gfdt' = gfdt \/ gfdt' = None
          /\ pc' = IF cf.entries[e].kernel = None THEN "image" ELSE "kernel"
      BY <2>1 DEF BootEntry
    <2>3. attempt \in Nat /\ cf' = cf /\ e # None /\ entry' = cf.entries[e]
          /\ data'.fdt = None
      <3>1. attempt \in Nat /\ cf' = cf /\ e # None
        BY <1>t, <2>2, AttemptsAssumption, NoneIsNoAddress DEF Types, cf
      <3>2. data'.fdt = None
        BY <2>2 DEF MemInv, Phases, NoData
      <3> QED BY <2>2, <3>1, <3>2 DEF entry
    <2>4. /\ table # None =>
               table.addr = Firmware \/ table.addr \in {"table"} \X (0..attempt)
          /\ gfdt # None => gfdt.addr \in {"gfdt", "fetched"} \X (0..attempt)
      BY DEF PolicyInv, TableInv, DefaultInv, DefaultOf
    <2>5. TableInv'
      <3>1. table # None => /\ \/ table.addr = Firmware
                               \/ table.addr \in {"table"} \X (0..(attempt + 1))
                            /\ table.addr # <<"table", attempt + 1>>
        BY <2>3, <2>4 DEF Firmware
      <3> QED BY <2>2, <3>1 DEF TableInv, Addr, Firmware
    <2>6. gfdt' # None => gfdt'.addr # <<"gfdt", attempt + 1>>
      BY <2>2, <2>3, <2>4
    <2>7. FreshInv'
      BY <2>2, <2>3, <2>6 DEF FreshInv, Addr, Loading
    <2> QED BY <2>5, <2>7 DEF PolicyInv
  <1>3. CASE PrepareOnly \/ \E e \in DOMAIN cf.entries : BootRefused(e)
    <2>1. /\ pc = "idle" /\ cur' = cur /\ attempt' \in {1, attempt + 1}
          /\ table' = table /\ (attempt' # attempt + 1 => attempt = 0)
      BY <1>3 DEF PrepareOnly, BootRefused
    <2>2. cur = None
      BY <2>1 DEF MemInv, Phases
    <2> QED BY <1>t, <2>1, <2>2, PolicyIdle
  <1>4. CASE LoadKernel \/ ReadInitramfs \/ JoinInitramfs \/ LoadBootargs
    <2>1. CASE \E more : Abandon(more)
      BY <1>t, <2>1, PolicyAbandon
    <2>2. CASE ~\E more : Abandon(more)
      <3>1. /\ pc \in Loading /\ pc' \in Loading
            /\ UNCHANGED <<sit, attempt, cur, ktype, gfdt, table>>
            /\ \/ data' = data
               \/ \E v : data' = [data EXCEPT !.kernel = v]
               \/ \E v : data' = [data EXCEPT !.initramfs = v]
               \/ \E v : data' = [data EXCEPT !.bootargs = v]
        BY <1>4, <2>2 DEF LoadKernel, ReadInitramfs, JoinInitramfs, LoadBootargs,
                          KeepBoot, Loading
      <3>2. data'.fdt = data.fdt
        BY <1>t, <3>1 DEF Types
      <3> QED BY <3>1, <3>2, PolicyMoves DEF Loading, Installed
    <2> QED BY <2>1, <2>2
  <1>5. CASE LoadDevicetree
    <2>1. CASE \E more : Abandon(more)
      BY <1>t, <2>1, PolicyAbandon
    <2>2. CASE ~\E more : Abandon(more)
      <3>1. /\ pc = "devicetree" /\ pc' = "overlays"
            /\ UNCHANGED <<sit, attempt, cur, ktype, gfdt, table>>
            /\ \/ data' = data
               \/ data' = [data EXCEPT !.fdt = Tree(Addr("dtb"), <<Root, entry.devicetree>>)]
        BY <1>5, <2>2 DEF LoadDevicetree, KeepBoot
      <3>2. CASE data' = data
        BY <3>1, <3>2, PolicyMoves DEF Loading, Installed
      <3>3. CASE data' = [data EXCEPT !.fdt = Tree(Addr("dtb"), <<Root, entry.devicetree>>)]
        <4>1. data'.fdt.ovs = <<>>
          BY <1>t, <3>3 DEF Types, Tree
        <4>2. entry' = entry
          BY <3>1, WantedStays
        <4>3. TableInv'
          BY <3>1 DEF PolicyInv, TableInv, Installed, Addr, Firmware
        <4>4. FreshInv'
          BY <3>1, <4>1, <4>2 DEF PolicyInv, FreshInv, Loading, Addr
        <4> QED BY <4>3, <4>4 DEF PolicyInv
      <3> QED BY <3>1, <3>2, <3>3
    <2> QED BY <2>1, <2>2
  <1>6. CASE LoadDtoverlay
    BY <1>6, OverlaysPolicy
  <1>7. CASE PrepareTree
    BY <1>7, PreparePolicy
  <1>8. CASE Unprepared
    <2>1. CASE \E more : Abandon(more)
      BY <1>t, <2>1, PolicyAbandon
    <2>2. CASE ~\E more : Abandon(more)
      <3>1. /\ pc = "unprepared" /\ pc' \in {"register", "returned"}
            /\ UNCHANGED <<sit, attempt, cur, ktype, gfdt, table, data>>
        BY <1>8, <2>2 DEF Unprepared, KeepBoot
      <3> QED BY <3>1, PolicyMoves DEF Loading, Installed
    <2> QED BY <2>1, <2>2
  <1>9. CASE InstallFdt
    <2>1. /\ pc \in {"install", "installPrepared"}
          /\ UNCHANGED <<sit, attempt, cur, ktype, gfdt, data>>
          /\ \/ /\ table' = [SourceTree EXCEPT !.addr = Addr("table")]
                /\ pc' = IF cur = None THEN "returned"
                         ELSE IF entry.type = "linux" THEN "image64"
                         ELSE "register"
             \/ table' = table /\ pc' \in {"clean", "unprepared"}
      BY <1>9 DEF InstallFdt
    <2>2. CASE table' = table
      <3>1. pc' \in {"clean", "unprepared", "returned", "image64", "register"}
        BY <2>1
      <3> QED BY <2>1, <2>2, <3>1, PolicyMoves DEF Loading, Installed
    <2>3. CASE table' # table
      <3>1. SourceTree # None /\ SourceTree \in TreeOf(cf)
        BY <1>t, <2>1 DEF MemInv, Phases, Types, SourceTree
      <3>2. /\ table'.addr = Addr("table") /\ table'.ovs = SourceTree.ovs
            /\ table'.file = SourceTree.file
        <4>1. table' = [SourceTree EXCEPT !.addr = Addr("table")]
          BY <2>1, <2>3
        <4> QED BY <3>1, <4>1 DEF TreeOf
      <3>3. SourceTree' = SourceTree
        BY <2>1 DEF SourceTree
      <3>4. attempt \in Nat
        BY <1>t, AttemptsAssumption DEF Types
      <3>5. cur # None => pc' \in {"image64", "register"}
        BY <2>1, <2>3
      <3>6. TableInv'
        <4>1. <<"table", attempt>> \in {"table"} \X (0..attempt)
          BY <3>4
        <4> QED BY <2>1, <3>1, <3>2, <3>3, <3>5, <4>1
                DEF TableInv, Installed, Addr, Firmware
      <3>7. FreshInv'
        <4> SUFFICES ASSUME cur # None, entry.kernel # None,
                            SourceTree.addr \in {Addr("dtb"), Addr("gfdt")}
                     PROVE  PolicyOf(SourceTree.ovs)'
          <5>1. entry' = entry /\ Addr("dtb")' = Addr("dtb")
                /\ Addr("gfdt")' = Addr("gfdt")
            BY <2>1, WantedStays DEF Addr
          <5>2. cur # None => pc' \notin Loading /\ pc' # "prepare"
            BY <3>5 DEF Loading
          <5> QED BY <2>1, <3>3, <5>1, <5>2, Zenon DEF FreshInv
        <4>1. PolicyOf(SourceTree.ovs)
          BY <2>1, <3>1 DEF PolicyInv, FreshInv, Loading
        <4> QED BY <2>1, <3>3, <4>1, PolicyStays
      <3> QED BY <3>6, <3>7 DEF PolicyInv
    <2> QED BY <2>2, <2>3
  <1>10. CASE Register \/ LoadImage \/ OsTakesOver \/ ImageReturns \/ UnloadImage
    <2>1. /\ pc \in Installed /\ pc' \in Installed
          /\ UNCHANGED <<sit, attempt, cur, ktype, gfdt, table, data>>
      BY <1>10 DEF Register, LoadImage, OsTakesOver, ImageReturns, UnloadImage,
                   KeepBoot, Installed, AfterFailedRegister
    <2> QED BY <2>1, PolicyMoves DEF Loading, Installed
  <1>11. CASE Unregister
    <2>1. /\ pc = "unregister" /\ pc' = "clean"
          /\ UNCHANGED <<sit, attempt, cur, ktype, gfdt, table>>
          /\ data' = data \/ data' = [data EXCEPT !.initramfs = None]
      BY <1>11 DEF Unregister, InitramfsKept
    <2>2. data'.fdt = data.fdt
      BY <1>t, <2>1 DEF Types
    <2> QED BY <2>1, <2>2, PolicyMoves DEF Loading, Installed
  <1>12. CASE Clean \/ HandoffFails
    BY <1>t, <1>12, PolicyAbandon DEF Clean, HandoffFails
  <1>13. CASE PrepareImage
    <2>1. CASE \E more : Abandon(more)
      BY <1>t, <2>1, PolicyAbandon
    <2>2. CASE ~\E more : Abandon(more)
      <3>1. /\ pc = "image64" /\ pc' \in {"image64", "handoff"}
            /\ UNCHANGED <<sit, attempt, cur, ktype, gfdt, table, data>>
        BY <1>13, <2>2 DEF PrepareImage
      <3> QED BY <3>1, PolicyMoves DEF Loading, Installed
    <2> QED BY <2>1, <2>2
  <1>14. CASE Handoff
    <2>1. UNCHANGED <<sit, attempt, pc, cur, ktype, gfdt, table, data>>
      BY <1>14 DEF Handoff
    <2> QED BY <2>1, PolicyMoves
  <1> QED
    BY <1>1, <1>2, <1>3, <1>4, <1>5, <1>6, <1>7, <1>8, <1>9, <1>10, <1>11,
       <1>12, <1>13, <1>14 DEF Next

\* With the owners of the memory it gives the property.
LEMMA GivenPolicy ==
    ASSUME MemInv, PolicyInv PROVE OverlayPolicy
  <1>t. Types
    BY DEF MemInv
  <1>1. CASE ~(Starting /\ ReadNow)
    BY <1>1 DEF OverlayPolicy, PolicyKept, ParametersReachTargets
  <1>2. CASE Starting /\ ReadNow
    <2>1. /\ pc \in {"start", "handoff"} /\ cur # None /\ entry.kernel # None
          /\ SourceTree # None /\ SourceTree \in TreeOf(cf)
          /\ SourceTree.addr \in {Addr("dtb"), Addr("gfdt")}
      BY <1>t, <1>2 DEF Starting, ReadNow, MemInv, Phases, Types, SourceTree
    <2>2. PolicyOf(SourceTree.ovs)
      BY <2>1 DEF PolicyInv, FreshInv, Loading
    <2>3. GivenTree.ovs = SourceTree.ovs
      BY <1>2, <2>1 DEF PolicyInv, TableInv, ReadNow, GivenTree
    <2>4. SourceTree.ovs \in Seq(OverlaysOf(cf))
      BY <2>1, TreeParts
    <2> QED BY <1>t, <2>1, <2>2, <2>3, <2>4, PolicyImplies
  <1> QED BY <1>1, <1>2

\* A tree that was read for the entry reaches the kernel with the overlays that
\* linux_load_dtoverlay and linux_load_dtbos were asked for: each of them comes
\* from a file of one that was wanted, with every parameter in all its targets,
\* and all of them, one at least, or all or none are there, as on-error says.
THEOREM OverlaysFollowPolicy == Spec => []OverlayPolicy
<1>1. Init => MemInv /\ DefaultInv /\ InputInv /\ PolicyInv
  <2> SUFFICES ASSUME Init PROVE MemInv /\ DefaultInv /\ InputInv /\ PolicyInv
    OBVIOUS
  <2>1. DefaultInv /\ InputInv
    BY DEF Init, DefaultInv, DefaultOf, InputInv, PathInv, EntryInv, ChosenInv
  <2>2. TableInv /\ FreshInv
    BY DEF Init, TableInv, FreshInv, FirmwareTree, Tree
  <2> QED BY <2>1, <2>2, MemInit DEF PolicyInv
<1>2. MemInv /\ DefaultInv /\ InputInv /\ PolicyInv /\ [Next]_vars =>
        (MemInv /\ DefaultInv /\ InputInv /\ PolicyInv)'
  <2>1. InputInv => PathInv
    BY DEF InputInv
  <2> QED BY <2>1, MemStep, DefaultStep, InputStep, PolicyStep
<1>3. MemInv /\ PolicyInv => OverlayPolicy
  BY GivenPolicy
<1> QED
  BY <1>1, <1>2, <1>3, PTL DEF Spec

\* A sequence of one element has that element only.
LEMMA OneElement == \A x : \A i \in DOMAIN <<x>> : <<x>>[i] = x
  <1>1. \A x : DOMAIN <<x>> = {1} /\ <<x>>[1] = x
    OBVIOUS
  <1> QED BY <1>1, Zenon

\* A path that names neither the kernel's version nor its type
IsFixed(path) == ~Contains(path, "{version}") /\ ~Contains(path, "{ktype}")

-----------------------------------------------------------------------------
\* A path without {version} and {ktype} stands for the same files whichever the
\* entry and the kernel type.
LEMMA SamePaths ==
    ASSUME NEW c, NEW e1, NEW e2, e1 # None, e2 # None, NEW k1, NEW k2, NEW path,
           path # None => IsFixed(path)
    PROVE  ResolvePath(c, e1, k1, path) = ResolvePath(c, e2, k2, path)
  <1> DEFINE V(e, k, var) == Values(c, e, k, var)
             P2(e, k) == ExpandAll(Expand(path, "{version}", V(e, k, "{version}")),
                                   "{ktype}", V(e, k, "{ktype}"))
             P4(e, k) == ExpandAll(ExpandAll(P2(e, k), "{profile}",
                                             V(e, k, "{profile}")),
                                   "{dtb-id}", V(e, k, "{dtb-id}"))
             both == [i \in DOMAIN <<path>> |-> <<path>>]
  <1>1. CASE path = None
    BY <1>1, Zenon DEF ResolvePath
  <1>2. CASE path # None
    <2>1. ASSUME NEW e, NEW k PROVE P2(e, k) = FlattenSeq(both)
      <3>1. Expand(path, "{version}", V(e, k, "{version}")) = <<path>>
        BY <1>2, Zenon DEF Expand, IsFixed
      <3>2. Expand(path, "{ktype}", V(e, k, "{ktype}")) = <<path>>
        BY <1>2, Zenon DEF Expand, IsFixed
      <3> HIDE DEF V
      <3>3. \A i \in DOMAIN <<path>> :
              Expand(<<path>>[i], "{ktype}", V(e, k, "{ktype}")) = <<path>>
        <4>1. \A i \in DOMAIN <<path>> : <<path>>[i] = path
          BY OneElement, Zenon
        <4> QED BY <3>2, <4>1, Zenon
      <3>4. [i \in DOMAIN <<path>> |->
               Expand(<<path>>[i], "{ktype}", V(e, k, "{ktype}"))] = both
        BY <3>3
      <3> QED BY <3>1, <3>4, Zenon DEF ExpandAll
    <2>2. ASSUME NEW e, NEW k
          PROVE  /\ V(e, k, "{profile}") = V(e1, k1, "{profile}")
                 /\ V(e, k, "{dtb-id}") = V(e1, k1, "{dtb-id}")
      BY DEF Values
    <2>3. ASSUME NEW e, NEW k, e # None
          PROVE  ResolvePath(c, e, k, path) = P4(e, k)
      BY <1>2, <2>3, Zenon DEF ResolvePath
    <2> HIDE DEF P2, V, both
    <2>4. P4(e1, k1) = P4(e2, k2)
      BY <2>1, <2>2, Zenon
    <2> HIDE DEF P4
    <2> QED BY <2>3, <2>4
  <1> QED BY <1>1, <1>2

\* The file was read for an entry, as its own tree or as the default one.
IsAsked(file) ==
    \/ file = FirmwareTree.file
    \/ \E n \in DOMAIN cf.entries :
         \/ file = <<cf.entries[n].root, cf.entries[n].devicetree>>
         \/ \E k \in Ktypes(cf) : IsDefaultFor(file, cf.entries[n], k)

\* Where a tree that outlives an attempt is from.
OriginInv ==
    /\ ktype \in Ktypes(cf)
    /\ gfdt # None => IsAsked(gfdt.file)
    /\ table # None => IsAsked(table.file)

\* The entry's own tree is there from linux_load_devicetree on, and in the table
\* when the kernel starts; a default tree was read by linux_load_dtoverlay if it
\* could be.
Reading == Loading \ {"overlays"}
Preparing == {"prepare", "unprepared", "installPrepared"}
Running == {"register", "image", "start", "stop", "unregister"}
SourceInv ==
    /\ data.fdt # None => /\ entry.devicetree # None
                          /\ data.fdt.file = <<entry.root, entry.devicetree>>
    /\ cur # None /\ entry.kernel # None =>
         /\ pc \notin Reading /\ entry.devicetree # None => data.fdt # None
         /\ pc \in Preparing => data.fdt = None
         /\ pc \in Running /\ data.fdt # None =>
              table # None /\ table.addr = Addr("table")
         /\ pc \notin Loading /\ data.fdt = None /\ gfdt # None /\ HasOverlays
            /\ DefaultDtb(cf, Disk, entry, ktype) # None =>
              gfdt.addr = Addr("gfdt")

TreesInv == OriginInv /\ SourceInv

\* The files that were asked for stay so.
LEMMA AskedStays ==
    ASSUME sit' = sit
    PROVE  \A file : IsAsked(file) => IsAsked(file)'
  <1>1. cf' = cf
    BY DEF cf
  <1>2. \A file, e, k : IsDefaultFor(file, e, k)' = IsDefaultFor(file, e, k)
    BY <1>1 DEF IsDefaultFor, DefaultPaths
  <1>3. (FirmwareTree.file)' = FirmwareTree.file
    BY DEF FirmwareTree, Tree, Firmware
  <1> QED BY <1>1, <1>2, <1>3 DEF IsAsked

\* The default tree that is found is the one for the entry.
LEMMA FoundIsDefault ==
    ASSUME Types, DefaultDtb(cf, Disk, entry, ktype) # None
    PROVE  /\ cur # None
           /\ IsDefaultFor(<<Root, DefaultDtb(cf, Disk, entry, ktype)>>, entry, ktype)
  <1> DEFINE ps == ResolvePath(cf, entry, ktype, cf.defaultDtb)
             file == DefaultDtb(cf, Disk, entry, ktype)
  <1>1. \E i \in DOMAIN ps :
          /\ ps[i] = file
          /\ ps[i] \in DOMAIN Disk
          /\ \A j \in DOMAIN ps : j > i => ps[j] \notin DOMAIN Disk
    BY Machine, DefaultIsLast, Zenon
  <1>2. cur # None
    <2> SUFFICES ASSUME cur = None PROVE FALSE
      OBVIOUS
    <2>1. entry = None
      BY DEF entry
    <2>2. ps = <<>>
      BY <2>1, Zenon DEF ResolvePath
    <2> HIDE DEF ps
    <2> QED BY <1>1, <2>2
  <1>3. Root = entry.root /\ Disk = cf.disk[entry.root]
    BY <1>2 DEF Root, Disk
  <1>4. DefaultPaths(entry, ktype) = ps
    BY DEF DefaultPaths
  <1> HIDE DEF ps, file
  <1>5. IsDefaultFor(<<Root, file>>, entry, ktype)
    BY <1>1, <1>3, <1>4, Zenon DEF IsDefaultFor
  <1> QED BY <1>2, <1>5 DEF file

\* linux_load_default_dtb keeps the tree or reads one that is asked for.
LEMMA LoadOrigin ==
    ASSUME Types, ktype \in Ktypes(cf), NEW g, NEW m, g # None => IsAsked(g.file)
    PROVE  LET d == LoadDefaultDtb(g, m)
           IN  /\ d.gfdt # None => IsAsked(d.gfdt.file)
               /\ DefaultDtb(cf, Disk, entry, ktype) # None =>
                    d.ok /\ d.gfdt # None /\ d.gfdt.addr = Addr("gfdt")
  <1> DEFINE file == DefaultDtb(cf, Disk, entry, ktype)
             d == LoadDefaultDtb(g, m)
  <1>1. CASE file = None
    <2>1. d.gfdt = None \/ d.gfdt = g
      BY <1>1 DEF LoadDefaultDtb
    <2> HIDE DEF d
    <2> QED BY <1>1, <2>1 DEF d
  <1>2. CASE file # None
    <2>1. d.gfdt = Tree(Addr("gfdt"), <<Root, file>>) /\ d.ok = TRUE
      BY <1>2 DEF LoadDefaultDtb
    <2>2. d.gfdt.file = <<Root, file>> /\ d.gfdt.addr = Addr("gfdt")
      BY <2>1 DEF Tree
    <2>3. d.gfdt # None
      BY <1>2, DefaultFresh, Zenon
    <2>4. cur \in DOMAIN cf.entries /\ entry = cf.entries[cur]
          /\ IsDefaultFor(<<Root, file>>, entry, ktype)
      BY <1>2, FoundIsDefault DEF Types, entry
    <2> HIDE DEF d, file
    <2>5. IsAsked(<<Root, file>>)
      BY <2>4, Zenon DEF IsAsked
    <2> QED BY <2>1, <2>2, <2>3, <2>5 DEF d
  <1> QED BY <1>1, <1>2

\* embloader_fetch_fdt copies what is in the table.
LEMMA FetchOrigin ==
    ASSUME Types, OriginInv, NEW g, NEW m, g # None => IsAsked(g.file)
    PROVE  FetchFdt(g, m).gfdt # None => IsAsked(FetchFdt(g, m).gfdt.file)
  <1>1. CASE g # None \/ table = None
    BY <1>1 DEF FetchFdt
  <1>2. CASE g = None /\ table # None
    <2>1. FetchFdt(g, m).gfdt = [table EXCEPT !.addr = Addr("fetched")]
      BY <1>2 DEF FetchFdt
    <2>2. [table EXCEPT !.addr = Addr("fetched")].file = table.file
      BY <1>2 DEF Types, TreeOf
    <2> QED BY <1>2, <2>1, <2>2 DEF OriginInv
  <1> QED BY <1>1, <1>2

\* Between two entries there is only what outlives them.
LEMMA TreesIdle ==
    ASSUME TreesInv, cur' = None, data'.fdt = None, table' = table, sit' = sit,
           ktype' \in Ktypes(cf), gfdt' # None => IsAsked(gfdt'.file)
    PROVE  TreesInv'
  <1>1. cf' = cf
    BY DEF cf
  <1>2. ktype' \in Ktypes(cf')
    BY <1>1
  <1>3. (gfdt' # None => IsAsked(gfdt.file)') /\ (table' # None => IsAsked(table.file)')
    BY AskedStays DEF TreesInv, OriginInv
  <1> QED BY <1>2, <1>3 DEF TreesInv, OriginInv, SourceInv

LEMMA TreesAbandon ==
    ASSUME TreesInv, NEW more, Abandon(more) PROVE TreesInv'
  <1>1. data'.fdt = None
    BY DEF Abandon, CleanUp, NoData
  <1> QED BY <1>1, TreesIdle DEF Abandon, CleanUp, TreesInv, OriginInv

\* A step that changes none of the trees.
LEMMA TreesMove ==
    ASSUME TreesInv, UNCHANGED <<sit, attempt, cur, ktype, gfdt, table>>,
           data'.fdt = data.fdt,
           pc \in Reading => pc' \in Reading \/ entry.devicetree = None,
           pc \in Loading => pc' \in Loading,
           pc' \in Preparing => pc \in Preparing,
           pc' \in Running /\ pc \notin Running => data.fdt = None
             \/ (cur # None /\ entry.kernel = None)
    PROVE  TreesInv'
  <1>1. /\ cf' = cf /\ entry' = entry /\ HasOverlays' = HasOverlays
        /\ DefaultDtb(cf, Disk, entry, ktype)' = DefaultDtb(cf, Disk, entry, ktype)
    BY WantedStays
  <1>2. Addr("table")' = Addr("table") /\ Addr("gfdt")' = Addr("gfdt")
    BY DEF Addr
  <1>3. OriginInv'
    BY <1>1, AskedStays DEF TreesInv, OriginInv
  <1>4. SourceInv'
    <2> DEFINE own == DefaultDtb(cf, Disk, entry, ktype)
    <2>1. own' = own
      BY <1>1
    <2> HIDE DEF own
    <2> QED BY <1>1, <1>2, <2>1 DEF TreesInv, SourceInv, own
  <1> QED BY <1>3, <1>4 DEF TreesInv

\* linux_load_dtoverlay.
LEMMA OverlaysTrees ==
    ASSUME MemInv, PathInv, TreesInv, LoadDtoverlay
    PROVE  TreesInv'
  <1>t. Types /\ OriginInv /\ SourceInv
    BY DEF MemInv, TreesInv
  <1>p. pc = "overlays" /\ cur # None /\ entry.kernel # None
    BY DEF LoadDtoverlay, MemInv, Phases, PathInv
  <1>1. PICK oom, p, t, r :
          /\ oom \in BOOLEAN
          /\ p = Base(oom) /\ t = Target(p) /\ r = Result(oom, p, t)
          /\ IF Continue(r.ok) THEN GoesOn(p, r) ELSE GivesUp(p, r)
    BY LoadDtoverlayIs, Zenon
  <1> DEFINE own == DefaultDtb(cf, Disk, entry, ktype)
             g == Loaders(p, r)
  <1>2. /\ p.gfdt \in TreeOf(cf) \cup {None}
        /\ p.gfdt # None => IsAsked(p.gfdt.file)
        /\ data.fdt # None => p.gfdt = gfdt
        /\ data.fdt = None /\ HasOverlays /\ own # None =>
             p.gfdt # None /\ p.gfdt.addr = Addr("gfdt")
    <2>1. CASE ~HasOverlays
      BY <1>t, <1>1, <2>1 DEF Base, Types, OriginInv
    <2>2. CASE HasOverlays
      <3> DEFINE d == LoadDefaultDtb(gfdt, mem)
                 f == FetchFdt(d.gfdt, d.mem)
      <3>1. p = IF data.fdt # None THEN [gfdt |-> gfdt, mem |-> mem, ok |-> TRUE]
                ELSE IF d.ok \/ DependsOnLoader(cf.defaultDtb) THEN d
                ELSE IF oom /\ d.gfdt = None /\ table # None THEN d
                ELSE [gfdt |-> f.gfdt, mem |-> f.mem, ok |-> TRUE]
        BY <1>1, <2>2, Zenon DEF Base, PrepareDtoverlayFdt
      <3>2. /\ d.gfdt # None => IsAsked(d.gfdt.file)
            /\ own # None => d.ok /\ d.gfdt # None /\ d.gfdt.addr = Addr("gfdt")
        <4>1. gfdt # None => IsAsked(gfdt.file)
          BY <1>t DEF OriginInv
        <4> QED BY <1>t, <4>1, LoadOrigin, Zenon DEF OriginInv
      <3>3. f.gfdt # None => IsAsked(f.gfdt.file)
        BY <1>t, <3>2, FetchOrigin
      <3>4. p.gfdt \in TreeOf(cf) \cup {None}
        BY <1>p, <1>1, <2>2, PrepareKeeps DEF Base, LoadersTree
      <3> HIDE DEF d, f, own
      <3>5. p.gfdt # None => IsAsked(p.gfdt.file)
        BY <1>t, <3>1, <3>2, <3>3 DEF OriginInv
      <3>6. data.fdt # None => p.gfdt = gfdt
        BY <3>1
      <3>7. data.fdt = None /\ own # None =>
              p.gfdt # None /\ p.gfdt.addr = Addr("gfdt")
        BY <3>1, <3>2
      <3> QED BY <3>4, <3>5, <3>6, <3>7
    <2> QED BY <2>1, <2>2
  <1>3. t \in TreeOf(cf) \cup {None}
    BY <1>t, <1>1, <1>2 DEF Types, Target
  <1>4. /\ t = None => r.tree = None
        /\ t # None => /\ r.tree # None /\ r.tree.addr = t.addr
                       /\ r.tree.file = t.file
    BY <1>t, <1>p, <1>1, <1>3, ResultTree
  <1> HIDE DEF own
  <1>5. /\ g # None => IsAsked(g.file)
        /\ data.fdt = None /\ HasOverlays /\ own # None =>
             g # None /\ g.addr = Addr("gfdt")
    <2>1. CASE data.fdt # None
      BY <1>2, <2>1 DEF Loaders
    <2>2. CASE data.fdt = None
      <3>1. t = p.gfdt /\ g = r.tree
        BY <1>1, <2>2 DEF Target, Loaders
      <3> HIDE DEF g
      <3> QED BY <1>2, <1>4, <3>1
    <2> QED BY <2>1, <2>2
  <1>6. CASE ~Continue(r.ok)
    <2>1. /\ cur' = None /\ data' = NoData /\ gfdt' = g
          /\ UNCHANGED <<sit, table, ktype>>
      BY <1>1, <1>6 DEF GivesUp
    <2>2. data'.fdt = None
      BY <2>1 DEF NoData
    <2> HIDE DEF g
    <2>3. gfdt' # None => IsAsked(gfdt'.file)
      BY <1>5, <2>1
    <2>4. ktype' \in Ktypes(cf)
      BY <1>t, <2>1 DEF OriginInv
    <2> QED BY <2>1, <2>2, <2>3, <2>4, TreesIdle
  <1>7. CASE Continue(r.ok)
    <2>1. /\ gfdt' = g
          /\ data' = IF data.fdt = None THEN data ELSE [data EXCEPT !.fdt = r.tree]
          /\ pc' = BootPath(entry, g)
          /\ UNCHANGED <<sit, attempt, cur, ktype, table>>
      BY <1>1, <1>7 DEF GoesOn, KeepBoot
    <2>2. /\ cf' = cf /\ entry' = entry /\ HasOverlays' = HasOverlays
          /\ own' = own /\ Addr("gfdt")' = Addr("gfdt")
      BY <2>1, WantedStays DEF Addr, own
    <2> HIDE DEF g
    <2>3. OriginInv'
      BY <1>t, <1>5, <2>1, <2>2, AskedStays DEF OriginInv
    <2>4. /\ data.fdt = None => data'.fdt = None
          /\ data.fdt # None => data'.fdt # None /\ data'.fdt.file = data.fdt.file
      <3>1. CASE data.fdt = None
        BY <2>1, <3>1
      <3>2. CASE data.fdt # None
        <4>1. data'.fdt = r.tree /\ t = data.fdt
          BY <1>t, <1>1, <2>1, <3>2 DEF Types, Target
        <4> QED BY <1>4, <3>2, <4>1
      <3> QED BY <3>1, <3>2
    <2>5. /\ pc' \in {"image64", "install", "prepare"}
          /\ pc' = "prepare" => data.fdt = None
      BY <2>1 DEF BootPath
    <2>6. entry.devicetree # None => data.fdt # None
      BY <1>t, <1>p DEF SourceInv, Reading, Loading
    <2>7. data.fdt # None => /\ entry.devicetree # None
                             /\ data.fdt.file = <<entry.root, entry.devicetree>>
      BY <1>t DEF SourceInv
    <2>8. data.fdt = None /\ gfdt' # None /\ HasOverlays /\ own # None =>
            gfdt'.addr = Addr("gfdt")
      BY <1>5, <2>1
    <2>9. SourceInv'
      BY <2>2, <2>4, <2>5, <2>6, <2>7, <2>8
         DEF SourceInv, Reading, Loading, Preparing, Running, own
    <2> QED BY <2>3, <2>9 DEF TreesInv
  <1> QED BY <1>6, <1>7

\* embloader_prepare_boot reads a tree when overlays did not ask for one before.
LEMMA PrepareTrees ==
    ASSUME MemInv, PathInv, PolicyInv, TreesInv, PrepareTree
    PROVE  TreesInv'
  <1>t. Types /\ OriginInv /\ SourceInv
    BY DEF MemInv, TreesInv
  <1>p. pc = "prepare" /\ UNCHANGED <<sit, attempt, cur, ktype, table, data>>
    BY DEF PrepareTree, KeepBoot
  <1>1. PICK oom \in BOOLEAN :
          /\ gfdt' = IF Reverts(oom) THEN Found(oom).gfdt ELSE Prepared(oom).tree
          /\ pc' = IF Prepared(oom).count >= 0 \/ Reverts(oom)
                   THEN "installPrepared" ELSE "unprepared"
    BY PrepareTreeIs, Zenon
  <1> DEFINE g == Found(oom).gfdt
  <1>2. g \in TreeOf(cf) \cup {None}
    <2>1. LoadersTree(gfdt, mem) /\ pc # "os"
      BY <1>p DEF MemInv, Types, Places, Ledger, LoadersTree, Kept, Rest
    <2>2. LoadersTree(Default.gfdt, Default.mem)
      BY <2>1, LoadDefaultKeeps DEF Default
    <2>3. LoadersTree(g, Found(oom).mem)
      BY <2>2, FetchKeeps DEF Found
    <2> QED BY <2>3 DEF LoadersTree
  <1>3. g # None => IsAsked(g.file)
    <2>1. Default.gfdt # None => IsAsked(Default.gfdt.file)
      BY <1>t, LoadOrigin, Zenon DEF Default, OriginInv
    <2>2. LET f == FetchFdt(Default.gfdt, Default.mem)
          IN  f.gfdt # None => IsAsked(f.gfdt.file)
      BY <1>t, <2>1, FetchOrigin
    <2>3. g = Default.gfdt \/ g = FetchFdt(Default.gfdt, Default.mem).gfdt
      BY DEF Found
    <2> QED BY <2>1, <2>2, <2>3
  <1>4. gfdt' # None => IsAsked(gfdt'.file)
    <2>1. CASE gfdt' = g
      BY <1>3, <2>1
    <2>2. CASE gfdt' # g
      <3>1. gfdt' = Prepared(oom).tree /\ ~Stop(oom)
        BY <1>1, <2>2 DEF Prepared
      <3>2. gfdt' = [g EXCEPT !.ovs = Configured(oom).ovs] /\ g # None
        BY <3>1 DEF Prepared, Stop
      <3> DEFINE o == Configured(oom).ovs
      <3> HIDE DEF g, o
      <3>3. gfdt'.file = g.file
        BY <1>2, <3>2 DEF TreeOf, o
      <3> QED BY <1>3, <3>2, <3>3
    <2> QED BY <2>1, <2>2
  <1> HIDE DEF g
  <1>5. OriginInv'
    <2>1. cf' = cf
      BY <1>p DEF cf
    <2> QED BY <1>t, <1>p, <1>4, <2>1, AskedStays DEF OriginInv
  <1>6. SourceInv'
    <2> DEFINE own == DefaultDtb(cf, Disk, entry, ktype)
    <2>1. entry' = entry /\ HasOverlays' = HasOverlays /\ own' = own
      BY <1>p, WantedStays
    <2>2. pc' \in {"installPrepared", "unprepared"}
      BY <1>1
    <2>3. cur # None /\ entry.kernel # None =>
            /\ data.fdt = None /\ (HasOverlays => own = None)
      BY <1>p DEF PolicyInv, FreshInv
    <2> HIDE DEF own
    <2>4. data.fdt = None => entry.devicetree = None \/ cur = None
                               \/ entry.kernel = None
      BY <1>t, <1>p DEF SourceInv, Reading, Loading
    <2> QED BY <1>t, <1>p, <2>1, <2>2, <2>3, <2>4
            DEF SourceInv, Preparing, Running, own
  <1> QED BY <1>5, <1>6 DEF TreesInv

\* linux_install_fdt.
LEMMA InstallTrees ==
    ASSUME MemInv, PathInv, TreesInv, InstallFdt
    PROVE  TreesInv'
  <1>t. Types /\ OriginInv /\ SourceInv
    BY DEF MemInv, TreesInv
  <1>1. /\ pc \in {"install", "installPrepared"}
        /\ UNCHANGED <<sit, attempt, cur, ktype, gfdt, data>>
        /\ \/ /\ table' = [SourceTree EXCEPT !.addr = Addr("table")]
              /\ pc' = IF cur = None THEN "returned"
                       ELSE IF entry.type = "linux" THEN "image64"
                       ELSE "register"
           \/ /\ table' = table
              /\ pc' = IF pc = "install" THEN "clean" ELSE "unprepared"
    BY DEF InstallFdt
  <1>2. CASE table' = table /\ pc' = IF pc = "install" THEN "clean" ELSE "unprepared"
    <2>1. /\ pc' \in {"clean", "unprepared"}
          /\ pc' \in Preparing => pc \in Preparing
      BY <1>1, <1>2 DEF Preparing
    <2> QED BY <1>1, <1>2, <2>1, TreesMove DEF Loading, Reading, Running
  <1>3. ASSUME table' = [SourceTree EXCEPT !.addr = Addr("table")],
               pc' = IF cur = None THEN "returned"
                     ELSE IF entry.type = "linux" THEN "image64" ELSE "register"
        PROVE  TreesInv'
    <2>1. SourceTree # None /\ SourceTree \in TreeOf(cf)
      BY <1>t, <1>1 DEF MemInv, Phases, Types, SourceTree
    <2>2. /\ table'.addr = Addr("table") /\ table'.file = SourceTree.file
          /\ table' # None
      <3>1. Addr("table") \in Address
        BY <1>t, AddrIs DEF Uses
      <3>2. table' \in TreeOf(cf)
        BY <1>3, <2>1, <3>1, TreeParts
      <3> QED BY <1>3, <1>t, <2>1, <3>2, NoneIsNoAddress DEF TreeOf
    <2>3. IsAsked(SourceTree.file)
      <3>1. CASE data.fdt = None
        BY <1>t, <2>1, <3>1 DEF SourceTree, OriginInv
      <3>2. CASE data.fdt # None
        <4>1. SourceTree.file = <<entry.root, entry.devicetree>>
          BY <1>t, <3>2 DEF SourceTree, SourceInv
        <4>2. cur \in DOMAIN cf.entries /\ entry = cf.entries[cur]
          BY <1>t, <3>2 DEF MemInv, Phases, NoData, Types, entry
        <4> QED BY <4>1, <4>2 DEF IsAsked
      <3> QED BY <3>1, <3>2
    <2> DEFINE own == DefaultDtb(cf, Disk, entry, ktype)
    <2>4. /\ cf' = cf /\ entry' = entry /\ HasOverlays' = HasOverlays
          /\ own' = own
          /\ Addr("table")' = Addr("table") /\ Addr("gfdt")' = Addr("gfdt")
      BY <1>1, WantedStays DEF Addr
    <2>5. OriginInv'
      BY <1>t, <1>1, <2>2, <2>3, <2>4, AskedStays DEF OriginInv
    <2>6. pc' \in {"returned", "image64", "register"} /\ pc \notin Loading
          /\ pc \notin Reading
      BY <1>1, <1>3 DEF Loading, Reading
    <2> HIDE DEF own
    <2>7. SourceInv'
      BY <1>t, <1>1, <2>2, <2>4, <2>6 DEF SourceInv, Preparing, own
    <2> QED BY <2>5, <2>7 DEF TreesInv
  <1> QED BY <1>1, <1>2, <1>3

\* Every step keeps where the trees are from.
LEMMA TreesStep ==
    ASSUME MemInv, PathInv, PolicyInv, TreesInv, [Next]_vars
    PROVE  TreesInv'
  <1>t. Types /\ OriginInv /\ SourceInv
    BY DEF MemInv, TreesInv
  <1>k. cur = None => pc \in {"idle", "prepare", "unprepared",
                              "installPrepared", "returned"}
    BY DEF MemInv, Phases
  <1>1. CASE UNCHANGED vars
    BY <1>1, TreesMove DEF vars
  <1>2. CASE \E e \in DOMAIN cf.entries : BootEntry(e)
    <2>1. PICK e \in DOMAIN cf.entries : BootEntry(e)
      BY <1>2
    <2>2. /\ pc = "idle" /\ sit' = sit /\ cur' = e /\ data' = data
          /\ table' = table /\ ktype' \in KtypesOf(cf.entries[e])
          /\ gfdt' = gfdt \/ gfdt' = None
          /\ pc' = IF cf.entries[e].kernel = None THEN "image" ELSE "kernel"
      BY <2>1 DEF BootEntry
    <2>3. cf' = cf /\ entry' = cf.entries[e] /\ data'.fdt = None
      <3>1. cf' = cf /\ e # None
        BY <1>t, <2>2, NoneIsNoAddress DEF cf
      <3>2. data'.fdt = None
        BY <2>2 DEF MemInv, Phases, NoData
      <3> QED BY <2>2, <3>1, <3>2 DEF entry
    <2>4. ktype' \in Ktypes(cf')
      BY <1>t, <2>2, <2>3 DEF KtypesOf, Ktypes, OriginInv
    <2>5. OriginInv'
      BY <1>t, <2>2, <2>4, AskedStays DEF OriginInv
    <2>6. SourceInv'
      BY <2>2, <2>3 DEF SourceInv, Reading, Loading, Preparing, Running
    <2> QED BY <2>5, <2>6 DEF TreesInv
  <1>3. CASE PrepareOnly \/ \E e \in DOMAIN cf.entries : BootRefused(e)
    <2>1. /\ pc = "idle" /\ UNCHANGED <<sit, cur, data, gfdt, table>>
          /\ ktype' \in Ktypes(cf)
      <3>1. CASE PrepareOnly
        BY <1>t, <3>1 DEF PrepareOnly, OriginInv
      <3>2. CASE \E e \in DOMAIN cf.entries : BootRefused(e)
        BY <1>t, <3>2 DEF BootRefused, KtypesOf, Ktypes, OriginInv
      <3> QED BY <1>3, <3>1, <3>2
    <2>2. cur' = None /\ data'.fdt = None
      BY <2>1 DEF MemInv, Phases, NoData
    <2> QED BY <1>t, <2>1, <2>2, TreesIdle DEF OriginInv
  <1>4. CASE LoadKernel \/ ReadInitramfs \/ JoinInitramfs \/ LoadBootargs
    <2>1. CASE \E more : Abandon(more)
      BY <2>1, TreesAbandon
    <2>2. CASE ~\E more : Abandon(more)
      <3>1. /\ pc \in Reading /\ pc' \in Reading
            /\ UNCHANGED <<sit, attempt, cur, ktype, gfdt, table>>
            /\ \/ data' = data
               \/ \E v : data' = [data EXCEPT !.kernel = v]
               \/ \E v : data' = [data EXCEPT !.initramfs = v]
               \/ \E v : data' = [data EXCEPT !.bootargs = v]
        BY <1>4, <2>2 DEF LoadKernel, ReadInitramfs, JoinInitramfs, LoadBootargs,
                          KeepBoot, Reading, Loading
      <3>2. data'.fdt = data.fdt
        BY <1>t, <3>1 DEF Types
      <3> QED BY <3>1, <3>2, TreesMove DEF Reading, Loading, Preparing, Running
    <2> QED BY <2>1, <2>2
  <1>5. CASE LoadDevicetree
    <2>1. CASE \E more : Abandon(more)
      BY <2>1, TreesAbandon
    <2>2. CASE ~\E more : Abandon(more)
      <3>1. /\ pc = "devicetree" /\ pc' = "overlays"
            /\ UNCHANGED <<sit, attempt, cur, ktype, gfdt, table>>
            /\ \/ data' = data /\ entry.devicetree = None
               \/ /\ entry.devicetree \in DOMAIN Disk
                  /\ data' = [data EXCEPT !.fdt =
                                Tree(Addr("dtb"), <<Root, entry.devicetree>>)]
        BY <1>5, <2>2 DEF LoadDevicetree, KeepBoot
      <3>2. CASE data' = data /\ entry.devicetree = None
        BY <3>1, <3>2, TreesMove DEF Reading, Loading, Preparing, Running
      <3>3. ASSUME entry.devicetree \in DOMAIN Disk,
                   data' = [data EXCEPT !.fdt =
                              Tree(Addr("dtb"), <<Root, entry.devicetree>>)]
            PROVE  TreesInv'
        <4>1. /\ data'.fdt = Tree(Addr("dtb"), <<Root, entry.devicetree>>)
              /\ data'.fdt.file = <<Root, entry.devicetree>>
          BY <1>t, <3>3 DEF Types, Tree
        <4>2. /\ entry' = entry /\ cf' = cf /\ Root = entry.root
              /\ entry.devicetree # None
          <5>1. Root = entry.root
            BY <1>k, <3>1 DEF Root
          <5> QED BY <1>t, <3>1, <3>3, <5>1, WantedStays, Machine
        <4>3. data'.fdt # None
          <5>1. <<Root, entry.devicetree>> \in Files(cf)
            BY <1>t, <3>3, Machine
          <5>2. Addr("dtb") \in Address
            BY <1>t, AddrIs DEF Uses
          <5> QED BY <1>t, <4>1, <5>1, <5>2, NewTree, NoneIsNoAddress
        <4>4. OriginInv'
          BY <1>t, <3>1, <4>2, AskedStays DEF OriginInv
        <4>5. SourceInv'
          BY <3>1, <4>1, <4>2, <4>3
             DEF SourceInv, Reading, Loading, Preparing, Running
        <4> QED BY <4>4, <4>5 DEF TreesInv
      <3> QED BY <3>1, <3>2, <3>3
    <2> QED BY <2>1, <2>2
  <1>6. CASE LoadDtoverlay
    BY <1>6, OverlaysTrees
  <1>7. CASE PrepareTree
    BY <1>7, PrepareTrees
  <1>8. CASE Unprepared
    <2>1. CASE \E more : Abandon(more)
      BY <2>1, TreesAbandon
    <2>2. CASE ~\E more : Abandon(more)
      <3>1. /\ pc = "unprepared"
            /\ pc' = IF cur = None THEN "returned" ELSE "register"
            /\ UNCHANGED <<sit, attempt, cur, ktype, gfdt, table, data>>
        BY <1>8, <2>2 DEF Unprepared, KeepBoot
      <3>2. pc' = "register" => data.fdt = None \/ (cur # None /\ entry.kernel = None)
        BY <1>t, <3>1 DEF SourceInv, Preparing
      <3> QED BY <3>1, <3>2, TreesMove DEF Reading, Loading, Preparing, Running
    <2> QED BY <2>1, <2>2
  <1>9. CASE InstallFdt
    BY <1>9, InstallTrees
  <1>10. CASE Register \/ LoadImage \/ OsTakesOver \/ ImageReturns \/ UnloadImage
    <2>1. /\ pc \in Running \cup {"handoff"}
          /\ pc' \in Running \cup {"clean", "os"}
          /\ pc = "handoff" => pc' = "os"
          /\ UNCHANGED <<sit, attempt, cur, ktype, gfdt, table, data>>
      BY <1>10 DEF Register, LoadImage, OsTakesOver, ImageReturns, UnloadImage,
                   KeepBoot, Running, AfterFailedRegister
    <2> QED BY <2>1, TreesMove DEF Reading, Loading, Preparing, Running
  <1>11. CASE Unregister
    <2>1. /\ pc = "unregister" /\ pc' = "clean"
          /\ UNCHANGED <<sit, attempt, cur, ktype, gfdt, table>>
          /\ data' = data \/ data' = [data EXCEPT !.initramfs = None]
      BY <1>11 DEF Unregister, InitramfsKept
    <2>2. data'.fdt = data.fdt
      BY <1>t, <2>1 DEF Types
    <2> QED BY <2>1, <2>2, TreesMove DEF Reading, Loading, Preparing, Running
  <1>12. CASE Clean \/ HandoffFails
    BY <1>12, TreesAbandon DEF Clean, HandoffFails
  <1>13. CASE PrepareImage
    <2>1. CASE \E more : Abandon(more)
      BY <2>1, TreesAbandon
    <2>2. CASE ~\E more : Abandon(more)
      <3>1. /\ pc = "image64" /\ pc' \in {"image64", "handoff"}
            /\ UNCHANGED <<sit, attempt, cur, ktype, gfdt, table, data>>
        BY <1>13, <2>2 DEF PrepareImage
      <3> QED BY <3>1, TreesMove DEF Reading, Loading, Preparing, Running
    <2> QED BY <2>1, <2>2
  <1>14. CASE Handoff
    <2>1. UNCHANGED <<sit, attempt, pc, cur, ktype, gfdt, table, data>>
      BY <1>14 DEF Handoff
    <2> QED BY <2>1, TreesMove
  <1> QED
    BY <1>1, <1>2, <1>3, <1>4, <1>5, <1>6, <1>7, <1>8, <1>9, <1>10, <1>11,
       <1>12, <1>13, <1>14 DEF Next

\* A tree of the loader is the entry's default one or left over.
LEMMA LoadersTreeIs ==
    ASSUME MemInv, DefaultInv, TreesInv, cur # None, entry.kernel # None,
           pc \notin Loading, data.fdt = None, gfdt # None
    PROVE  \/ IsDefaultFor(gfdt.file, entry, ktype)
           \/ /\ ~PathHas("{version}")
              /\ ~HasDefault \/ ~HasOverlays
              /\ IsLeftOver(gfdt.file)
  <1> DEFINE own == DefaultDtb(cf, Disk, entry, ktype)
  <1>t. Types /\ OriginInv /\ SourceInv
    BY DEF MemInv, TreesInv
  <1>1. CASE gfdt.addr = Addr("gfdt") \/ DependsOnLoader(cf.defaultDtb)
    <2>1. own # None /\ gfdt.file = <<Root, own>>
      BY <1>1 DEF DefaultInv, DefaultOf
    <2>2. IsDefaultFor(<<Root, own>>, entry, ktype)
      BY <1>t, <2>1, FoundIsDefault
    <2> HIDE DEF own
    <2> QED BY <2>1, <2>2
  <1>2. CASE gfdt.addr # Addr("gfdt") /\ ~DependsOnLoader(cf.defaultDtb)
    <2>1. ~PathHas("{version}")
      BY <1>2 DEF PathHas, DependsOnLoader
    <2>2. ~HasOverlays \/ own = None
      BY <1>t, <1>2 DEF SourceInv
    <2>3. own = None => ~HasDefault
      <3> DEFINE ps == ResolvePath(cf, entry, ktype, cf.defaultDtb)
                 hit == {i \in DOMAIN ps : ps[i] \in DOMAIN Disk}
                 i0 == CHOOSE i \in hit : \A j \in hit : i >= j
      <3> SUFFICES ASSUME HasDefault PROVE own # None
        OBVIOUS
      <3>1. own = IF hit = {} THEN None ELSE ps[i0]
        BY Zenon DEF DefaultDtb
      <3>2. hit # {}
        BY DEF HasDefault, DefaultPaths, Range
      <3>3. Len(ps) \in Nat /\ DOMAIN ps = 1..Len(ps)
        <4>1. IsSeqn(cf.profiles)
          BY <1>t, Machine
        <4>2. IsSeqn(ps)
          BY <4>1, ResolvePathIsSeqn
        <4> HIDE DEF ps
        <4> QED BY <4>2, SeqnShape
      <3> HIDE DEF ps, own
      <3>4. hit \in SUBSET (1..Len(ps))
        BY <3>3
      <3>5. \E i \in hit : \A j \in hit : i >= j
        <4> HIDE DEF hit
        <4> QED BY <3>2, <3>3, <3>4, GreatestMember
      <3>6. i0 \in hit
        <4> HIDE DEF hit
        <4> QED BY <3>5
      <3> HIDE DEF i0
      <3>7. ps[i0] \in DOMAIN Disk
        BY <3>6
      <3> QED BY <1>t, <3>1, <3>2, <3>7, Machine
    <2> HIDE DEF own
    <2>4. IsAsked(gfdt.file)
      BY <1>t DEF OriginInv
    <2>5. CASE IsLeftOver(gfdt.file)
      BY <2>1, <2>2, <2>3, <2>5
    <2>6. CASE ~IsLeftOver(gfdt.file)
      <3>1. PICK n \in DOMAIN cf.entries, k \in Ktypes(cf) :
              IsDefaultFor(gfdt.file, cf.entries[n], k)
        BY <2>4, <2>6 DEF IsAsked, IsLeftOver
      <3>2. cf.entries[n].root = entry.root /\ ~PathHas("{ktype}")
        BY <2>6, <3>1, Zenon DEF IsLeftOver
      <3>3. cf.entries[n] # None /\ entry # None
        BY <1>t, SituationAssumption DEF Types, cf, entry
      <3>4. cf.defaultDtb # None => IsFixed(cf.defaultDtb)
        BY <2>1, <3>2, Zenon DEF PathHas, IsFixed
      <3>5. DefaultPaths(cf.entries[n], k) = DefaultPaths(entry, ktype)
        <4> DEFINE path == cf.defaultDtb
        <4>1. path # None => IsFixed(path)
          BY <3>4, Zenon
        <4> HIDE DEF path
        <4>2. ResolvePath(cf, cf.entries[n], k, path) = ResolvePath(cf, entry, ktype, path)
          BY <3>3, <4>1, SamePaths
        <4> QED BY <4>2, Zenon DEF DefaultPaths, path
      <3>6. IsDefaultFor(gfdt.file, entry, ktype)
        BY <3>1, <3>2, <3>5 DEF IsDefaultFor
      <3> QED BY <3>6
    <2> QED BY <2>5, <2>6
  <1> QED BY <1>1, <1>2

\* With the table it gives the property.
LEMMA TreesImply ==
    ASSUME MemInv, DefaultInv, PathInv, PolicyInv, TreesInv PROVE OwnTree
  <1> SUFFICES ASSUME Starting, GivenTree # None
               PROVE  IF entry.devicetree # None
                      THEN GivenTree.file = <<entry.root, entry.devicetree>>
                      ELSE entry.type = "linux" \/ GivenTree.addr = Addr("table") =>
                             \/ IsDefaultFor(GivenTree.file, entry, ktype)
                             \/ /\ ~PathHas("{version}")
                                /\ ~HasDefault \/ ~HasOverlays
                                /\ IsLeftOver(GivenTree.file)
    BY Zenon DEF OwnTree
  <1>1. /\ pc \in {"start", "handoff"} /\ cur # None /\ entry.kernel # None
        /\ pc = "handoff" => entry.type = "linux"
    BY DEF Starting, MemInv, Phases, PathInv
  <1>2. pc \notin Loading /\ pc \notin Reading
    BY <1>1 DEF Loading, Reading
  <1>3. GivenTree = SourceTree \/ (entry.type # "linux" /\ GivenTree = table)
    BY DEF GivenTree
  <1>4. table # None /\ table.addr = Addr("table") =>
          SourceTree # None /\ table.file = SourceTree.file
    BY <1>1 DEF PolicyInv, TableInv
  <1>5. CASE entry.devicetree # None
    <2>1. data.fdt # None /\ data.fdt.file = <<entry.root, entry.devicetree>>
      BY <1>1, <1>2, <1>5 DEF TreesInv, SourceInv
    <2>2. SourceTree = data.fdt
      BY <2>1 DEF SourceTree
    <2>3. entry.type # "linux" => table # None /\ table.addr = Addr("table")
      BY <1>1, <2>1 DEF TreesInv, SourceInv, Running
    <2>4. GivenTree.file = <<entry.root, entry.devicetree>>
      BY <1>3, <1>4, <2>1, <2>2, <2>3
    <2> QED BY <1>5, <2>4
  <1>6. CASE entry.devicetree = None
    <2> SUFFICES ASSUME entry.type = "linux" \/ GivenTree.addr = Addr("table")
                 PROVE  \/ IsDefaultFor(GivenTree.file, entry, ktype)
                        \/ /\ ~PathHas("{version}")
                           /\ ~HasDefault \/ ~HasOverlays
                           /\ IsLeftOver(GivenTree.file)
      BY <1>6, Zenon
    <2>1. data.fdt = None
      BY <1>6 DEF TreesInv, SourceInv
    <2>2. SourceTree = gfdt
      BY <2>1 DEF SourceTree
    <2>3. gfdt # None /\ GivenTree.file = gfdt.file
      <3>1. CASE GivenTree = SourceTree
        BY <2>2, <3>1
      <3>2. CASE entry.type # "linux" /\ GivenTree = table
        BY <1>4, <2>2, <3>2
      <3> QED BY <1>3, <3>1, <3>2
    <2> QED BY <1>1, <1>2, <2>1, <2>3, LoadersTreeIs
  <1> QED BY <1>5, <1>6

\* Whatever earlier attempts left in g_embloader.fdt and in the configuration
\* table, a kernel starts with the tree that its entry names; with the default
\* one of this entry, if its path has {version} or an overlay was asked for; and
\* else with the default one or one of those that are said to be left over.
THEOREM TreeIsOwn == Spec => []OwnTree
<1> DEFINE Inv == MemInv /\ DefaultInv /\ InputInv /\ PolicyInv /\ TreesInv
<1>1. Init => Inv
  <2> SUFFICES ASSUME Init PROVE Inv
    OBVIOUS
  <2>1. DefaultInv /\ InputInv
    BY DEF Init, DefaultInv, DefaultOf, InputInv, PathInv, EntryInv, ChosenInv
  <2>2. TableInv /\ FreshInv
    BY DEF Init, TableInv, FreshInv, FirmwareTree, Tree
  <2>3. OriginInv
    <3>1. ktype \in Ktypes(cf)
      BY DEF Init, Ktypes
    <3> QED BY <3>1 DEF Init, OriginInv, IsAsked
  <2>4. SourceInv
    BY DEF Init, SourceInv, NoData
  <2> QED BY <2>1, <2>2, <2>3, <2>4, MemInit DEF PolicyInv, TreesInv
<1>2. Inv /\ [Next]_vars => Inv'
  <2>1. InputInv => PathInv
    BY DEF InputInv
  <2> QED BY <2>1, MemStep, DefaultStep, InputStep, PolicyStep, TreesStep
<1>3. Inv => OwnTree
  BY TreesImply DEF InputInv
<1> QED
  BY <1>1, <1>2, <1>3, PTL DEF Spec

-----------------------------------------------------------------------------
ExitState ==
    [at : {"off", "get", "call", "done", "failed"}, tries : Nat,
     capacity : Nat, size : Nat, stale : BOOLEAN, events : Nat,
     refused : BOOLEAN]

\* How many attempts can have been spent by now: before GetMemoryMap, with a
\* buffer that is large enough or not, and before ExitBootServices, with a key
\* that is current or not.  After a second event nothing is claimed.
Spent ==
    exit.events < 2 =>
      /\ exit.at = "get" /\ exit.size > exit.capacity =>
            exit.tries <= IF exit.events = 0 THEN 0 ELSE 2
      /\ exit.at = "get" /\ exit.size <= exit.capacity =>
            exit.tries <= IF exit.events = 0 THEN 1 ELSE 3
      /\ exit.at = "call" =>
            /\ exit.events = 0 => ~exit.stale /\ exit.tries <= 2
            /\ exit.stale => exit.tries <= 2

ExitInv == exit \in ExitState /\ Spent /\ ExitSurvivesOneChange

\* Only invoke_boot runs the loop; every other step leaves it or starts over.
LEMMA ExitChanges ==
    ASSUME [Next]_vars
    PROVE  exit' = exit \/ exit' = NotExiting \/ StartExit \/ ExitStep
<1>1. CASE UNCHANGED vars
  BY <1>1 DEF vars
<1>2. CASE \E e \in DOMAIN cf.entries : BootEntry(e) \/ BootRefused(e)
  BY <1>2 DEF BootEntry, BootRefused
<1>3. CASE LoadKernel \/ ReadInitramfs \/ JoinInitramfs \/ LoadBootargs
  BY <1>3 DEF LoadKernel, ReadInitramfs, JoinInitramfs, LoadBootargs, Abandon,
              CleanUp, KeepBoot
<1>4. CASE LoadDevicetree
  BY <1>4 DEF LoadDevicetree, Abandon, CleanUp, KeepBoot
<1>5. CASE LoadDtoverlay
  BY <1>5 DEF LoadDtoverlay, KeepBoot
<1>6. CASE PrepareTree \/ Unprepared
  BY <1>6 DEF PrepareTree, Unprepared, Abandon, CleanUp, KeepBoot
<1>7. CASE InstallFdt \/ PrepareOnly
  BY <1>7 DEF InstallFdt, PrepareOnly
<1>8. CASE Register \/ LoadImage \/ OsTakesOver
  BY <1>8 DEF Register, LoadImage, OsTakesOver, Abandon, CleanUp, KeepBoot
<1>9. CASE ImageReturns \/ UnloadImage \/ Unregister \/ Clean
  BY <1>9 DEF ImageReturns, UnloadImage, Unregister, Clean, Abandon, CleanUp, KeepBoot
<1>10. CASE PrepareImage \/ HandoffFails
  BY <1>10 DEF PrepareImage, HandoffFails, Abandon, CleanUp
<1>11. CASE Handoff
  BY <1>11 DEF Handoff
<1> QED
  BY <1>1, <1>2, <1>3, <1>4, <1>5, <1>6, <1>7, <1>8, <1>9, <1>10, <1>11
  DEF Next

LEMMA ExitStarts == exit = NotExiting => ExitInv
  BY DEF NotExiting, ExitInv, ExitState, Spent, ExitSurvivesOneChange

\* A step of the loop spends an attempt at most where Spent leaves room for it.
LEMMA ExitStepKeeps == ASSUME ExitInv, ExitStep PROVE ExitInv'
<1> USE DEF ExitInv, ExitState
<1>1. CASE GetMemoryMap
  <2> DEFINE e == [exit EXCEPT !.tries = @ + 1]
  <2>e. e \in ExitState
    BY Z3
  <2>1. ASSUME NEW n \in MapSizes,
               exit.at = "get", exit.size > exit.capacity,
               n <= exit.size + PoolGrowth,
               exit' = [e EXCEPT !.capacity = exit.size + Slack, !.size = n]
        PROVE  ExitInv'
    <3>1. n \in Nat /\ Slack \in Nat /\ PoolGrowth \in Nat
      BY ExitAssumption
    <3>2. exit' \in ExitState
      <4>1. exit.size + Slack \in Nat
        BY <3>1
      <4> HIDE DEF e
      <4> QED
        BY <2>1, <2>e, <3>1, <4>1
    <3>3. /\ exit'.at = "get" /\ exit'.tries = exit.tries + 1
          /\ exit'.size = n /\ exit'.capacity = exit.size + Slack
          /\ exit'.events = exit.events
      BY <2>1
    <3>4. exit'.size <= exit'.capacity
      BY <3>1, <3>3, <2>1, ExitAssumption
    <3>5. Spent'
      BY <2>1, <3>1, <3>2, <3>3, <3>4 DEF Spent
    <3> QED
      BY <3>2, <3>3, <3>5 DEF ExitSurvivesOneChange
  <2>2. ASSUME exit.at = "get", exit.size <= exit.capacity,
               exit' = [e EXCEPT !.at = "call", !.stale = FALSE]
        PROVE  ExitInv'
    <3>1. exit' \in ExitState
      <4> HIDE DEF e
      <4> QED
        BY <2>2, <2>e
    <3>2. /\ exit'.at = "call" /\ exit'.tries = exit.tries + 1
          /\ exit'.stale = FALSE /\ exit'.events = exit.events
      BY <2>2
    <3>3. Spent'
      BY <2>2, <3>1, <3>2 DEF Spent
    <3> QED
      BY <3>1, <3>2, <3>3 DEF ExitSurvivesOneChange
  <2>3. ASSUME exit' = [e EXCEPT !.at = "failed", !.refused = TRUE]
        PROVE  ExitInv'
    <3>1. exit' \in ExitState
      <4> HIDE DEF e
      <4> QED
        BY <2>3, <2>e
    <3>2. exit'.at = "failed" /\ exit'.refused = TRUE
      BY <2>3
    <3> QED
      BY <3>1, <3>2 DEF Spent, ExitSurvivesOneChange
  <2> QED
    BY <1>1, <2>1, <2>2, <2>3 DEF GetMemoryMap
<1>2. CASE CallExit
  <2>1. ASSUME exit' = [exit EXCEPT !.at = "done"] PROVE ExitInv'
    BY <2>1 DEF Spent, ExitSurvivesOneChange
  <2>2. ASSUME exit.at = "call", exit.stale, exit' = [exit EXCEPT !.at = "get"]
        PROVE  ExitInv'
    <3>1. exit' \in ExitState
      BY <2>2
    <3>2. /\ exit'.at = "get" /\ exit'.tries = exit.tries
          /\ exit'.events = exit.events
      BY <2>2
    <3>3. exit.events < 2 => exit.events = 1 /\ exit.tries <= 2
      BY <2>2 DEF Spent
    <3>4. Spent'
      BY <3>1, <3>2, <3>3 DEF Spent
    <3> QED
      BY <3>1, <3>2, <3>4 DEF ExitSurvivesOneChange
  <2>3. ASSUME exit' = [exit EXCEPT !.at = "failed", !.refused = TRUE]
        PROVE  ExitInv'
    <3>1. exit' \in ExitState
      BY <2>3
    <3>2. exit'.at = "failed" /\ exit'.refused = TRUE
      BY <2>3
    <3> QED
      BY <3>1, <3>2 DEF Spent, ExitSurvivesOneChange
  <2> QED
    BY <1>2, <2>1, <2>2, <2>3 DEF CallExit
<1>3. CASE OutOfTries
  BY <1>3, ExitAssumption, RetriesAssumption
  DEF OutOfTries, MoreTries, Spent, ExitSurvivesOneChange
<1>4. CASE MemoryEvent
  <2>1. PICK n \in MapSizes :
          exit' = [exit EXCEPT !.size = n, !.stale = TRUE, !.events = @ + 1]
    BY <1>4 DEF MemoryEvent
  <2>2. n \in Nat /\ exit.events + 1 \in Nat
    BY ExitAssumption
  <2>3. exit' \in ExitState
    BY <2>1, <2>2
  <2>4. /\ exit'.at = exit.at /\ exit'.tries = exit.tries
        /\ exit'.events = exit.events + 1
    BY <2>1
  <2>5. exit.at = "get" \/ exit.at = "call"
    BY <1>4 DEF MemoryEvent
  <2>6. exit.events = 0 => exit.tries <= 2
    BY <2>5 DEF Spent
  <2>7. Spent'
    BY <2>3, <2>4, <2>6 DEF Spent
  <2> QED
    BY <2>3, <2>4, <2>5, <2>7 DEF ExitSurvivesOneChange
<1> QED
  BY <1>1, <1>2, <1>3, <1>4 DEF ExitStep

\* Without an error of the firmware it takes two changes of the memory map to
\* make the hand-off to a raw Image fail (linux_exit_boot_services).
THEOREM ExitSurvives == Spec => []ExitSurvivesOneChange
<1>1. Init => ExitInv
  BY ExitStarts DEF Init
<1>2. ExitInv /\ [Next]_vars => ExitInv'
  <2> SUFFICES ASSUME ExitInv, [Next]_vars PROVE ExitInv'
    OBVIOUS
  <2>1. CASE exit' = exit
    BY <2>1 DEF ExitInv, ExitState, Spent, ExitSurvivesOneChange
  <2>2. CASE exit' = NotExiting
    BY <2>2 DEF NotExiting, ExitInv, ExitState, Spent, ExitSurvivesOneChange
  <2>3. CASE StartExit
    <3>1. PICK n \in MapSizes :
            exit' = [NotExiting EXCEPT !.at = "get", !.size = n]
      BY <2>3 DEF StartExit
    <3>2. n \in Nat
      BY ExitAssumption
    <3>3. exit' \in ExitState
      BY <3>1, <3>2 DEF NotExiting, ExitState
    <3>4. exit'.at = "get" /\ exit'.tries = 0 /\ exit'.events = 0
      BY <3>1 DEF NotExiting
    <3> QED
      BY <3>3, <3>4 DEF ExitInv, ExitState, Spent, ExitSurvivesOneChange
  <2>4. CASE ExitStep
    BY <2>4, ExitStepKeeps
  <2> QED
    BY <2>1, <2>2, <2>3, <2>4, ExitChanges
<1>3. ExitInv => ExitSurvivesOneChange
  BY DEF ExitInv
<1> QED
  BY <1>1, <1>2, <1>3, PTL DEF Spec

-----------------------------------------------------------------------------
(* The memory that a raw Image is told about, and the place of an old kernel. *)
(* The memory map has any number of descriptors, in any order and with any    *)
(* overlaps, and the address space is of any size.                            *)

\* Page p is in range r, or is a usable page of descriptor d.
InRange(p, r) == r.address <= p /\ p < End(r)
IsUsable(p, d) == Include(d) /\ d.start <= p /\ p < d.start + d.pages

\* The pages of the ranges of mem at the positions K are the usable pages of
\* the first n descriptors.
Exact(K, n) ==
    \A p \in 0..MaxAddress : (\E k \in K : InRange(p, memory[k]))
                        <=> (\E k \in 1..n : IsUsable(p, descs[k]))

-----------------------------------------------------------------------------
(* The inductive invariant, by the phase of the function *)

Shape ==
    /\ descs \in Seq(Descriptor)
    /\ memory \in Seq(MemoryRange) /\ \A k \in 1..Len(memory) : End(memory[k]) <= MaxAddress
    /\ Len(memory) <= Len(descs)
    /\ pos \in Nat /\ last \in Nat /\ place \in 0..MaxAddress

\* A kernel at address a fits in descriptor d.
PlacedIn(a, d) ==
    /\ d.kind = "free" /\ ~Overflows(d)
    /\ d.start <= a /\ a + Pages <= d.start + d.pages

\* candidate is the lowest place in the first n descriptors.
Lowest(n) ==
    /\ place # MaxAddress => /\ place % Alignment = 0
                          /\ \E k \in 1..n : PlacedIn(place, descs[k])
    /\ \A a \in 0..MaxAddress : \A k \in 1..n :
         a % Alignment = 0 /\ PlacedIn(a, descs[k]) => place <= a

Placing == phase = "place" => pos \in 1..(Len(descs) + 1) /\ memory = <<>> /\ Lowest(pos - 1)

Collecting ==
    phase = "collect" =>
        /\ pos \in 1..(Len(descs) + 1) /\ Len(memory) <= pos - 1
        /\ Exact(1..Len(memory), pos - 1)
        /\ Lowest(Len(descs))

\* The insertion sort: everything before i is in order.
Sorting ==
    phase = "sort" =>
        /\ pos \in 2..(Len(memory) + 1) /\ Len(memory) >= 1
        /\ Exact(1..Len(memory), Len(descs))
        /\ \A j, k \in 1..(pos - 1) : j <= k => memory[j].address <= memory[k].address

\* The merge in place: the ranges up to merged and from i on count, those
\* between are leftovers.  What comes from i on does not start before the
\* range that is being merged.
Merging ==
    phase = "merge" =>
        /\ pos \in 2..(Len(memory) + 1) /\ last \in 1..(pos - 1)
        /\ Exact(1..last \cup pos..Len(memory), Len(descs))
        /\ \A k \in 1..(last - 1) : End(memory[k]) < memory[k + 1].address
        /\ \A j, k \in pos..Len(memory) : j <= k => memory[j].address <= memory[k].address
        /\ \A k \in pos..Len(memory) : memory[last].address <= memory[k].address

Merged ==
    phase = "done" =>
        /\ Exact(1..Len(memory), Len(descs))
        /\ \A k \in 1..(Len(memory) - 1) : End(memory[k]) < memory[k + 1].address

MapInv == Shape /\ Placing /\ Collecting /\ Sorting /\ Merging /\ Merged

-----------------------------------------------------------------------------
(* Alignment *)

\* What the division by the alignment computes.
LEMMA Division ==
    ASSUME NEW n \in Nat, NEW a \in Nat \ {0}
    PROVE  /\ n \div a \in Nat /\ n % a \in 0..(a - 1)
           /\ n = ((n \div a) * a) + (n % a)
  OBVIOUS

LEMMA MultipleIsAligned ==
    ASSUME NEW q \in Nat, NEW a \in Nat \ {0} PROVE (q * a) % a = 0
  OBVIOUS

LEMMA FactorsCompare ==
    ASSUME NEW q \in Nat, NEW c \in Nat, NEW a \in Nat \ {0},
           c * a > (q - 1) * a
    PROVE  c * a >= q * a
<1>1. c >= q
  OBVIOUS
<1> QED
  BY <1>1

\* AlignUp is the least multiple of the alignment that is not below.
LEMMA AlignUpIsLeast ==
    ASSUME NEW s \in Nat
    PROVE  /\ AlignUp(s) \in Nat /\ s <= AlignUp(s)
           /\ AlignUp(s) % Alignment = 0
           /\ \A b \in Nat : b % Alignment = 0 /\ s <= b => AlignUp(s) <= b
<1> DEFINE n == s + Alignment - 1
           q == n \div Alignment
<1>0. Alignment \in Nat \ {0} /\ n \in Nat
  BY MapAssumption
<1>1. q \in Nat /\ n % Alignment \in 0..(Alignment - 1)
      /\ n = (q * Alignment) + (n % Alignment)
  BY <1>0, Division
<1>2. AlignUp(s) = q * Alignment
  BY DEF AlignUp
<1> HIDE DEF q
<1>3. q * Alignment \in Nat
  BY <1>0, <1>1
<1>4. s <= q * Alignment
  BY <1>0, <1>1, <1>3
<1>5. ASSUME NEW b \in Nat, b % Alignment = 0, s <= b
      PROVE  q * Alignment <= b
  <2> DEFINE c == b \div Alignment
  <2>1. c \in Nat /\ b = (c * Alignment) + (b % Alignment)
    BY <1>0, Division
  <2> HIDE DEF c
  <2>2. c * Alignment \in Nat /\ b = c * Alignment
    BY <1>0, <1>5, <2>1
  <2>3. (q - 1) * Alignment = (q * Alignment) - Alignment
    BY <1>0, <1>1
  <2>4. c * Alignment > (q - 1) * Alignment
    BY <1>0, <1>1, <1>3, <1>5, <2>2, <2>3
  <2> QED
    BY <1>0, <1>1, <2>1, <2>2, <2>4, FactorsCompare
<1> QED
  BY <1>0, <1>1, <1>2, <1>3, <1>4, <1>5, MultipleIsAligned

-----------------------------------------------------------------------------
(* One lemma per step *)

LEMMA MapInitially == MapInit => MapInv
<1> SUFFICES ASSUME MapInit PROVE MapInv
  OBVIOUS
<1>1. PICK n \in 1..MaxLen : descs \in [1..n -> Descriptor]
  BY DEF MapInit
<1>2. descs \in Seq(Descriptor)
  BY <1>1, MapAssumption
<1>3. memory \in Seq(MemoryRange) /\ Len(memory) = 0
  BY DEF MapInit
<1>4. Shape
  BY <1>2, <1>3, MapAssumption DEF MapInit, Shape
<1>5. Placing
  BY <1>2, <1>3, MapAssumption DEF MapInit, Placing, Lowest
<1> QED
  BY <1>4, <1>5 DEF MapInit, MapInv, Collecting, Sorting, Merging, Merged

\* The fields of descriptors and ranges are numbers.
LEMMA Fields ==
    ASSUME Shape
    PROVE  /\ Len(descs) \in Nat /\ Len(memory) \in Nat
           /\ DOMAIN descs = 1..Len(descs) /\ DOMAIN memory = 1..Len(memory)
           /\ \A k \in 1..Len(descs) :
                 descs[k] \in Descriptor /\ descs[k].start \in 0..MaxAddress
                 /\ descs[k].pages \in Nat
           /\ \A k \in 1..Len(memory) :
                 /\ memory[k] \in MemoryRange
                 /\ memory[k].address \in Nat /\ memory[k].size \in Nat \ {0}
                 /\ memory[k].address <= MaxAddress /\ memory[k].size <= MaxAddress
                 /\ End(memory[k]) \in Nat
<1>1. \A k \in 1..Len(descs) : descs[k] \in Descriptor
  BY DEF Shape
<1>2. \A k \in 1..Len(memory) : memory[k] \in MemoryRange
  BY DEF Shape
<1>3. \A k \in 1..Len(descs) :
                 descs[k] \in Descriptor /\ descs[k].start \in 0..MaxAddress
                 /\ descs[k].pages \in Nat
  BY <1>1, MapAssumption DEF Descriptor
<1>4. \A k \in 1..Len(memory) :
                 /\ memory[k] \in MemoryRange
                 /\ memory[k].address \in Nat /\ memory[k].size \in Nat \ {0}
                 /\ memory[k].address <= MaxAddress /\ memory[k].size <= MaxAddress
                 /\ End(memory[k]) \in Nat
  BY <1>2, MapAssumption DEF MemoryRange, End
<1> QED
  BY <1>3, <1>4 DEF Shape

\* allocate_legacy_kernel_pages: each descriptor is weighed against the lowest
\* place so far.
LEMMA PlaceKernelKeeps == ASSUME MapInv, PlaceKernel PROVE MapInv'
<1> DEFINE d == descs[pos]
           up == AlignUp(d.start)
<1>0. Shape /\ pos \in 1..Len(descs) /\ memory = <<>> /\ Lowest(pos - 1)
  BY Fields DEF MapInv, PlaceKernel, Placing
<1>1. d.start \in Nat /\ d.start <= MaxAddress /\ d.pages \in Nat /\ MaxAddress \in Nat
      /\ Alignment \in Nat \ {0} /\ Pages \in Nat \ {0} /\ Len(descs) \in Nat
      /\ place \in 0..MaxAddress
  BY <1>0, Fields, MapAssumption DEF Shape
<1>2. /\ up \in Nat /\ d.start <= up /\ up % Alignment = 0
      /\ \A b \in Nat : b % Alignment = 0 /\ d.start <= b => up <= b
  BY <1>1, AlignUpIsLeast
<1>3. Fits(d) => PlacedIn(up, d)
  BY <1>1, <1>2 DEF Fits, PlacedIn
<1>4. ASSUME NEW a \in 0..MaxAddress, a % Alignment = 0, PlacedIn(a, d)
      PROVE  up <= a /\ Fits(d)
  <2>1. /\ d.kind = "free" /\ ~Overflows(d)
        /\ d.start <= a /\ a + Pages <= d.start + d.pages
    BY <1>4 DEF PlacedIn
  <2>2. up <= a
    BY <1>1, <1>2, <1>4, <2>1
  <2>3. d.start + d.pages <= MaxAddress
    BY <1>1, <2>1 DEF Overflows
  <2>4. a + Alignment <= MaxAddress + 1
    <3> DEFINE c == a \div Alignment
               m == (MaxAddress + 1) \div Alignment
    <3>0. a \in Nat /\ MaxAddress + 1 \in Nat
      BY <1>1
    <3>1. c \in Nat /\ a = (c * Alignment) + (a % Alignment)
      BY <1>1, <3>0, Division
    <3>2. m \in Nat /\ MaxAddress + 1 = (m * Alignment) + ((MaxAddress + 1) % Alignment)
      BY <1>1, <3>0, Division
    <3> HIDE DEF c, m
    <3>3. c * Alignment \in Nat /\ a = c * Alignment
      BY <1>1, <1>4, <3>1
    <3>4. m * Alignment \in Nat /\ MaxAddress + 1 = m * Alignment
      BY <1>1, <3>2, MapAssumption
    <3>5. m * Alignment > ((c + 1) - 1) * Alignment
      BY <1>1, <1>4, <3>1, <3>3, <3>4
    <3>6. m * Alignment >= (c + 1) * Alignment
      BY <1>1, <3>1, <3>2, <3>5, FactorsCompare
    <3>7. (c + 1) * Alignment = (c * Alignment) + Alignment
      BY <1>1, <3>1
    <3> QED
      BY <1>1, <3>3, <3>4, <3>6, <3>7
  <2>5. d.start <= MaxAddress - (Alignment - 1)
    BY <1>1, <2>1, <2>4
  <2> QED
    BY <1>1, <1>2, <2>1, <2>2, <2>5 DEF Fits
<1> HIDE DEF up, d
<1>5. /\ place' = IF Fits(d) /\ up < place THEN up ELSE place
      /\ pos' = pos + 1 /\ UNCHANGED <<descs, memory, last, phase>>
  BY DEF PlaceKernel, d, up
<1>6. place' \in 0..MaxAddress
      /\ place' <= place /\ (Fits(d) => place' <= up)
  BY <1>1, <1>2, <1>5
<1>7. Lowest(pos - 1)'
  <2>0. (pos - 1)' = pos
    BY <1>0, <1>1, <1>5
  <2>1. ASSUME place' # MaxAddress
        PROVE  /\ place' % Alignment = 0
               /\ \E k \in 1..pos : PlacedIn(place', descs[k])
    <3>1. CASE place' = place
      <4>1. PICK k \in 1..(pos - 1) : PlacedIn(place, descs[k])
        BY <1>0, <2>1, <3>1 DEF Lowest
      <4>2. k \in 1..pos
        BY <1>0, <1>1
      <4> QED
        BY <1>0, <2>1, <3>1, <4>1, <4>2 DEF Lowest
    <3>2. CASE place' # place
      <4>1. Fits(d) /\ place' = up
        BY <1>5, <3>2
      <4>2. pos \in 1..pos /\ d = descs[pos]
        BY <1>0, <1>1 DEF d
      <4> QED
        BY <1>2, <1>3, <4>1, <4>2
    <3> QED
      BY <3>1, <3>2
  <2>2. ASSUME NEW a \in 0..MaxAddress, NEW k \in 1..pos, a % Alignment = 0,
               PlacedIn(a, descs[k])
        PROVE  place' <= a
    <3>1. CASE k = pos
      BY <1>1, <1>2, <1>4, <1>6, <2>2, <3>1 DEF d
    <3>2. CASE k \in 1..(pos - 1)
      BY <1>0, <1>1, <1>6, <2>2, <3>2 DEF Lowest
    <3> QED
      BY <1>0, <1>1, <3>1, <3>2
  <2> QED
    BY <1>5, <2>0, <2>1, <2>2 DEF Lowest, PlacedIn, Overflows
<1>8. Shape'
  BY <1>0, <1>1, <1>5, <1>6 DEF Shape, End
<1>9. Placing'
  <2>1. pos' \in 1..(Len(descs) + 1)
    BY <1>0, <1>1, <1>5
  <2> QED
    BY <1>0, <1>5, <1>7, <2>1 DEF Placing
<1> QED
  BY <1>5, <1>8, <1>9
  DEF PlaceKernel, MapInv, Collecting, Sorting, Merging, Merged

LEMMA PlaceDoneKeeps == ASSUME MapInv, PlaceDone PROVE MapInv'
<1>1. Shape /\ pos = Len(descs) + 1 /\ memory = <<>> /\ Lowest(pos - 1)
      /\ Len(descs) \in Nat /\ Len(memory) = 0
  BY Fields DEF MapInv, PlaceDone, Placing
<1>2. Shape'
  BY <1>1 DEF PlaceDone, Shape, End
<1>3. Lowest(Len(descs))
  BY <1>1
<1>4. Collecting'
  BY <1>1, <1>3 DEF PlaceDone, Collecting, Exact, Lowest, PlacedIn, Overflows
<1> QED
  BY <1>2, <1>4 DEF PlaceDone, MapInv, Placing, Sorting, Merging, Merged

\* One more usable descriptor: the ranges gain exactly its pages, whether it
\* extends the last range or starts a new one.
LEMMA CollectKeeps == ASSUME MapInv, Collect PROVE MapInv'
<1> DEFINE d == descs[pos]
           n == Len(memory)
<1>0. Shape /\ pos \in 1..Len(descs) /\ n <= pos - 1 /\ Exact(1..n, pos - 1)
      /\ Lowest(Len(descs))
  BY Fields DEF MapInv, Collect, Collecting
<1>1. /\ d \in Descriptor /\ d.start \in Nat /\ d.start <= MaxAddress
      /\ d.pages \in Nat /\ MaxAddress \in Nat
      /\ n \in Nat /\ Len(descs) \in Nat /\ n <= Len(descs) /\ pos \in Nat
  BY <1>0, Fields, MapAssumption DEF Shape
<1>2. CASE Include(d) /\ Overflows(d)
  <2>1. phase' = "compromised" /\ memory' = <<>> /\ UNCHANGED <<descs, pos, last, place>>
    BY <1>2 DEF Collect
  <2>2. Shape'
    BY <1>0, <1>1, <2>1 DEF Shape
  <2> QED
    BY <2>1, <2>2 DEF MapInv, Placing, Collecting, Sorting, Merging, Merged
<1>3. CASE ~(Include(d) /\ Overflows(d))
  <2>1. /\ memory' = IF ~Include(d) THEN memory
                  ELSE IF Extends(d)
                  THEN [memory EXCEPT ![Len(memory)].size = @ + d.pages]
                  ELSE Append(memory, NewRange(d))
        /\ pos' = pos + 1 /\ phase' = "collect" /\ phase = "collect"
        /\ UNCHANGED <<descs, last, place>>
    BY <1>3 DEF Collect, Advance
  <2>s. SUFFICES ASSUME memory' \in Seq(MemoryRange), Len(memory') <= pos,
                        \A k \in 1..Len(memory') : End(memory'[k]) <= MaxAddress,
                        \A p \in 0..MaxAddress :
                           (\E k \in 1..Len(memory') : InRange(p, memory'[k]))
                           <=> \/ \E k \in 1..n : InRange(p, memory[k])
                               \/ IsUsable(p, d)
                 PROVE  MapInv'
    <3>1. CASE ~Include(d)
      BY <1>0, <1>1, <2>1, <3>1 DEF Shape, MapInv, IsUsable, End, InRange
    <3>2. CASE Include(d) /\ Extends(d)
      <4> DEFINE r == [memory[n] EXCEPT !.size = @ + d.pages]
      <4>1. n \in 1..n /\ memory' = [memory EXCEPT ![n] = r] /\ End(memory[n]) = d.start
        BY <1>0, <1>1, <2>1, <3>2, Fields DEF Extends, Shape
      <4>2. /\ memory[n] \in MemoryRange /\ memory[n].address \in Nat
            /\ memory[n].size \in Nat \ {0} /\ memory[n].address <= MaxAddress
        BY <1>0, <4>1, Fields
      <4>3. d.start + d.pages <= MaxAddress
        BY <1>1, <1>3, <3>2 DEF Overflows
      <4>4. /\ r.address = memory[n].address /\ r.size = memory[n].size + d.pages
            /\ End(r) = d.start + d.pages
        BY <1>1, <4>1, <4>2 DEF End, MemoryRange
      <4>5. r \in MemoryRange
        BY <1>1, <4>1, <4>2, <4>3, <4>4, SMTT(20) DEF End, MemoryRange
      <4> HIDE DEF r
      <4>6. memory' \in Seq(MemoryRange) /\ Len(memory') = n /\ memory'[n] = r
            /\ \A k \in 1..n : k # n => memory'[k] = memory[k]
        BY <1>0, <1>1, <4>1, <4>5 DEF Shape
      <4>7. \A p \in 0..MaxAddress :
              InRange(p, r) <=> InRange(p, memory[n]) \/ IsUsable(p, d)
        <5>1. memory[n].address <= d.start
          BY <1>1, <4>1, <4>2 DEF End
        <5> QED
          BY <1>1, <3>2, <4>1, <4>2, <4>4, <5>1 DEF InRange, IsUsable
      <4>8. \A k \in 1..n : End(memory'[k]) <= MaxAddress
        BY <1>0, <1>1, <4>3, <4>4, <4>6 DEF Shape
      <4>9. ASSUME NEW p \in 0..MaxAddress
            PROVE  (\E k \in 1..n : InRange(p, memory'[k]))
                   <=> \/ \E k \in 1..n : InRange(p, memory[k])
                       \/ IsUsable(p, d)
        BY <4>1, <4>6, <4>7
      <4> QED
        BY <1>0, <1>1, <4>6, <4>8, <4>9
    <3>3. CASE Include(d) /\ ~Extends(d)
      <4> DEFINE r == NewRange(d)
      <4>1. d.start + d.pages <= MaxAddress /\ d.pages # 0
        BY <1>1, <1>3, <3>3 DEF Overflows, Include
      <4>2. r \in MemoryRange /\ End(r) = d.start + d.pages /\ r.address = d.start
        BY <1>1, <4>1 DEF MemoryRange, NewRange, End
      <4>3. memory' = Append(memory, r)
        BY <2>1, <3>3
      <4> HIDE DEF r
      <4>4. memory' \in Seq(MemoryRange) /\ Len(memory') = n + 1 /\ memory'[n + 1] = r
            /\ \A k \in 1..n : memory'[k] = memory[k]
        BY <1>0, <1>1, <4>2, <4>3 DEF Shape
      <4>5. \A p \in 0..MaxAddress : InRange(p, r) <=> IsUsable(p, d)
        BY <3>3, <4>2 DEF InRange, IsUsable
      <4>6. \A k \in 1..(n + 1) : k = n + 1 \/ k \in 1..n
        BY <1>1
      <4>7. \A k \in 1..(n + 1) : End(memory'[k]) <= MaxAddress
        BY <1>0, <1>1, <4>1, <4>2, <4>4, <4>6 DEF Shape
      <4>8. n + 1 \in 1..(n + 1) /\ \A k \in 1..n : k \in 1..(n + 1)
        BY <1>1
      <4>9. ASSUME NEW p \in 0..MaxAddress
            PROVE  (\E k \in 1..(n + 1) : InRange(p, memory'[k]))
                   <=> \/ \E k \in 1..n : InRange(p, memory[k])
                       \/ IsUsable(p, d)
        BY <4>4, <4>5, <4>6, <4>8
      <4> QED
        BY <1>0, <1>1, <4>4, <4>7, <4>9
    <3> QED
      BY <3>1, <3>2, <3>3
  <2>2. Shape'
    <3>1. Len(memory') \in Nat /\ Len(memory') <= Len(descs)
      BY <1>0, <1>1, <2>s
    <3> QED
      BY <1>0, <1>1, <2>1, <2>s, <3>1 DEF Shape, End
  <2>3. Exact(1..Len(memory), pos - 1)'
    <3>1. \A k \in 1..pos : k = pos \/ k \in 1..(pos - 1)
      BY <1>1
    <3>2. pos \in 1..pos /\ \A k \in 1..(pos - 1) : k \in 1..pos
      BY <1>0, <1>1
    <3>3. (pos - 1)' = pos
      BY <1>1, <2>1
    <3>4. ASSUME NEW p \in 0..MaxAddress
          PROVE  (\E k \in 1..Len(memory') : InRange(p, memory'[k]))
                   <=> (\E k \in 1..pos : IsUsable(p, descs[k]))
      BY <1>0, <2>s, <3>1, <3>2 DEF Exact
    <3> QED
      BY <2>1, <3>3, <3>4 DEF Exact, InRange, IsUsable, End, Include
  <2>4. Lowest(Len(descs))'
    BY <1>0, <2>1 DEF Lowest, PlacedIn, Overflows
  <2>5. Collecting'
    BY <1>0, <1>1, <2>1, <2>2, <2>3, <2>4, <2>s DEF Collecting, Shape
  <2> QED
    BY <2>1, <2>2, <2>5 DEF MapInv, Placing, Sorting, Merging, Merged
<1> QED
  BY <1>2, <1>3

LEMMA CollectDoneKeeps == ASSUME MapInv, CollectDone PROVE MapInv'
<1>1. Shape /\ pos = Len(descs) + 1 /\ Exact(1..Len(memory), pos - 1)
      /\ Len(descs) \in Nat /\ Len(memory) \in Nat
  BY Fields DEF MapInv, CollectDone, Collecting
<1>2. Shape'
  BY <1>1 DEF CollectDone, Shape, End
<1>3. Exact(1..Len(memory), Len(descs))
  BY <1>1
<1>4. ASSUME memory # <<>> PROVE Len(memory) >= 1
  BY <1>1, <1>4 DEF Shape
<1>5. Sorting'
  <2>1. Exact(1..Len(memory), Len(descs))'
    BY <1>3 DEF CollectDone, Exact, InRange, IsUsable, End, Include
  <2>2. ASSUME memory # <<>> PROVE memory[1].address <= memory[1].address
    BY <1>1, <1>4, <2>2, Fields
  <2>3. \A j \in 1..1 : j = 1
    OBVIOUS
  <2> QED
    BY <1>1, <1>4, <2>1, <2>2, <2>3 DEF CollectDone, Sorting
<1> QED
  BY <1>2, <1>5 DEF CollectDone, MapInv, Placing, Collecting, Merging, Merged

\* A set of positions has a greatest one.
LEMMA GreatestPosition ==
    ASSUME NEW n \in Nat, NEW S \in SUBSET (1..n), S # {}
    PROVE  \E g \in S : \A k \in S : k <= g
<1> DEFINE T == {n - k : k \in S}
<1>1. T \subseteq Nat /\ T # {}
  <2>1. PICK k \in S : TRUE
    OBVIOUS
  <2>2. \A j \in S : n - j \in Nat
    OBVIOUS
  <2>3. n - k \in T
    BY <2>1
  <2> QED
    BY <2>2, <2>3
<1>2. PICK m \in T : \A k \in T : ~(<<k, m>> \in OpToRel(<, Nat))
  BY <1>1, WFMin, NatLessThanWellFounded, Zenon
<1>3. \A k \in T : m <= k
  <2>1. \A k \in T : ~(k < m)
    BY <1>1, <1>2 DEF OpToRel
  <2> QED
    BY <1>1, <2>1
<1>4. PICK g \in S : m = n - g
  OBVIOUS
<1>5. \A k \in S : n - g <= n - k
  BY <1>3, <1>4
<1>6. g \in Nat /\ \A k \in S : k \in Nat
  <2>1. \A k \in 1..n : k \in Nat
    BY ONLY n \in Nat
  <2>2. \A k \in S : k \in 1..n
    BY Zenon
  <2> QED
    BY <2>1, <2>2, Zenon
<1> QED
  BY <1>4, <1>5, <1>6

\* The inner loop stops between the ranges that start at or below mem[i] and
\* those that start above it.
LEMMA InsertionSplits ==
    ASSUME Shape, Sorting, phase = "sort", pos <= Len(memory)
    PROVE  /\ Insertion \in 1..pos
           /\ \A k \in 1..(Insertion - 1) : memory[k].address <= memory[pos].address
           /\ \A k \in Insertion..(pos - 1) : memory[pos].address < memory[k].address
<1> DEFINE before == {j \in 1..(pos - 1) : memory[j].address <= memory[pos].address}
<1>0. pos \in 2..Len(memory) /\ Len(memory) \in Nat
      /\ \A k \in 1..Len(memory) : memory[k].address \in Nat
  BY Fields DEF Sorting
<1>1. CASE before = {}
  <2>1. Insertion = 1
    BY <1>1 DEF Insertion
  <2> QED
    BY <1>0, <1>1, <2>1
<1>2. CASE before # {}
  <2> DEFINE j == CHOOSE j \in before : \A k \in before : k <= j
  <2>1. pos - 1 \in Nat /\ before \in SUBSET (1..(pos - 1))
    BY <1>0
  <2>2. j \in before /\ \A k \in before : k <= j
    BY <1>2, <2>1, GreatestPosition
  <2>3. Insertion = 1 + j
    BY <1>2 DEF Insertion
  <2> HIDE DEF j
  <2>4. j \in 1..(pos - 1) /\ memory[j].address <= memory[pos].address
    BY <2>2
  <2>5. ASSUME NEW k \in 1..j PROVE memory[k].address <= memory[pos].address
    <3>1. memory[k].address <= memory[j].address
      BY <1>0, <2>4 DEF Sorting
    <3>2. k \in 1..Len(memory) /\ j \in 1..Len(memory) /\ pos \in 1..Len(memory)
      BY <1>0, <2>4
    <3> QED
      BY <1>0, <2>4, <3>1, <3>2
  <2>6. ASSUME NEW k \in (1 + j)..(pos - 1)
        PROVE  memory[pos].address < memory[k].address
    <3>1. k \in 1..(pos - 1) /\ ~(k <= j)
      BY <1>0, <2>4
    <3>2. k \notin before
      BY <2>2, <3>1
    <3>3. k \in 1..Len(memory) /\ pos \in 1..Len(memory)
      BY <1>0, <3>1
    <3> QED
      BY <1>0, <3>1, <3>2, <3>3
  <2> QED
    BY <1>0, <2>3, <2>4, <2>5, <2>6
<1> QED
  BY <1>1, <1>2

\* Moving one range into place loses none and keeps those before it in order.
LEMMA SortStepKeeps == ASSUME MapInv, SortStep PROVE MapInv'
<1> DEFINE at == Insertion
           n == Len(memory)
<1>0. Shape /\ Sorting /\ phase = "sort" /\ pos \in 2..n /\ n \in Nat
      /\ Exact(1..n, Len(descs))
  BY Fields DEF MapInv, SortStep, Sorting
<1>1. /\ at \in 1..pos
      /\ \A k \in 1..(at - 1) : memory[k].address <= memory[pos].address
      /\ \A k \in at..(pos - 1) : memory[pos].address < memory[k].address
  BY <1>0, InsertionSplits
<1>2. \A k \in 1..n : memory[k] \in MemoryRange /\ memory[k].address \in Nat
  BY <1>0, Fields
<1> HIDE DEF at
<1>3. /\ memory' = [k \in 1..n |-> IF k < at \/ k > pos THEN memory[k]
                                ELSE IF k = at THEN memory[pos] ELSE memory[k - 1]]
      /\ pos' = pos + 1 /\ phase' = "sort" /\ UNCHANGED <<descs, last, place>>
  BY <1>0, Fields DEF SortStep, at
<1>4. /\ \A k \in 1..n : k < at \/ k > pos => memory'[k] = memory[k]
      /\ memory'[at] = memory[pos]
      /\ \A k \in 1..n : at < k /\ k <= pos => k - 1 \in 1..n /\ memory'[k] = memory[k - 1]
  BY <1>0, <1>1, <1>3
<1>5. ASSUME NEW k \in 1..n PROVE \E j \in 1..n : memory'[k] = memory[j]
  <2>1. CASE k < at \/ k > pos
    BY <1>4, <2>1
  <2>2. CASE k = at
    BY <1>0, <1>4, <2>2
  <2>3. CASE at < k /\ k <= pos
    BY <1>4, <2>3
  <2> QED
    BY <1>0, <1>1, <2>1, <2>2, <2>3
<1>6. ASSUME NEW k \in 1..n PROVE \E j \in 1..n : memory'[j] = memory[k]
  <2>1. CASE k < at \/ k > pos
    BY <1>4, <2>1
  <2>2. CASE k = pos
    BY <1>0, <1>1, <1>4, <2>2
  <2>3. CASE at <= k /\ k < pos
    <3>1. k + 1 \in 1..n /\ at < k + 1 /\ k + 1 <= pos /\ (k + 1) - 1 = k
      BY <1>0, <1>1, <2>3
    <3> QED
      BY <1>4, <3>1
  <2> QED
    BY <1>0, <1>1, <2>1, <2>2, <2>3
<1>7. memory' \in Seq(MemoryRange) /\ Len(memory') = n
  <2>1. \A k \in 1..n : memory'[k] \in MemoryRange
    BY <1>2, <1>5
  <2>2. memory' = [k \in 1..n |-> memory'[k]]
    BY <1>3
  <2> QED
    BY <1>0, <2>1, <2>2
<1>8. Shape'
  <2>1. \A k \in 1..n : End(memory'[k]) <= MaxAddress
    BY <1>0, <1>5 DEF Shape
  <2> QED
    BY <1>0, <1>3, <1>7, <2>1 DEF Shape, End
<1>9. Exact(1..Len(memory), Len(descs))'
  <2>1. ASSUME NEW p \in 0..MaxAddress
        PROVE  (\E k \in 1..n : InRange(p, memory'[k]))
                 <=> (\E k \in 1..n : InRange(p, memory[k]))
    BY <1>5, <1>6
  <2>2. \A p \in 0..MaxAddress : (\E k \in 1..n : InRange(p, memory'[k]))
                        <=> (\E k \in 1..Len(descs) : IsUsable(p, descs[k]))
    BY <1>0, <2>1 DEF Exact
  <2> QED
    BY <1>3, <1>7, <2>2 DEF Exact, InRange, IsUsable, End, Include
<1>10. ASSUME NEW j \in 1..pos, NEW k \in 1..pos, j <= k
       PROVE  memory'[j].address <= memory'[k].address
  <2>0. j \in 1..n /\ k \in 1..n /\ pos \in 1..n /\ at \in 1..n
    BY <1>0, <1>1
  <2>1. \A a, b \in 1..(pos - 1) : a <= b => memory[a].address <= memory[b].address
    BY <1>0 DEF Sorting
  <2>2. CASE k < at
    <3>1. j \in 1..(pos - 1) /\ k \in 1..(pos - 1) /\ j < at
      BY <1>0, <1>1, <1>10, <2>2
    <3> QED
      BY <1>4, <1>10, <2>0, <2>1, <2>2, <3>1
  <2>3. CASE k = at /\ j < at
    <3>1. j \in 1..(at - 1)
      BY <1>0, <1>1, <2>3
    <3> QED
      BY <1>1, <1>4, <2>0, <2>3, <3>1
  <2>4. CASE k = at /\ j = at
    BY <1>2, <1>4, <2>0, <2>4
  <2>5. CASE k > at /\ j < at
    <3>1. k - 1 \in 1..(pos - 1) /\ j \in 1..(pos - 1) /\ j <= k - 1
      BY <1>0, <1>1, <2>0, <2>5
    <3> QED
      BY <1>4, <2>0, <2>1, <2>5, <3>1
  <2>6. CASE k > at /\ j = at
    <3>1. k - 1 \in at..(pos - 1) /\ k - 1 \in 1..n
      BY <1>0, <1>1, <2>0, <2>6
    <3>2. memory'[j] = memory[pos]
      BY <1>4, <2>6
    <3>3. memory'[k] = memory[k - 1]
      BY <1>0, <1>1, <1>4, <2>0, <2>6
    <3>4. memory[pos].address < memory[k - 1].address
      BY <1>1, <3>1
    <3>5. memory[pos].address \in Nat /\ memory[k - 1].address \in Nat
      BY <1>2, <2>0, <3>1
    <3> QED
      BY <3>2, <3>3, <3>4, <3>5
  <2>7. CASE k > at /\ j > at
    <3>1. k - 1 \in 1..(pos - 1) /\ j - 1 \in 1..(pos - 1) /\ j - 1 <= k - 1
      BY <1>0, <1>1, <1>10, <2>0, <2>7
    <3> QED
      BY <1>4, <2>0, <2>1, <2>7, <3>1
  <2> QED
    BY <1>1, <1>10, <2>0, <2>2, <2>3, <2>4, <2>5, <2>6, <2>7
<1>11. Sorting'
  <2>1. pos' \in 2..(Len(memory') + 1) /\ Len(memory') >= 1 /\ (pos - 1)' = pos
    BY <1>0, <1>3, <1>7
  <2> QED
    BY <1>9, <1>10, <2>1 DEF Sorting
<1> QED
  BY <1>3, <1>8, <1>11
  DEF MapInv, Placing, Collecting, Merging, Merged

LEMMA SortDoneKeeps == ASSUME MapInv, SortDone PROVE MapInv'
<1>0. /\ Shape /\ pos = Len(memory) + 1 /\ Len(memory) \in Nat /\ Len(memory) >= 1
      /\ Exact(1..Len(memory), Len(descs))
      /\ \A j, k \in 1..Len(memory) : j <= k => memory[j].address <= memory[k].address
  <2>1. Shape /\ Sorting /\ phase = "sort" /\ pos > Len(memory)
    BY DEF MapInv, SortDone
  <2>2. Len(memory) \in Nat /\ pos = Len(memory) + 1
    BY <2>1, Fields DEF Sorting
  <2>3. pos - 1 = Len(memory)
    BY <2>2
  <2> QED
    BY <2>1, <2>2, <2>3 DEF Sorting
<1>1. Shape'
  BY <1>0 DEF SortDone, Shape, End
<1>2. 1..Len(memory) = 1..1 \cup 2..Len(memory)
  BY <1>0
<1>3. Exact(1..last \cup pos..Len(memory), Len(descs))'
  BY <1>0, <1>2 DEF SortDone, Exact, InRange, IsUsable, End, Include
<1>4. \A k \in 2..Len(memory) : k \in 1..Len(memory) /\ 1 \in 1..Len(memory) /\ 1 <= k
  BY <1>0
<1>5. Merging'
  BY <1>0, <1>3, <1>4 DEF SortDone, Merging
<1> QED
  BY <1>1, <1>5 DEF SortDone, MapInv, Placing, Collecting, Sorting, Merged

\* A step of the merge replaces two ranges by one with the same pages, or
\* moves a range down over a leftover.
LEMMA MergeStepKeeps == ASSUME MapInv, MergeStep PROVE MapInv'
<1> DEFINE n == Len(memory)
           a == memory[last]
           b == memory[pos]
<1>0. /\ Shape /\ phase = "merge" /\ n \in Nat
      /\ pos \in 2..n /\ last \in 1..(pos - 1)
      /\ Exact(1..last \cup pos..n, Len(descs))
      /\ \A k \in 1..(last - 1) : End(memory[k]) < memory[k + 1].address
      /\ \A j, k \in pos..n : j <= k => memory[j].address <= memory[k].address
      /\ \A k \in pos..n : memory[last].address <= memory[k].address
  BY Fields DEF MapInv, MergeStep, Merging
<1>1. /\ pos \in 1..n /\ last \in 1..n /\ last + 1 \in 1..n /\ pos \in pos..n
      /\ last + 1 <= pos
  BY <1>0
<1>2. \A k \in 1..n :
        /\ memory[k] \in MemoryRange /\ memory[k].address \in Nat /\ memory[k].size \in Nat \ {0}
        /\ memory[k].address <= MaxAddress /\ End(memory[k]) \in Nat /\ End(memory[k]) <= MaxAddress
  BY <1>0, Fields DEF Shape
<1>3. a.address <= b.address
  BY <1>0, <1>1
<1>4. /\ pos' = pos + 1 /\ phase' = "merge" /\ UNCHANGED <<descs, place>>
  BY <1>0 DEF MergeStep
<1>5. CASE Touch(a, b)
  <2> DEFINE r == [a EXCEPT !.size = LaterEnd(a, b) - a.address]
  <2>1. memory' = [memory EXCEPT ![last] = r] /\ last' = last
    BY <1>1, <1>5, Fields, <1>0 DEF MergeStep
  <2>2. LaterEnd(a, b) \in Nat /\ LaterEnd(a, b) <= MaxAddress /\ End(a) <= LaterEnd(a, b)
        /\ End(b) <= LaterEnd(a, b) /\ LaterEnd(a, b) \in {End(a), End(b)}
    BY <1>1, <1>2 DEF LaterEnd
  <2>3. a.address + 1 <= End(a)
    BY <1>1, <1>2 DEF End
  <2>4. /\ r.address = a.address /\ r.size = LaterEnd(a, b) - a.address
    BY <1>1, <1>2 DEF MemoryRange
  <2>5. r \in MemoryRange
    <3>1. LaterEnd(a, b) - a.address \in 1..MaxAddress
      BY <1>1, <1>2, <2>2, <2>3, MapAssumption, SMTT(20)
    <3> QED
      BY <1>1, <1>2, <3>1 DEF MemoryRange
  <2>6. End(r) = LaterEnd(a, b)
    BY <1>1, <1>2, <2>2, <2>4 DEF End
  <2> HIDE DEF r
  <2>7. memory' \in Seq(MemoryRange) /\ Len(memory') = n /\ memory'[last] = r
        /\ \A k \in 1..n : k # last => memory'[k] = memory[k]
    BY <1>0, <1>1, <2>1, <2>5 DEF Shape
  <2>8. \A k \in 1..n : End(memory'[k]) <= MaxAddress
    BY <1>2, <2>2, <2>6, <2>7
  <2>9. Shape'
    BY <1>0, <1>1, <1>4, <2>1, <2>7, <2>8 DEF Shape, End
  <2>10. ASSUME NEW p \in 0..MaxAddress
         PROVE  InRange(p, r) <=> InRange(p, a) \/ InRange(p, b)
    <3>1. b.address <= End(a)
      BY <1>5, <1>1, <1>2 DEF Touch
    <3>2. p \in Nat /\ End(a) \in Nat /\ End(b) \in Nat /\ a.address \in Nat
          /\ b.address \in Nat
      BY <1>1, <1>2, MapAssumption
    <3> QED
      BY <1>3, <2>2, <2>4, <2>6, <3>1, <3>2 DEF InRange
  <2>11. Exact(1..last \cup pos..Len(memory), Len(descs))'
    <3>1. ASSUME NEW p \in 0..MaxAddress
          PROVE  (\E k \in 1..last \cup (pos + 1)..n : InRange(p, memory'[k]))
                 <=> (\E k \in 1..last \cup pos..n : InRange(p, memory[k]))
      <4>1. ASSUME NEW k \in 1..last \cup (pos + 1)..n, InRange(p, memory'[k])
            PROVE  \E j \in 1..last \cup pos..n : InRange(p, memory[j])
        <5>1. k \in 1..last \cup pos..n /\ last \in 1..last /\ k \in 1..n
          BY <1>0, <1>1
        <5> QED
          BY <1>1, <2>7, <2>10, <4>1, <5>1
      <4>2. ASSUME NEW k \in 1..last \cup pos..n, InRange(p, memory[k])
            PROVE  \E j \in 1..last \cup (pos + 1)..n : InRange(p, memory'[j])
        <5>1. k \in 1..n /\ (k = last \/ k = pos \/ (k # last /\
                k \in 1..last \cup (pos + 1)..n)) /\ last \in 1..last
          BY <1>0, <1>1
        <5> QED
          BY <2>7, <2>10, <4>2, <5>1
      <4> QED
        BY <4>1, <4>2
    <3> QED
      BY <1>0, <1>4, <2>1, <2>7, <3>1
      DEF Exact, InRange, IsUsable, End, Include
  <2>12. \A k \in 1..(last - 1) : End(memory'[k]) < memory'[k + 1].address
    <3>1. \A k \in 1..(last - 1) : k \in 1..n /\ k # last /\ k + 1 \in 1..n
      BY <1>0, <1>1
    <3> QED
      BY <1>0, <2>4, <2>7, <3>1
  <2>13. \A k \in (pos + 1)..n : k \in pos..n /\ k \in 1..n /\ k # last
    BY <1>0, <1>1
  <2>14. Merging'
    <3>1. pos' \in 2..(n + 1) /\ last' \in 1..(pos' - 1)
      BY <1>0, <1>1, <1>4, <2>1
    <3> QED
      BY <1>0, <1>4, <2>1, <2>4, <2>7, <2>11, <2>12, <2>13, <3>1
      DEF Merging, End
  <2> QED
    BY <1>4, <2>9, <2>14 DEF MapInv, Placing, Collecting, Sorting, Merged
<1>6. CASE ~Touch(a, b)
  <2>1. memory' = [memory EXCEPT ![last + 1] = b] /\ last' = last + 1
    BY <1>6 DEF MergeStep
  <2>2. memory' \in Seq(MemoryRange) /\ Len(memory') = n /\ memory'[last + 1] = b
        /\ \A k \in 1..n : k # last + 1 => memory'[k] = memory[k]
    BY <1>0, <1>1, <1>2, <2>1 DEF Shape
  <2>3. \A k \in 1..n : End(memory'[k]) <= MaxAddress
    BY <1>1, <1>2, <2>2
  <2>4. Shape'
    BY <1>0, <1>1, <1>4, <2>1, <2>2, <2>3 DEF Shape, End
  <2>5. Exact(1..last \cup pos..Len(memory), Len(descs))'
    <3>1. ASSUME NEW p \in 0..MaxAddress
          PROVE  (\E k \in 1..(last + 1) \cup (pos + 1)..n : InRange(p, memory'[k]))
                 <=> (\E k \in 1..last \cup pos..n : InRange(p, memory[k]))
      <4>1. ASSUME NEW k \in 1..(last + 1) \cup (pos + 1)..n, InRange(p, memory'[k])
            PROVE  \E j \in 1..last \cup pos..n : InRange(p, memory[j])
        <5>1. k \in 1..n /\ (k # last + 1 => k \in 1..last \cup pos..n)
          BY <1>0, <1>1
        <5> QED
          BY <1>1, <2>2, <4>1, <5>1
      <4>2. ASSUME NEW k \in 1..last \cup pos..n, InRange(p, memory[k])
            PROVE  \E j \in 1..(last + 1) \cup (pos + 1)..n : InRange(p, memory'[j])
        <5>1. k = pos \/ (k # last + 1 /\ k \in 1..n
                /\ k \in 1..(last + 1) \cup (pos + 1)..n)
          BY <1>0, <1>1
        <5>2. last + 1 \in 1..(last + 1) \cup (pos + 1)..n
          BY <1>0
        <5> QED
          BY <2>2, <4>2, <5>1, <5>2
      <4> QED
        BY <4>1, <4>2
    <3> QED
      BY <1>0, <1>4, <2>1, <2>2, <3>1
      DEF Exact, InRange, IsUsable, End, Include
  <2>6. End(a) < b.address
    BY <1>1, <1>2, <1>6 DEF Touch
  <2>7. ASSUME NEW k \in 1..last PROVE End(memory'[k]) < memory'[k + 1].address
    <3>1. k \in 1..n /\ k # last + 1 /\ k + 1 \in 1..n
      BY <1>0, <1>1
    <3>2. CASE k = last
      BY <2>2, <2>6, <3>1, <3>2
    <3>3. CASE k \in 1..(last - 1)
      <4>1. k + 1 # last + 1
        BY <1>0, <3>3
      <4> QED
        BY <1>0, <2>2, <3>1, <3>3, <4>1
    <3> QED
      BY <1>0, <3>2, <3>3
  <2>8. \A k \in (pos + 1)..n : k \in pos..n /\ k \in 1..n /\ k # last + 1 /\ pos <= k
    BY <1>0, <1>1
  <2>9. Merging'
    <3>1. pos' \in 2..(n + 1) /\ last' \in 1..(pos' - 1) /\ last' - 1 = last
      BY <1>0, <1>1, <1>4, <2>1
    <3> QED
      BY <1>0, <1>1, <1>4, <2>1, <2>2, <2>5, <2>7, <2>8, <3>1
      DEF Merging, End
  <2> QED
    BY <1>4, <2>4, <2>9 DEF MapInv, Placing, Collecting, Sorting, Merged
<1> QED
  BY <1>5, <1>6

LEMMA MergeDoneKeeps == ASSUME MapInv, MergeDone PROVE MapInv'
<1> DEFINE n == Len(memory)
<1>0. /\ Shape /\ n \in Nat /\ pos = n + 1 /\ last \in 1..n
      /\ Exact(1..last \cup pos..n, Len(descs))
      /\ \A k \in 1..(last - 1) : End(memory[k]) < memory[k + 1].address
  <2>1. Shape /\ Merging /\ phase = "merge" /\ pos > Len(memory)
    BY DEF MapInv, MergeDone
  <2>2. Len(memory) \in Nat /\ pos = Len(memory) + 1
    BY <2>1, Fields DEF Merging
  <2>3. pos - 1 = Len(memory)
    BY <2>2
  <2> QED
    BY <2>1, <2>2, <2>3 DEF Merging
<1>1. memory' = SubSeq(memory, 1, last) /\ UNCHANGED <<descs, pos, last, place>>
      /\ phase' = "done"
  BY DEF MergeDone
<1>2. memory' \in Seq(MemoryRange) /\ Len(memory') = last
      /\ \A k \in 1..last : memory'[k] = memory[k]
  BY <1>0, <1>1 DEF Shape
<1>3. 1..last \cup pos..n = 1..last /\ \A k \in 1..last : k \in 1..n
  BY <1>0
<1>4. Shape'
  BY <1>0, <1>1, <1>2, <1>3, Fields DEF Shape, End
<1>5. Exact(1..Len(memory), Len(descs))'
  BY <1>0, <1>1, <1>2, <1>3 DEF Exact, InRange, IsUsable, End, Include
<1>6. \A k \in 1..(last - 1) : k \in 1..last /\ k + 1 \in 1..last
  BY <1>0
<1>7. Merged'
  BY <1>0, <1>1, <1>2, <1>5, <1>6 DEF Merged, End
<1> QED
  BY <1>1, <1>4, <1>7 DEF MapInv, Placing, Collecting, Sorting, Merging

LEMMA MapStep == MapInv /\ [MapNext]_mapVars => MapInv'
<1> SUFFICES ASSUME MapInv, [MapNext]_mapVars PROVE MapInv'
  OBVIOUS
<1>1. CASE UNCHANGED mapVars
  BY <1>1
  DEF mapVars, MapInv, Shape, Placing, Collecting, Sorting, Merging, Merged,
      Exact, Lowest, PlacedIn, Overflows, InRange, IsUsable, End, Include
<1> QED
  BY <1>1, PlaceKernelKeeps, PlaceDoneKeeps, CollectKeeps, CollectDoneKeeps,
     SortStepKeeps, SortDoneKeeps, MergeStepKeeps, MergeDoneKeeps DEF MapNext

-----------------------------------------------------------------------------

\* The kernel is told of exactly the usable pages, in ranges that are in order
\* and apart, for every memory map (load_memory_map).
THEOREM MapExact == MapSpec => []MemoryExact
<1>1. MapInv => MemoryExact
  <2> SUFFICES ASSUME MapInv PROVE MemoryExact
    OBVIOUS
  <2>0. Shape /\ Merged
    BY DEF MapInv
  <2>1. MapTypeOK
    BY <2>0, Fields DEF Shape, MapTypeOK
  <2>2. ASSUME phase = "done" PROVE PagesOf(Ranges(memory)) = UsablePages(Len(descs))
    <3>1. Exact(1..Len(memory), Len(descs)) /\ DOMAIN memory = 1..Len(memory)
      BY <2>0, <2>2, Fields DEF Merged
    <3> QED
      BY <3>1 DEF Exact, PagesOf, Ranges, UsablePages, InRange, IsUsable
  <2> QED
    BY <2>0, <2>1, <2>2 DEF MemoryExact, PagesExact, MemorySorted, Merged
<1> QED
  BY <1>1, MapInitially, MapStep, PTL DEF MapSpec

\* An old kernel is put at the lowest aligned address that has room for it, for
\* every memory map (allocate_legacy_kernel_pages).
THEOREM PlaceIsLowest == MapSpec => []LowestPlace
<1>1. MapInv => LowestPlace
  <2> SUFFICES ASSUME MapInv, phase = "collect" PROVE LowestPlace
    BY DEF LowestPlace
  <2>1. Lowest(Len(descs)) /\ DOMAIN descs = 1..Len(descs)
    BY Fields DEF MapInv, Collecting
  <2> QED
    BY <2>1 DEF Lowest, PlacedIn, LowestPlace
<1> QED
  BY <1>1, MapInitially, MapStep, PTL DEF MapSpec

=============================================================================
