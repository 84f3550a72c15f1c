---------------------------- MODULE SdbootProofs ----------------------------
(***************************************************************************)
(* Proofs about the loading of the systemd-boot menu, for every disk, every  *)
(* configuration and every failure of the firmware, and about the order of   *)
(* its entries, for every list of entries.                                   *)
(***************************************************************************)
EXTENDS SdbootMenu, Recursion, FiniteSetTheorems, TLAPS

-----------------------------------------------------------------------------
(* Lines and files *)

\* What every line of a loader.conf keeps, all lines of a file keep.
LEMMA MenuKeep ==
    ASSUME NEW X, NEW x \in X, NEW lines, Len(lines) \in Nat,
           \A y \in X, k \in 1..Len(lines) :
              /\ ParseMenuLine(y, lines[k]).out \in X
              /\ ParseMenuLine(y, lines[k]).ok \in BOOLEAN
    PROVE  /\ ParseLines(ParseMenuLine, x, lines).out \in X
           /\ ParseLines(ParseMenuLine, x, lines).ok \in BOOLEAN
<1> DEFINE n == Len(lines)
           R == [ok : BOOLEAN, out : X]
           Both(r, k) == [ok |-> r.ok \/ ParseMenuLine(r.out, lines[k]).ok,
                          out |-> ParseMenuLine(r.out, lines[k]).out]
           Body(f) == [k \in 0..n |-> IF k = 0 THEN Reject(x) ELSE Both(f[k - 1], k)]
           fl == CHOOSE f : f = Body(f)
           step == [p \in R \X (1..n) |-> Both(p[1], p[2])]
<1>1. ParseLines(ParseMenuLine, x, lines) = fl[n]
  BY Zenon DEF ParseLines
<1>2. \A r \in R, k \in 1..n : Both(r, k) \in R
  OBVIOUS
<1>3. Reject(x) \in R
  BY DEF Reject
<1> HIDE DEF R, Both, n
<1>n. n \in Nat
  BY DEF n
<1>4. step \in [R \X (1..n) -> R] /\ \A r \in R, k \in 1..n : step[<<r, k>>] = Both(r, k)
  BY <1>2
<1> HIDE DEF step
<1>5. PICK g : Iterates(g, R, n, Reject(x), step)
  <2>1. IsStep(step, R, n)
    BY <1>4 DEF IsStep
  <2> QED BY <1>3, <1>n, <2>1, Iteration, Zenon
<1>6. g \in [0..n -> R] /\ g[0] = Reject(x) /\ \A k \in 1..n : g[k] = step[<<g[k - 1], k>>]
  BY <1>5 DEF Iterates
<1>7. g = Body(g)
  <2>1. ASSUME NEW k \in 0..n
        PROVE  g[k] = IF k = 0 THEN Reject(x) ELSE Both(g[k - 1], k)
    <3>1. CASE k = 0
      BY <1>6, <3>1
    <3>2. CASE k # 0
      <4>1. k \in 1..n /\ k - 1 \in 0..n
        BY <1>n, <3>2
      <4> QED BY <1>4, <1>6, <3>2, <4>1
    <3> QED BY <3>1, <3>2
  <2> HIDE DEF Both
  <2> QED BY <1>6, <2>1
<1>8. fl = Body(fl)
  <2> HIDE DEF Body
  <2> QED BY <1>7, Zenon
<1> HIDE DEF fl
<1>9. /\ fl[0] = Reject(x)
      /\ \A k \in 1..n : fl[k] = Both(fl[k - 1], k)
  <2> DEFINE B == Body(fl)
  <2>1. B[0] = Reject(x) /\ \A k \in 1..n : B[k] = Both(fl[k - 1], k)
    BY <1>n
  <2> HIDE DEF B
  <2> QED BY <1>8, <2>1 DEF B
<1> DEFINE S == {k \in 0..n : fl[k] \in R}
<1>10. 0 \in S
  BY <1>3, <1>9, <1>n
<1>11. ASSUME NEW k \in 0..(n - 1), k \in S PROVE k + 1 \in S
  <2>1. PICK j \in 1..n : j = k + 1 /\ j - 1 = k /\ j \in 0..n
    BY <1>n
  <2>2. fl[k] \in R
    BY <1>11
  <2>3. fl[j] \in R
    BY <1>2, <1>9, <2>1, <2>2
  <2> QED BY <2>1, <2>3
<1>12. fl[n] \in R
  <2> HIDE DEF S
  <2>1. \A k \in 0..n : k \in S
    BY <1>n, <1>10, <1>11, SetInduction
  <2>2. n \in S
    BY <1>n, <2>1
  <2> QED BY <2>2 DEF S
<1> QED BY <1>1, <1>12 DEF R

\* What every line of an entry file keeps, all lines of a file keep.
LEMMA LoaderKeep ==
    ASSUME NEW X, NEW x \in X, NEW lines, Len(lines) \in Nat,
           \A y \in X, k \in 1..Len(lines) :
              /\ ParseLoaderLine(y, lines[k]).out \in X
              /\ ParseLoaderLine(y, lines[k]).ok \in BOOLEAN
    PROVE  /\ ParseLines(ParseLoaderLine, x, lines).out \in X
           /\ ParseLines(ParseLoaderLine, x, lines).ok \in BOOLEAN
<1> DEFINE n == Len(lines)
           R == [ok : BOOLEAN, out : X]
           Both(r, k) == [ok |-> r.ok \/ ParseLoaderLine(r.out, lines[k]).ok,
                          out |-> ParseLoaderLine(r.out, lines[k]).out]
           Body(f) == [k \in 0..n |-> IF k = 0 THEN Reject(x) ELSE Both(f[k - 1], k)]
           fl == CHOOSE f : f = Body(f)
           step == [p \in R \X (1..n) |-> Both(p[1], p[2])]
<1>1. ParseLines(ParseLoaderLine, x, lines) = fl[n]
  BY Zenon DEF ParseLines
<1>2. \A r \in R, k \in 1..n : Both(r, k) \in R
  OBVIOUS
<1>3. Reject(x) \in R
  BY DEF Reject
<1> HIDE DEF R, Both, n
<1>n. n \in Nat
  BY DEF n
<1>4. step \in [R \X (1..n) -> R] /\ \A r \in R, k \in 1..n : step[<<r, k>>] = Both(r, k)
  BY <1>2
<1> HIDE DEF step
<1>5. PICK g : Iterates(g, R, n, Reject(x), step)
  <2>1. IsStep(step, R, n)
    BY <1>4 DEF IsStep
  <2> QED BY <1>3, <1>n, <2>1, Iteration, Zenon
<1>6. g \in [0..n -> R] /\ g[0] = Reject(x) /\ \A k \in 1..n : g[k] = step[<<g[k - 1], k>>]
  BY <1>5 DEF Iterates
<1>7. g = Body(g)
  <2>1. ASSUME NEW k \in 0..n
        PROVE  g[k] = IF k = 0 THEN Reject(x) ELSE Both(g[k - 1], k)
    <3>1. CASE k = 0
      BY <1>6, <3>1
    <3>2. CASE k # 0
      <4>1. k \in 1..n /\ k - 1 \in 0..n
        BY <1>n, <3>2
      <4> QED BY <1>4, <1>6, <3>2, <4>1
    <3> QED BY <3>1, <3>2
  <2> HIDE DEF Both
  <2> QED BY <1>6, <2>1
<1>8. fl = Body(fl)
  <2> HIDE DEF Body
  <2> QED BY <1>7, Zenon
<1> HIDE DEF fl
<1>9. /\ fl[0] = Reject(x)
      /\ \A k \in 1..n : fl[k] = Both(fl[k - 1], k)
  <2> DEFINE B == Body(fl)
  <2>1. B[0] = Reject(x) /\ \A k \in 1..n : B[k] = Both(fl[k - 1], k)
    BY <1>n
  <2> HIDE DEF B
  <2> QED BY <1>8, <2>1 DEF B
<1> DEFINE S == {k \in 0..n : fl[k] \in R}
<1>10. 0 \in S
  BY <1>3, <1>9, <1>n
<1>11. ASSUME NEW k \in 0..(n - 1), k \in S PROVE k + 1 \in S
  <2>1. PICK j \in 1..n : j = k + 1 /\ j - 1 = k /\ j \in 0..n
    BY <1>n
  <2>2. fl[k] \in R
    BY <1>11
  <2>3. fl[j] \in R
    BY <1>2, <1>9, <2>1, <2>2
  <2> QED BY <2>1, <2>3
<1>12. fl[n] \in R
  <2> HIDE DEF S
  <2>1. \A k \in 0..n : k \in S
    BY <1>n, <1>10, <1>11, SetInduction
  <2>2. n \in S
    BY <1>n, <2>1
  <2> QED BY <2>2 DEF S
<1> QED BY <1>1, <1>12 DEF R

-----------------------------------------------------------------------------
(* Types *)

\* The settings: sdboot_boot_menu
Value == Text \cup {None} \cup BOOLEAN \cup Int
           \cup Words("console-mode") \cup Words("secureboot-enroll")
Settings == {s \in [MenuKey -> Value] : s["timeout"] \in (-INT_MAX - 1)..INT_MAX}

\* The entries: sdboot_boot_loader
Roots == DOMAIN disk.root
LoaderKey == StringKey \cup ListKey \cup {"architecture", "name", "root"}
LoaderValue == Text \cup {None} \cup Seq(Text) \cup Archs \cup {CurrentArch} \cup Roots
EntriesOf(h) ==
    {l \in [LoaderKey -> LoaderValue] :
       /\ l["name"] \in Text
       /\ l["root"] = h
       /\ \A k \in StringKey : l[k] \in Text \cup {None}
       /\ \A k \in ListKey : l[k] \in Seq(Text)}
Entries == UNION {EntriesOf(h) : h \in Roots}

InputInv == \E s \in Situations : disk = s.disk /\ cfg = s.cfg /\ menu0 = s.menu

\* What the assumptions say of the inputs at hand
LEMMA InputIs ==
    ASSUME InputInv
    PROVE  /\ None \notin Roots
           /\ disk.handles \in Seq(Roots) /\ Len(disk.handles) \in Nat
           /\ disk.current \in Roots \cup {None} /\ disk.previous \in Roots \cup {None}
           /\ \A i \in 1..Len(disk.handles) : disk.handles[i] \in Roots
           /\ \A h \in Roots : IsRoot(disk.root[h])
           /\ cfg.offset \in Int /\ cfg.multi \in BOOLEAN
           /\ IsSequence(menu0.loaders)
           /\ \A k \in DOMAIN menu0.loaders :
                 /\ menu0.loaders[k].priority \in Int
                 /\ menu0.loaders[k].type # "sdboot" /\ menu0.loaders[k].extra = 0
           /\ DOMAIN menu0 = {"loaders", "timeout", "disabled", "default"}
<1>1. PICK s \in Situations : disk = s.disk /\ cfg = s.cfg /\ menu0 = s.menu
  BY DEF InputInv
<1>2. /\ None \notin Roots
      /\ disk.handles \in Seq(Roots)
      /\ {disk.current, disk.previous} \subseteq Roots \cup {None}
      /\ \A h \in Roots : IsRoot(disk.root[h])
  BY <1>1, DisksAssumption, Zenon DEF Roots
<1>3. /\ cfg.offset \in Int /\ cfg.multi \in BOOLEAN
      /\ IsSequence(menu0.loaders)
      /\ \A k \in DOMAIN menu0.loaders :
            /\ menu0.loaders[k].priority \in Int
            /\ menu0.loaders[k].type # "sdboot" /\ menu0.loaders[k].extra = 0
      /\ DOMAIN menu0 = {"loaders", "timeout", "disabled", "default"}
  BY <1>1, MenusAssumption, Zenon
<1>4. Len(disk.handles) \in Nat /\ \A i \in 1..Len(disk.handles) : disk.handles[i] \in Roots
  BY <1>2
<1> QED BY <1>2, <1>3, <1>4, Zenon

\* The search changes none of them.
LEMMA InputsStay ==
    ASSUME [Next]_vars
    PROVE  UNCHANGED <<disk, cfg, menu0>>
  BY DEF Next, vars, inputs, Start, TryCurrent, TryPrevious, Locate, ScanNext, ScanEnd,
     LoadConf, OpenFolder, ReadEntry, ReadFolderFails, CloseFolder, ApplySettings,
     AddItems

\* A line of a loader.conf keeps the settings well formed, and a default that
\* has been given stays given.
LEMMA LineKeeps ==
    ASSUME NEW s \in Settings, NEW line, IsConfLine(line)
    PROVE  /\ ParseMenuLine(s, line).out \in Settings
           /\ ParseMenuLine(s, line).ok \in BOOLEAN
           /\ s["default"] # None => ParseMenuLine(s, line).out["default"] # None
<1> DEFINE r == ParseMenuLine(s, line)
           v == line.value
           Good(x) == /\ x.out \in Settings /\ x.ok \in BOOLEAN
                      /\ s["default"] # None => x.out["default"] # None
<1>1. /\ s \in [MenuKey -> Value] /\ DOMAIN s = MenuKey
      /\ s["timeout"] \in (-INT_MAX - 1)..INT_MAX
  BY DEF Settings
<1>k. /\ {"default", "timeout", "disabled"} \subseteq MenuKey
      /\ BoolKey \subseteq MenuKey /\ ChoiceKey \subseteq MenuKey
      /\ "default" \notin BoolKey \cup ChoiceKey
      /\ "timeout" \notin BoolKey \cup ChoiceKey
  BY DEF MenuKey, BoolKey, ChoiceKey
<1>2. Good(Accept(s)) /\ Good(Reject(s))
  BY DEF Accept, Reject
<1>3. ASSUME NEW k \in MenuKey \ {"timeout"}, NEW x \in Value, k = "default" => x # None
      PROVE  Good(Accept([s EXCEPT ![k] = x]))
  <2>1. [s EXCEPT ![k] = x] \in [MenuKey -> Value]
    BY <1>1
  <2>2. [s EXCEPT ![k] = x]["timeout"] = s["timeout"]
    BY <1>1, <1>k
  <2>3. s["default"] # None => [s EXCEPT ![k] = x]["default"] # None
    BY <1>1, <1>3, <1>k
  <2>4. [s EXCEPT ![k] = x] \in Settings
    BY <1>1, <2>1, <2>2 DEF Settings
  <2> QED BY <2>3, <2>4 DEF Accept
<1>4. ASSUME NEW x \in (-INT_MAX - 1)..INT_MAX, NEW d \in BOOLEAN
      PROVE  /\ Good(Accept([[s EXCEPT !["timeout"] = x] EXCEPT !["disabled"] = d]))
             /\ Good(Reject([s EXCEPT !["timeout"] = x]))
  <2>1. x \in Value /\ d \in Value
    BY IntAssumption DEF Value
  <2> DEFINE t == [s EXCEPT !["timeout"] = x]
             u == [t EXCEPT !["disabled"] = d]
  <2>2. t \in [MenuKey -> Value] /\ t["timeout"] = x /\ t["default"] = s["default"]
    BY <1>1, <1>k, <2>1
  <2> HIDE DEF t
  <2>3. u \in [MenuKey -> Value] /\ u["timeout"] = x /\ u["default"] = s["default"]
    BY <1>k, <2>1, <2>2
  <2> HIDE DEF u
  <2>4. t \in Settings /\ u \in Settings
    BY <1>4, <2>2, <2>3 DEF Settings
  <2>5. Good(Accept(u)) /\ Good(Reject(t))
    BY <2>2, <2>3, <2>4 DEF Accept, Reject
  <2> QED BY <2>5 DEF t, u
<1> SUFFICES Good(r)
  OBVIOUS
<1> HIDE DEF Good
<1>5. CASE line.kind # "pair"
  <2>1. r = Accept(s) \/ r = Reject(s)
    BY <1>5 DEF ParseMenuLine, IsConfLine, LineKind
  <2> QED BY <1>2, <2>1
<1>6. CASE line.kind = "pair"
  <2> DEFINE k == line.key
  <2>1. r = ParseMenuOne(s, k, v)
    BY <1>6 DEF ParseMenuLine
  <2>2. CASE k = "default"
    <3>1. r = Accept([s EXCEPT !["default"] = v])
      BY <2>1, <2>2 DEF ParseMenuOne
    <3>2. v \in Text /\ v \in Value /\ v # None
      BY <1>6, <2>2, TextAssumption DEF IsConfLine, Value
    <3> QED BY <1>3, <1>k, <3>1, <3>2
  <2>3. CASE k = "timeout"
    <3> DEFINE t == ParseTimeout(s, v)
    <3>1. r = IF t.ok THEN Accept([t.out EXCEPT !["disabled"] = (v.word = "menu-disabled")])
                      ELSE t
      BY <2>1, <2>3 DEF ParseMenuOne
    <3>2. \/ \E x \in (-INT_MAX - 1)..INT_MAX :
                t = Accept([s EXCEPT !["timeout"] = x]) \/ t = Reject([s EXCEPT !["timeout"] = x])
          \/ t = Reject(s)
      <4>1. -1 \in (-INT_MAX - 1)..INT_MAX /\ 0 \in (-INT_MAX - 1)..INT_MAX
        BY IntAssumption
      <4>2. \A x \in 0..INT_MAX : x \in (-INT_MAX - 1)..INT_MAX
        BY IntAssumption
      <4>3. \A x \in (-INT_MAX - 1)..(-1) : x \in (-INT_MAX - 1)..INT_MAX
        BY IntAssumption
      <4> DEFINE T(x) == [s EXCEPT !["timeout"] = x]
      <4>4. \/ t = Accept(T(-1)) \/ t = Accept(T(0)) \/ t = Reject(s)
            \/ v.n \in 0..INT_MAX /\ t = Accept(T(v.n))
            \/ v.n \in (-INT_MAX - 1)..(-1) /\ t = Reject(T(v.n))
        <5> HIDE DEF T
        <5>1. ParseTimeout(s, v)
                = CASE v.word = "menu-force" -> Accept(T(-1))
                    [] v.word \in {"menu-hidden", "menu-disabled"} -> Accept(T(0))
                    [] v.word = "int" /\ v.n \in 0..INT_MAX -> Accept(T(v.n))
                    [] v.word = "int" /\ v.n \in (-INT_MAX - 1)..(-1) -> Reject(T(v.n))
                    [] OTHER -> Reject(s)
          BY DEF ParseTimeout, T
        <5> QED BY <5>1
      <4> HIDE DEF t, T
      <4>5. \E x \in (-INT_MAX - 1)..INT_MAX :
               t = Accept(T(x)) \/ t = Reject(T(x)) \/ t = Reject(s)
        BY <4>1, <4>2, <4>3, <4>4
      <4> QED BY <4>5, Zenon DEF T
    <3> HIDE DEF t
    <3>3. CASE t = Reject(s)
      BY <1>2, <3>1, <3>3 DEF Reject
    <3>4. ASSUME NEW x \in (-INT_MAX - 1)..INT_MAX,
                 t = Accept([s EXCEPT !["timeout"] = x])
          PROVE  Good(r)
      <4>1. r = Accept([[s EXCEPT !["timeout"] = x] EXCEPT !["disabled"] = (v.word = "menu-disabled")])
        BY <3>1, <3>4, Zenon DEF Accept
      <4> QED BY <1>4, <4>1
    <3>5. ASSUME NEW x \in (-INT_MAX - 1)..INT_MAX,
                 t = Reject([s EXCEPT !["timeout"] = x])
          PROVE  Good(r)
      <4>1. r = t
        BY <3>1, <3>5 DEF Reject
      <4> QED BY <1>4, <3>5, <4>1
    <3> QED BY <3>2, <3>3, <3>4, <3>5
  <2>4. CASE k \in BoolKey
    <3>1. r = Accept([s EXCEPT ![k] = (v = "yes")]) \/ r = Reject(s)
      BY <2>1, <2>4, <1>k, Zenon DEF ParseMenuOne
    <3>2. (v = "yes") \in Value /\ k \in MenuKey \ {"timeout"} /\ k # "default"
      BY <1>k, <2>4 DEF Value
    <3> QED BY <1>2, <1>3, <3>1, <3>2
  <2>5. CASE k \in ChoiceKey
    <3>1. (r = Accept([s EXCEPT ![k] = v]) /\ v \in Words(k)) \/ r = Reject(s)
      BY <2>1, <2>5, <1>k DEF ParseMenuOne, BoolKey, ChoiceKey
    <3>2. k \in MenuKey \ {"timeout"} /\ k # "default"
      BY <1>k, <2>5
    <3>3. v \in Words(k) => v \in Value
      BY <2>5 DEF ChoiceKey, Value
    <3> QED BY <1>2, <1>3, <3>1, <3>2, <3>3
  <2>6. CASE k \notin {"default", "timeout"} \cup BoolKey \cup ChoiceKey
    <3>1. r = Accept(s)
      BY <2>1, <2>6 DEF ParseMenuOne
    <3> QED BY <1>2, <3>1
  <2> QED BY <2>2, <2>3, <2>4, <2>5, <2>6
<1> QED BY <1>5, <1>6

-----------------------------------------------------------------------------
(* Settings *)

\* A loader.conf that can be there
IsConf(conf) == IsSequence(conf) /\ \A k \in DOMAIN conf : IsConfLine(conf[k])

\* A whole loader.conf keeps the settings well formed, and a default given.
LEMMA ConfKeeps ==
    ASSUME NEW s \in Settings, NEW conf, IsConf(conf)
    PROVE  /\ ParseMenu(s, conf).out \in Settings
           /\ s["default"] # None => ParseMenu(s, conf).out["default"] # None
<1> DEFINE X == {t \in Settings : s["default"] # None => t["default"] # None}
           p == ParseLines(ParseMenuLine, s, conf)
<1>1. Len(conf) \in Nat /\ \A k \in 1..Len(conf) : IsConfLine(conf[k])
  BY DEF IsConf, IsSequence
<1>2. s \in X
  OBVIOUS
<1>3. \A t \in X, k \in 1..Len(conf) : /\ ParseMenuLine(t, conf[k]).out \in X
                                       /\ ParseMenuLine(t, conf[k]).ok \in BOOLEAN
  BY <1>1, LineKeeps
<1> HIDE DEF X
<1>4. p.out \in X
  BY <1>1, <1>2, <1>3, MenuKeep
<1> HIDE DEF p
<1>5. ParseMenu(s, conf) = IF p.ok THEN p ELSE Reject(s)
  BY DEF ParseMenu, p
<1>6. ParseMenu(s, conf).out \in X
  BY <1>2, <1>4, <1>5 DEF Reject
<1> QED BY <1>6 DEF X

\* The settings before any loader.conf
LEMMA InitMenuIs ==
    /\ InitMenu \in Settings
    /\ InitMenu["default"] = None
<1>1. \A k \in MenuKey : InitMenu[k] \in Value
  BY DEF InitMenu, MenuKey, Value, Words, BoolKey, ChoiceKey
<1>2. InitMenu \in [MenuKey -> Value]
  BY <1>1 DEF InitMenu
<1>3. InitMenu["timeout"] = 0 /\ InitMenu["default"] = None
  BY DEF InitMenu, MenuKey
<1>4. 0 \in (-INT_MAX - 1)..INT_MAX
  BY IntAssumption
<1> QED BY <1>2, <1>3, <1>4 DEF Settings

\* Every partition of hs has a loader.conf.
HaveConf(hs) == \A k \in 1..Len(hs) : IsConf(disk.root[hs[k]].conf)

\* What SettingsOf goes through
SettingsRun(f, hs) ==
    /\ f \in [0..Len(hs) -> Settings]
    /\ f[0] = InitMenu
    /\ \A k \in 1..Len(hs) : f[k] = ParseMenu(f[k - 1], disk.root[hs[k]].conf).out

\* SettingsOf reads one loader.conf after the other.
LEMMA SettingsSteps ==
    ASSUME NEW hs, Len(hs) \in Nat, HaveConf(hs)
    PROVE  \E f : SettingsRun(f, hs) /\ SettingsOf(hs) = f[Len(hs)]
<1> DEFINE n == Len(hs)
           After(s, k) == ParseMenu(s, disk.root[hs[k]].conf).out
           Body(f) == [k \in 0..n |-> IF k = 0 THEN InitMenu ELSE After(f[k - 1], k)]
           fl == CHOOSE f : f = Body(f)
           step == [p \in Settings \X (1..n) |-> After(p[1], p[2])]
<1>1. SettingsOf(hs) = fl[n]
  BY Zenon DEF SettingsOf
<1>2. \A s \in Settings, k \in 1..n : After(s, k) \in Settings
  BY ConfKeeps DEF HaveConf
<1>3. InitMenu \in Settings
  BY InitMenuIs
<1>a. \A s, k : After(s, k) = ParseMenu(s, disk.root[hs[k]].conf).out
  OBVIOUS
<1> HIDE DEF After, n
<1>n. n \in Nat
  BY DEF n
<1>4. step \in [Settings \X (1..n) -> Settings]
        /\ \A s \in Settings, k \in 1..n : step[<<s, k>>] = After(s, k)
  BY <1>2
<1> HIDE DEF step
<1>5. PICK g : Iterates(g, Settings, n, InitMenu, step)
  <2>1. IsStep(step, Settings, n)
    BY <1>4 DEF IsStep
  <2> QED BY <1>3, <1>n, <2>1, Iteration, Zenon
<1>6. g \in [0..n -> Settings] /\ g[0] = InitMenu /\ \A k \in 1..n : g[k] = step[<<g[k - 1], k>>]
  BY <1>5 DEF Iterates
<1>7. g = Body(g)
  <2>1. ASSUME NEW k \in 0..n
        PROVE  g[k] = IF k = 0 THEN InitMenu ELSE After(g[k - 1], k)
    <3>1. CASE k = 0
      BY <1>6, <3>1
    <3>2. CASE k # 0
      <4>1. k \in 1..n /\ k - 1 \in 0..n
        BY <1>n, <3>2
      <4> QED BY <1>4, <1>6, <3>2, <4>1
    <3> QED BY <3>1, <3>2
  <2> QED BY <1>6, <2>1
<1>8. fl = Body(fl)
  <2> HIDE DEF Body
  <2> QED BY <1>7, Zenon
<1> HIDE DEF fl
<1>9. /\ fl[0] = InitMenu
      /\ \A k \in 1..n : fl[k] = After(fl[k - 1], k)
      /\ fl = [k \in 0..n |-> fl[k]]
  <2> DEFINE B == Body(fl)
  <2>1. B[0] = InitMenu /\ (\A k \in 1..n : B[k] = After(fl[k - 1], k))
          /\ B = [k \in 0..n |-> B[k]]
    BY <1>n
  <2> HIDE DEF B
  <2> QED BY <1>8, <2>1 DEF B
<1> DEFINE S == {k \in 0..n : fl[k] \in Settings}
<1>10. 0 \in S
  BY <1>3, <1>9, <1>n
<1>11. ASSUME NEW k \in 0..(n - 1), k \in S PROVE k + 1 \in S
  <2>1. PICK j \in 1..n : j = k + 1 /\ j - 1 = k /\ j \in 0..n
    BY <1>n
  <2>2. fl[k] \in Settings
    BY <1>11
  <2>3. fl[j] \in Settings
    BY <1>2, <1>9, <2>1, <2>2
  <2> QED BY <2>1, <2>3
<1>12. \A k \in 0..n : fl[k] \in Settings
  <2> HIDE DEF S
  <2>1. \A k \in 0..n : k \in S
    BY <1>n, <1>10, <1>11, SetInduction
  <2> QED BY <2>1 DEF S
<1>13. fl \in [0..n -> Settings]
  BY <1>9, <1>12
<1>14. SettingsRun(fl, hs)
  BY <1>9, <1>13, <1>a DEF SettingsRun, n
<1> QED BY <1>1, <1>14 DEF n

\* One more loader.conf changes the settings as parsing it does.
LEMMA SettingsOfAppend ==
    ASSUME NEW S, NEW hs \in Seq(S), NEW h \in S, HaveConf(hs), IsConf(disk.root[h].conf)
    PROVE  /\ SettingsOf(hs) \in Settings
           /\ SettingsOf(Append(hs, h)) = ParseMenu(SettingsOf(hs), disk.root[h].conf).out
<1> DEFINE n == Len(hs)
           q == Append(hs, h)
<1>1. /\ n \in Nat /\ Len(q) = n + 1 /\ q[n + 1] = h
      /\ \A k \in 1..n : q[k] = hs[k]
  OBVIOUS
<1> HIDE DEF q
<1>2. HaveConf(q) /\ Len(q) \in Nat
  BY <1>1 DEF HaveConf
<1>3. PICK f : SettingsRun(f, hs) /\ SettingsOf(hs) = f[n]
  BY <1>1, SettingsSteps
<1>4. PICK g : SettingsRun(g, q) /\ SettingsOf(q) = g[n + 1]
  BY <1>1, <1>2, SettingsSteps
<1> HIDE DEF n
<1>5. /\ f \in [0..n -> Settings] /\ f[0] = InitMenu
      /\ \A k \in 1..n : f[k] = ParseMenu(f[k - 1], disk.root[hs[k]].conf).out
      /\ g[0] = InitMenu
      /\ \A k \in 1..(n + 1) : g[k] = ParseMenu(g[k - 1], disk.root[q[k]].conf).out
  BY <1>1, <1>3, <1>4 DEF SettingsRun, n
<1> DEFINE I == {k \in 0..n : g[k] = f[k]}
<1>6. 0 \in I
  BY <1>1, <1>5
<1>7. ASSUME NEW k \in 0..(n - 1), k \in I PROVE k + 1 \in I
  <2>1. PICK j \in 1..n : j = k + 1 /\ j - 1 = k
    BY <1>1
  <2>2. j \in 1..(n + 1) /\ j \in 0..n
    BY <1>1
  <2>3. /\ g[j] = ParseMenu(g[k], disk.root[q[j]].conf).out
        /\ f[j] = ParseMenu(f[k], disk.root[hs[j]].conf).out
        /\ q[j] = hs[j]
    BY <1>1, <1>5, <2>1, <2>2
  <2>4. g[k] = f[k]
    BY <1>7
  <2> QED BY <2>1, <2>2, <2>3, <2>4
<1>8. g[n] = f[n]
  <2> HIDE DEF I
  <2>1. \A k \in 0..n : k \in I
    BY <1>1, <1>6, <1>7, SetInduction
  <2>2. n \in I
    BY <1>1, <2>1
  <2> QED BY <2>2 DEF I
<1>9. g[n + 1] = ParseMenu(g[n], disk.root[h].conf).out
  <2>1. PICK j \in 1..(n + 1) : j = n + 1 /\ j - 1 = n
    BY <1>1
  <2> QED BY <1>1, <1>5, <2>1
<1>10. SettingsOf(q) = ParseMenu(SettingsOf(hs), disk.root[h].conf).out
  BY <1>3, <1>4, <1>8, <1>9
<1>11. SettingsOf(hs) \in Settings
  BY <1>1, <1>3, <1>5
<1> QED BY <1>10, <1>11 DEF q

\* No loader.conf leaves the settings as they start.
LEMMA SettingsOfNone == SettingsOf(<<>>) = InitMenu
<1>1. Len(<<>>) = 0 /\ HaveConf(<<>>)
  BY DEF HaveConf
<1>2. PICK f : SettingsRun(f, <<>>) /\ SettingsOf(<<>>) = f[0]
  BY <1>1, SettingsSteps
<1> QED BY <1>2 DEF SettingsRun

\* A line of an entry file keeps the entry well formed.
LEMMA EntryLineKeeps ==
    ASSUME NEW h \in Roots, NEW l \in EntriesOf(h), NEW line, IsEntryLine(line)
    PROVE  /\ ParseLoaderLine(l, line).out \in EntriesOf(h)
           /\ ParseLoaderLine(l, line).ok \in BOOLEAN
<1> DEFINE k == line.key
           v == line.value
           r == ParseLoaderLine(l, line)
           Good(x) == x.out \in EntriesOf(h) /\ x.ok \in BOOLEAN
<1>1. /\ l \in [LoaderKey -> LoaderValue] /\ l["name"] \in Text /\ l["root"] = h
      /\ \A s \in StringKey : l[s] \in Text \cup {None}
      /\ \A s \in ListKey : l[s] \in Seq(Text)
  BY DEF EntriesOf
<1>k. /\ StringKey \subseteq LoaderKey /\ ListKey \subseteq LoaderKey
      /\ "architecture" \in LoaderKey
      /\ StringKey \cap ListKey = {}
      /\ {"name", "root", "architecture"} \cap (StringKey \cup ListKey) = {}
  BY DEF LoaderKey, StringKey, ListKey
<1>2. Good(Accept(l)) /\ Good(Reject(l))
  BY DEF Accept, Reject
<1>3. ASSUME NEW key \in LoaderKey \ {"name", "root"}, NEW x \in LoaderValue,
             key \in StringKey => x \in Text \cup {None},
             key \in ListKey => x \in Seq(Text)
      PROVE  Good(Accept([l EXCEPT ![key] = x]))
  <2> DEFINE m == [l EXCEPT ![key] = x]
  <2>1. m \in [LoaderKey -> LoaderValue] /\ m[key] = x
          /\ \A s \in LoaderKey : s # key => m[s] = l[s]
    BY <1>1
  <2> HIDE DEF m
  <2>2. m["name"] \in Text /\ m["root"] = h
    BY <1>1, <2>1 DEF LoaderKey
  <2>3. ASSUME NEW s \in StringKey PROVE m[s] \in Text \cup {None}
    BY <1>1, <1>3, <1>k, <2>1
  <2>4. ASSUME NEW s \in ListKey PROVE m[s] \in Seq(Text)
    BY <1>1, <1>3, <1>k, <2>1
  <2>5. m \in EntriesOf(h)
    BY <2>1, <2>2, <2>3, <2>4 DEF EntriesOf
  <2> QED BY <2>5 DEF m, Accept
<1> SUFFICES Good(r)
  OBVIOUS
<1> HIDE DEF Good
<1>4. CASE line.kind # "pair"
  <2>1. r = Accept(l) \/ r = Reject(l)
    BY <1>4 DEF ParseLoaderLine, IsEntryLine, LineKind
  <2> QED BY <1>2, <2>1
<1>5. CASE line.kind = "pair"
  <2>1. r = ParseLoaderOne(l, k, v)
    BY <1>5 DEF ParseLoaderLine
  <2>2. CASE k \in StringKey
    <3>1. r = Accept([l EXCEPT ![k] = v])
      BY <2>1, <2>2 DEF ParseLoaderOne
    <3>2. v \in Text /\ v \in LoaderValue
      BY <1>5, <2>2 DEF IsEntryLine, LoaderValue
    <3>3. k \in LoaderKey \ {"name", "root"} /\ k \notin ListKey
      BY <1>k, <2>2
    <3> QED BY <1>3, <3>1, <3>2, <3>3
  <2>3. CASE k \in ListKey
    <3>1. r = Accept([l EXCEPT ![k] = l[k] \o v])
      BY <1>k, <2>1, <2>3 DEF ParseLoaderOne
    <3>2. l[k] \o v \in Seq(Text)
      <4>1. v \in Seq(Text) /\ l[k] \in Seq(Text)
        BY <1>1, <1>5, <2>3 DEF IsEntryLine
      <4> HIDE DEF k, v
      <4> QED BY <4>1
    <3>3. l[k] \o v \in LoaderValue
      BY <3>2 DEF LoaderValue
    <3>4. k \in LoaderKey \ {"name", "root"} /\ k \notin StringKey
      BY <1>k, <2>3
    <3> QED BY <1>3, <3>1, <3>2, <3>3, <3>4
  <2>4. CASE k = "architecture"
    <3>1. (r = Accept([l EXCEPT !["architecture"] = v]) /\ v \in Archs) \/ r = Reject(l)
      BY <1>k, <2>1, <2>4 DEF ParseLoaderOne
    <3>2. v \in Archs => v \in LoaderValue
      BY DEF LoaderValue
    <3>3. "architecture" \notin StringKey /\ "architecture" \notin ListKey
      BY <1>k
    <3> QED BY <1>2, <1>3, <1>k, <3>1, <3>2, <3>3
  <2>5. CASE k \notin StringKey \cup ListKey \cup {"architecture"}
    <3>1. r = Accept(l)
      BY <2>1, <2>5 DEF ParseLoaderOne
    <3> QED BY <1>2, <3>1
  <2> QED BY <2>2, <2>3, <2>4, <2>5
<1> QED BY <1>4, <1>5

\* An entry file of a partition adds at most one entry, which is of that
\* partition.
LEMMA LoadEntryIs ==
    ASSUME NEW h \in Roots, NEW f, IsEntryFile(f)
    PROVE  LoadEntry(h, f) \in Seq(EntriesOf(h))
<1> DEFINE new == [InitLoader EXCEPT !["name"] = f.name, !["root"] = h]
           p == ParseLines(ParseLoaderLine, new, f.lines)
<1>1. /\ f.name \in Text /\ Len(f.lines) \in Nat
      /\ \A k \in 1..Len(f.lines) : IsEntryLine(f.lines[k])
  BY DEF IsEntryFile, IsSequence
<1>2. new \in EntriesOf(h)
  <2>1. /\ new = [k \in LoaderKey |-> IF k = "root" THEN h
                                      ELSE IF k = "name" THEN f.name ELSE InitLoader[k]]
    <3> DEFINE i == InitLoader
    <3>1. i = [k \in LoaderKey |-> i[k]]
      BY DEF InitLoader, LoaderKey
    <3> HIDE DEF i
    <3>2. [i EXCEPT !["name"] = f.name, !["root"] = h]
            = [k \in LoaderKey |-> IF k = "root" THEN h
                                   ELSE IF k = "name" THEN f.name ELSE i[k]]
      BY <3>1
    <3> QED BY <3>2 DEF i
  <2>2. \A k \in LoaderKey : InitLoader[k] = IF k = "architecture" THEN CurrentArch
                                             ELSE IF k \in ListKey THEN <<>> ELSE None
    <3>1. "architecture" \notin ListKey
      BY DEF ListKey
    <3>2. \A k \in LoaderKey :
             InitLoader[k] = CASE k = "architecture" -> CurrentArch
                               [] k \in ListKey -> <<>>
                               [] OTHER -> None
      BY DEF InitLoader, LoaderKey
    <3>3. ASSUME NEW k \in LoaderKey
          PROVE  InitLoader[k] = IF k = "architecture" THEN CurrentArch
                                 ELSE IF k \in ListKey THEN <<>> ELSE None
      BY <3>1, <3>2
    <3> QED BY <3>3
  <2> HIDE DEF new
  <2>3. <<>> \in Seq(Text)
    OBVIOUS
  <2>4. \A k \in LoaderKey : InitLoader[k] \in LoaderValue
    BY <2>2, <2>3 DEF LoaderValue
  <2>5. f.name \in LoaderValue /\ h \in LoaderValue
    BY <1>1 DEF LoaderValue
  <2>6. new \in [LoaderKey -> LoaderValue]
    BY <2>1, <2>4, <2>5
  <2>7. /\ {"name", "root"} \subseteq LoaderKey
        /\ StringKey \subseteq LoaderKey /\ ListKey \subseteq LoaderKey
        /\ \A k \in StringKey : k \notin ListKey /\ k \notin {"architecture", "name", "root"}
        /\ \A k \in ListKey : k \notin {"architecture", "name", "root"}
    BY DEF LoaderKey, StringKey, ListKey
  <2>8. new["name"] = f.name /\ new["root"] = h
    BY <2>1, <2>7
  <2>9. \A k \in StringKey : new[k] = None
    BY <2>1, <2>2, <2>7
  <2>10. \A k \in ListKey : new[k] = <<>>
    BY <2>1, <2>2, <2>7
  <2> QED BY <1>1, <2>3, <2>6, <2>8, <2>9, <2>10 DEF EntriesOf
<1> HIDE DEF new
<1>3. \A l \in EntriesOf(h), k \in 1..Len(f.lines) :
         /\ ParseLoaderLine(l, f.lines[k]).out \in EntriesOf(h)
         /\ ParseLoaderLine(l, f.lines[k]).ok \in BOOLEAN
  BY <1>1, EntryLineKeeps
<1>4. p.out \in EntriesOf(h)
  <2> DEFINE E == EntriesOf(h)
  <2>1. new \in E /\ \A l \in E, k \in 1..Len(f.lines) :
                        /\ ParseLoaderLine(l, f.lines[k]).out \in E
                        /\ ParseLoaderLine(l, f.lines[k]).ok \in BOOLEAN
    BY <1>2, <1>3
  <2> HIDE DEF E
  <2> QED BY <1>1, <2>1, LoaderKeep DEF E
<1> HIDE DEF p
<1>5. LoadEntry(h, f) \in {<<p.out>>, <<>>}
  <2>1. LoadEntry(h, f)
          = IF p.ok /\ LoaderCheck(p.out) /\ p.out["architecture"] = CurrentArch
            THEN <<p.out>> ELSE <<>>
    BY DEF LoadEntry, ParseLoader, p, new
  <2> QED BY <2>1
<1>6. \A S : <<>> \in Seq(S) /\ \A x \in S : <<x>> \in Seq(S)
  OBVIOUS
<1> QED BY <1>4, <1>5, <1>6, Zenon

InFolder == {"conf", "folder", "files", "apply"}

\* The types of the state, in full: the settings and the entries are those that
\* the parser can make, and what is being loaded is a partition with a folder.
TypeInv ==
    /\ InputInv
    /\ pc \in Control /\ status \in Status \cup {None}
    /\ (pc = "done") = (status # None)
    /\ haveSuccess \in BOOLEAN
    /\ index \in 1..(Len(disk.handles) + 1)
    /\ back \in {None, "previous", "locate", "scan"}
    /\ dir # None => HasFolder(dir)
    /\ pc = "start" => sdboot = None /\ visited = <<>>
    /\ pc \notin {"start", "done"} \/ visited # <<>> \/ sdboot # None
         => sdboot \in [menu : Settings, loaders : Seq(Entries)]
    /\ visited \in Seq(Roots)
    /\ confs \in Seq(Roots)
    /\ \A k \in DOMAIN confs : disk.root[confs[k]].conf # None
    /\ pc \in InFolder => dir \in Roots /\ back # None
    /\ file \in Nat \ {0}
    /\ pc = "files" => /\ disk.root[dir].entries # None
                       /\ pending \in Seq(EntriesOf(dir))

\* What the disk gives does not change.
LEMMA RootsStay ==
    ASSUME UNCHANGED disk
    PROVE  /\ Roots' = Roots /\ Entries' = Entries
           /\ dir' = dir => EntriesOf(dir)' = EntriesOf(dir)
BY DEF Roots, Entries, EntriesOf, LoaderValue

\* The types hold at the start.
LEMMA TypeInit == Init => TypeInv
<1> SUFFICES ASSUME Init PROVE TypeInv
  OBVIOUS
<1>1. InputInv
  BY DEF Init, InputInv
<1>2. Len(disk.handles) \in Nat
  BY <1>1, InputIs
<1>3. index \in 1..(Len(disk.handles) + 1)
  BY <1>2 DEF Init
<1>4. <<>> \in Seq(Roots)
  OBVIOUS
<1>5. /\ pc = "start" /\ status = None /\ haveSuccess = FALSE /\ back = None /\ dir = None
      /\ sdboot = None /\ visited = <<>> /\ confs = <<>> /\ file = 1
  BY DEF Init
<1>6. 1 \in Nat \ {0} /\ \A k \in DOMAIN confs : disk.root[confs[k]].conf # None
  BY <1>5
<1> QED BY <1>1, <1>3, <1>4, <1>5, <1>6, NoneAssumption DEF TypeInv, Control, InFolder

\* What a step that leaves the search and the entries alone keeps
LEMMA TypeKept ==
    ASSUME TypeInv, InputInv', UNCHANGED <<disk, dir, back, index, visited, confs, file>>,
           pc # "start", pc' \in Control \ {"start"},
           status' \in Status \cup {None}, (pc' = "done") = (status' # None),
           haveSuccess' \in BOOLEAN,
           sdboot' \in [menu : Settings, loaders : Seq(Entries)],
           pc' \in InFolder => pc \in InFolder,
           pc' = "files" => pc = "files" /\ UNCHANGED pending
    PROVE  TypeInv'
<1>1. Roots' = Roots /\ Entries' = Entries /\ (dir' = dir => EntriesOf(dir)' = EntriesOf(dir))
  BY RootsStay
<1>2. HasFolder(dir)' = HasFolder(dir)
  BY DEF HasFolder
<1> QED BY <1>1, <1>2 DEF TypeInv, InFolder, Control

\* Entering a partition
LEMMA TypeEnter ==
    ASSUME TypeInv, InputInv', UNCHANGED <<disk, sdboot, confs, file, haveSuccess>>,
           pc \in {"current", "previous", "scan"},
           NEW h \in Roots, HasFolder(h), NEW l \in {"previous", "locate", "scan"},
           Enter(h, l), index' \in 1..(Len(disk.handles) + 1)
    PROVE  TypeInv'
<1>1. Roots' = Roots /\ Entries' = Entries
  BY RootsStay
<1>2. HasFolder(h)' = HasFolder(h)
  BY DEF HasFolder
<1>3. visited' \in Seq(Roots)
  BY DEF Enter, TypeInv
<1>4. sdboot \in [menu : Settings, loaders : Seq(Entries)]
  BY DEF TypeInv
<1>5. dir' = h /\ back' = l /\ pc' = "conf" /\ status' = status
  BY DEF Enter, Goto
<1> HIDE DEF Enter
<1>6. HasFolder(dir)'
  BY <1>2, <1>5 DEF HasFolder
<1> QED BY <1>1, <1>3, <1>4, <1>5, <1>6, NoneAssumption DEF TypeInv, InFolder, Control

\* The settings that loader.conf can leave
LEMMA OutcomesTyped ==
    ASSUME TypeInv, pc = "conf",
           NEW r \in LoadConfOutcomes(sdboot.menu, disk.root[dir].conf)
    PROVE  /\ r.out \in Settings
           /\ r.status = "SUCCESS" => /\ disk.root[dir].conf # None
                                      /\ r.out = ParseMenu(sdboot.menu, disk.root[dir].conf).out
           /\ r.status # "SUCCESS" => r.out = sdboot.menu
           /\ r.status \in Status
           /\ sdboot.menu["default"] # None => r.out["default"] # None
<1> DEFINE c == disk.root[dir].conf
<1>1. sdboot.menu \in Settings /\ dir \in Roots
  BY DEF TypeInv, InFolder
<1>2. c # None => IsConf(c)
  <2>1. IsRoot(disk.root[dir])
    BY <1>1, InputIs DEF TypeInv
  <2> QED BY <2>1 DEF IsRoot, IsConf
<1>3. c # None => /\ ParseMenu(sdboot.menu, c).out \in Settings
                  /\ sdboot.menu["default"] # None
                       => ParseMenu(sdboot.menu, c).out["default"] # None
  BY <1>1, <1>2, ConfKeeps
<1>4. \/ r.out = sdboot.menu /\ r.status # "SUCCESS" /\ r.status \in Status
      \/ c # None /\ r.out = ParseMenu(sdboot.menu, c).out /\ r.status = "SUCCESS"
  BY FaultsAssumption DEF LoadConfOutcomes, Status, Failing
<1> QED BY <1>1, <1>3, <1>4 DEF Status

\* Every step keeps the types.
LEMMA TypeStep == ASSUME TypeInv, [Next]_vars PROVE TypeInv'
<1>0. UNCHANGED <<disk, cfg, menu0>> /\ InputInv'
  BY InputsStay DEF TypeInv, InputInv
<1>1. Roots' = Roots /\ Entries' = Entries /\ (dir' = dir => EntriesOf(dir)' = EntriesOf(dir))
  BY <1>0, RootsStay
<1>n. /\ None \notin Status \cup Control
      /\ Failing \subseteq Status /\ "SUCCESS" \in Status /\ "UNSUPPORTED" \in Status
      /\ "OUT_OF_RESOURCES" \in Status /\ "NOT_FOUND" \in Status
  BY NoneAssumption DEF Status, Failing
<1>i. /\ disk.current \in Roots \cup {None} /\ disk.previous \in Roots \cup {None}
      /\ Len(disk.handles) \in Nat
      /\ \A i \in 1..Len(disk.handles) : disk.handles[i] \in Roots
  BY InputIs DEF TypeInv
<1>2. CASE Start
  <2>1. /\ pc = "start" /\ sdboot = None /\ visited = <<>>
        /\ UNCHANGED <<dir, back, index, visited, confs, file, pending, haveSuccess>>
    BY <1>2 DEF Start, search, folder, history, TypeInv
  <2>2. CASE pc' = "done" /\ sdboot' = sdboot
    <3>1. status' \in Status
      BY <1>2, <1>n, <2>1, <2>2 DEF Start, Return, Goto
    <3>2. HasFolder(dir)' = HasFolder(dir)
      BY <1>0, <2>1 DEF HasFolder
    <3> QED BY <1>0, <1>1, <1>n, <2>1, <2>2, <3>1, <3>2 DEF TypeInv, InFolder, Control
  <2>3. CASE Goto("current") /\ sdboot' = [menu |-> InitMenu, loaders |-> <<>>]
    <3>1. sdboot' \in [menu : Settings, loaders : Seq(Entries)]
      BY <2>3, InitMenuIs
    <3>2. HasFolder(dir)' = HasFolder(dir)
      BY <1>0, <2>1 DEF HasFolder
    <3> QED BY <1>0, <1>1, <1>n, <2>1, <2>3, <3>1, <3>2 DEF Goto, TypeInv, InFolder, Control
  <2> QED BY <1>2, <2>2, <2>3 DEF Start, Return
<1>d. pc \notin {"start", "done"} => sdboot \in [menu : Settings, loaders : Seq(Entries)]
  BY DEF TypeInv
<1>3. CASE TryCurrent
  <2>1. CASE HasFolder(disk.current) /\ Enter(disk.current, "previous")
    <3>1. disk.current \in Roots
      BY <1>i, <2>1 DEF HasFolder
    <3>2. UNCHANGED <<disk, sdboot, confs, file, haveSuccess, index>> /\ pc = "current"
      BY <1>3, <2>1 DEF TryCurrent, inputs, folder, Enter
    <3>3. index' \in 1..(Len(disk.handles) + 1)
      BY <3>2 DEF TypeInv
    <3> QED BY <1>0, <2>1, <3>1, <3>2, <3>3, TypeEnter
  <2>2. CASE Goto("previous") /\ UNCHANGED <<back, dir, history>>
    BY <1>0, <1>3, <1>d, <1>1, <2>2, TypeKept
      DEF TryCurrent, Goto, inputs, folder, history, Control, InFolder, TypeInv
  <2> QED BY <1>3, <2>1, <2>2 DEF TryCurrent
<1>4. CASE TryPrevious
  <2>1. CASE HasFolder(disk.previous) /\ Enter(disk.previous, "locate")
    <3>1. disk.previous \in Roots
      BY <1>i, <2>1 DEF HasFolder
    <3>2. UNCHANGED <<disk, sdboot, confs, file, haveSuccess, index>> /\ pc = "previous"
      BY <1>4, <2>1 DEF TryPrevious, inputs, folder, Enter
    <3>3. index' \in 1..(Len(disk.handles) + 1)
      BY <3>2 DEF TypeInv
    <3> QED BY <1>0, <2>1, <3>1, <3>2, <3>3, TypeEnter
  <2>2. CASE Goto("locate") /\ UNCHANGED <<back, dir, history>>
    BY <1>0, <1>4, <1>d, <1>1, <2>2, TypeKept
      DEF TryPrevious, Goto, inputs, folder, history, Control, InFolder, TypeInv
  <2> QED BY <1>4, <2>1, <2>2 DEF TryPrevious
<1>5. CASE Locate
  <2>1. /\ pc = "locate"
        /\ UNCHANGED <<dir, back, index, visited, confs, file, pending, haveSuccess, sdboot>>
    BY <1>5 DEF Locate, search, folder, history
  <2>2. \/ pc' \in {"scan", "items"} /\ status' = status
        \/ pc' = "done" /\ status' \in Failing
    BY <1>5 DEF Locate, Goto, Return
  <2>3. status = None /\ haveSuccess \in BOOLEAN
    BY <1>n, <2>1 DEF TypeInv
  <2> QED BY <1>0, <1>1, <1>d, <1>n, <2>1, <2>2, <2>3, TypeKept DEF Control, InFolder
<1>6. CASE ScanNext
  <2>1. /\ pc = "scan" /\ index \in 1..Len(disk.handles) /\ index' = index + 1
        /\ UNCHANGED <<sdboot, haveSuccess, file, pending>>
    BY <1>6, <1>i DEF ScanNext, folder, TypeInv
  <2>2. index' \in 1..(Len(disk.handles) + 1)
    BY <1>i, <2>1
  <2>3. CASE HasFolder(disk.handles[index]) /\ Enter(disk.handles[index], "scan")
    <3>1. disk.handles[index] \in Roots /\ UNCHANGED confs
      BY <1>i, <2>1, <2>3 DEF Enter
    <3> QED BY <1>0, <2>1, <2>2, <2>3, <3>1, TypeEnter
  <2>4. CASE Goto("scan") /\ UNCHANGED <<back, dir, history>>
    <3>1. HasFolder(dir)' = HasFolder(dir)
      BY <1>0, <2>4 DEF HasFolder
    <3> QED BY <1>0, <1>1, <2>1, <2>2, <2>4, <3>1 DEF Goto, history, TypeInv, InFolder, Control
  <2> QED BY <1>6, <2>3, <2>4 DEF ScanNext
<1>7. CASE ScanEnd
  BY <1>0, <1>1, <1>7, <1>d, TypeKept
    DEF ScanEnd, Goto, inputs, search, folder, history, Control, InFolder, TypeInv
<1>8. CASE LoadConf
  <2>1. PICK r \in LoadConfOutcomes(sdboot.menu, disk.root[dir].conf) :
          /\ sdboot' = [sdboot EXCEPT !.menu = r.out]
          /\ confs' = IF r.status = "SUCCESS" THEN Append(confs, dir) ELSE confs
          /\ IF r.status \in {"SUCCESS", "NOT_FOUND"} THEN Goto("folder")
                                                      ELSE Return(r.status)
    BY <1>8 DEF LoadConf
  <2>2. /\ pc = "conf" /\ dir \in Roots
        /\ UNCHANGED <<dir, back, index, haveSuccess, file, pending, visited>>
    BY <1>8 DEF LoadConf, search, folder, TypeInv, InFolder
  <2>3. /\ r.out \in Settings /\ r.status \in Status
        /\ r.status = "SUCCESS" => disk.root[dir].conf # None
    BY <2>2, OutcomesTyped
  <2>4. sdboot' \in [menu : Settings, loaders : Seq(Entries)]
    BY <1>d, <2>1, <2>2, <2>3
  <2>5. /\ confs' \in Seq(Roots)
        /\ \A k \in DOMAIN confs' : disk.root[confs'[k]].conf # None
    <3>1. confs \in Seq(Roots) /\ \A k \in DOMAIN confs : disk.root[confs[k]].conf # None
      BY DEF TypeInv
    <3>2. CASE r.status = "SUCCESS"
      <4>1. confs' = Append(confs, dir) /\ confs' \in Seq(Roots)
        BY <2>1, <2>2, <3>1, <3>2
      <4>2. ASSUME NEW k \in DOMAIN confs' PROVE disk.root[confs'[k]].conf # None
        <5>1. (k \in DOMAIN confs /\ confs'[k] = confs[k]) \/ confs'[k] = dir
          BY <3>1, <4>1
        <5> QED BY <2>3, <3>1, <3>2, <5>1
      <4> QED BY <4>1, <4>2
    <3> QED BY <2>1, <3>1, <3>2
  <2>6. \/ pc' = "folder" /\ status' = status
        \/ pc' = "done" /\ status' \in Status
    BY <2>1, <2>3 DEF Goto, Return
  <2>7. HasFolder(dir)' = HasFolder(dir) /\ status = None
    BY <1>0, <1>n, <2>2 DEF HasFolder, TypeInv
  <2> QED BY <1>0, <1>1, <1>n, <2>2, <2>4, <2>5, <2>6, <2>7 DEF TypeInv, InFolder, Control
<1>9. CASE OpenFolder
  <2>1. /\ pc = "folder" /\ dir \in Roots /\ status = None
        /\ UNCHANGED <<dir, back, index, haveSuccess, visited, confs, sdboot>>
        /\ file' = 1 /\ pending' = <<>>
    BY <1>9, <1>n DEF OpenFolder, search, TypeInv, InFolder
  <2>2. \/ pc' = "files" /\ disk.root[dir].entries # None /\ status' = status
        \/ pc' = "apply" /\ status' = status
        \/ pc' = "done" /\ status' \in Failing
    BY <1>9 DEF OpenFolder, Goto, Return
  <2>3. HasFolder(dir)' = HasFolder(dir) /\ <<>> \in Seq(EntriesOf(dir))
    BY <1>0, <2>1 DEF HasFolder
  <2> QED BY <1>0, <1>1, <1>n, <2>1, <2>2, <2>3 DEF TypeInv, InFolder, Control
<1>10. CASE ReadEntry
  <2> DEFINE f == disk.root[dir].entries[file]
  <2>1. /\ pc = "files" /\ dir \in Roots /\ status = None
        /\ file \in 1..Len(disk.root[dir].entries) /\ file' = file + 1
        /\ UNCHANGED <<dir, back, index, haveSuccess, visited, confs, sdboot>>
    <3>1. dir \in Roots /\ disk.root[dir].entries # None /\ pc = "files"
      BY <1>10 DEF ReadEntry, TypeInv, InFolder
    <3>2. IsSequence(disk.root[dir].entries)
      BY <3>1, InputIs DEF TypeInv, IsRoot
    <3> QED BY <1>10, <1>n, <3>1, <3>2 DEF ReadEntry, search, TypeInv, IsSequence
  <2>2. LoadEntry(dir, f) \in Seq(EntriesOf(dir))
    <3>1. IsRoot(disk.root[dir]) /\ disk.root[dir].entries # None
      BY <2>1, InputIs DEF TypeInv
    <3>2. IsEntryFile(f)
      BY <2>1, <3>1 DEF IsRoot, IsSequence
    <3> QED BY <2>1, <3>2, LoadEntryIs
  <2>3. \/ pc' = "files" /\ status' = status /\ pending' = pending
        \/ pc' = "files" /\ status' = status /\ pending' = pending \o LoadEntry(dir, f)
        \/ pc' = "done" /\ status' \in Failing
    BY <1>10 DEF ReadEntry, Goto, Return
  <2> HIDE DEF f
  <2>4. pc' = "files" => pending' \in Seq(EntriesOf(dir))
    <3>1. pending \in Seq(EntriesOf(dir))
      BY <2>1 DEF TypeInv
    <3>2. \A S : \A x, y \in Seq(S) : x \o y \in Seq(S)
      OBVIOUS
    <3> QED BY <2>2, <2>3, <3>1, <3>2, Zenon
  <2>5. HasFolder(dir)' = HasFolder(dir)
    BY <1>0, <2>1 DEF HasFolder
  <2> QED BY <1>0, <1>1, <1>n, <2>1, <2>3, <2>4, <2>5 DEF TypeInv, InFolder, Control
<1>11. CASE ReadFolderFails
  <2>1. /\ pc = "files" /\ pc' = "done" /\ status' \in Failing /\ status' # None
        /\ UNCHANGED <<dir, back, index, haveSuccess, visited, confs, file, sdboot>>
    BY <1>11, <1>n DEF ReadFolderFails, Return, search, history
  <2>2. haveSuccess \in BOOLEAN
    BY DEF TypeInv
  <2> QED BY <1>0, <1>1, <1>d, <1>n, <2>1, <2>2, TypeKept DEF Control, InFolder
<1>12. CASE CloseFolder
  <2>1. /\ pc = "files" /\ pc' = "apply" /\ status' = status
        /\ sdboot' = [sdboot EXCEPT !.loaders = @ \o pending]
        /\ UNCHANGED <<dir, back, index, haveSuccess, visited, confs, file>>
    BY <1>12 DEF CloseFolder, Goto, search, history
  <2>2. pending \in Seq(Entries)
    <3>1. dir \in Roots /\ pending \in Seq(EntriesOf(dir))
      BY <2>1 DEF TypeInv, InFolder
    <3>2. EntriesOf(dir) \subseteq Entries
      BY <3>1 DEF Entries
    <3>3. \A A, B : A \subseteq B => Seq(A) \subseteq Seq(B)
      OBVIOUS
    <3> QED BY <3>1, <3>2, <3>3, Zenon
  <2>3. sdboot' \in [menu : Settings, loaders : Seq(Entries)]
    <3>1. sdboot \in [menu : Settings, loaders : Seq(Entries)]
      BY <1>d, <2>1
    <3>2. sdboot.loaders \o pending \in Seq(Entries)
      <4>1. \A S : \A x, y \in Seq(S) : x \o y \in Seq(S)
        OBVIOUS
      <4> QED BY <2>2, <3>1, <4>1
    <3> QED BY <2>1, <3>1, <3>2
  <2>4. haveSuccess \in BOOLEAN /\ status = None
    BY <1>n, <2>1 DEF TypeInv
  <2> QED BY <1>0, <1>1, <1>n, <2>1, <2>3, <2>4, TypeKept DEF Control, InFolder
<1>13. CASE ApplySettings
  <2>1. /\ pc = "apply" /\ status = None /\ back \in {"previous", "locate", "scan"}
        /\ UNCHANGED <<dir, back, index, visited, confs, file, pending, sdboot>>
    BY <1>13, <1>n DEF ApplySettings, folder, history, TypeInv, InFolder
  <2>2. \/ pc' \in {back, "items"} /\ status' = status /\ haveSuccess' = TRUE
        \/ pc' = "done" /\ status' = "OUT_OF_RESOURCES" /\ haveSuccess' = haveSuccess
    BY <1>13 DEF ApplySettings, Goto, Return
  <2>3. haveSuccess \in BOOLEAN
    BY DEF TypeInv
  <2> QED BY <1>0, <1>1, <1>d, <1>n, <2>1, <2>2, <2>3, TypeKept DEF Control, InFolder
<1>14. CASE AddItems
  <2>1. /\ pc = "items" /\ pc' = "done" /\ status' \in Status
        /\ UNCHANGED <<dir, back, index, visited, confs, file, pending, haveSuccess, sdboot>>
    BY <1>14, <1>n DEF AddItems, Return, search, folder, history
  <2>2. haveSuccess \in BOOLEAN /\ status' # None
    BY <1>n, <2>1 DEF TypeInv
  <2> QED BY <1>0, <1>1, <1>d, <1>n, <2>1, <2>2, TypeKept DEF Control, InFolder
<1>15. CASE UNCHANGED vars
  <2>1. HasFolder(dir)' = HasFolder(dir)
    BY <1>15 DEF HasFolder, vars, inputs, search
  <2> QED BY <1>0, <1>1, <1>15, <2>1 DEF vars, search, folder, history, TypeInv, InFolder
<1> QED
  BY <1>2, <1>3, <1>4, <1>5, <1>6, <1>7, <1>8, <1>9, <1>10, <1>11, <1>12, <1>13,
     <1>14, <1>15 DEF Next

-----------------------------------------------------------------------------
(* What the settings decide *)

\* The name that a special default gets is that of an existing entry of the kind,
\* or the one that the automatic entry would have.
NameFound(loaders, found, kind, name, otherwise) ==
    IF found = 0 THEN kind = {} /\ name = otherwise
                 ELSE found \in kind /\ name = loaders[found].name

\* The three special defaults get such names (find_efisetup, find_reboot, find_shutdown).
LEMMA NamesFound ==
    ASSUME NEW L, IsSequence(L)
    PROVE  /\ NameFound(L, SelectInSeq(L, IsEfisetup), {i \in DOMAIN L : IsEfisetup(L[i])},
                        FirstName(L, SelectInSeq(L, IsEfisetup), "sdboot-auto-firmware"),
                        "sdboot-auto-firmware")
           /\ NameFound(L, SelectInSeq(L, IsReboot), {i \in DOMAIN L : IsReboot(L[i])},
                        FirstName(L, SelectInSeq(L, IsReboot), "sdboot-auto-reboot"),
                        "sdboot-auto-reboot")
           /\ NameFound(L, SelectInSeq(L, IsShutdown), {i \in DOMAIN L : IsShutdown(L[i])},
                        FirstName(L, SelectInSeq(L, IsShutdown), "sdboot-auto-shutdown"),
                        "sdboot-auto-shutdown")
<1> DEFINE F == {i \in 1..Len(L) : IsEfisetup(L[i])}
           R == {i \in 1..Len(L) : IsReboot(L[i])}
           S == {i \in 1..Len(L) : IsShutdown(L[i])}
<1>1. Len(L) \in Nat /\ DOMAIN L = 1..Len(L)
  BY DEF IsSequence
<1>2. /\ F # {} => Min(F) \in F
      /\ R # {} => Min(R) \in R
      /\ S # {} => Min(S) \in S
  <2>1. F \in SUBSET Nat /\ R \in SUBSET Nat /\ S \in SUBSET Nat
    BY <1>1
  <2> HIDE DEF F, R, S
  <2> QED BY <2>1, LeastIs
<1>3. /\ SelectInSeq(L, IsEfisetup) = IF F # {} THEN Min(F) ELSE 0
      /\ SelectInSeq(L, IsReboot) = IF R # {} THEN Min(R) ELSE 0
      /\ SelectInSeq(L, IsShutdown) = IF S # {} THEN Min(S) ELSE 0
  BY DEF SelectInSeq
<1>4. 0 \notin F /\ 0 \notin R /\ 0 \notin S
  BY <1>1
<1>5. /\ {i \in DOMAIN L : IsEfisetup(L[i])} = F
      /\ {i \in DOMAIN L : IsReboot(L[i])} = R
      /\ {i \in DOMAIN L : IsShutdown(L[i])} = S
  BY <1>1, Zenon
<1> HIDE DEF F, R, S
<1>6. NameFound(L, SelectInSeq(L, IsEfisetup), F,
                FirstName(L, SelectInSeq(L, IsEfisetup), "sdboot-auto-firmware"), "sdboot-auto-firmware")
  BY <1>2, <1>3, <1>4 DEF NameFound, FirstName
<1>7. NameFound(L, SelectInSeq(L, IsReboot), R,
                FirstName(L, SelectInSeq(L, IsReboot), "sdboot-auto-reboot"), "sdboot-auto-reboot")
  BY <1>2, <1>3, <1>4 DEF NameFound, FirstName
<1>8. NameFound(L, SelectInSeq(L, IsShutdown), S,
                FirstName(L, SelectInSeq(L, IsShutdown), "sdboot-auto-shutdown"), "sdboot-auto-shutdown")
  BY <1>2, <1>3, <1>4 DEF NameFound, FirstName
<1> QED BY <1>5, <1>6, <1>7, <1>8

\* What stands where in three sequences joined
ThreeIn(T, a, b, c, s) ==
    /\ s \in Seq(T)
    /\ Len(s) = Len(a) + Len(b) + Len(c)
    /\ Len(a) \in Nat /\ Len(b) \in Nat /\ Len(c) \in Nat
    /\ \A i \in 1..Len(a) : s[i] = a[i]
    /\ \A i \in 1..Len(b) : s[Len(a) + i] = b[i]
    /\ \A i \in 1..Len(c) : s[Len(a) + Len(b) + i] = c[i]

\* Three sequences, joined
LEMMA ThreeJoined ==
    ASSUME NEW T, NEW a \in Seq(T), NEW b \in Seq(T), NEW c \in Seq(T)
    PROVE  ThreeIn(T, a, b, c, a \o b \o c)
<1> DEFINE d == a \o b
           Joins(x, y, z) == /\ z \in Seq(T) /\ Len(z) = Len(x) + Len(y)
                             /\ \A i \in 1..Len(x) : z[i] = x[i]
                             /\ \A i \in 1..Len(y) : z[Len(x) + i] = y[i]
<1>0. /\ \A x, y \in Seq(T) : Joins(x, y, x \o y)
      /\ Len(a) \in Nat /\ Len(b) \in Nat /\ Len(c) \in Nat
  OBVIOUS
<1>1. /\ d \in Seq(T) /\ Len(d) = Len(a) + Len(b)
      /\ Len(a) \in Nat /\ Len(b) \in Nat /\ Len(c) \in Nat
      /\ \A i \in 1..Len(a) : d[i] = a[i]
      /\ \A i \in 1..Len(b) : d[Len(a) + i] = b[i]
  BY <1>0, Zenon
<1> HIDE DEF d
<1>2. /\ d \o c \in Seq(T) /\ Len(d \o c) = Len(d) + Len(c)
      /\ \A i \in 1..Len(d) : (d \o c)[i] = d[i]
      /\ \A i \in 1..Len(c) : (d \o c)[Len(d) + i] = c[i]
  BY <1>0, <1>1, Zenon
<1>3. \A i \in 1..Len(a) : (d \o c)[i] = a[i]
  <2> TAKE i \in 1..Len(a)
  <2>1. i \in 1..Len(d)
    BY <1>1
  <2> QED BY <1>1, <1>2, <2>1, Zenon
<1>4. \A i \in 1..Len(b) : (d \o c)[Len(a) + i] = b[i]
  <2> TAKE i \in 1..Len(b)
  <2>1. Len(a) + i \in 1..Len(d)
    BY <1>1
  <2> QED BY <1>1, <1>2, <2>1, Zenon
<1>5. \A i \in 1..Len(c) : (d \o c)[Len(a) + Len(b) + i] = c[i]
  BY <1>1, <1>2
<1>6. ThreeIn(T, a, b, c, d \o c)
  BY <1>1, <1>2, <1>3, <1>4, <1>5 DEF ThreeIn
<1> QED BY <1>6 DEF d

Firmware == Item("sdboot-auto-firmware", "efisetup", None, 0, 0)
Poweroff == Item("sdboot-auto-shutdown", "reboot", "shutdown", 0, 0)
Reboot == Item("sdboot-auto-reboot", "reboot", "reboot", 0, 0)

\* The automatic entries are these, each if it is wanted and missing.
LEMMA WantedIs ==
    ASSUME NEW L
    PROVE  /\ WantedAutoItems(L) \in Seq({Firmware, Poweroff, Reboot})
           /\ sdboot.menu["auto-firmware"] /\ cfg.setup /\ SelectInSeq(L, IsEfisetup) = 0
                => \E k \in DOMAIN WantedAutoItems(L) : WantedAutoItems(L)[k] = Firmware
           /\ sdboot.menu["auto-poweroff"] /\ SelectInSeq(L, IsShutdown) = 0
                => \E k \in DOMAIN WantedAutoItems(L) : WantedAutoItems(L)[k] = Poweroff
           /\ sdboot.menu["auto-reboot"] /\ SelectInSeq(L, IsReboot) = 0
                => \E k \in DOMAIN WantedAutoItems(L) : WantedAutoItems(L)[k] = Reboot
<1> DEFINE only(wanted, item) == IF wanted THEN <<item>> ELSE <<>>
           w1 == sdboot.menu["auto-firmware"] /\ cfg.setup /\ SelectInSeq(L, IsEfisetup) = 0
           w2 == sdboot.menu["auto-poweroff"] /\ SelectInSeq(L, IsShutdown) = 0
           w3 == sdboot.menu["auto-reboot"] /\ SelectInSeq(L, IsReboot) = 0
           a == only(w1, Firmware)
           b == only(w2, Poweroff)
           c == only(w3, Reboot)
           T == {Firmware, Poweroff, Reboot}
<1>1. WantedAutoItems(L) = a \o b \o c
  BY DEF WantedAutoItems, Firmware, Poweroff, Reboot
<1>2. /\ a \in {<<>>, <<Firmware>>} /\ (w1 => a = <<Firmware>>)
      /\ b \in {<<>>, <<Poweroff>>} /\ (w2 => b = <<Poweroff>>)
      /\ c \in {<<>>, <<Reboot>>} /\ (w3 => c = <<Reboot>>)
  OBVIOUS
<1> HIDE DEF a, b, c, w1, w2, w3, only
<1>s. \A S : <<>> \in Seq(S) /\ \A x \in S : <<x>> \in Seq(S) /\ Len(<<x>>) = 1 /\ <<x>>[1] = x
  OBVIOUS
<1>t. Firmware \in T /\ Poweroff \in T /\ Reboot \in T
  OBVIOUS
<1> HIDE DEF T
<1>3. a \in Seq(T) /\ b \in Seq(T) /\ c \in Seq(T)
  BY <1>2, <1>s, <1>t, Zenon
<1> DEFINE W == a \o b \o c
<1>4. /\ W \in Seq(T) /\ Len(W) = Len(a) + Len(b) + Len(c)
      /\ Len(a) \in Nat /\ Len(b) \in Nat /\ Len(c) \in Nat
      /\ \A i \in 1..Len(a) : W[i] = a[i]
      /\ \A i \in 1..Len(b) : W[Len(a) + i] = b[i]
      /\ \A i \in 1..Len(c) : W[Len(a) + Len(b) + i] = c[i]
  <2>1. ThreeIn(T, a, b, c, W)
    BY <1>3, ThreeJoined
  <2> HIDE DEF W
  <2> QED BY <2>1 DEF ThreeIn
<1> HIDE DEF W
<1>5. DOMAIN W = 1..Len(W)
  BY <1>4
<1>6. w1 => \E k \in DOMAIN W : W[k] = Firmware
  <2> SUFFICES ASSUME w1 PROVE \E k \in DOMAIN W : W[k] = Firmware
    OBVIOUS
  <2>1. Len(a) = 1 /\ a[1] = Firmware
    BY <1>2, <1>s, <1>t
  <2>2. 1 \in 1..Len(a) /\ 1 \in 1..Len(W)
    BY <1>4, <2>1
  <2> QED BY <1>4, <1>5, <2>1, <2>2
<1>7. w2 => \E k \in DOMAIN W : W[k] = Poweroff
  <2> SUFFICES ASSUME w2 PROVE \E k \in DOMAIN W : W[k] = Poweroff
    OBVIOUS
  <2>1. Len(b) = 1 /\ b[1] = Poweroff
    BY <1>2, <1>s, <1>t
  <2>2. 1 \in 1..Len(b) /\ Len(a) + 1 \in 1..Len(W)
    BY <1>4, <2>1
  <2>3. W[Len(a) + 1] = Poweroff
    BY <1>4, <2>1, <2>2
  <2> QED BY <1>5, <2>2, <2>3
<1>8. w3 => \E k \in DOMAIN W : W[k] = Reboot
  <2> SUFFICES ASSUME w3 PROVE \E k \in DOMAIN W : W[k] = Reboot
    OBVIOUS
  <2>1. Len(c) = 1 /\ c[1] = Reboot
    BY <1>2, <1>s, <1>t
  <2>2. 1 \in 1..Len(c) /\ Len(a) + Len(b) + 1 \in 1..Len(W)
    BY <1>4, <2>1
  <2>3. W[Len(a) + Len(b) + 1] = Reboot
    BY <1>4, <2>1, <2>2
  <2> QED BY <1>5, <2>2, <2>3
<1>9. WantedAutoItems(L) = W
  BY <1>1 DEF W
<1> HIDE DEF W
<1> QED BY <1>4, <1>6, <1>7, <1>8, <1>9, Zenon DEF w1, w2, w3, T

\* The priorities of the entries are at most that of the first automatic one.
LEMMA PrioritiesAre ==
    ASSUME NEW T, NEW E \in Seq(T), NEW offset \in Int
    PROVE  /\ \A i \in DOMAIN E : /\ Priority(E, offset, i) \in Int
                                  /\ Priority(E, offset, i) <= AutoOffset(E, offset)
           /\ AutoOffset(E, offset) \in 0..INT64_MAX
<1> DEFINE P(i) == Priority(E, offset, i)
           S == {P(i) + 1 : i \in DOMAIN E}
           M == Max({0} \cup S)
<1>f. IsFiniteSet(DOMAIN E)
  <2>1. PICK n \in Nat : DOMAIN E = 1..n
    OBVIOUS
  <2> QED BY <2>1, FS_Interval
<1>1. \A i \in DOMAIN E : P(i) \in Int /\ P(i) <= INT64_MAX
  <2> TAKE i \in DOMAIN E
  <2> DEFINE c == Cardinality(Before(E, i))
  <2>1. c \in Nat
    <3>1. Before(E, i) \subseteq DOMAIN E
      BY DEF Before
    <3>2. IsFiniteSet(Before(E, i))
      BY <1>f, <3>1, FS_Subset
    <3> QED BY <3>2, FS_CardinalityType
  <2>2. P(i) = Saturated(offset + c)
    BY DEF Priority
  <2> HIDE DEF c, P
  <2> QED BY <2>1, <2>2, Int64Assumption DEF Saturated
<1> HIDE DEF P
<1>2. S \in SUBSET Int /\ INT64_MAX + 1 \in Nat /\ \A x \in S : x <= INT64_MAX + 1
  BY <1>1, Int64Assumption
<1>3. \A i \in DOMAIN E : P(i) + 1 \in S
  OBVIOUS
<1>4. AutoOffset(E, offset) = Saturated(M)
  BY DEF AutoOffset, P
<1> HIDE DEF S
<1>5. M \in Nat /\ \A x \in S : x <= M
  BY <1>2, GreatestOr0
<1> HIDE DEF M
<1>6. Saturated(M) \in 0..INT64_MAX
  BY <1>5, Int64Assumption DEF Saturated
<1>7. ASSUME NEW i \in DOMAIN E PROVE P(i) <= Saturated(M)
  <2>1. P(i) \in Int /\ P(i) <= INT64_MAX /\ P(i) + 1 <= M
    BY <1>1, <1>3, <1>5
  <2> QED BY <1>5, <2>1, Int64Assumption DEF Saturated
<1> QED BY <1>1, <1>4, <1>6, <1>7 DEF P

\* All items of the menu: those of the configuration L, one for each entry of E
\* and the automatic ones.
LEMMA ItemsAre ==
    ASSUME InputInv, sdboot.loaders \in Seq(Entries)
    PROVE  LET L == menu0.loaders
               E == sdboot.loaders
               A == AutoItems(L)
               all == AllItems(L)
               n == Len(L) + Len(E) + Len(A)
           IN  /\ Len(L) \in Nat /\ Len(E) \in Nat /\ Len(A) \in Nat
               /\ DOMAIN all = 1..n
               /\ \A i \in 1..n : all[i].priority \in Int
               /\ \A i \in 1..Len(L) : all[i] = L[i]
               /\ \A i \in 1..Len(E) :
                     /\ all[Len(L) + i].type = "sdboot" /\ all[Len(L) + i].extra = i
                     /\ all[Len(L) + i].priority = Priority(E, cfg.offset, i)
               /\ \A i \in 1..Len(A) :
                     /\ all[Len(L) + Len(E) + i].priority \in Int
                     /\ all[Len(L) + Len(E) + i].priority >= AutoOffset(E, cfg.offset)
                     /\ \E w \in {Firmware, Poweroff, Reboot} :
                           /\ WantedAutoItems(L)[i] = w
                           /\ all[Len(L) + Len(E) + i] =
                                [w EXCEPT !.priority = Saturated(AutoOffset(E, cfg.offset) + i - 1)]
               /\ Len(A) = Len(WantedAutoItems(L))
               /\ WantedAutoItems(L) \in Seq({Firmware, Poweroff, Reboot})
<1> DEFINE L == menu0.loaders
           E == sdboot.loaders
           I == SdbootItems
           A == AutoItems(L)
           W == WantedAutoItems(L)
           o == AutoOffset(E, cfg.offset)
           P(i) == Priority(E, cfg.offset, i)
           T == {L[i] : i \in DOMAIN L} \cup {I[i] : i \in DOMAIN I} \cup {A[i] : i \in DOMAIN A}
<1>1. /\ Len(L) \in Nat /\ DOMAIN L = 1..Len(L)
      /\ \A k \in DOMAIN L : L[k].priority \in Int
      /\ cfg.offset \in Int
  BY InputIs DEF IsSequence
<1>2. /\ \A i \in DOMAIN E : P(i) \in Int /\ P(i) <= o
      /\ o \in 0..INT64_MAX
  BY <1>1, PrioritiesAre
<1>3. W \in Seq({Firmware, Poweroff, Reboot})
  BY WantedIs
<1>4. /\ Len(E) \in Nat /\ DOMAIN E = 1..Len(E)
      /\ I = [i \in 1..Len(E) |-> Item(E[i]["name"], "sdboot", None, P(i), i)]
  BY DEF SdbootItems
<1> HIDE DEF I
<1>5. A = [k \in DOMAIN W |-> [W[k] EXCEPT !.priority = Saturated(o + k - 1)]]
  BY DEF AutoItems
<1> HIDE DEF A, W
<1>6. Len(W) \in Nat /\ DOMAIN W = 1..Len(W) /\ \A k \in 1..Len(W) : W[k] \in {Firmware, Poweroff, Reboot}
  BY <1>3
<1> HIDE DEF L, E, P, o
<1>7. I \in Seq(T) /\ A \in Seq(T) /\ Len(I) = Len(E) /\ Len(A) = Len(W) /\ L \in Seq(T)
  <2>1. \A s, n : n \in Nat /\ s = [i \in 1..n |-> s[i]] /\ (\A i \in 1..n : s[i] \in T)
                    => s \in Seq(T) /\ Len(s) = n
    <3> HIDE DEF T
    <3> QED OBVIOUS
  <2>2. I = [i \in 1..Len(E) |-> I[i]] /\ A = [i \in 1..Len(W) |-> A[i]]
    BY <1>4, <1>5, <1>6
  <2>3. DOMAIN I = 1..Len(E) /\ DOMAIN A = 1..Len(W)
    BY <1>4, <1>5, <1>6
  <2>4. /\ \A i \in 1..Len(E) : I[i] \in T
        /\ \A i \in 1..Len(W) : A[i] \in T
        /\ \A i \in 1..Len(L) : L[i] \in T
    BY <1>1, <2>3
  <2>5. L = [i \in 1..Len(L) |-> L[i]]
    BY InputIs DEF IsSequence, L
  <2> HIDE DEF T
  <2> QED BY <1>1, <1>4, <1>6, <2>1, <2>2, <2>4, <2>5
<1> HIDE DEF T
<1> DEFINE all == L \o I \o A
<1>j. ThreeIn(T, L, I, A, all)
  BY <1>7, ThreeJoined, Zenon
<1> HIDE DEF all
<1> DEFINE l == Len(L)
           e == Len(E)
           a == Len(A)
<1>8. /\ all \in Seq(T) /\ Len(all) = l + e + a
      /\ l \in Nat /\ e \in Nat /\ a \in Nat
      /\ \A i \in 1..l : all[i] = L[i]
      /\ \A i \in 1..e : all[l + i] = I[i]
      /\ \A i \in 1..a : all[l + e + i] = A[i]
  BY <1>7, <1>j DEF ThreeIn
<1>9. AllItems(menu0.loaders) = all
  BY DEF AllItems, L, A, I, all
<1>10. a = Len(W)
  BY <1>7
<1> HIDE DEF l, e, a
<1>11. DOMAIN all = 1..(l + e + a)
  BY <1>8
<1>12. \A i \in 1..l : all[i].priority \in Int
  BY <1>1, <1>8 DEF l
<1>13. ASSUME NEW i \in 1..e
       PROVE  /\ all[l + i].type = "sdboot" /\ all[l + i].extra = i
              /\ all[l + i].priority = P(i) /\ P(i) \in Int
  <2>1. all[l + i] = Item(E[i]["name"], "sdboot", None, P(i), i) /\ i \in DOMAIN E
    BY <1>4, <1>8 DEF e
  <2> QED BY <1>2, <2>1 DEF Item
<1>14. ASSUME NEW i \in 1..a
       PROVE  /\ all[l + e + i].priority \in Int
              /\ all[l + e + i].priority >= o
              /\ \E w \in {Firmware, Poweroff, Reboot} :
                    W[i] = w /\ all[l + e + i] = [w EXCEPT !.priority = Saturated(o + i - 1)]
  <2>1. PICK w \in {Firmware, Poweroff, Reboot} : W[i] = w
    BY <1>6, <1>10
  <2>2. all[l + e + i] = [w EXCEPT !.priority = Saturated(o + i - 1)]
    BY <1>5, <1>6, <1>8, <1>10, <2>1
  <2>3. all[l + e + i].priority = Saturated(o + i - 1)
    BY <2>2 DEF Firmware, Poweroff, Reboot, Item
  <2>4. o \in Int /\ o <= INT64_MAX /\ o >= 0
    BY <1>2, Int64Assumption
  <2>5. Saturated(o + i - 1) \in Int /\ Saturated(o + i - 1) >= o
    <3>1. i >= 1 /\ i \in Int
      OBVIOUS
    <3> QED BY <2>4, <3>1, Int64Assumption DEF Saturated
  <2> QED BY <2>1, <2>2, <2>3, <2>5
<1>15. ASSUME NEW i \in 1..(l + e + a) PROVE all[i].priority \in Int
  <2>1. CASE i <= l
    BY <1>8, <1>12, <2>1
  <2>2. CASE ~(i <= l) /\ i <= l + e
    <3>1. PICK j \in 1..e : i = l + j
      <4>1. i - l \in 1..e /\ i = l + (i - l)
        BY <1>8, <2>2
      <4> QED BY <4>1
    <3> QED BY <1>13, <3>1
  <2>3. CASE ~(i <= l + e)
    <3>1. PICK j \in 1..a : i = l + e + j
      <4>1. i - (l + e) \in 1..a /\ i = l + e + (i - (l + e))
        BY <1>8, <2>3
      <4> QED BY <4>1
    <3> QED BY <1>14, <3>1
  <2> QED BY <2>1, <2>2, <2>3
<1>16. /\ DOMAIN AllItems(menu0.loaders) = 1..(l + e + a)
       /\ \A i \in 1..(l + e + a) : AllItems(menu0.loaders)[i].priority \in Int
       /\ \A i \in 1..l : AllItems(menu0.loaders)[i] = L[i]
  BY <1>8, <1>9, <1>11, <1>15
<1> QED BY <1>3, <1>8, <1>9, <1>10, <1>13, <1>14, <1>16, Zenon DEF l, e, a, L, E, A, W, P, o

With(w, p) == [w EXCEPT !.priority = p]

\* Among all items of the menu is one of the kind and the name that a special
\* default stands for.
LEMMA AutoFound ==
    ASSUME InputInv, sdboot.loaders \in Seq(Entries)
    PROVE  LET L == menu0.loaders
               all == AllItems(L)
           IN  /\ sdboot.menu["auto-firmware"] /\ cfg.setup
                    => \E j \in DOMAIN all :
                          /\ IsEfisetup(all[j])
                          /\ all[j].name = FirstName(L, SelectInSeq(L, IsEfisetup), "sdboot-auto-firmware")
               /\ sdboot.menu["auto-reboot"]
                    => \E j \in DOMAIN all :
                          /\ IsReboot(all[j])
                          /\ all[j].name = FirstName(L, SelectInSeq(L, IsReboot), "sdboot-auto-reboot")
               /\ sdboot.menu["auto-poweroff"]
                    => \E j \in DOMAIN all :
                          /\ IsShutdown(all[j])
                          /\ all[j].name = FirstName(L, SelectInSeq(L, IsShutdown), "sdboot-auto-shutdown")
<1> DEFINE L == menu0.loaders
           E == sdboot.loaders
           A == AutoItems(L)
           W == WantedAutoItems(L)
           all == AllItems(L)
           l == Len(L)
           e == Len(E)
           f1 == SelectInSeq(L, IsEfisetup)
           f2 == SelectInSeq(L, IsReboot)
           f3 == SelectInSeq(L, IsShutdown)
           n1 == FirstName(L, SelectInSeq(L, IsEfisetup), "sdboot-auto-firmware")
           n2 == FirstName(L, SelectInSeq(L, IsReboot), "sdboot-auto-reboot")
           n3 == FirstName(L, SelectInSeq(L, IsShutdown), "sdboot-auto-shutdown")
<1>0. IsSequence(L) /\ DOMAIN L = 1..l
  BY InputIs DEF IsSequence
<1>1. /\ l \in Nat /\ e \in Nat /\ Len(A) \in Nat
      /\ DOMAIN all = 1..(l + e + Len(A))
      /\ \A i \in 1..l : all[i] = L[i]
      /\ \A i \in 1..Len(A) :
            \E w \in {Firmware, Poweroff, Reboot} :
               W[i] = w /\ \E p : all[l + e + i] = With(w, p)
      /\ Len(A) = Len(W)
      /\ W \in Seq({Firmware, Poweroff, Reboot})
  <2> DEFINE o == AutoOffset(E, cfg.offset)
  <2>1. /\ l \in Nat /\ e \in Nat /\ Len(A) \in Nat
        /\ DOMAIN all = 1..(l + e + Len(A))
        /\ \A i \in 1..l : all[i] = L[i]
        /\ \A i \in 1..Len(A) :
              \E w \in {Firmware, Poweroff, Reboot} :
                 W[i] = w /\ all[l + e + i] = With(w, Saturated(o + i - 1))
        /\ Len(A) = Len(W)
        /\ W \in Seq({Firmware, Poweroff, Reboot})
    BY ItemsAre, Zenon DEF With
  <2> HIDE DEF L, E, A, W, all, l, e, o
  <2> QED BY <2>1, Zenon
<1>2. /\ sdboot.menu["auto-firmware"] /\ cfg.setup /\ f1 = 0
           => \E k \in DOMAIN W : W[k] = Firmware
      /\ sdboot.menu["auto-poweroff"] /\ f3 = 0
           => \E k \in DOMAIN W : W[k] = Poweroff
      /\ sdboot.menu["auto-reboot"] /\ f2 = 0
           => \E k \in DOMAIN W : W[k] = Reboot
  BY WantedIs, Zenon
<1>3. /\ NameFound(L, f1, {i \in DOMAIN L : IsEfisetup(L[i])}, n1, "sdboot-auto-firmware")
      /\ NameFound(L, f2, {i \in DOMAIN L : IsReboot(L[i])}, n2, "sdboot-auto-reboot")
      /\ NameFound(L, f3, {i \in DOMAIN L : IsShutdown(L[i])}, n3, "sdboot-auto-shutdown")
  BY <1>0, NamesFound, Zenon
<1> HIDE DEF L, E, A, W, all, l, e, f1, f2, f3, n1, n2, n3
<1>4. DOMAIN W = 1..Len(A)
  BY <1>1
<1>5. ASSUME NEW w \in {Firmware, Poweroff, Reboot}, \E k \in DOMAIN W : W[k] = w
      PROVE  \E j \in DOMAIN all : \E p : all[j] = With(w, p)
  <2>1. PICK k \in 1..Len(A) : W[k] = w
    BY <1>4, <1>5
  <2>2. l + e + k \in DOMAIN all
    BY <1>1, <2>1
  <2> QED BY <1>1, <2>1, <2>2
<1>6. ASSUME NEW i \in DOMAIN L PROVE i \in DOMAIN all /\ all[i] = L[i]
  BY <1>0, <1>1, <1>6
<1>7. ASSUME NEW p
      PROVE  /\ IsEfisetup(With(Firmware, p))
             /\ With(Firmware, p).name = "sdboot-auto-firmware"
             /\ IsReboot(With(Reboot, p))
             /\ With(Reboot, p).name = "sdboot-auto-reboot"
             /\ IsShutdown(With(Poweroff, p))
             /\ With(Poweroff, p).name = "sdboot-auto-shutdown"
  BY DEF Firmware, Reboot, Poweroff, Item, IsEfisetup, IsReboot, IsShutdown, With
<1>8. sdboot.menu["auto-firmware"] /\ cfg.setup
        => \E j \in DOMAIN all : IsEfisetup(all[j]) /\ all[j].name = n1
  <2> SUFFICES ASSUME sdboot.menu["auto-firmware"] /\ cfg.setup
               PROVE  \E j \in DOMAIN all : IsEfisetup(all[j]) /\ all[j].name = n1
    OBVIOUS
  <2>1. CASE f1 = 0
    <3>1. PICK j \in DOMAIN all : \E p : all[j] = With(Firmware, p)
      BY <1>2, <1>5, <2>1, Zenon
    <3>2. n1 = "sdboot-auto-firmware"
      BY <1>3, <2>1, Zenon DEF NameFound
    <3> QED BY <1>7, <3>1, <3>2, Zenon
  <2>2. CASE f1 # 0
    BY <1>3, <1>6, <2>2, Zenon DEF NameFound
  <2> QED BY <2>1, <2>2
<1>9. sdboot.menu["auto-reboot"]
        => \E j \in DOMAIN all : IsReboot(all[j]) /\ all[j].name = n2
  <2> SUFFICES ASSUME sdboot.menu["auto-reboot"]
               PROVE  \E j \in DOMAIN all : IsReboot(all[j]) /\ all[j].name = n2
    OBVIOUS
  <2>1. CASE f2 = 0
    <3>1. PICK j \in DOMAIN all : \E p : all[j] = With(Reboot, p)
      BY <1>2, <1>5, <2>1, Zenon
    <3>2. n2 = "sdboot-auto-reboot"
      BY <1>3, <2>1, Zenon DEF NameFound
    <3> QED BY <1>7, <3>1, <3>2, Zenon
  <2>2. CASE f2 # 0
    BY <1>3, <1>6, <2>2, Zenon DEF NameFound
  <2> QED BY <2>1, <2>2
<1>10. sdboot.menu["auto-poweroff"]
        => \E j \in DOMAIN all : IsShutdown(all[j]) /\ all[j].name = n3
  <2> SUFFICES ASSUME sdboot.menu["auto-poweroff"]
               PROVE  \E j \in DOMAIN all : IsShutdown(all[j]) /\ all[j].name = n3
    OBVIOUS
  <2>1. CASE f3 = 0
    <3>1. PICK j \in DOMAIN all : \E p : all[j] = With(Poweroff, p)
      BY <1>2, <1>5, <2>1, Zenon
    <3>2. n3 = "sdboot-auto-shutdown"
      BY <1>3, <2>1, Zenon DEF NameFound
    <3> QED BY <1>7, <3>1, <3>2, Zenon
  <2>2. CASE f3 # 0
    BY <1>3, <1>6, <2>2, Zenon DEF NameFound
  <2> QED BY <2>1, <2>2
<1> QED BY <1>8, <1>9, <1>10, Zenon DEF L, all, n1, n2, n3

\* What the settings so far and the configuration make of the menu
Decided ==
    /\ IF cfg.hasTimeout
       THEN menu.timeout = menu0.timeout /\ menu.disabled = menu0.disabled
       ELSE /\ menu.timeout = sdboot.menu["timeout"]
            /\ menu.disabled = sdboot.menu["disabled"]
    /\ ~cfg.hasDefault /\ sdboot.menu["default"] # None
         => menu.default = ResolveDefault(menu0.loaders, sdboot.menu["default"])

Searching == {"current", "previous", "locate", "scan", "items"}

\* SettingsReachMenu is not inductive: it rests on every loaded partition having
\* left the menu decided, and on a default that was given never being withdrawn.
SettingsInv ==
    /\ TypeInv
    /\ pc = "start" => confs = <<>> /\ ~haveSuccess
    /\ pc \notin {"start", "done"} \/ sdboot # None \/ status = "SUCCESS"
         => sdboot.menu = SettingsOf(confs)
    /\ DOMAIN menu = {"loaders", "timeout", "disabled", "default"}
    /\ status # "SUCCESS" => menu.loaders = menu0.loaders
    /\ cfg.hasTimeout => menu.timeout = menu0.timeout /\ menu.disabled = menu0.disabled
    /\ cfg.hasDefault \/ pc = "start" => menu.default = menu0.default
    /\ pc # "start" /\ sdboot.menu["default"] = None => menu.default = menu0.default
    /\ haveSuccess /\ pc \in Searching => Decided
    /\ status = "SUCCESS" =>
         /\ Decided
         /\ sdboot \in [menu : Settings, loaders : Seq(Entries)]
         /\ menu.loaders = SortByPriority(AllItems(menu0.loaders))

-----------------------------------------------------------------------------
(* The settings reach the menu *)

\* The settings of the same partitions stay the same.
LEMMA SettingsStay ==
    ASSUME UNCHANGED disk
    PROVE  /\ confs' = confs => SettingsOf(confs)' = SettingsOf(confs)
           /\ confs' = Append(confs, dir) => SettingsOf(confs)' = SettingsOf(Append(confs, dir))
BY DEF SettingsOf

\* What is decided stays decided as long as the settings and the menu stay.
LEMMA DecidedStays ==
    ASSUME UNCHANGED <<cfg, menu0>>, sdboot'.menu = sdboot.menu,
           menu'.timeout = menu.timeout, menu'.disabled = menu.disabled,
           menu'.default = menu.default
    PROVE  Decided' = Decided
BY DEF Decided, ResolveDefault, FirstName, SelectInSeq, IsEfisetup, IsReboot, IsShutdown

\* The items to publish do not change with the control state.
LEMMA AllItemsStay ==
    ASSUME UNCHANGED <<cfg, menu0, sdboot>>
    PROVE  SortByPriority(AllItems(menu0.loaders))' = SortByPriority(AllItems(menu0.loaders))
<1>1. AllItems(menu0.loaders)' = AllItems(menu0.loaders)
  BY DEF AllItems, SdbootItems, AutoItems, WantedAutoItems, SelectInSeq, IsEfisetup,
     IsReboot, IsShutdown
<1>2. SortByPriority(AllItems(menu0.loaders))' = SortByPriority(AllItems(menu0.loaders)')
  BY DEF SortByPriority
<1> QED BY <1>1, <1>2

\* What a step that leaves the settings and the menu alone keeps
LEMMA SettingsKept ==
    ASSUME SettingsInv, TypeInv', UNCHANGED <<disk, cfg, menu0, menu, confs, haveSuccess>>,
           sdboot'.menu = sdboot.menu, pc \notin {"start", "done"}, pc' # "start",
           status' # "SUCCESS", pc' \in Searching => pc \in Searching
    PROVE  SettingsInv'
<1>1. SettingsOf(confs)' = SettingsOf(confs)
  BY SettingsStay
<1>2. Decided' = Decided
  BY DecidedStays
<1>3. /\ sdboot.menu = SettingsOf(confs)
      /\ DOMAIN menu = {"loaders", "timeout", "disabled", "default"}
      /\ status # "SUCCESS" => menu.loaders = menu0.loaders
      /\ cfg.hasTimeout => menu.timeout = menu0.timeout /\ menu.disabled = menu0.disabled
      /\ cfg.hasDefault => menu.default = menu0.default
      /\ sdboot.menu["default"] = None => menu.default = menu0.default
      /\ haveSuccess /\ pc \in Searching => Decided
  BY DEF SettingsInv
<1>4. status # "SUCCESS"
  BY NoneAssumption DEF SettingsInv, TypeInv, Status
<1> QED BY <1>1, <1>2, <1>3, <1>4 DEF SettingsInv, Searching

\* The invariant of the settings holds at the start.
LEMMA SettingsInit == Init => SettingsInv
<1> SUFFICES ASSUME Init PROVE SettingsInv
  OBVIOUS
<1>1. TypeInv
  BY TypeInit
<1>2. DOMAIN menu0 = {"loaders", "timeout", "disabled", "default"}
  BY <1>1, InputIs DEF TypeInv
<1> QED BY <1>1, <1>2, NoneAssumption DEF Init, SettingsInv, Status, Searching

\* Every step keeps the invariant of the settings.
LEMMA SettingsStep == ASSUME SettingsInv, [Next]_vars PROVE SettingsInv'
<1>0. TypeInv /\ TypeInv' /\ UNCHANGED <<disk, cfg, menu0>>
  BY TypeStep, InputsStay DEF SettingsInv
<1>n. /\ None \notin Status \cup Control /\ "SUCCESS" \notin Failing /\ "SUCCESS" \in Status
      /\ \A e \in Failing : e # "SUCCESS"
  BY NoneAssumption, FaultsAssumption DEF Status, Failing
<1>s. pc # "done" => status # "SUCCESS"
  BY <1>0, <1>n DEF TypeInv
<1> DEFINE Rest == <<disk, cfg, menu0, menu, confs, haveSuccess>>
<1>1. CASE Start
  <2>1. pc = "start" /\ UNCHANGED <<menu, confs, haveSuccess>> /\ pc' # "start" /\ status' # "SUCCESS"
    BY <1>1, <1>n, <1>s DEF Start, Return, Goto, search, history
  <2>2. confs' = <<>> /\ ~haveSuccess' /\ menu.default = menu0.default
    BY <2>1 DEF SettingsInv
  <2>3. CASE pc' = "done"
    <3>1. UNCHANGED sdboot
      BY <1>1, <2>3 DEF Start, Goto
    <3>2. SettingsOf(confs)' = SettingsOf(confs)
      BY <1>0, <2>1, SettingsStay
    <3> QED BY <1>0, <1>s, <2>1, <2>2, <2>3, <3>1, <3>2 DEF SettingsInv, Searching
  <2>4. CASE pc' # "done"
    <3>1. sdboot' = [menu |-> InitMenu, loaders |-> <<>>]
      BY <1>1, <2>4 DEF Start, Return
    <3>2. sdboot'.menu = InitMenu
      BY <3>1
    <3>3. SettingsOf(confs)' = InitMenu
      <4>1. SettingsOf(confs)' = SettingsOf(confs)
        BY <1>0, <2>1, SettingsStay
      <4> QED BY <4>1, <2>1, <2>2, SettingsOfNone
    <3>4. InitMenu["default"] = None
      BY InitMenuIs
    <3> QED BY <1>0, <1>s, <2>1, <2>2, <2>4, <3>2, <3>3, <3>4 DEF SettingsInv
  <2> QED BY <2>3, <2>4
<1>2. CASE TryCurrent
  <2>1. UNCHANGED Rest /\ UNCHANGED sdboot /\ pc = "current" /\ pc' # "start" /\ status' # "SUCCESS"
    BY <1>0, <1>2, <1>s DEF TryCurrent, Enter, Goto, history
  <2> QED BY <1>0, <2>1, SettingsKept DEF Searching
<1>3. CASE TryPrevious
  <2>1. UNCHANGED Rest /\ UNCHANGED sdboot /\ pc = "previous" /\ pc' # "start" /\ status' # "SUCCESS"
    BY <1>0, <1>3, <1>s DEF TryPrevious, Enter, Goto, history
  <2> QED BY <1>0, <2>1, SettingsKept DEF Searching
<1>4. CASE Locate
  <2>1. UNCHANGED Rest /\ UNCHANGED sdboot /\ pc = "locate" /\ pc' # "start" /\ status' # "SUCCESS"
    BY <1>0, <1>4, <1>s, <1>n DEF Locate, Return, Goto, history, search
  <2> QED BY <1>0, <2>1, SettingsKept DEF Searching
<1>5. CASE ScanNext
  <2>1. UNCHANGED Rest /\ UNCHANGED sdboot /\ pc = "scan" /\ pc' # "start" /\ status' # "SUCCESS"
    BY <1>0, <1>5, <1>s DEF ScanNext, Enter, Goto, history
  <2> QED BY <1>0, <2>1, SettingsKept DEF Searching
<1>6. CASE ScanEnd
  <2>1. UNCHANGED Rest /\ UNCHANGED sdboot /\ pc = "scan" /\ pc' # "start" /\ status' # "SUCCESS"
    BY <1>0, <1>6, <1>s DEF ScanEnd, Goto, history, search
  <2> QED BY <1>0, <2>1, SettingsKept DEF Searching
<1>7. CASE LoadConf
  <2>1. PICK r \in LoadConfOutcomes(sdboot.menu, disk.root[dir].conf) :
          /\ sdboot' = [sdboot EXCEPT !.menu = r.out]
          /\ confs' = IF r.status = "SUCCESS" THEN Append(confs, dir) ELSE confs
          /\ IF r.status \in {"SUCCESS", "NOT_FOUND"} THEN Goto("folder")
                                                      ELSE Return(r.status)
    BY <1>7 DEF LoadConf
  <2>2. pc = "conf" /\ UNCHANGED <<menu, haveSuccess>>
    BY <1>7 DEF LoadConf, search
  <2>3. /\ sdboot \in [menu : Settings, loaders : Seq(Entries)]
        /\ dir \in Roots /\ confs \in Seq(Roots)
        /\ \A k \in DOMAIN confs : disk.root[confs[k]].conf # None
    BY <1>0, <2>2 DEF TypeInv, InFolder
  <2>4. sdboot'.menu = r.out
    BY <2>1, <2>3
  <2>5. /\ r.status = "SUCCESS" => /\ disk.root[dir].conf # None
                                   /\ r.out = ParseMenu(sdboot.menu, disk.root[dir].conf).out
        /\ r.status # "SUCCESS" => r.out = sdboot.menu
        /\ sdboot.menu["default"] # None => r.out["default"] # None
    BY <1>0, <2>2, OutcomesTyped
  <2>6. sdboot.menu = SettingsOf(confs)
    BY <2>2 DEF SettingsInv
  <2>7. r.out = SettingsOf(confs)'
    <3>1. CASE r.status # "SUCCESS"
      BY <1>0, <2>1, <2>5, <2>6, <3>1, SettingsStay
    <3>2. CASE r.status = "SUCCESS"
      <4>1. \A h \in Roots : IsRoot(disk.root[h])
        BY <1>0, InputIs DEF TypeInv
      <4>2. \A h \in Roots : disk.root[h].conf # None => IsConf(disk.root[h].conf)
        BY <4>1 DEF IsRoot, IsConf
      <4>3. HaveConf(confs) /\ IsConf(disk.root[dir].conf)
        <5>1. \A k \in 1..Len(confs) : confs[k] \in Roots /\ disk.root[confs[k]].conf # None
          BY <2>3
        <5> QED BY <2>3, <2>5, <3>2, <4>2, <5>1 DEF HaveConf
      <4>4. SettingsOf(Append(confs, dir)) = ParseMenu(SettingsOf(confs), disk.root[dir].conf).out
        BY <2>3, <4>3, SettingsOfAppend
      <4>5. SettingsOf(confs)' = SettingsOf(Append(confs, dir))
        BY <1>0, <2>1, <3>2, SettingsStay
      <4> QED BY <2>5, <2>6, <3>2, <4>4, <4>5
    <3> QED BY <3>1, <3>2
  <2>8. pc' \notin Searching \cup {"start"} /\ status' # "SUCCESS"
    BY <1>s, <2>1, <2>2 DEF Goto, Return, Searching
  <2> QED BY <1>0, <1>s, <2>2, <2>4, <2>5, <2>7, <2>8 DEF SettingsInv
<1>8. CASE OpenFolder
  <2>1. /\ UNCHANGED Rest /\ UNCHANGED sdboot /\ pc = "folder" /\ status' # "SUCCESS"
        /\ pc' \notin Searching \cup {"start"}
    BY <1>0, <1>8, <1>s, <1>n DEF OpenFolder, Return, Goto, search, Searching
  <2> QED BY <1>0, <2>1, SettingsKept
<1>9. CASE ReadEntry
  <2>1. /\ UNCHANGED Rest /\ UNCHANGED sdboot /\ pc = "files" /\ status' # "SUCCESS"
        /\ pc' \notin Searching \cup {"start"}
    BY <1>0, <1>9, <1>s, <1>n DEF ReadEntry, Return, Goto, search, Searching
  <2> QED BY <1>0, <2>1, SettingsKept
<1>10. CASE ReadFolderFails
  <2>1. /\ UNCHANGED Rest /\ UNCHANGED sdboot /\ pc = "files" /\ status' # "SUCCESS"
        /\ pc' \notin Searching \cup {"start"}
    BY <1>0, <1>10, <1>s, <1>n DEF ReadFolderFails, Return, search, history, Searching
  <2> QED BY <1>0, <2>1, SettingsKept
<1>11. CASE CloseFolder
  <2>1. /\ UNCHANGED Rest /\ pc = "files" /\ status' # "SUCCESS"
        /\ sdboot' = [sdboot EXCEPT !.loaders = @ \o pending]
        /\ pc' \notin Searching \cup {"start"}
    BY <1>0, <1>11, <1>s, <1>n DEF CloseFolder, Goto, search, history, Searching
  <2>2. sdboot'.menu = sdboot.menu
    BY <1>0, <2>1 DEF TypeInv
  <2> QED BY <1>0, <2>1, <2>2, SettingsKept
<1>12. CASE ApplySettings
  <2> DEFINE timed == TimeoutFrom(sdboot.menu)
             named == DefaultFrom(sdboot.menu, timed)
  <2>1. /\ pc = "apply" /\ UNCHANGED <<sdboot, confs>>
        /\ pc' # "start" /\ status' # "SUCCESS"
        /\ \/ menu' = named
           \/ menu' = timed /\ pc' = "done" /\ sdboot.menu["default"] # None /\ ~cfg.hasDefault
    <3>1. back # "start"
      BY <1>0, NoneAssumption DEF TypeInv, Control
    <3> QED BY <1>12, <1>s, <3>1 DEF ApplySettings, Return, Goto, history
  <2>2. /\ DOMAIN timed = DOMAIN menu
        /\ timed.loaders = menu.loaders /\ timed.default = menu.default
        /\ cfg.hasTimeout => timed.timeout = menu.timeout /\ timed.disabled = menu.disabled
        /\ ~cfg.hasTimeout => /\ timed.timeout = sdboot.menu["timeout"]
                              /\ timed.disabled = sdboot.menu["disabled"]
    BY DEF TimeoutFrom, SettingsInv
  <2>3. /\ DOMAIN menu = {"loaders", "timeout", "disabled", "default"}
        /\ menu.loaders = menu0.loaders
        /\ cfg.hasTimeout => menu.timeout = menu0.timeout /\ menu.disabled = menu0.disabled
        /\ cfg.hasDefault => menu.default = menu0.default
        /\ sdboot.menu["default"] = None => menu.default = menu0.default
        /\ sdboot.menu = SettingsOf(confs)
    BY <1>s, <2>1 DEF SettingsInv
  <2> HIDE DEF timed
  <2> DEFINE d == ResolveDefault(timed.loaders, sdboot.menu["default"])
  <2>4. /\ DOMAIN named = DOMAIN timed
        /\ named.loaders = timed.loaders
        /\ named.timeout = timed.timeout /\ named.disabled = timed.disabled
        /\ (sdboot.menu["default"] = None \/ cfg.hasDefault) => named.default = timed.default
        /\ ~(sdboot.menu["default"] = None \/ cfg.hasDefault) => named.default = d
    <3> HIDE DEF d
    <3>1. named = IF sdboot.menu["default"] = None \/ cfg.hasDefault THEN timed
                  ELSE [timed EXCEPT !.default = d]
      BY DEF DefaultFrom, d
    <3>2. DOMAIN timed = {"loaders", "timeout", "disabled", "default"}
      BY <2>2, <2>3
    <3> HIDE DEF named
    <3> QED BY <3>1, <3>2
  <2>5. d = ResolveDefault(menu0.loaders, sdboot.menu["default"])
    BY <2>2, <2>3
  <2>6. SettingsOf(confs)' = SettingsOf(confs)
    BY <1>0, <2>1, SettingsStay
  <2> HIDE DEF named, d
  <2>7. /\ DOMAIN menu' = {"loaders", "timeout", "disabled", "default"}
        /\ menu'.loaders = menu0.loaders
        /\ cfg.hasTimeout => menu'.timeout = menu0.timeout /\ menu'.disabled = menu0.disabled
        /\ cfg.hasDefault => menu'.default = menu0.default
        /\ sdboot.menu["default"] = None => menu'.default = menu0.default
    BY <2>1, <2>2, <2>3, <2>4
  <2>8. menu' = named => Decided'
    <3> SUFFICES ASSUME menu' = named PROVE Decided'
      OBVIOUS
    <3>0. /\ UNCHANGED <<cfg, menu0, sdboot>>
          /\ ResolveDefault(menu0.loaders, sdboot.menu["default"])'
               = ResolveDefault(menu0.loaders, sdboot.menu["default"])
      BY <1>0, <2>1 DEF ResolveDefault, FirstName, SelectInSeq, IsEfisetup, IsReboot, IsShutdown
    <3> QED BY <2>2, <2>3, <2>4, <2>5, <3>0 DEF Decided
  <2>9. pc' \in Searching => Decided'
    BY <2>1, <2>8 DEF Searching
  <2> QED BY <1>0, <2>1, <2>3, <2>6, <2>7, <2>9 DEF SettingsInv
<1>13. CASE AddItems
  <2>1. pc = "items" /\ pc' = "done" /\ UNCHANGED <<sdboot, confs, haveSuccess>>
    BY <1>13 DEF AddItems, Return, search, history
  <2>2. CASE UNCHANGED menu /\ status' # "SUCCESS"
    BY <1>0, <2>1, <2>2, SettingsKept DEF Searching
  <2>3. CASE /\ haveSuccess
             /\ status' = "SUCCESS"
             /\ menu' = [menu EXCEPT !.loaders = SortByPriority(AllItems(menu.loaders))]
    <3>1. /\ DOMAIN menu = {"loaders", "timeout", "disabled", "default"}
          /\ menu.loaders = menu0.loaders
      BY <1>s, <2>1 DEF SettingsInv
    <3> DEFINE x == SortByPriority(AllItems(menu.loaders))
    <3> HIDE DEF x
    <3>2. /\ DOMAIN menu' = DOMAIN menu
          /\ menu'.loaders = x /\ menu'.timeout = menu.timeout
          /\ menu'.disabled = menu.disabled /\ menu'.default = menu.default
      <4>1. menu' = [menu EXCEPT !.loaders = x]
        BY <2>3 DEF x
      <4> QED BY <3>1, <4>1
    <3>3. Decided' = Decided
      BY <1>0, <2>1, <3>2, DecidedStays
    <3>4. Decided
      BY <2>1, <2>3 DEF SettingsInv, Searching
    <3>5. sdboot \in [menu : Settings, loaders : Seq(Entries)]
      BY <1>0, <2>1 DEF TypeInv
    <3>6. sdboot' \in [menu : Settings', loaders : Seq(Entries')]
      <4>1. Entries' = Entries
        BY <1>0, RootsStay
      <4>2. Settings' = Settings
        BY DEF Settings, Value
      <4> QED BY <2>1, <3>5, <4>1, <4>2
    <3>7. SortByPriority(AllItems(menu0.loaders))' = x
      <4>1. SortByPriority(AllItems(menu0.loaders))' = SortByPriority(AllItems(menu0.loaders))
        BY <1>0, <2>1, AllItemsStay
      <4> QED BY <3>1, <4>1 DEF x
    <3>8. SettingsOf(confs)' = SettingsOf(confs)
      BY <1>0, <2>1, SettingsStay
    <3> QED BY <1>0, <1>s, <2>1, <2>3, <3>1, <3>2, <3>3, <3>4, <3>6, <3>7, <3>8
            DEF SettingsInv, Searching
  <2> QED BY <1>13, <1>n, <2>2, <2>3 DEF AddItems, Return
<1>14. CASE UNCHANGED vars
  <2>1. UNCHANGED <<disk, cfg, menu0, menu, sdboot, pc, status, confs, haveSuccess>>
    BY <1>14 DEF vars, inputs, search, history
  <2>2. SettingsOf(confs)' = SettingsOf(confs)
    BY <2>1, SettingsStay
  <2>3. Decided' = Decided
    BY <2>1, DecidedStays
  <2>4. SortByPriority(AllItems(menu0.loaders))' = SortByPriority(AllItems(menu0.loaders))
    BY <2>1, AllItemsStay
  <2>5. Settings' = Settings /\ Entries' = Entries
    BY <2>1, RootsStay DEF Settings, Value
  <2> QED BY <1>0, <2>1, <2>2, <2>3, <2>4, <2>5 DEF SettingsInv
<1> QED
  BY <1>1, <1>2, <1>3, <1>4, <1>5, <1>6, <1>7, <1>8, <1>9, <1>10, <1>11, <1>12,
     <1>13, <1>14 DEF Next

\* Whatever is among all items is in the published menu.
LEMMA PublishedHas ==
    ASSUME SettingsInv, status = "SUCCESS"
    PROVE  LET all == AllItems(menu0.loaders)
           IN  /\ InputInv /\ sdboot.loaders \in Seq(Entries)
               /\ \E n \in Nat : \E p : /\ SortsTo(p, n, all) /\ DOMAIN all = 1..n
                                        /\ menu.loaders = [k \in 1..n |-> all[p[k]]]
               /\ \A j \in DOMAIN all : \E k \in DOMAIN menu.loaders : menu.loaders[k] = all[j]
<1> DEFINE all == AllItems(menu0.loaders)
           n == Len(menu0.loaders) + Len(sdboot.loaders) + Len(AutoItems(menu0.loaders))
<1>1. InputInv /\ sdboot.loaders \in Seq(Entries) /\ menu.loaders = SortByPriority(all)
  BY DEF SettingsInv, TypeInv
<1>2. n \in Nat /\ DOMAIN all = 1..n /\ \A i \in 1..n : all[i].priority \in Int
  <2> DEFINE x == Len(menu0.loaders)
             y == Len(sdboot.loaders)
             z == Len(AutoItems(menu0.loaders))
  <2>1. /\ x \in Nat /\ y \in Nat /\ z \in Nat
        /\ DOMAIN all = 1..n /\ \A i \in 1..n : all[i].priority \in Int
    BY <1>1, ItemsAre, Zenon
  <2>2. n = x + y + z
    OBVIOUS
  <2> HIDE DEF x, y, z, n
  <2> QED BY <2>1, <2>2
<1> HIDE DEF all, n
<1>3. PICK p : SortsTo(p, n, all) /\ menu.loaders = [k \in 1..n |-> all[p[k]]]
  <2>1. PICK p : SortsTo(p, n, all) /\ SortByPriority(all) = [k \in 1..n |-> all[p[k]]]
    BY ONLY <1>2, SortLists
  <2> QED BY <1>1, <2>1, Zenon
<1>4. ASSUME NEW j \in DOMAIN all PROVE \E k \in DOMAIN menu.loaders : menu.loaders[k] = all[j]
  <2>1. PICK k \in 1..n : p[k] = j
    BY <1>2, <1>3 DEF SortsTo
  <2> QED BY <1>3, <2>1
<1> QED BY <1>1, <1>2, <1>3, <1>4, Zenon DEF all

\* The published menu holds the entry that an automatic default names.
LEMMA DefaultFound == SettingsInv => AutoDefaultResolves
<1> SUFFICES ASSUME SettingsInv, status = "SUCCESS", ~cfg.hasDefault
             PROVE  AutoDefaultResolves
  BY DEF AutoDefaultResolves
<1> DEFINE L == menu0.loaders
           all == AllItems(L)
           set == sdboot.menu
           n1 == FirstName(L, SelectInSeq(L, IsEfisetup), "sdboot-auto-firmware")
           n2 == FirstName(L, SelectInSeq(L, IsReboot), "sdboot-auto-reboot")
           n3 == FirstName(L, SelectInSeq(L, IsShutdown), "sdboot-auto-shutdown")
<1>1. /\ InputInv /\ sdboot.loaders \in Seq(Entries)
      /\ \A j \in DOMAIN all : \E k \in DOMAIN menu.loaders : menu.loaders[k] = all[j]
  BY PublishedHas, Zenon
<1>2. set["default"] # None => menu.default = ResolveDefault(L, set["default"])
  BY DEF SettingsInv, Decided
<1>3. None \notin {"auto-firmware", "auto-reboot", "auto-poweroff"}
  BY TextAssumption
<1>4. /\ set["default"] = "auto-firmware" => menu.default = n1
      /\ set["default"] = "auto-reboot" => menu.default = n2
      /\ set["default"] = "auto-poweroff" => menu.default = n3
  <2>1. /\ ResolveDefault(L, "auto-firmware") = n1
        /\ ResolveDefault(L, "auto-reboot") = n2
        /\ ResolveDefault(L, "auto-poweroff") = n3
    <3> HIDE DEF n1, n2, n3
    <3>1. \A d : ResolveDefault(L, d) = CASE d = "auto-firmware" -> n1
                                          [] d = "auto-reboot" -> n2
                                          [] d = "auto-poweroff" -> n3
                                          [] OTHER -> d
      BY DEF ResolveDefault, n1, n2, n3
    <3> QED BY <3>1
  <2> HIDE DEF n1, n2, n3
  <2> QED BY <1>2, <1>3, <2>1
<1>5. /\ set["auto-firmware"] /\ cfg.setup
           => \E j \in DOMAIN all : IsEfisetup(all[j]) /\ all[j].name = n1
      /\ set["auto-reboot"] => \E j \in DOMAIN all : IsReboot(all[j]) /\ all[j].name = n2
      /\ set["auto-poweroff"] => \E j \in DOMAIN all : IsShutdown(all[j]) /\ all[j].name = n3
  BY <1>1, AutoFound, Zenon
<1> HIDE DEF L, all, n1, n2, n3
<1>6. /\ set["default"] = "auto-firmware" /\ set["auto-firmware"] /\ cfg.setup
           => \E k \in DOMAIN menu.loaders :
                 IsEfisetup(menu.loaders[k]) /\ menu.loaders[k].name = menu.default
      /\ set["default"] = "auto-reboot" /\ set["auto-reboot"]
           => \E k \in DOMAIN menu.loaders :
                 IsReboot(menu.loaders[k]) /\ menu.loaders[k].name = menu.default
      /\ set["default"] = "auto-poweroff" /\ set["auto-poweroff"]
           => \E k \in DOMAIN menu.loaders :
                 IsShutdown(menu.loaders[k]) /\ menu.loaders[k].name = menu.default
  <2>1. ASSUME set["default"] = "auto-firmware", set["auto-firmware"], cfg.setup
        PROVE  \E k \in DOMAIN menu.loaders :
                  IsEfisetup(menu.loaders[k]) /\ menu.loaders[k].name = menu.default
    BY <1>1, <1>4, <1>5, <2>1, Zenon
  <2>2. ASSUME set["default"] = "auto-reboot", set["auto-reboot"]
        PROVE  \E k \in DOMAIN menu.loaders :
                  IsReboot(menu.loaders[k]) /\ menu.loaders[k].name = menu.default
    BY <1>1, <1>4, <1>5, <2>2, Zenon
  <2>3. ASSUME set["default"] = "auto-poweroff", set["auto-poweroff"]
        PROVE  \E k \in DOMAIN menu.loaders :
                  IsShutdown(menu.loaders[k]) /\ menu.loaders[k].name = menu.default
    BY <1>1, <1>4, <1>5, <2>3, Zenon
  <2> QED BY <2>1, <2>2, <2>3
<1> QED BY <1>6, Zenon DEF AutoDefaultResolves

\* The settings that all loader.conf files make together reach the menu.
THEOREM SettingsReach == Spec => []SettingsReachMenu
<1>1. Init => SettingsInv
  BY SettingsInit
<1>2. SettingsInv /\ [Next]_vars => SettingsInv'
  BY SettingsStep
<1>3. SettingsInv => SettingsReachMenu
  <2> SUFFICES ASSUME SettingsInv PROVE SettingsReachMenu
    OBVIOUS
  <2>1. TypeOK
    <3>1. sdboot # None \/ visited # <<>> =>
             /\ DOMAIN sdboot.menu = MenuKey
             /\ sdboot.menu["timeout"] \in (-INT_MAX - 1)..INT_MAX
      BY DEF SettingsInv, TypeInv, Settings
    <3> QED BY <3>1 DEF SettingsInv, TypeInv, TypeOK
  <2>2. SettingsWhole
    BY DEF SettingsInv, SettingsWhole
  <2>3. SettingsApplied
    <3>1. status = "SUCCESS" => pc # "start"
      BY NoneAssumption DEF SettingsInv, TypeInv, Status
    <3> QED BY <3>1 DEF SettingsInv, SettingsApplied, Decided
  <2> QED BY <2>1, <2>2, <2>3, DefaultFound DEF SettingsReachMenu
<1> QED BY <1>1, <1>2, <1>3, PTL DEF Spec

-----------------------------------------------------------------------------
(* Priorities *)

\* Whether "comes before" is a strict order on the entries
IsOrder(entries) ==
    \A i, j, k \in DOMAIN entries :
       /\ j \in Before(entries, i) => i \notin Before(entries, j)
       /\ j \in Before(entries, i) /\ k \in Before(entries, j)
            => k \in Before(entries, i)

\* Counting turns an order into priorities that agree with it: in
\* sdboot_items_prepare an entry that comes before another gets the smaller
\* priority, as long as no priority can reach INT64_MAX.
THEOREM PriorityAgrees ==
    ASSUME NEW entries, IsFiniteSet(DOMAIN entries), IsOrder(entries),
           NEW offset \in Int,
           offset + Cardinality(DOMAIN entries) <= INT64_MAX,
           NEW i \in DOMAIN entries, NEW j \in DOMAIN entries,
           j \in Before(entries, i)
    PROVE  Priority(entries, offset, j) < Priority(entries, offset, i)
<1> DEFINE B(k) == Before(entries, k)
<1>1. IsFiniteSet(B(i)) /\ Cardinality(B(i)) <= Cardinality(DOMAIN entries)
  <2>1. B(i) \subseteq DOMAIN entries
    BY DEF Before
  <2> QED BY <2>1, FS_Subset
<1>2. B(j) \subseteq B(i) /\ B(j) # B(i)
  <2>1. \A k \in B(j) : k \in DOMAIN entries
    BY DEF Before
  <2>2. B(j) \subseteq B(i)
    BY <2>1 DEF IsOrder
  <2>3. j \notin B(j)
    BY DEF IsOrder
  <2> QED BY <2>2, <2>3
<1>3. IsFiniteSet(B(j)) /\ Cardinality(B(j)) < Cardinality(B(i))
  <2>1. /\ IsFiniteSet(B(j))
        /\ Cardinality(B(j)) <= Cardinality(B(i))
        /\ Cardinality(B(i)) = Cardinality(B(j)) => B(i) = B(j)
    BY <1>1, <1>2, FS_Subset
  <2>2. Cardinality(B(i)) \in Nat /\ Cardinality(B(j)) \in Nat
    BY <1>1, <2>1, FS_CardinalityType
  <2> QED BY <1>2, <2>1, <2>2
<1>4. /\ Cardinality(B(i)) \in Nat
      /\ Cardinality(B(j)) \in Nat
      /\ Cardinality(DOMAIN entries) \in Nat
  BY <1>1, <1>3, FS_CardinalityType
<1> HIDE DEF B
<1>5. offset + Cardinality(B(j)) < INT64_MAX
  BY <1>1, <1>3, <1>4, Int64Assumption
<1> QED
  <2>1. /\ Priority(entries, offset, i) = Saturated(offset + Cardinality(B(i)))
        /\ Priority(entries, offset, j) = Saturated(offset + Cardinality(B(j)))
    BY DEF Priority, B
  <2> QED BY <1>3, <1>4, <1>5, <2>1, Int64Assumption DEF Saturated

-----------------------------------------------------------------------------
(* The menu that efi_main shows without systemd-boot entries *)

\* Until a partition is loaded the menu is the configured one, and the only
\* ways to EFI_NOT_FOUND and EFI_UNSUPPORTED lie before that.
UntouchedInv ==
    /\ pc # "done" => status = None
    /\ pc = "start" => ~haveSuccess
    /\ back # "start"
    /\ pc # "done" /\ ~haveSuccess => menu = menu0
    /\ MenuUntouched

\* One step keeps the invariant: only ApplySettings and AddItems change the
\* menu, and of the failures none is EFI_NOT_FOUND or EFI_UNSUPPORTED.
LEMMA UntouchedStep ==
    ASSUME "UNSUPPORTED" \notin Faults, UntouchedInv, [Next]_vars
    PROVE  UntouchedInv'
<1> USE NoneAssumption, FaultsAssumption DEF UntouchedInv, MenuUntouched, Status, Control, Failing
<1>1. CASE Start
  BY <1>1 DEF Start, Return, Goto, inputs, search
<1>2. CASE TryCurrent
  BY <1>2 DEF TryCurrent, Enter, Goto, inputs
<1>3. CASE TryPrevious
  BY <1>3 DEF TryPrevious, Enter, Goto, inputs
<1>4. CASE Locate
  BY <1>4 DEF Locate, Return, Goto, inputs, search
<1>5. CASE ScanNext
  BY <1>5 DEF ScanNext, Enter, Goto, inputs
<1>6. CASE ScanEnd
  BY <1>6 DEF ScanEnd, Goto, inputs, search
<1>7. CASE LoadConf
  <2>1. PICK r \in LoadConfOutcomes(sdboot.menu, disk.root[dir].conf) :
           IF r.status \in {"SUCCESS", "NOT_FOUND"} THEN Goto("folder")
                                                    ELSE Return(r.status)
    BY <1>7 DEF LoadConf
  <2>2. r.status \in Faults \cup {"NOT_FOUND", "SUCCESS", "LOAD_ERROR"}
    BY DEF LoadConfOutcomes
  <2>3. pc = "conf" /\ UNCHANGED <<menu, menu0, haveSuccess, back>>
    BY <1>7 DEF LoadConf, inputs, search
  <2> QED BY <2>1, <2>2, <2>3 DEF Goto, Return
<1>8. CASE OpenFolder
  BY <1>8 DEF OpenFolder, Return, Goto, inputs, search
<1>9. CASE ReadEntry
  BY <1>9 DEF ReadEntry, Return, Goto, inputs, search
<1>10. CASE ReadFolderFails
  BY <1>10 DEF ReadFolderFails, Return, inputs, search
<1>11. CASE CloseFolder
  BY <1>11 DEF CloseFolder, Goto, inputs, search
<1>12. CASE ApplySettings
  BY <1>12 DEF ApplySettings, Return, Goto, inputs
<1>13. CASE AddItems
  BY <1>13 DEF AddItems, Return, inputs, search
<1>14. CASE UNCHANGED vars
  BY <1>14 DEF vars, inputs, search
<1> QED
  BY <1>1, <1>2, <1>3, <1>4, <1>5, <1>6, <1>7, <1>8, <1>9, <1>10, <1>11, <1>12,
     <1>13, <1>14 DEF Next

\* If no firmware call fails with EFI_UNSUPPORTED, efi_main goes on without
\* systemd-boot entries only with the menu that the configuration built,
\* whatever the partitions hold and whatever else fails.
THEOREM MenuKept ==
    ASSUME "UNSUPPORTED" \notin Faults
    PROVE  Spec => []MenuUntouched
<1>1. Init => UntouchedInv
  BY NoneAssumption DEF Init, UntouchedInv, MenuUntouched, Status, Control
<1>2. UntouchedInv /\ [Next]_vars => UntouchedInv'
  BY UntouchedStep
<1>3. UntouchedInv => MenuUntouched
  BY DEF UntouchedInv
<1> QED BY <1>1, <1>2, <1>3, PTL DEF Spec

-----------------------------------------------------------------------------
(* No partition twice *)

\* The handles that the firmware lists before the n-th
Listed(n) == {disk.handles[i] : i \in 1..(n - 1)}

\* While a partition is loaded the search stands where it will go on.
Stage == IF pc \in {"conf", "folder", "files", "apply"} THEN back ELSE pc

\* The partitions visited when the search stands at a stage
VisitedAt ==
    /\ Stage \in {"start", "current"} => visited = <<>>
    /\ Stage = "previous" => \A i \in DOMAIN visited : visited[i] = disk.current
    /\ Stage = "locate" =>
         \A i \in DOMAIN visited : visited[i] \in {disk.current, disk.previous}
    /\ Stage = "scan" =>
         \A i \in DOMAIN visited :
            visited[i] \in {disk.current, disk.previous} \cup Listed(index)

Candidates == {disk.current, disk.previous} \cup Listed(Len(disk.handles) + 1)

\* VisitOnce is not inductive: it rests on what has been visited at each stage,
\* and on the search ending after the first partition if it is to.
OnceInv ==
    /\ Len(disk.handles) \in Nat
    /\ pc \in Control
    /\ back \in {None, "previous", "locate", "scan"}
    /\ back = None => pc \notin {"conf", "folder", "files", "apply"}
    /\ index \in Nat \ {0}
    /\ visited \in Seq(Candidates)
    /\ VisitedAt
    /\ ~cfg.multi /\ pc \in {"start", "current", "previous", "locate", "scan"}
         => visited = <<>>
    /\ VisitOnce

\* A partition that was not visited before can be appended.
LEMMA AppendOnce ==
    ASSUME NEW S, NEW s \in Seq(S), NEW h \in S,
           \A i, j \in DOMAIN s : s[i] = s[j] => i = j,
           \A i \in DOMAIN s : s[i] # h
    PROVE  /\ Append(s, h) \in Seq(S)
           /\ \A i, j \in DOMAIN Append(s, h) :
                 Append(s, h)[i] = Append(s, h)[j] => i = j
           /\ \A i \in DOMAIN Append(s, h) :
                 Append(s, h)[i] = h \/ \E j \in DOMAIN s : Append(s, h)[i] = s[j]
OBVIOUS

\* Loading a new partition h keeps VisitOnce.
LEMMA EnterOnce ==
    ASSUME OnceInv, UNCHANGED <<disk, cfg>>, NEW h \in Candidates,
           visited' = Append(visited, h),
           \A i \in DOMAIN visited : visited[i] # h,
           pc \in {"current", "previous", "scan"}
    PROVE  /\ visited' \in Seq(Candidates')
           /\ VisitOnce'
           /\ \A i \in DOMAIN visited' :
                 visited'[i] = h \/ \E j \in DOMAIN visited : visited'[i] = visited[j]
<1>1. Candidates' = Candidates
  BY DEF Candidates, Listed
<1>2. visited \in Seq(Candidates) /\ \A i, j \in DOMAIN visited : visited[i] = visited[j] => i = j
  BY DEF OnceInv, VisitOnce
<1>3. ~cfg.multi => Len(Append(visited, h)) <= 1
  BY <1>2 DEF OnceInv
<1> QED BY <1>1, <1>2, <1>3, AppendOnce DEF VisitOnce

\* One step keeps the invariant.
LEMMA OnceStep == ASSUME OnceInv, [Next]_vars PROVE OnceInv'
<1> USE DEF Control
<1>0. UNCHANGED <<disk, cfg, back, visited, index>> /\ pc' \in Control
        /\ (pc' \in {"start", "current", "previous", "locate", "scan"} => pc' = pc)
        /\ (Stage' = Stage \/ pc' \in {"items", "done"})
        /\ (back = None => pc' \notin {"conf", "folder", "files", "apply"})
      => OnceInv'
  BY DEF OnceInv, VisitedAt, Candidates, Listed, VisitOnce, Stage
<1>1. CASE Start
  BY <1>1 DEF Start, Return, Goto, inputs, search, history, OnceInv, VisitedAt,
     Candidates, Listed, VisitOnce, Stage
<1>2. CASE TryCurrent
  <2>1. CASE HasFolder(disk.current) /\ Enter(disk.current, "previous")
    <3>1. /\ disk.current \in Candidates
          /\ visited = <<>> /\ pc = "current"
          /\ UNCHANGED <<disk, cfg, index>>
          /\ visited' = Append(visited, disk.current)
          /\ pc' = "conf" /\ back' = "previous"
      BY <1>2, <2>1 DEF TryCurrent, Enter, Goto, inputs, Candidates, OnceInv,
         VisitedAt, Stage
    <3>2. /\ visited' \in Seq(Candidates') /\ VisitOnce'
          /\ \A i \in DOMAIN visited' : visited'[i] = disk.current
      BY <3>1, EnterOnce
    <3> QED BY <3>1, <3>2, NoneAssumption DEF OnceInv, VisitedAt, Stage
  <2>2. CASE ~HasFolder(disk.current) /\ Goto("previous")
               /\ UNCHANGED <<back, dir, history>>
    BY <1>2, <2>2 DEF TryCurrent, Goto, inputs, history, OnceInv, VisitedAt,
       Candidates, Listed, VisitOnce, Stage
  <2> QED BY <1>2, <2>1, <2>2 DEF TryCurrent
<1>3. CASE TryPrevious
  <2>1. CASE disk.previous # disk.current /\ Enter(disk.previous, "locate")
    <3>1. /\ disk.previous \in Candidates
          /\ pc = "previous"
          /\ \A i \in DOMAIN visited : visited[i] = disk.current
          /\ UNCHANGED <<disk, cfg, index>>
          /\ visited' = Append(visited, disk.previous)
          /\ pc' = "conf" /\ back' = "locate"
      BY <1>3, <2>1 DEF TryPrevious, Enter, Goto, inputs, Candidates, OnceInv,
         VisitedAt, Stage
    <3>2. /\ visited' \in Seq(Candidates') /\ VisitOnce'
          /\ \A i \in DOMAIN visited' :
                visited'[i] \in {disk.current, disk.previous}
      BY <2>1, <3>1, EnterOnce
    <3> QED BY <3>1, <3>2, NoneAssumption DEF OnceInv, VisitedAt, Stage
  <2>2. CASE Goto("locate") /\ UNCHANGED <<back, dir, history>>
    BY <1>3, <2>2 DEF TryPrevious, Goto, inputs, history, OnceInv, VisitedAt,
       Candidates, Listed, VisitOnce, Stage
  <2> QED BY <1>3, <2>1, <2>2 DEF TryPrevious
<1>4. CASE Locate
  BY <1>4 DEF Locate, Return, Goto, inputs, search, history, OnceInv, VisitedAt,
     Candidates, Listed, VisitOnce, Stage
<1>5. CASE ScanNext
  <2> DEFINE h == disk.handles[index]
  <2>0. /\ pc = "scan" /\ index' = index + 1
        /\ index \in 1..Len(disk.handles)
        /\ UNCHANGED <<disk, cfg>>
        /\ Listed(index)' = Listed(index) \cup {h}
    <3>1. /\ pc = "scan" /\ index' = index + 1 /\ UNCHANGED <<disk, cfg>>
          /\ index \in 1..Len(disk.handles)
      BY <1>5, DisksAssumption DEF ScanNext, inputs, OnceInv
    <3> QED BY <3>1 DEF Listed
  <2>1. CASE ~Attempted(index) /\ Enter(h, "scan")
    <3>1. /\ h \in Candidates
          /\ visited' = Append(visited, h)
          /\ pc' = "conf" /\ back' = "scan"
      BY <2>0, <2>1, DisksAssumption DEF Enter, Goto, Candidates, Listed, OnceInv
    <3>2. \A i \in DOMAIN visited :
             visited[i] \in {disk.current, disk.previous} \cup Listed(index)
      BY <2>0 DEF OnceInv, VisitedAt, Stage
    <3>3. h \notin {disk.current, disk.previous} \cup Listed(index)
      BY <2>0, <2>1 DEF Attempted, Listed
    <3>4. /\ visited' \in Seq(Candidates') /\ VisitOnce'
          /\ \A i \in DOMAIN visited' :
                visited'[i] \in {disk.current, disk.previous} \cup Listed(index)'
      BY <2>0, <3>1, <3>2, <3>3, EnterOnce
    <3> QED BY <2>0, <3>1, <3>4, NoneAssumption DEF OnceInv, VisitedAt, Stage
  <2>2. CASE Goto("scan") /\ UNCHANGED <<back, dir, history>>
    <3>1. Candidates' = Candidates
      BY <2>0 DEF Candidates, Listed
    <3> QED BY <2>0, <2>2, <3>1 DEF Goto, history, OnceInv, VisitedAt, VisitOnce, Stage
  <2> QED BY <1>5, <2>1, <2>2 DEF ScanNext
<1>6. CASE ScanEnd
  BY <1>0, <1>6 DEF ScanEnd, Goto, inputs, search, history
<1>7. CASE LoadConf
  BY <1>0, <1>7 DEF LoadConf, Return, Goto, inputs, search, Stage, OnceInv
<1>8. CASE OpenFolder
  BY <1>0, <1>8 DEF OpenFolder, Return, Goto, inputs, search, Stage, OnceInv
<1>9. CASE ReadEntry
  BY <1>0, <1>9 DEF ReadEntry, Return, Goto, inputs, search, Stage, OnceInv
<1>10. CASE ReadFolderFails
  BY <1>0, <1>10 DEF ReadFolderFails, Return, inputs, search, history
<1>11. CASE CloseFolder
  BY <1>0, <1>11 DEF CloseFolder, Goto, inputs, search, history, Stage, OnceInv
<1>12. CASE ApplySettings
  BY <1>12, NoneAssumption DEF ApplySettings, Return, Goto, inputs, history,
     OnceInv, VisitedAt, Candidates, Listed, VisitOnce, Stage
<1>13. CASE AddItems
  BY <1>0, <1>13 DEF AddItems, Return, inputs, search, history
<1>14. CASE UNCHANGED vars
  BY <1>0, <1>14 DEF vars, inputs, search, history, OnceInv, Stage
<1> QED
  BY <1>1, <1>2, <1>3, <1>4, <1>5, <1>6, <1>7, <1>8, <1>9, <1>10, <1>11, <1>12,
     <1>13, <1>14 DEF Next

\* The invariant of the search holds at the start.
LEMMA OnceInit == Init => OnceInv
<1>1. Init => Len(disk.handles) \in Nat
  BY InputIs DEF Init, InputInv
<1> QED BY <1>1, NoneAssumption DEF Init, OnceInv, VisitedAt, VisitOnce, Stage, Control

\* No partition is loaded twice, and only one if menu.sdboot.multi-partitions is
\* off, whatever handles the firmware lists and whatever fails on the way.
THEOREM PartitionsOnce == Spec => []VisitOnce
<1>1. Init => OnceInv
  BY OnceInit
<1>2. OnceInv /\ [Next]_vars => OnceInv'
  BY OnceStep
<1>3. OnceInv => VisitOnce
  BY DEF OnceInv
<1> QED BY <1>1, <1>2, <1>3, PTL DEF Spec

-----------------------------------------------------------------------------
(* The order of the entries *)

\* Two comparisons with opposite results
Opposite(x, y) ==
    x \in Int /\ y \in Int /\ (x < 0 <=> y > 0) /\ (y < 0 <=> x > 0)

\* sdboot_compare_entries the other way round has the opposite result.
LEMMA CompareOpposite ==
    ASSUME NEW a \in Entries, NEW b \in Entries
    PROVE  Opposite(Compare(a, b), Compare(b, a))
<1>1. /\ a["name"] \in Text /\ b["name"] \in Text
      /\ \A k \in StringKey : a[k] \in Text \cup {None} /\ b[k] \in Text \cup {None}
  BY DEF Entries, EntriesOf
<1>2. /\ \A x, y \in Text : Opposite(strcmp(x, y), strcmp(y, x))
      /\ \A x, y \in Text : Opposite(vercmp(x, y), vercmp(y, x))
  BY CompareAssumption DEF Opposite
<1>3. \A x, y, u, v : Opposite(x, y) /\ Opposite(u, v) => Opposite(IfTied(x, u), IfTied(y, v))
  BY DEF Opposite, IfTied
<1>4. Opposite(0, 0) /\ Opposite(-1, 1) /\ Opposite(1, -1)
  BY DEF Opposite
<1>5. {"sort-key", "machine-id", "version"} \subseteq StringKey
  BY DEF StringKey
<1> HIDE DEF Opposite
<1> DEFINE both(k) == a[k] # None /\ b[k] # None
           has(e) == e["sort-key"] # None
           m(x, y) == IF x["machine-id"] # None /\ y["machine-id"] # None
                      THEN strcmp(x["machine-id"], y["machine-id"]) ELSE 0
           v(x, y) == IF x["version"] # None /\ y["version"] # None
                      THEN vercmp(y["version"], x["version"]) ELSE 0
           s(x, y) == strcmp(x["sort-key"], y["sort-key"])
           byKey(x, y) == IfTied(s(x, y), IfTied(m(x, y), v(x, y)))
           n(x, y) == vercmp(y["name"], x["name"])
           rest(x, y) == IfTied(IF has(x) THEN byKey(x, y) ELSE 0, n(x, y))
<1>6. Opposite(m(a, b), m(b, a)) /\ Opposite(v(a, b), v(b, a)) /\ Opposite(n(a, b), n(b, a))
  BY <1>1, <1>2, <1>4, <1>5
<1>7. has(a) /\ has(b) => Opposite(s(a, b), s(b, a))
  BY <1>1, <1>2, <1>5
<1>8. /\ Compare(a, b) = IF has(a) # has(b) THEN IF has(a) THEN -1 ELSE 1 ELSE rest(a, b)
      /\ Compare(b, a) = IF has(b) # has(a) THEN IF has(b) THEN -1 ELSE 1 ELSE rest(b, a)
  BY DEF Compare
<1> HIDE DEF m, v, s, n, has
<1>9. has(a) /\ has(b) => Opposite(byKey(a, b), byKey(b, a))
  BY <1>3, <1>6, <1>7, Zenon
<1> HIDE DEF byKey
<1>10. has(a) = has(b) => Opposite(rest(a, b), rest(b, a))
  BY <1>3, <1>4, <1>6, <1>9
<1> HIDE DEF rest
<1> QED BY <1>4, <1>8, <1>10 DEF has

\* What an item of the menu is
LEMMA ItemKinds ==
    ASSUME InputInv, sdboot.loaders \in Seq(Entries), NEW m \in DOMAIN AllItems(menu0.loaders)
    PROVE  LET L == menu0.loaders
               E == sdboot.loaders
               o == AutoOffset(E, cfg.offset)
               item == AllItems(L)[m]
           IN  /\ o \in Int /\ item.priority \in Int /\ m \in Nat
               /\ \/ /\ m \in DOMAIN L /\ m <= Len(L)
                     /\ item = L[m] /\ item.type # "sdboot" /\ item.extra = 0
                  \/ \E i \in DOMAIN E :
                        /\ m = Len(L) + i /\ m <= Len(L) + Len(E)
                        /\ item.type = "sdboot" /\ item.extra = i
                        /\ item.priority = Priority(E, cfg.offset, i)
                        /\ item.priority <= o
                  \/ /\ m > Len(L) + Len(E)
                     /\ item.type # "sdboot" /\ item.extra = 0
                     /\ item.priority >= o
<1> DEFINE L == menu0.loaders
           E == sdboot.loaders
           A == AutoItems(L)
           W == WantedAutoItems(L)
           o == AutoOffset(E, cfg.offset)
           all == AllItems(L)
           l == Len(L)
           e == Len(E)
           a == Len(A)
<1>1. /\ l \in Nat /\ e \in Nat /\ a \in Nat
      /\ DOMAIN all = 1..(l + e + a)
      /\ \A i \in 1..(l + e + a) : all[i].priority \in Int
      /\ \A i \in 1..l : all[i] = L[i]
      /\ \A i \in 1..e : /\ all[l + i].type = "sdboot" /\ all[l + i].extra = i
                         /\ all[l + i].priority = Priority(E, cfg.offset, i)
      /\ \A i \in 1..a : /\ all[l + e + i].priority >= o
                         /\ \E w \in {Firmware, Poweroff, Reboot} :
                               all[l + e + i] = With(w, Saturated(o + i - 1))
  <2> DEFINE item(w, i) == With(w, Saturated(o + i - 1))
  <2>1. /\ l \in Nat /\ e \in Nat /\ a \in Nat
        /\ DOMAIN all = 1..(l + e + a)
        /\ \A i \in 1..(l + e + a) : all[i].priority \in Int
        /\ \A i \in 1..l : all[i] = L[i]
        /\ \A i \in 1..e : /\ all[l + i].type = "sdboot" /\ all[l + i].extra = i
                           /\ all[l + i].priority = Priority(E, cfg.offset, i)
        /\ \A i \in 1..a : /\ all[l + e + i].priority \in Int
                           /\ all[l + e + i].priority >= o
                           /\ \E w \in {Firmware, Poweroff, Reboot} :
                                 W[i] = w /\ all[l + e + i] = item(w, i)
    BY ItemsAre, Zenon DEF With
  <2> HIDE DEF L, E, A, W, all, l, e, a, o, item
  <2>2. \A i \in 1..a : /\ all[l + e + i].priority >= o
                       /\ \E w \in {Firmware, Poweroff, Reboot} : all[l + e + i] = item(w, i)
    BY <2>1, Zenon
  <2> QED BY <2>1, <2>2, Zenon DEF item
<1>2. /\ \A i \in DOMAIN E : Priority(E, cfg.offset, i) <= o
      /\ o \in 0..INT64_MAX /\ DOMAIN E = 1..e
  <2>1. cfg.offset \in Int /\ E \in Seq(Entries)
    BY InputIs
  <2> HIDE DEF E
  <2>2. /\ \A i \in DOMAIN E : Priority(E, cfg.offset, i) <= AutoOffset(E, cfg.offset)
        /\ AutoOffset(E, cfg.offset) \in 0..INT64_MAX
    BY <2>1, PrioritiesAre
  <2>3. DOMAIN E = 1..Len(E)
    BY <2>1
  <2> QED BY <2>2, <2>3
<1>3. /\ DOMAIN L = 1..l
      /\ \A k \in DOMAIN L : L[k].type # "sdboot" /\ L[k].extra = 0
  BY InputIs DEF IsSequence
<1> HIDE DEF L, E, A, o, all, l, e, a
<1>4. m \in 1..(l + e + a) /\ o \in Int
  BY <1>1, <1>2, Int64Assumption DEF L, all
<1>5. CASE m <= l
  <2>1. m \in 1..l /\ m \in DOMAIN L
    BY <1>1, <1>3, <1>4, <1>5
  <2>2. /\ all[m] = L[m] /\ all[m].priority \in Int
        /\ L[m].type # "sdboot" /\ L[m].extra = 0
    BY <1>1, <1>3, <1>4, <2>1
  <2>3. m \in Nat
    BY <1>1, <1>4
  <2>4. /\ m \in DOMAIN L /\ m <= l /\ all[m].priority \in Int
        /\ all[m] = L[m] /\ all[m].type # "sdboot" /\ all[m].extra = 0
    BY <1>5, <2>1, <2>2
  <2> QED BY <1>4, <2>3, <2>4, Zenon DEF L, E, all, l, o
<1>6. CASE l < m /\ m <= l + e
  <2>1. PICK i \in 1..e : m = l + i
    <3>1. m - l \in 1..e /\ m = l + (m - l)
      BY <1>1, <1>4, <1>6
    <3> QED BY <3>1
  <2>2. /\ all[m].type = "sdboot" /\ all[m].extra = i
        /\ all[m].priority = Priority(E, cfg.offset, i) /\ all[m].priority <= o
    BY <1>1, <1>2, <2>1
  <2>3. all[m].priority \in Int
    BY <1>1, <1>4
  <2> QED BY <1>2, <1>4, <1>6, <2>1, <2>2, <2>3 DEF L, E, all, l, e, o
<1>7. CASE l + e < m
  <2>1. PICK i \in 1..a : m = l + e + i
    <3>1. m - (l + e) \in 1..a /\ m = l + e + (m - (l + e))
      BY <1>1, <1>4, <1>7
    <3> QED BY <3>1
  <2>2. PICK w \in {Firmware, Poweroff, Reboot} : all[m] = With(w, Saturated(o + i - 1))
    BY <1>1, <2>1
  <2> DEFINE q == Saturated(o + i - 1)
  <2> HIDE DEF q
  <2>3. all[m].type # "sdboot" /\ all[m].extra = 0
    <3>1. all[m] = With(w, q)
      BY <2>2 DEF q
    <3> QED BY <3>1 DEF With, Firmware, Poweroff, Reboot, Item
  <2>4. all[m].priority >= o
    BY <1>1, <2>1
  <2>5. all[m].priority \in Int
    BY <1>1, <1>4
  <2>6. m > l + e /\ m \in Nat
    BY <1>1, <1>4, <1>7
  <2> HIDE DEF W
  <2> QED BY <1>4, <2>3, <2>4, <2>5, <2>6, Zenon DEF L, E, all, l, e, o
<1>8. m <= l \/ (l < m /\ m <= l + e) \/ l + e < m
  BY <1>1, <1>4
<1> QED BY <1>5, <1>6, <1>7, <1>8 DEF L, E, all, l, e, o

\* If sdboot_compare_entries is transitive on entries, it is an order.
LEMMA TransitiveOrder ==
    ASSUME NEW L \in Seq(Entries),
           \A i, j, k \in DOMAIN L :
              Compare(L[i], L[j]) < 0 /\ Compare(L[j], L[k]) < 0 => Compare(L[i], L[k]) < 0
    PROVE  /\ IsOrder(L)
           /\ \A i, j \in DOMAIN L : Compare(L[i], L[j]) < 0 => i \in Before(L, j)
<1>1. \A i, j \in DOMAIN L : Opposite(Compare(L[i], L[j]), Compare(L[j], L[i]))
  <2>1. \A i \in DOMAIN L : L[i] \in Entries
    OBVIOUS
  <2> QED BY <2>1, CompareOpposite, Zenon
<1> DEFINE c(i, j) == Compare(L[i], L[j])
<1>2. \A i, j \in DOMAIN L : i \in Before(L, j) <=> c(i, j) < 0
  <2> TAKE i, j \in DOMAIN L
  <2>1. Opposite(c(i, j), c(j, i)) /\ Opposite(c(i, i), c(i, i))
    BY <1>1
  <2>2. i \in Before(L, j) <=> (i # j /\ c(j, i) > 0)
    BY DEF Before
  <2> HIDE DEF c
  <2>3. c(i, j) < 0 => i # j
    BY <2>1 DEF Opposite
  <2> QED BY <2>1, <2>2, <2>3 DEF Opposite
<1>3. \A i, j \in DOMAIN L : c(i, j) < 0 => ~(c(j, i) < 0)
  BY <1>1 DEF Opposite
<1>4. \A i, j, k \in DOMAIN L : c(i, j) < 0 /\ c(j, k) < 0 => c(i, k) < 0
  OBVIOUS
<1> HIDE DEF c
<1>5. \A i, j, k \in DOMAIN L :
         /\ j \in Before(L, i) => i \notin Before(L, j)
         /\ j \in Before(L, i) /\ k \in Before(L, j) => k \in Before(L, i)
  BY <1>2, <1>3, <1>4, Zenon
<1> QED BY <1>2, <1>5, Zenon DEF IsOrder, c

\* The entries stand in the order of sdboot_compare_entries.
LEMMA EntriesOrdered == SettingsInv => EntriesInOrder
<1> DEFINE L == sdboot.loaders
           all == AllItems(menu0.loaders)
<1> SUFFICES ASSUME SettingsInv, status = "SUCCESS",
                    \A i, j, k \in DOMAIN L :
                       Compare(L[i], L[j]) < 0 /\ Compare(L[j], L[k]) < 0
                         => Compare(L[i], L[k]) < 0,
                    cfg.offset + Len(L) <= INT64_MAX,
                    NEW i \in DOMAIN menu.loaders, NEW j \in DOMAIN menu.loaders,
                    menu.loaders[i].extra # 0, menu.loaders[j].extra # 0,
                    Compare(L[menu.loaders[i].extra], L[menu.loaders[j].extra]) < 0
             PROVE  i < j
  BY DEF EntriesInOrder
<1> DEFINE a == menu.loaders[i].extra
           b == menu.loaders[j].extra
<1>1. InputInv /\ L \in Seq(Entries)
  BY PublishedHas
<1>2. PICK n, p :
         /\ n \in Nat /\ SortsTo(p, n, all) /\ DOMAIN all = 1..n
         /\ menu.loaders = [k \in 1..n |-> all[p[k]]]
  <2>1. \E n \in Nat : \E p :
           /\ SortsTo(p, n, all) /\ DOMAIN all = 1..n
           /\ menu.loaders = [k \in 1..n |-> all[p[k]]]
    BY PublishedHas, Zenon
  <2> HIDE DEF all
  <2> QED BY <2>1
<1>3. /\ i \in 1..n /\ j \in 1..n /\ p[i] \in 1..n /\ p[j] \in 1..n
      /\ menu.loaders[i] = all[p[i]] /\ menu.loaders[j] = all[p[j]]
  BY <1>2 DEF SortsTo
<1>4. ASSUME NEW m \in DOMAIN all, all[m].extra # 0
      PROVE  /\ all[m].priority \in Int
             /\ \E x \in DOMAIN L : /\ m = Len(menu0.loaders) + x /\ all[m].extra = x
                                    /\ all[m].priority = Priority(L, cfg.offset, x)
  BY <1>1, <1>4, ItemKinds, Zenon
<1>5. /\ a \in DOMAIN L /\ b \in DOMAIN L
      /\ all[p[i]].priority = Priority(L, cfg.offset, a)
      /\ all[p[j]].priority = Priority(L, cfg.offset, b)
      /\ all[p[i]].priority \in Int /\ all[p[j]].priority \in Int
  <2>1. p[i] \in DOMAIN all /\ p[j] \in DOMAIN all /\ all[p[i]].extra = a /\ all[p[j]].extra = b
    BY <1>2, <1>3
  <2> HIDE DEF all, a, b, L
  <2>2. a # 0 /\ b # 0
    BY DEF a, b
  <2> QED BY <1>4, <2>1, <2>2, Zenon
<1>6. IsOrder(L) /\ a \in Before(L, b)
  BY <1>1, <1>5, TransitiveOrder, Zenon
<1>7. Priority(L, cfg.offset, a) < Priority(L, cfg.offset, b)
  <2>1. IsFiniteSet(DOMAIN L) /\ Cardinality(DOMAIN L) = Len(L)
    <3>1. DOMAIN L = 1..Len(L) /\ Len(L) \in Nat
      BY <1>1
    <3> QED BY <3>1, FS_Interval
  <2>2. cfg.offset \in Int
    BY <1>1, InputIs
  <2>3. cfg.offset + Cardinality(DOMAIN L) <= INT64_MAX
    BY <2>1
  <2> HIDE DEF a, b, L
  <2> QED BY <1>5, <1>6, <2>1, <2>2, <2>3, PriorityAgrees
<1>8. all[p[i]].priority < all[p[j]].priority
  BY <1>5, <1>7
<1> HIDE DEF all, L, a, b
<1>9. \A k, l \in 1..n : k < l => Earlier(all, p[k], p[l])
  BY <1>2 DEF SortsTo
<1> SUFFICES ASSUME ~(i < j) PROVE FALSE
  OBVIOUS
<1>10. i # j
  BY <1>5, <1>8
<1>11. j < i
  BY <1>3, <1>10
<1>12. Earlier(all, p[j], p[i])
  BY <1>3, <1>9, <1>11
<1> QED BY <1>5, <1>8, <1>12 DEF Earlier

\* The automatic entries stand after all of them.
LEMMA AutomaticLast == SettingsInv => AutoItemsLast
<1> DEFINE L == menu0.loaders
           all == AllItems(L)
           automatic(item) == item.type # "sdboot" /\ item.name \in AutoName
           o == AutoOffset(sdboot.loaders, cfg.offset)
<1> SUFFICES ASSUME SettingsInv, status = "SUCCESS",
                    \A k \in DOMAIN L : ~automatic(L[k]),
                    NEW i \in DOMAIN menu.loaders, NEW j \in DOMAIN menu.loaders,
                    automatic(menu.loaders[i]), menu.loaders[j].type = "sdboot"
             PROVE  j < i
  BY DEF AutoItemsLast
<1>1. InputInv /\ sdboot.loaders \in Seq(Entries)
  BY PublishedHas
<1>2. PICK n, p :
         /\ n \in Nat /\ SortsTo(p, n, all) /\ DOMAIN all = 1..n
         /\ menu.loaders = [k \in 1..n |-> all[p[k]]]
  <2>1. \E n \in Nat : \E p :
           /\ SortsTo(p, n, all) /\ DOMAIN all = 1..n
           /\ menu.loaders = [k \in 1..n |-> all[p[k]]]
    BY PublishedHas, Zenon
  <2> HIDE DEF all
  <2> QED BY <2>1
<1>3. /\ i \in 1..n /\ j \in 1..n /\ p[i] \in 1..n /\ p[j] \in 1..n
      /\ menu.loaders[i] = all[p[i]] /\ menu.loaders[j] = all[p[j]]
  BY <1>2 DEF SortsTo
<1> DEFINE top == Len(L) + Len(sdboot.loaders)
<1>4. ASSUME NEW m \in DOMAIN all, automatic(all[m])
      PROVE  all[m].priority \in Int /\ o \in Int /\ all[m].priority >= o /\ m > top
  BY <1>1, <1>4, ItemKinds, Zenon
<1>5. ASSUME NEW m \in DOMAIN all, all[m].type = "sdboot"
      PROVE  all[m].priority \in Int /\ all[m].priority <= o /\ m <= top
  BY <1>1, <1>5, ItemKinds, Zenon
<1>6. /\ all[p[i]].priority \in Int /\ o \in Int /\ all[p[i]].priority >= o /\ p[i] > top
      /\ all[p[j]].priority \in Int /\ all[p[j]].priority <= o /\ p[j] <= top
  <2>1. p[i] \in DOMAIN all /\ p[j] \in DOMAIN all
    BY <1>2, <1>3
  <2>2. automatic(all[p[i]]) /\ all[p[j]].type = "sdboot"
    BY <1>3
  <2> HIDE DEF all, automatic, o, top
  <2> QED BY <1>4, <1>5, <2>1, <2>2, Zenon
<1>7. top \in Int
  <2>1. Len(L) \in Nat /\ Len(sdboot.loaders) \in Nat
    BY <1>1, InputIs DEF IsSequence
  <2> QED BY <2>1
<1> HIDE DEF all, o, top
<1>8. \A k, l \in 1..n : k < l => Earlier(all, p[k], p[l])
  BY <1>2 DEF SortsTo
<1> SUFFICES ASSUME ~(j < i) PROVE FALSE
  OBVIOUS
<1>9. i # j
  BY <1>3, <1>6, <1>7
<1>10. Earlier(all, p[i], p[j])
  BY <1>3, <1>8, <1>9
<1> QED BY <1>3, <1>6, <1>7, <1>10 DEF Earlier

\* The systemd-boot entries stand in the menu in their order, the automatic ones
\* at its end, for every order of texts and every offset.
THEOREM OrderIsRespected == Spec => []OrderRespected
<1>1. Init => SettingsInv
  BY SettingsInit
<1>2. SettingsInv /\ [Next]_vars => SettingsInv'
  BY SettingsStep
<1>3. SettingsInv => OrderRespected
  BY EntriesOrdered, AutomaticLast DEF OrderRespected
<1> QED BY <1>1, <1>2, <1>3, PTL DEF Spec

-----------------------------------------------------------------------------
(* The partitions that are loaded *)

\* The partitions that the search tries on a disk, and those of the first m that
\* it is to load
Tries(d) == <<d.current, d.previous>> \o d.handles
Fresh(d, i) ==
    LET h == Tries(d)[i]
    IN  h # None /\ d.root[h].folder /\ \A j \in 1..(i - 1) : Tries(d)[j] # h
FreshTo(d, m) == {i \in DOMAIN Tries(d) : i <= m /\ Fresh(d, i)}
Seen(d, m) == Selection(Tries(d), FreshTo(d, m))

\* The partitions tried are the current one, the previous one and the handles.
LEMMA TriesAre ==
    ASSUME InputInv
    PROVE  /\ Tries(disk) \in Seq(Roots \cup {None})
           /\ Len(disk.handles) \in Nat /\ Len(Tries(disk)) = Len(disk.handles) + 2
           /\ Tries(disk)[1] = disk.current /\ Tries(disk)[2] = disk.previous
           /\ \A i \in 1..Len(disk.handles) : Tries(disk)[i + 2] = disk.handles[i]
<1> DEFINE R == Roots \cup {None}
           a == <<disk.current, disk.previous>>
           b == disk.handles
<1>1. a \in Seq(R) /\ Len(a) = 2 /\ a[1] = disk.current /\ a[2] = disk.previous
  <2>1. disk.current \in R /\ disk.previous \in R
    BY InputIs
  <2> HIDE DEF R
  <2> QED BY <2>1
<1>2. b \in Seq(R) /\ Len(b) \in Nat
  BY InputIs
<1> HIDE DEF R, a, b
<1>3. /\ a \o b \in Seq(R) /\ Len(a \o b) = Len(b) + 2
      /\ (a \o b)[1] = a[1] /\ (a \o b)[2] = a[2]
      /\ \A i \in 1..Len(b) : (a \o b)[i + 2] = b[i]
  <2> DEFINE Joins(x, y, z) == /\ z \in Seq(R) /\ Len(z) = Len(x) + Len(y)
                               /\ \A i \in 1..Len(x) : z[i] = x[i]
                               /\ \A i \in 1..Len(y) : z[Len(x) + i] = y[i]
             c == a \o b
  <2>1. \A x, y \in Seq(R) : Joins(x, y, x \o y)
    OBVIOUS
  <2>2. Joins(a, b, c)
    BY <1>1, <1>2, <2>1, Zenon
  <2> HIDE DEF c
  <2>3. 1 \in 1..Len(a) /\ 2 \in 1..Len(a)
    BY <1>1
  <2>4. ASSUME NEW i \in 1..Len(b) PROVE c[i + 2] = b[i]
    <3>1. Len(a) + i = i + 2
      BY <1>1, <1>2
    <3> QED BY <2>2, <3>1
  <2> QED BY <1>1, <1>2, <2>2, <2>3, <2>4 DEF c
<1> QED BY <1>1, <1>2, <1>3, Zenon DEF Tries, R, a, b

\* The next partition that is tried joins those to be loaded, if it is fresh.
LEMMA SeenNext ==
    ASSUME InputInv, NEW m \in 0..(Len(disk.handles) + 1)
    PROVE  Seen(disk, m + 1) = IF Fresh(disk, m + 1) THEN Append(Seen(disk, m), Tries(disk)[m + 1])
                                                     ELSE Seen(disk, m)
<1> DEFINE R == Roots \cup {None}
           t == Tries(disk)
           A == FreshTo(disk, m)
           B == FreshTo(disk, m + 1)
<1>1. t \in Seq(R) /\ Len(t) \in Nat /\ m + 1 \in 1..Len(t) /\ DOMAIN t = 1..Len(t) /\ m \in Nat
  <2>1. t \in Seq(R) /\ Len(disk.handles) \in Nat /\ Len(t) = Len(disk.handles) + 2
    BY TriesAre
  <2> HIDE DEF R, t
  <2> QED BY <2>1
<1>2. A \in SUBSET (1..Len(t)) /\ \A i \in A : i < m + 1
  BY <1>1 DEF FreshTo
<1>3. B = IF Fresh(disk, m + 1) THEN A \cup {m + 1} ELSE A
  BY <1>1 DEF FreshTo
<1> HIDE DEF R, t, A, B
<1>4. CASE ~Fresh(disk, m + 1)
  BY <1>3, <1>4 DEF Seen, A, B
<1>5. CASE Fresh(disk, m + 1)
  <2> DEFINE S == {m + 1}
  <2>1. S \in SUBSET (1..Len(t)) /\ \A i \in A, j \in S : i < j
    BY <1>1, <1>2
  <2>2. Cardinality(S) = 1
    BY FS_Singleton
  <2>3. /\ Selection(t, S) \in Seq(R) /\ Len(Selection(t, S)) = 1
        /\ Selection(t, S)[1] = t[m + 1]
    <3> DEFINE c == Cardinality(S)
    <3>1. /\ Selection(t, S) \in Seq(R) /\ Len(Selection(t, S)) = c
          /\ \A k \in 1..c : /\ Ascending(S)[k] \in S
                             /\ Selection(t, S)[k] = t[Ascending(S)[k]]
      BY <1>1, <2>1, SelectionIs, Zenon
    <3>2. c = 1 /\ 1 \in 1..c
      BY <2>2
    <3>3. Ascending(S)[1] = m + 1
      BY <3>1, <3>2
    <3> HIDE DEF c, S
    <3> QED BY <3>1, <3>2, <3>3
  <2>4. Selection(t, A) \in Seq(R)
    BY <1>1, <1>2, SelectionIs, Zenon
  <2>5. Selection(t, A \cup S) = Selection(t, A) \o Selection(t, S)
    BY <1>1, <1>2, <2>1, SelectionJoin
  <2> HIDE DEF S
  <2>6. \A x, y \in Seq(R) : Len(y) = 1 => x \o y = Append(x, y[1])
    <3>1. \A x \in Seq(R), e \in R : x \o <<e>> = Append(x, e)
      OBVIOUS
    <3>2. \A y \in Seq(R) : Len(y) = 1 => y = <<y[1]>> /\ y[1] \in R
      OBVIOUS
    <3> QED BY <3>1, <3>2, Zenon
  <2>7. Selection(t, A) \o Selection(t, S) = Append(Selection(t, A), t[m + 1])
    BY <2>3, <2>4, <2>6
  <2> QED BY <1>3, <1>5, <2>5, <2>7 DEF Seen, A, B, S, t
<1> QED BY <1>4, <1>5

\* What is loaded first is a prefix of what is to be loaded.
LEMMA SeenPrefix ==
    ASSUME InputInv
    PROVE  /\ Seen(disk, 0) = <<>>
           /\ Seen(disk, Len(disk.handles) + 2) = Partitions
           /\ \A m \in 0..(Len(disk.handles) + 2) : IsPrefix(Seen(disk, m), Partitions)
<1> DEFINE R == Roots \cup {None}
           t == Tries(disk)
           F == {i \in DOMAIN t : Fresh(disk, i)}
<1>1. t \in Seq(R) /\ Len(t) \in Nat /\ Len(t) = Len(disk.handles) + 2 /\ DOMAIN t = 1..Len(t)
  <2>1. t \in Seq(R) /\ Len(disk.handles) \in Nat /\ Len(t) = Len(disk.handles) + 2
    BY TriesAre
  <2> HIDE DEF R, t
  <2> QED BY <2>1
<1>2. Partitions = Selection(t, F)
  BY DEF Partitions, HasFolder, Fresh, Tries
<1>3. Seen(disk, 0) = <<>>
  <2>1. FreshTo(disk, 0) = {}
    BY <1>1 DEF FreshTo
  <2> QED BY <1>1, <2>1, SelectionOfNone, Zenon DEF Seen
<1>4. Seen(disk, Len(disk.handles) + 2) = Partitions
  <2>1. FreshTo(disk, Len(t)) = F
    BY <1>1 DEF FreshTo
  <2> QED BY <1>1, <1>2, <2>1 DEF Seen
<1>5. ASSUME NEW m \in 0..Len(t) PROVE IsPrefix(Seen(disk, m), Partitions)
  <2> DEFINE A == FreshTo(disk, m)
             B == F \ A
  <2>1. A \in SUBSET (1..Len(t)) /\ B \in SUBSET (1..Len(t)) /\ A \cup B = F
    BY <1>1 DEF FreshTo
  <2>2. \A i \in A, j \in B : i < j
    BY <1>1 DEF FreshTo
  <2> HIDE DEF R, t, A, B, F
  <2>3. Selection(t, A \cup B) = Selection(t, A) \o Selection(t, B)
    BY <1>1, <2>1, <2>2, SelectionJoin
  <2>4. Selection(t, A) \in Seq(R) /\ Selection(t, B) \in Seq(R)
    BY <1>1, <2>1, SelectionIs, Zenon
  <2>5. \A x, y \in Seq(R) : IsPrefix(x, x \o y)
    <3> TAKE x, y \in Seq(R)
    <3>1. /\ Len(x) <= Len(x \o y) /\ x \o y \in Seq(R)
          /\ \A i \in 1..Len(x) : (x \o y)[i] = x[i]
      OBVIOUS
    <3> DEFINE z == x \o y
    <3> HIDE DEF z
    <3>2. /\ Len(x) <= Len(z) /\ z \in Seq(R)
          /\ \A i \in 1..Len(x) : z[i] = x[i]
      BY <3>1 DEF z
    <3>3. SubSeq(x, 1, Len(x)) = SubSeq(z, 1, Len(x))
      BY <3>2
    <3> QED BY <3>2, <3>3 DEF IsPrefix, z
  <2>6. Seen(disk, m) = Selection(t, A)
    BY DEF Seen, t, A
  <2> QED BY <1>2, <2>1, <2>3, <2>4, <2>5, <2>6, Zenon
<1>6. \A m \in 0..(Len(disk.handles) + 2) : IsPrefix(Seen(disk, m), Partitions)
  <2> HIDE DEF t, F
  <2> QED BY <1>1, <1>5
<1> QED BY <1>3, <1>4, <1>6

\* The partitions loaded so far are those that were to be loaded of the ones
\* tried so far, and the search ends when all were tried or one was enough.
VisitInv ==
    /\ Stage \in {"start", "current"} => visited = Seen(disk, 0) /\ index = 1
    /\ Stage = "previous" => visited = Seen(disk, 1) /\ index = 1
    /\ Stage = "locate" => visited = Seen(disk, 2) /\ index = 1
    /\ Stage = "scan" => visited = Seen(disk, index + 1)
    /\ \E m \in 0..(Len(disk.handles) + 2) : visited = Seen(disk, m)
    /\ pc = "items" \/ status \in {"SUCCESS", "NOT_FOUND"}
         => visited = Seen(disk, index + 1) \/ (~cfg.multi /\ visited # <<>>)
    /\ pc \in InFolder => visited # <<>>

\* The invariant stays while the partition stays that was tried last.
LEMMA VisitKept ==
    ASSUME VisitInv, UNCHANGED <<disk, cfg, visited, index>>,
           Stage' = Stage \/ pc' \in {"items", "done"},
           pc' \in InFolder => pc \in InFolder,
           pc' = "items" \/ status' \in {"SUCCESS", "NOT_FOUND"}
             => visited = Seen(disk, index + 1) \/ (~cfg.multi /\ visited # <<>>)
    PROVE  VisitInv'
<1>1. Seen(disk', 0) = Seen(disk, 0) /\ Seen(disk', 1) = Seen(disk, 1)
      /\ Seen(disk', 2) = Seen(disk, 2) /\ Seen(disk', index' + 1) = Seen(disk, index + 1)
  OBVIOUS
<1>2. pc' \in {"items", "done"} => Stage' = pc'
  BY DEF Stage
<1>3. \E m \in 0..(Len(disk'.handles) + 2) : visited' = Seen(disk', m)
  BY DEF VisitInv
<1> QED BY <1>1, <1>2, <1>3 DEF VisitInv

\* A partition is entered exactly if it is fresh.
LEMMA VisitNext ==
    ASSUME TypeInv, VisitInv, disk' = disk, NEW m \in 0..(Len(disk.handles) + 1),
           visited = Seen(disk, m),
           visited' = IF Fresh(disk, m + 1) THEN Append(visited, Tries(disk)[m + 1]) ELSE visited
    PROVE  /\ visited' = Seen(disk, m + 1)
           /\ \E k \in 0..(Len(disk'.handles) + 2) : visited' = Seen(disk', k)
<1>1. InputInv
  BY DEF TypeInv
<1>2. visited' = Seen(disk, m + 1)
  BY <1>1, SeenNext
<1>3. m + 1 \in 0..(Len(disk.handles) + 2)
  BY <1>1, InputIs
<1> QED BY <1>2, <1>3

\* A sequence with one more element is not empty.
LEMMA AppendSome == ASSUME NEW S, NEW s \in Seq(S) PROVE \A x : Append(s, x) # <<>>
<1> TAKE x
<1> DEFINE T == S \cup {x}
<1>1. s \in Seq(T) /\ x \in T
  OBVIOUS
<1> HIDE DEF T
<1>2. \A q \in Seq(T), y \in T : Append(q, y) # <<>>
  OBVIOUS
<1> QED BY <1>1, <1>2

\* Every step keeps the record of the partitions loaded.
LEMMA VisitStep ==
    ASSUME TypeInv, VisitInv, [Next]_vars
    PROVE  VisitInv'
<1>0. UNCHANGED <<disk, cfg, menu0>> /\ InputInv /\ InputInv'
  BY InputsStay DEF TypeInv, InputInv
<1>n. /\ None \notin Status \cup Control /\ Failing \subseteq Status
      /\ {"SUCCESS", "NOT_FOUND", "UNSUPPORTED", "OUT_OF_RESOURCES"} \subseteq Status
      /\ "SUCCESS" \notin Failing
      /\ pc # "done" => status = None
  BY NoneAssumption, FaultsAssumption DEF Status, Failing, TypeInv
<1>b. /\ pc \in InFolder => back \in {"previous", "locate", "scan"}
      /\ Len(disk.handles) \in Nat /\ index \in Nat \ {0}
      /\ index \in 1..(Len(disk.handles) + 1)
      /\ Stage = IF pc \in InFolder THEN back ELSE pc
  <2>1. Len(disk.handles) \in Nat
    BY <1>0, InputIs
  <2> QED BY <2>1 DEF TypeInv, Stage, InFolder
<1>c. Stage' = IF pc' \in InFolder THEN back' ELSE pc'
  BY DEF Stage, InFolder
<1>1. CASE Start
  BY <1>0, <1>1, <1>b, <1>c, <1>n, VisitKept
    DEF Start, Return, Goto, search, history, VisitInv, InFolder
<1>2. CASE TryCurrent
  <2>1. pc = "current" /\ UNCHANGED index /\ visited = Seen(disk, 0) /\ index = 1
    BY <1>2, <1>b DEF TryCurrent, VisitInv, InFolder
  <2>2. Fresh(disk, 1) <=> HasFolder(disk.current)
    BY <1>0, TriesAre DEF Fresh, HasFolder
  <2>3. /\ visited' = IF Fresh(disk, 0 + 1) THEN Append(visited, Tries(disk)[0 + 1]) ELSE visited
        /\ Stage' = "previous" /\ pc' # "items" /\ status' = None
        /\ pc' \in InFolder => Fresh(disk, 1)
    BY <1>0, <1>2, <1>c, <1>n, <2>1, <2>2, TriesAre DEF TryCurrent, Enter, Goto, history, InFolder
  <2>4. /\ visited' = Seen(disk, 1)
        /\ \E k \in 0..(Len(disk'.handles) + 2) : visited' = Seen(disk', k)
    <3>1. 0 \in 0..(Len(disk.handles) + 1)
      BY <1>b
    <3>2. /\ visited' = Seen(disk, 0 + 1)
          /\ \E k \in 0..(Len(disk'.handles) + 2) : visited' = Seen(disk', k)
      BY <1>0, <2>1, <2>3, <3>1, VisitNext
    <3>3. 0 + 1 = 1
      OBVIOUS
    <3> QED BY <3>2, <3>3, Zenon
  <2>5. pc' \in InFolder => visited' # <<>>
    <3>1. \A x : Append(visited, x) # <<>>
      BY AppendSome DEF TypeInv
    <3> QED BY <2>3, <3>1
  <2> QED BY <1>0, <1>n, <2>1, <2>3, <2>4, <2>5 DEF VisitInv
<1>3. CASE TryPrevious
  <2>1. pc = "previous" /\ UNCHANGED index /\ visited = Seen(disk, 1) /\ index = 1
    BY <1>3, <1>b DEF TryPrevious, VisitInv, InFolder
  <2>2. Fresh(disk, 2) <=> disk.previous # disk.current /\ HasFolder(disk.previous)
    <3>1. \A j : j \in 1..(2 - 1) <=> j = 1
      OBVIOUS
    <3> QED BY <1>0, <3>1, TriesAre DEF Fresh, HasFolder
  <2>3. /\ visited' = IF Fresh(disk, 2) THEN Append(visited, Tries(disk)[2]) ELSE visited
        /\ Stage' = "locate" /\ pc' # "items" /\ status' = None
        /\ pc' \in InFolder => Fresh(disk, 2)
    BY <1>0, <1>3, <1>c, <1>n, <2>1, <2>2, TriesAre DEF TryPrevious, Enter, Goto, history, InFolder
  <2>4. /\ visited' = Seen(disk, 2)
        /\ \E k \in 0..(Len(disk'.handles) + 2) : visited' = Seen(disk', k)
    <3>1. 1 \in 0..(Len(disk.handles) + 1)
      BY <1>b
    <3>2. visited' = IF Fresh(disk, 1 + 1) THEN Append(visited, Tries(disk)[1 + 1]) ELSE visited
      BY <2>3
    <3>3. /\ visited' = Seen(disk, 1 + 1)
          /\ \E k \in 0..(Len(disk'.handles) + 2) : visited' = Seen(disk', k)
      BY <1>0, <2>1, <3>1, <3>2, VisitNext
    <3>4. 1 + 1 = 2
      OBVIOUS
    <3> QED BY <3>3, <3>4, Zenon
  <2>5. pc' \in InFolder => visited' # <<>>
    <3>1. \A x : Append(visited, x) # <<>>
      BY AppendSome DEF TypeInv
    <3> QED BY <2>3, <3>1
  <2> QED BY <1>0, <1>n, <2>1, <2>3, <2>4, <2>5 DEF VisitInv
<1>4. CASE Locate
  <2>1. /\ pc = "locate" /\ visited = Seen(disk, 2) /\ index = 1
        /\ UNCHANGED <<index, visited>>
    BY <1>4, <1>b DEF Locate, VisitInv, InFolder, search, history
  <2>2. visited = Seen(disk, index + 1)
    BY <2>1
  <2>3. \/ pc' = "scan" /\ status' = None
        \/ pc' = "items" /\ status' = None
        \/ pc' = "done" /\ status' \in Failing /\ status' # "NOT_FOUND"
    BY <1>4, <1>n, <2>1 DEF Locate, Goto, Return
  <2>4. Stage' = pc'
    BY <1>c, <2>3 DEF InFolder
  <2>5. /\ Seen(disk', index' + 1) = Seen(disk, index + 1)
        /\ \E k \in 0..(Len(disk'.handles) + 2) : visited' = Seen(disk', k)
    BY <1>0, <2>1 DEF VisitInv
  <2> QED BY <1>0, <1>n, <2>1, <2>2, <2>3, <2>4, <2>5 DEF VisitInv, InFolder
<1>5. CASE ScanNext
  <2> DEFINE h == disk.handles[index]
             m == index + 1
  <2>1. /\ pc = "scan" /\ index' = index + 1 /\ visited = Seen(disk, m)
        /\ index \in 1..Len(disk.handles)
    BY <1>5, <1>b DEF ScanNext, VisitInv, InFolder
  <2>2. Fresh(disk, m + 1) <=> ~Attempted(index) /\ HasFolder(h)
    <3> DEFINE q == m + 1
    <3>1. Tries(disk)[q] = h
      <4>1. Tries(disk)[index + 2] = h /\ q = index + 2
        BY <1>0, <2>1, TriesAre
      <4> QED BY <4>1
    <3>2. (\E j \in 1..(q - 1) : Tries(disk)[j] = h) <=> Attempted(index)
      <4>1. ASSUME Attempted(index) PROVE \E j \in 1..(q - 1) : Tries(disk)[j] = h
        <5>1. CASE h \in {disk.current, disk.previous}
          <6>1. 1 \in 1..(q - 1) /\ 2 \in 1..(q - 1)
            BY <2>1
          <6> QED BY <1>0, <5>1, <6>1, TriesAre
        <5>2. CASE \E j \in 1..(index - 1) : disk.handles[j] = h
          <6>1. PICK j \in 1..(index - 1) : disk.handles[j] = h
            BY <5>2
          <6>2. j \in 1..Len(disk.handles) /\ j + 2 \in 1..(q - 1)
            BY <2>1, <6>1
          <6> QED BY <1>0, <6>1, <6>2, TriesAre
        <5> QED BY <4>1, <5>1, <5>2 DEF Attempted
      <4>2. ASSUME NEW j \in 1..(q - 1), Tries(disk)[j] = h PROVE Attempted(index)
        <5>1. CASE j \in {1, 2}
          BY <1>0, <4>2, <5>1, TriesAre DEF Attempted
        <5>2. CASE j \notin {1, 2}
          <6>1. PICK k \in 1..(index - 1) : j = k + 2
            <7>1. j - 2 \in 1..(index - 1) /\ j = (j - 2) + 2
              BY <2>1, <5>2
            <7> QED BY <7>1
          <6>2. k \in 1..Len(disk.handles)
            BY <2>1
          <6> QED BY <1>0, <4>2, <6>1, <6>2, TriesAre DEF Attempted
        <5> QED BY <5>1, <5>2
      <4> QED BY <4>1, <4>2
    <3> HIDE DEF q, h
    <3>3. Fresh(disk, q) <=> ~Attempted(index) /\ HasFolder(h)
      BY <3>1, <3>2 DEF Fresh, HasFolder
    <3> QED BY <3>3 DEF q
  <2>3. /\ visited' = IF Fresh(disk, m + 1) THEN Append(visited, Tries(disk)[m + 1]) ELSE visited
        /\ Stage' = "scan" /\ pc' # "items" /\ status' = None
        /\ pc' \in InFolder => Fresh(disk, m + 1)
    <3>1. Tries(disk)[m + 1] = h
      <4>1. Tries(disk)[index + 2] = h /\ m + 1 = index + 2
        BY <1>0, <2>1, TriesAre
      <4> QED BY <4>1
    <3> HIDE DEF h, m
    <3>2. \/ Fresh(disk, m + 1) /\ Enter(h, "scan")
          \/ ~Fresh(disk, m + 1) /\ Goto("scan") /\ UNCHANGED <<back, dir, history>>
      BY <1>5, <2>2 DEF ScanNext, h
    <3> QED BY <1>c, <1>n, <2>1, <3>1, <3>2 DEF Enter, Goto, history, InFolder
  <2>4. /\ visited' = Seen(disk, m + 1)
        /\ \E k \in 0..(Len(disk'.handles) + 2) : visited' = Seen(disk', k)
    <3>1. m \in 0..(Len(disk.handles) + 1)
      BY <1>b, <2>1
    <3> HIDE DEF m
    <3> QED BY <1>0, <2>1, <2>3, <3>1, VisitNext
  <2>5. pc' \in InFolder => visited' # <<>>
    <3>1. \A x : Append(visited, x) # <<>>
      BY AppendSome DEF TypeInv
    <3> QED BY <2>3, <3>1
  <2>6. visited' = Seen(disk', index' + 1)
    BY <1>0, <2>1, <2>4
  <2> QED BY <1>0, <1>n, <2>3, <2>4, <2>5, <2>6 DEF VisitInv
<1>6. CASE ScanEnd
  <2>1. /\ pc = "scan" /\ pc' = "items" /\ status' = None /\ visited = Seen(disk, index + 1)
        /\ UNCHANGED <<index, visited>>
    BY <1>6, <1>b, <1>n DEF ScanEnd, Goto, VisitInv, InFolder, search, history
  <2> QED BY <1>0, <1>n, <2>1, VisitKept DEF InFolder
<1>7. CASE LoadConf
  <2>1. PICK r \in LoadConfOutcomes(sdboot.menu, disk.root[dir].conf) :
          IF r.status \in {"SUCCESS", "NOT_FOUND"} THEN Goto("folder") ELSE Return(r.status)
    BY <1>7 DEF LoadConf
  <2>2. pc = "conf" /\ UNCHANGED <<index, visited, back>>
    BY <1>7 DEF LoadConf, search
  <2>3. \/ pc' = "folder" /\ status' = None
        \/ pc' = "done" /\ status' \notin {"SUCCESS", "NOT_FOUND"}
    BY <1>n, <2>1, <2>2 DEF Goto, Return
  <2> QED BY <1>0, <1>b, <1>c, <1>n, <2>2, <2>3, VisitKept DEF InFolder
<1>8. CASE OpenFolder
  <2>1. pc = "folder" /\ UNCHANGED <<index, visited, back>>
    BY <1>8 DEF OpenFolder, search
  <2>2. \/ pc' \in {"files", "apply"} /\ status' = None
        \/ pc' = "done" /\ status' \notin {"SUCCESS", "NOT_FOUND"}
    BY <1>8, <1>n, <2>1 DEF OpenFolder, Goto, Return
  <2> QED BY <1>0, <1>b, <1>c, <1>n, <2>1, <2>2, VisitKept DEF InFolder
<1>9. CASE ReadEntry
  <2>1. pc = "files" /\ UNCHANGED <<index, visited, back>>
    BY <1>9 DEF ReadEntry, search
  <2>2. \/ pc' = "files" /\ status' = None
        \/ pc' = "done" /\ status' \notin {"SUCCESS", "NOT_FOUND"}
    BY <1>9, <1>n, <2>1 DEF ReadEntry, Goto, Return
  <2> QED BY <1>0, <1>b, <1>c, <1>n, <2>1, <2>2, VisitKept DEF InFolder
<1>10. CASE ReadFolderFails
  <2>1. pc = "files" /\ UNCHANGED <<index, visited, back>>
    BY <1>10 DEF ReadFolderFails, search, history
  <2>2. pc' = "done" /\ status' \notin {"SUCCESS", "NOT_FOUND"}
    BY <1>10, <1>n DEF ReadFolderFails, Return
  <2> QED BY <1>0, <1>b, <1>c, <1>n, <2>1, <2>2, VisitKept DEF InFolder
<1>11. CASE CloseFolder
  <2>1. pc = "files" /\ UNCHANGED <<index, visited, back>> /\ pc' = "apply" /\ status' = None
    BY <1>11, <1>n DEF CloseFolder, Goto, search, history
  <2> QED BY <1>0, <1>b, <1>c, <1>n, <2>1, VisitKept DEF InFolder
<1>12. CASE ApplySettings
  <2>1. pc = "apply" /\ UNCHANGED <<index, visited, back>> /\ visited # <<>>
    BY <1>12 DEF ApplySettings, history, VisitInv, InFolder
  <2>2. \/ pc' = back /\ status' = None
        \/ pc' = "items" /\ ~cfg.multi /\ status' = None
        \/ pc' = "done" /\ status' \notin {"SUCCESS", "NOT_FOUND"}
    BY <1>12, <1>n, <2>1 DEF ApplySettings, Goto, Return
  <2> QED BY <1>0, <1>b, <1>c, <1>n, <2>1, <2>2, VisitKept DEF InFolder
<1>13. CASE AddItems
  <2>1. pc = "items" /\ UNCHANGED <<index, visited>> /\ pc' = "done"
    BY <1>13 DEF AddItems, Return, search, history
  <2> QED BY <1>0, <1>n, <2>1, VisitKept DEF VisitInv, InFolder
<1>14. CASE UNCHANGED vars
  <2>1. UNCHANGED <<index, visited, pc, status, back>>
    BY <1>14 DEF vars, search, history
  <2>2. Stage' = Stage
    BY <2>1 DEF Stage
  <2> QED BY <1>0, <1>n, <2>1, <2>2, VisitKept DEF VisitInv
<1> QED
  BY <1>1, <1>2, <1>3, <1>4, <1>5, <1>6, <1>7, <1>8, <1>9, <1>10, <1>11, <1>12,
     <1>13, <1>14 DEF Next

-----------------------------------------------------------------------------
(* The entries that are loaded *)

\* The entry that file n of partition h of the disk d defines, and the entries of
\* its first m files, but for the lost ones l
Piece(d, l, h, n) ==
    IF d.root[h].entries[n].conf /\ <<h, n>> \notin l
    THEN LoadEntry(h, d.root[h].entries[n]) ELSE <<>>
Pieces(d, l, h, m) == FlattenSeq([n \in 1..m |-> Piece(d, l, h, n)])
Whole(d, l, h) ==
    IF d.root[h].entries = None \/ <<h, 0>> \in l THEN <<>>
    ELSE Pieces(d, l, h, Len(d.root[h].entries))

\* The entries of s that are of partition h
Got(s, h) == Selection(s, {i \in DOMAIN s : s[i]["root"] = h})

\* What a file defines is entries of its partition.
LEMMA PieceIs ==
    ASSUME InputInv, NEW h \in Roots, disk.root[h].entries # None
    PROVE  LET N == Len(disk.root[h].entries)
           IN  /\ N \in Nat /\ DOMAIN disk.root[h].entries = 1..N
               /\ \A l : \A n \in 1..N : Piece(disk, l, h, n) \in Seq(EntriesOf(h))
<1> DEFINE e == disk.root[h].entries
<1>1. IsSequence(e) /\ \A n \in DOMAIN e : IsEntryFile(e[n])
  <2>1. IsRoot(disk.root[h])
    BY InputIs
  <2> QED BY <2>1 DEF IsRoot
<1>2. Len(e) \in Nat /\ DOMAIN e = 1..Len(e)
  BY <1>1 DEF IsSequence
<1>3. ASSUME NEW l, NEW n \in 1..Len(e) PROVE Piece(disk, l, h, n) \in Seq(EntriesOf(h))
  <2>1. LoadEntry(h, e[n]) \in Seq(EntriesOf(h))
    BY <1>1, <1>2, LoadEntryIs
  <2>2. <<>> \in Seq(EntriesOf(h))
    OBVIOUS
  <2> QED BY <2>1, <2>2, Zenon DEF Piece
<1> QED BY <1>2, <1>3

\* One more file adds what it defines.
LEMMA PiecesNext ==
    ASSUME InputInv, NEW h \in Roots, disk.root[h].entries # None, NEW l
    PROVE  /\ Pieces(disk, l, h, 0) = <<>>
           /\ \A m \in 1..Len(disk.root[h].entries) :
                 Pieces(disk, l, h, m) = Pieces(disk, l, h, m - 1) \o Piece(disk, l, h, m)
<1> DEFINE N == Len(disk.root[h].entries)
           T == EntriesOf(h)
           p(n) == Piece(disk, l, h, n)
           f(m) == [n \in 1..m |-> p(n)]
<1>1. N \in Nat /\ \A n \in 1..N : p(n) \in Seq(T)
  BY PieceIs
<1>2. Pieces(disk, l, h, 0) = <<>>
  <2>1. f(0) = <<>>
    OBVIOUS
  <2>2. FlattenSeq(<<>>) = <<>>
    BY DEF FlattenSeq
  <2>3. Pieces(disk, l, h, 0) = FlattenSeq(f(0))
    BY DEF Pieces
  <2> QED BY <2>1, <2>2, <2>3
<1>3. ASSUME NEW m \in 1..N
      PROVE  Pieces(disk, l, h, m) = Pieces(disk, l, h, m - 1) \o p(m)
  <2> HIDE DEF p, T, N
  <2>1. f(m - 1) \in Seq(Seq(T)) /\ p(m) \in Seq(T)
    <3>1. \A n \in 1..(m - 1) : p(n) \in Seq(T)
      BY <1>1
    <3>2. m - 1 \in Nat
      BY <1>1
    <3>3. \A S : \A k \in Nat : \A g \in [1..k -> S] : g \in Seq(S)
      OBVIOUS
    <3>4. f(m - 1) \in [1..(m - 1) -> Seq(T)]
      BY <3>1
    <3> QED BY <1>1, <3>2, <3>3, <3>4
  <2>2. f(m) = Append(f(m - 1), p(m))
    <3> DEFINE q == f(m - 1)
               a == Append(q, p(m))
    <3>1. /\ Len(q) = m - 1 /\ m - 1 + 1 = m /\ m - 1 \in Nat
          /\ \A n \in 1..(m - 1) : q[n] = p(n)
      BY <1>1
    <3>2. \A S : \A r \in Seq(S), x \in S :
             /\ Append(r, x) \in Seq(S) /\ Len(Append(r, x)) = Len(r) + 1
             /\ \A n \in 1..Len(r) : Append(r, x)[n] = r[n]
             /\ Append(r, x)[Len(r) + 1] = x
      OBVIOUS
    <3> HIDE DEF q
    <3>3. /\ a \in Seq(Seq(T)) /\ Len(a) = m
          /\ \A n \in 1..(m - 1) : a[n] = q[n]
          /\ a[m] = p(m)
      <4>1. q \in Seq(Seq(T)) /\ p(m) \in Seq(T)
        BY <2>1 DEF q
      <4>2. /\ a \in Seq(Seq(T)) /\ Len(a) = Len(q) + 1
            /\ \A n \in 1..Len(q) : a[n] = q[n]
            /\ a[Len(q) + 1] = p(m)
        BY <3>2, <4>1, Zenon
      <4> QED BY <3>1, <4>2
    <3> HIDE DEF a
    <3>4. a = [n \in 1..m |-> a[n]]
      BY <3>3
    <3>5. \A n \in 1..m : a[n] = p(n)
      BY <1>1, <3>1, <3>3
    <3> QED BY <3>4, <3>5 DEF q, a
  <2>3. FlattenSeq(Append(f(m - 1), p(m))) = FlattenSeq(f(m - 1)) \o p(m)
    <3> HIDE DEF f
    <3> QED BY <2>1, FlattenAppend
  <2>4. Pieces(disk, l, h, m) = FlattenSeq(f(m)) /\ Pieces(disk, l, h, m - 1) = FlattenSeq(f(m - 1))
    BY DEF Pieces, p
  <2> HIDE DEF f
  <2> QED BY <2>2, <2>3, <2>4
<1> QED BY <1>2, <1>3

\* Only the lost files of a partition matter for it.
LEMMA PiecesSame ==
    ASSUME NEW d, NEW h, NEW l, NEW m \in Nat, NEW k
    PROVE  Pieces(d, l \cup {<<h, k>>}, h, m) = Pieces(d, l, h, m) \/ k \in 1..m
<1> SUFFICES ASSUME k \notin 1..m
             PROVE  Pieces(d, l \cup {<<h, k>>}, h, m) = Pieces(d, l, h, m)
  OBVIOUS
<1>1. \A n \in 1..m : Piece(d, l \cup {<<h, k>>}, h, n) = Piece(d, l, h, n)
  BY DEF Piece
<1>2. [n \in 1..m |-> Piece(d, l \cup {<<h, k>>}, h, n)] = [n \in 1..m |-> Piece(d, l, h, n)]
  BY <1>1, Zenon
<1> QED BY <1>2 DEF Pieces

\* A partition's entries depend on its own lost files only.
LEMMA WholeSame ==
    ASSUME NEW d, NEW h, NEW l, NEW m, \A n : <<h, n>> \in l <=> <<h, n>> \in m
    PROVE  Whole(d, l, h) = Whole(d, m, h)
<1>1. \A n : Piece(d, l, h, n) = Piece(d, m, h, n)
  BY DEF Piece
<1> QED BY <1>1 DEF Whole, Pieces

\* ValidEntries, in these words
LEMMA ValidIsWhole ==
    ASSUME InputInv, NEW h \in Roots
    PROVE  ValidEntries(h) = Whole(disk, lost, h)
<1>1. disk.root[h].entries # None =>
        DOMAIN disk.root[h].entries = 1..Len(disk.root[h].entries)
  BY PieceIs
<1> QED BY <1>1, Zenon DEF ValidEntries, Whole, Pieces, Piece

\* The entries of a partition that were not there yet, and those of the others
LEMMA GotNone ==
    ASSUME NEW s \in Seq(Entries), NEW h, \A i \in DOMAIN s : s[i]["root"] # h
    PROVE  Got(s, h) = <<>>
<1>1. {i \in DOMAIN s : s[i]["root"] = h} = {}
  OBVIOUS
<1> QED BY <1>1, SelectionOfNone DEF Got

\* Entries of one partition joined to those of others
LEMMA GotJoined ==
    ASSUME NEW s \in Seq(Entries), NEW t \in Seq(Entries), NEW g,
           \A i \in DOMAIN s : s[i]["root"] # g, \A i \in DOMAIN t : t[i]["root"] = g
    PROVE  /\ Got(s \o t, g) = t
           /\ \A h : h # g => Got(s \o t, h) = Got(s, h)
<1> DEFINE j == s \o t
           n == Len(s)
           m == Len(t)
<1>1. /\ n \in Nat /\ m \in Nat /\ DOMAIN s = 1..n /\ DOMAIN t = 1..m
      /\ DOMAIN j = 1..(n + m)
      /\ \A i \in 1..n : j[i] = s[i]
  OBVIOUS
<1>2. \A i \in (n + 1)..(n + m) : j[i]["root"] = g
  <2>0. \A i \in 1..m : j[n + i] = t[i]
    OBVIOUS
  <2> TAKE i \in (n + 1)..(n + m)
  <2> HIDE DEF j, n, m
  <2>1. i - n \in 1..m /\ n + (i - n) = i
    BY <1>1
  <2>2. j[n + (i - n)] = t[i - n]
    BY <2>0, <2>1
  <2> QED BY <1>1, <2>1, <2>2
<1>3. /\ \A S \in SUBSET (1..n) : Selection(j, S) = Selection(s, S)
      /\ Selection(j, (n + 1)..(n + m)) = t
  BY SelectionOfJoined
<1> HIDE DEF j, n, m
<1>4. {i \in DOMAIN j : j[i]["root"] = g} = (n + 1)..(n + m)
  BY <1>1, <1>2
<1>5. ASSUME NEW h, h # g
      PROVE  Got(j, h) = Got(s, h)
  <2>1. {i \in DOMAIN j : j[i]["root"] = h} = {i \in DOMAIN s : s[i]["root"] = h}
    BY <1>1, <1>2, <1>5
  <2>2. {i \in DOMAIN s : s[i]["root"] = h} \in SUBSET (1..n)
    BY <1>1
  <2> QED BY <1>3, <2>1, <2>2 DEF Got
<1>6. Got(j, g) = t
  BY <1>3, <1>4 DEF Got
<1> QED BY <1>5, <1>6 DEF j

\* The first m of the partitions v have all their entries in s.
Complete(s, d, l, v, m) == \A k \in 1..m : Got(s, v[k]) = Whole(d, l, v[k])

\* WholeFolders is not inductive: it rests on what has been read of the folder
\* that is open, and on which files are lost.
WholeInv ==
    /\ pc = "start" => lost = {}
    /\ pc \notin {"start", "done"} =>
         /\ \A i \in DOMAIN sdboot.loaders :
               \E k \in DOMAIN visited : sdboot.loaders[i]["root"] = visited[k]
         /\ \A q \in lost : \E k \in DOMAIN visited : q[1] = visited[k]
    /\ pc \in InFolder => visited[Len(visited)] = dir
    /\ pc \in {"conf", "folder", "files"} =>
         /\ \A i \in DOMAIN sdboot.loaders : sdboot.loaders[i]["root"] # dir
         /\ Complete(sdboot.loaders, disk, lost, visited, Len(visited) - 1)
    /\ pc \in {"conf", "folder"} => \A q \in lost : q[1] # dir
    /\ pc = "files" =>
         /\ file <= Len(disk.root[dir].entries) + 1
         /\ \A q \in lost : q[1] = dir => q[2] \in 1..(file - 1)
         /\ pending = Pieces(disk, lost, dir, file - 1)
    /\ pc \in Searching \cup {"apply"} =>
         Complete(sdboot.loaders, disk, lost, visited, Len(visited))
    /\ pc = "done" =>
         \A k \in DOMAIN visited :
            LET got == Got(sdboot.loaders, visited[k])
                all == Whole(disk, lost, visited[k])
            IN  /\ got \in {<<>>, all}
                /\ status = "SUCCESS" => got = all

\* A step from one stage of the search to another keeps it.
LEMMA WholeOn ==
    ASSUME TypeInv, WholeInv, UNCHANGED <<disk, sdboot, visited, lost>>,
           pc \in Searching, pc' \in Searching \cup {"done"}
    PROVE  WholeInv'
<1>1. visited \in Seq(Roots)
  BY DEF TypeInv
<1>2. Complete(sdboot.loaders, disk, lost, visited, Len(visited))
  BY DEF WholeInv
<1>3. Complete(sdboot'.loaders, disk', lost', visited', Len(visited'))
  BY <1>2
<1>4. \A k \in DOMAIN visited' :
         Got(sdboot'.loaders, visited'[k]) = Whole(disk', lost', visited'[k])
  BY <1>1, <1>3 DEF Complete
<1>5. /\ \A i \in DOMAIN sdboot'.loaders :
            \E k \in DOMAIN visited' : sdboot'.loaders[i]["root"] = visited'[k]
      /\ \A q \in lost' : \E k \in DOMAIN visited' : q[1] = visited'[k]
  BY DEF WholeInv, Searching
<1>6. pc' \notin {"start", "conf", "folder", "files", "apply"}
  BY DEF Searching
<1> HIDE DEF Complete
<1> QED BY <1>3, <1>4, <1>5, <1>6 DEF WholeInv, InFolder

\* The search gives up while it loads a partition, which then has no entries.
LEMMA WholeGivesUp ==
    ASSUME TypeInv, WholeInv, VisitInv, UNCHANGED <<disk, visited, lost>>,
           sdboot'.loaders = sdboot.loaders,
           pc \in {"conf", "folder", "files"}, pc' = "done", status' # "SUCCESS"
    PROVE  WholeInv'
<1> DEFINE z == Len(visited)
<1>1. /\ visited \in Seq(Roots) /\ visited[z] = dir /\ DOMAIN visited = 1..z /\ z \in Nat
      /\ sdboot.loaders \in Seq(Entries)
  BY DEF TypeInv, WholeInv, InFolder
<1>2. Got(sdboot.loaders, dir) = <<>>
  <2>1. \A i \in DOMAIN sdboot.loaders : sdboot.loaders[i]["root"] # dir
    BY DEF WholeInv
  <2> QED BY <1>1, <2>1, GotNone
<1>3. \A k \in 1..(z - 1) : Got(sdboot.loaders, visited[k]) = Whole(disk, lost, visited[k])
  BY DEF WholeInv, Complete
<1>4. ASSUME NEW k \in DOMAIN visited
      PROVE  Got(sdboot.loaders, visited[k]) \in {<<>>, Whole(disk, lost, visited[k])}
  <2>1. k \in 1..(z - 1) \/ k = z
    BY <1>1
  <2> QED BY <1>1, <1>2, <1>3, <2>1
<1>5. \A k \in DOMAIN visited' :
         Got(sdboot'.loaders, visited'[k]) \in {<<>>, Whole(disk', lost', visited'[k])}
  BY <1>4
<1> QED BY <1>5 DEF WholeInv, InFolder, Searching

\* The search enters a partition.
LEMMA WholeEnter ==
    ASSUME TypeInv, WholeInv, TypeInv', VisitOnce', UNCHANGED <<disk, sdboot>>,
           pc \in Searching, NEW h, NEW l, Enter(h, l)
    PROVE  WholeInv'
<1> DEFINE z == Len(visited)
           y == Len(visited')
<1>1. /\ pc' = "conf" /\ dir' = h /\ visited' = Append(visited, h) /\ UNCHANGED lost
  BY DEF Enter, Goto
<1>2. /\ visited \in Seq(Roots) /\ DOMAIN visited = 1..z /\ z \in Nat
      /\ sdboot.loaders \in Seq(Entries) /\ h \in Roots
  <2>1. visited \in Seq(Roots) /\ sdboot.loaders \in Seq(Entries)
    BY DEF TypeInv, Searching
  <2>2. h \in Roots
    <3>1. dir' \in Roots'
      BY <1>1 DEF TypeInv, InFolder
    <3>2. Roots' = Roots
      BY RootsStay
    <3> QED BY <1>1, <3>1, <3>2
  <2> QED BY <2>1, <2>2
<1>3. /\ y = z + 1 /\ visited'[y] = h /\ DOMAIN visited' = 1..y
      /\ \A k \in 1..z : visited'[k] = visited[k]
  BY <1>1, <1>2
<1>4. \A k \in 1..z : visited[k] # h
  <2> TAKE k \in 1..z
  <2>1. \A i, j \in DOMAIN visited' : visited'[i] = visited'[j] => i = j
    BY DEF VisitOnce
  <2>2. k \in DOMAIN visited' /\ y \in DOMAIN visited' /\ k # y
    BY <1>2, <1>3
  <2> QED BY <1>3, <2>1, <2>2
<1>5. /\ \A i \in DOMAIN sdboot.loaders : \E k \in 1..z : sdboot.loaders[i]["root"] = visited[k]
      /\ \A q \in lost : \E k \in 1..z : q[1] = visited[k]
      /\ \A k \in 1..z : Got(sdboot.loaders, visited[k]) = Whole(disk, lost, visited[k])
  BY <1>2 DEF WholeInv, Searching, Complete
<1> HIDE DEF z, y
<1>6. /\ \A i \in DOMAIN sdboot.loaders : sdboot.loaders[i]["root"] # h
      /\ \A q \in lost : q[1] # h
      /\ \A i \in DOMAIN sdboot.loaders :
            \E k \in DOMAIN visited' : sdboot.loaders[i]["root"] = visited'[k]
      /\ \A q \in lost : \E k \in DOMAIN visited' : q[1] = visited'[k]
  <2>1. \A k \in 1..z : k \in DOMAIN visited'
    BY <1>2, <1>3
  <2> QED BY <1>3, <1>4, <1>5, <2>1
<1>7. Complete(sdboot.loaders, disk, lost, visited', y - 1)
  <2>1. y - 1 = z
    BY <1>2, <1>3
  <2> QED BY <1>3, <1>5, <2>1 DEF Complete
<1>8. /\ \A i \in DOMAIN sdboot'.loaders :
            \E k \in DOMAIN visited' : sdboot'.loaders[i]["root"] = visited'[k]
      /\ \A q \in lost' : \E k \in DOMAIN visited' : q[1] = visited'[k]
      /\ \A i \in DOMAIN sdboot'.loaders : sdboot'.loaders[i]["root"] # dir'
      /\ \A q \in lost' : q[1] # dir'
      /\ Complete(sdboot'.loaders, disk', lost', visited', Len(visited') - 1)
      /\ visited'[Len(visited')] = dir'
  BY <1>1, <1>3, <1>6, <1>7 DEF y
<1> HIDE DEF Complete
<1> QED BY <1>1, <1>8 DEF WholeInv, InFolder, Searching

\* A partition keeps what it has while the folder of another one is read.
LEMMA CompleteLost ==
    ASSUME NEW s, NEW d, NEW l, NEW v, NEW m, NEW g, NEW n, Complete(s, d, l, v, m),
           \A k \in 1..m : v[k] # g
    PROVE  Complete(s, d, l \cup {<<g, n>>}, v, m)
<1> DEFINE more == l \cup {<<g, n>>}
<1>1. ASSUME NEW k \in 1..m PROVE Whole(d, more, v[k]) = Whole(d, l, v[k])
  <2>1. \A i : <<v[k], i>> \in more <=> <<v[k], i>> \in l
    OBVIOUS
  <2> HIDE DEF more
  <2> QED BY <2>1, WholeSame
<1> HIDE DEF more
<1>2. Complete(s, d, more, v, m)
  BY <1>1 DEF Complete
<1> QED BY <1>2 DEF more

\* Where the search stands in a folder
LEMMA InPartition ==
    ASSUME TypeInv, WholeInv, VisitOnce, VisitInv, pc \in InFolder
    PROVE  LET z == Len(visited)
           IN  /\ z \in Nat \ {0} /\ DOMAIN visited = 1..z
               /\ visited[z] = dir /\ dir \in Roots
               /\ \A k \in 1..(z - 1) : visited[k] # dir
               /\ sdboot.loaders \in Seq(Entries)
               /\ status = None
<1>1. visited \in Seq(Roots) /\ visited # <<>> /\ dir \in Roots /\ sdboot.loaders \in Seq(Entries)
  BY DEF TypeInv, VisitInv, InFolder
<1>2. Len(visited) \in Nat \ {0} /\ DOMAIN visited = 1..Len(visited)
  BY <1>1
<1>3. visited[Len(visited)] = dir /\ status = None
  BY DEF WholeInv, TypeInv, InFolder
<1>4. ASSUME NEW k \in 1..(Len(visited) - 1) PROVE visited[k] # dir
  <2>1. k \in DOMAIN visited /\ Len(visited) \in DOMAIN visited /\ k # Len(visited)
    <3>1. \A n \in Nat \ {0} : \A j \in 1..(n - 1) : j \in 1..n /\ n \in 1..n /\ j # n
      OBVIOUS
    <3> QED BY <1>2, <1>4, <3>1, Zenon
  <2>2. visited[k] = visited[Len(visited)] => k = Len(visited)
    BY <2>1 DEF VisitOnce
  <2> QED BY <1>3, <2>1, <2>2
<1> QED BY <1>1, <1>2, <1>3, <1>4

\* An entry of two joined lists is one of either.
LEMMA OfEither ==
    ASSUME NEW x \in Seq(Entries), NEW y \in Seq(Entries), NEW a \in DOMAIN (x \o y)
    PROVE  \/ \E b \in DOMAIN x : (x \o y)[a] = x[b]
           \/ \E b \in DOMAIN y : (x \o y)[a] = y[b]
<1>1. /\ Len(x) \in Nat /\ Len(y) \in Nat /\ DOMAIN x = 1..Len(x) /\ DOMAIN y = 1..Len(y)
      /\ DOMAIN (x \o y) = 1..(Len(x) + Len(y))
      /\ \A b \in 1..Len(x) : (x \o y)[b] = x[b]
      /\ \A b \in 1..Len(y) : (x \o y)[Len(x) + b] = y[b]
  OBVIOUS
<1>2. CASE a <= Len(x)
  <2>1. a \in 1..Len(x)
    BY <1>1, <1>2
  <2> QED BY <1>1, <2>1
<1>3. CASE ~(a <= Len(x))
  <2>1. a - Len(x) \in 1..Len(y) /\ Len(x) + (a - Len(x)) = a
    BY <1>1, <1>3
  <2>2. (x \o y)[Len(x) + (a - Len(x))] = y[a - Len(x)]
    BY <1>1, <2>1
  <2> QED BY <1>1, <2>1, <2>2
<1> QED BY <1>2, <1>3

\* Every step keeps the invariant of the entries.
LEMMA WholeStep ==
    ASSUME TypeInv, TypeInv', VisitOnce, VisitOnce', VisitInv, WholeInv, [Next]_vars
    PROVE  WholeInv'
<1>0. UNCHANGED <<disk, cfg, menu0>> /\ InputInv
  BY InputsStay DEF TypeInv
<1>n. /\ None \notin Status \cup Control /\ "SUCCESS" \in Status /\ "SUCCESS" \notin Failing
      /\ pc # "done" => status = None
      /\ back # None => back \in Searching
  BY NoneAssumption, FaultsAssumption DEF Status, Failing, TypeInv, Searching
<1>1. CASE Start
  <2>1. /\ pc = "start" /\ UNCHANGED <<visited, lost>> /\ visited = <<>> /\ lost = {}
        /\ pc' = "done" \/ (pc' = "current" /\ sdboot' = [menu |-> InitMenu, loaders |-> <<>>])
    BY <1>1 DEF Start, Return, Goto, history, TypeInv, WholeInv
  <2>2. visited' = <<>> /\ lost' = {} /\ DOMAIN visited' = {} /\ Len(visited') = 0
    BY <2>1
  <2>3. pc' = "current" => DOMAIN sdboot'.loaders = {}
    <3>1. pc' = "current" => sdboot'.loaders = <<>>
      BY <2>1
    <3> QED BY <3>1
  <2>4. Complete(sdboot'.loaders, disk', lost', visited', 0)
    BY DEF Complete
  <2> QED BY <2>1, <2>2, <2>3, <2>4 DEF WholeInv, InFolder, Searching
<1>2. CASE TryCurrent
  <2>1. pc = "current" /\ pc \in Searching /\ UNCHANGED <<sdboot>>
    BY <1>2 DEF TryCurrent, Searching
  <2>2. CASE Enter(disk.current, "previous")
    BY <1>0, <2>1, <2>2, WholeEnter
  <2>3. CASE Goto("previous") /\ UNCHANGED <<back, dir, history>>
    BY <1>0, <2>1, <2>3, WholeOn DEF Goto, history, Searching
  <2> QED BY <1>2, <2>2, <2>3 DEF TryCurrent
<1>3. CASE TryPrevious
  <2>1. pc = "previous" /\ pc \in Searching /\ UNCHANGED <<sdboot>>
    BY <1>3 DEF TryPrevious, Searching
  <2>2. CASE Enter(disk.previous, "locate")
    BY <1>0, <2>1, <2>2, WholeEnter
  <2>3. CASE Goto("locate") /\ UNCHANGED <<back, dir, history>>
    BY <1>0, <2>1, <2>3, WholeOn DEF Goto, history, Searching
  <2> QED BY <1>3, <2>2, <2>3 DEF TryPrevious
<1>4. CASE Locate
  BY <1>0, <1>4, WholeOn DEF Locate, Return, Goto, history, Searching
<1>5. CASE ScanNext
  <2>1. pc = "scan" /\ pc \in Searching /\ UNCHANGED <<sdboot>>
    BY <1>5 DEF ScanNext, Searching
  <2>2. CASE Enter(disk.handles[index], "scan")
    <3> DEFINE h == disk.handles[index]
    <3>1. Enter(h, "scan")
      BY <2>2
    <3> HIDE DEF h
    <3> QED BY <1>0, <2>1, <3>1, WholeEnter
  <2>3. CASE Goto("scan") /\ UNCHANGED <<back, dir, history>>
    BY <1>0, <2>1, <2>3, WholeOn DEF Goto, history, Searching
  <2> QED BY <1>5, <2>2, <2>3 DEF ScanNext
<1>6. CASE ScanEnd
  BY <1>0, <1>6, WholeOn DEF ScanEnd, Goto, history, Searching
<1>7. CASE LoadConf
  <2>1. PICK r \in LoadConfOutcomes(sdboot.menu, disk.root[dir].conf) :
          /\ sdboot' = [sdboot EXCEPT !.menu = r.out]
          /\ IF r.status \in {"SUCCESS", "NOT_FOUND"} THEN Goto("folder") ELSE Return(r.status)
    BY <1>7 DEF LoadConf
  <2>2. pc = "conf" /\ UNCHANGED <<dir, visited, lost>>
    BY <1>7 DEF LoadConf, search
  <2>3. sdboot'.loaders = sdboot.loaders
    BY <2>1, <2>2 DEF TypeInv
  <2>4. CASE pc' = "done" /\ status' # "SUCCESS"
    BY <1>0, <2>2, <2>3, <2>4, WholeGivesUp
  <2>5. CASE pc' = "folder"
    BY <1>0, <2>2, <2>3, <2>5 DEF WholeInv, InFolder, Searching
  <2> QED BY <2>1, <2>4, <2>5 DEF Goto, Return
<1>8. CASE OpenFolder
  <2> DEFINE z == Len(visited)
  <2>1. pc = "folder" /\ UNCHANGED <<sdboot, dir, visited>> /\ pending' = <<>> /\ file' = 1
    BY <1>8 DEF OpenFolder, search
  <2>2. /\ z \in Nat \ {0} /\ DOMAIN visited = 1..z
        /\ visited[z] = dir /\ dir \in Roots
        /\ \A k \in 1..(z - 1) : visited[k] # dir
        /\ sdboot.loaders \in Seq(Entries)
    BY <2>1, InPartition DEF InFolder
  <2>3. /\ \A i \in DOMAIN sdboot.loaders : sdboot.loaders[i]["root"] # dir
        /\ Complete(sdboot.loaders, disk, lost, visited, z - 1)
        /\ \A q \in lost : q[1] # dir
        /\ \A i \in DOMAIN sdboot.loaders :
              \E k \in DOMAIN visited : sdboot.loaders[i]["root"] = visited[k]
        /\ \A q \in lost : \E k \in DOMAIN visited : q[1] = visited[k]
    BY <2>1 DEF WholeInv
  <2>4. Got(sdboot.loaders, dir) = <<>>
    BY <2>2, <2>3, GotNone
  <2>5. CASE disk.root[dir].entries # None /\ Goto("files") /\ UNCHANGED lost
    <3>1. Pieces(disk, lost, dir, 0) = <<>> /\ Len(disk.root[dir].entries) \in Nat
      BY <1>0, <2>2, <2>5, PiecesNext, PieceIs
    <3>2. /\ file' - 1 = 0 /\ pc' = "files"
          /\ file' <= Len(disk'.root[dir'].entries) + 1
          /\ pending' = Pieces(disk', lost', dir', file' - 1)
      <4>1. file' - 1 = 0 /\ file' <= Len(disk.root[dir].entries) + 1
        BY <2>1, <3>1
      <4> QED BY <1>0, <2>1, <2>5, <3>1, <4>1 DEF Goto
    <3> HIDE DEF z
    <3>3. /\ \A q \in lost' : q[1] # dir'
          /\ \A i \in DOMAIN sdboot'.loaders : sdboot'.loaders[i]["root"] # dir'
          /\ Complete(sdboot'.loaders, disk', lost', visited', Len(visited') - 1)
          /\ \A i \in DOMAIN sdboot'.loaders :
                \E k \in DOMAIN visited' : sdboot'.loaders[i]["root"] = visited'[k]
          /\ \A q \in lost' : \E k \in DOMAIN visited' : q[1] = visited'[k]
          /\ visited'[Len(visited')] = dir'
      BY <1>0, <2>1, <2>2, <2>3, <2>5 DEF z
    <3> QED BY <3>2, <3>3 DEF WholeInv, InFolder, Searching
  <2>6. ASSUME pc' = "apply", Complete(sdboot.loaders, disk, lost', visited, z),
               \A q \in lost' : q \in lost \/ q[1] = dir
        PROVE  WholeInv'
    <3>1. \A q \in lost' : \E k \in DOMAIN visited : q[1] = visited[k]
      BY <2>2, <2>3, <2>6
    <3>2. /\ Complete(sdboot'.loaders, disk', lost', visited', Len(visited'))
          /\ visited'[Len(visited')] = dir'
          /\ \A i \in DOMAIN sdboot'.loaders :
                \E k \in DOMAIN visited' : sdboot'.loaders[i]["root"] = visited'[k]
          /\ \A q \in lost' : \E k \in DOMAIN visited' : q[1] = visited'[k]
      BY <1>0, <2>1, <2>2, <2>3, <2>6, <3>1
    <3> HIDE DEF Complete
    <3> QED BY <2>6, <3>2 DEF WholeInv, InFolder
  <2>7. ASSUME NEW l, Whole(disk, l, dir) = <<>>, Complete(sdboot.loaders, disk, l, visited, z - 1)
        PROVE  Complete(sdboot.loaders, disk, l, visited, z)
    <3>0. \A n \in Nat \ {0} : \A j \in 1..n : j \in 1..(n - 1) \/ j = n
      OBVIOUS
    <3>1. \A k \in 1..z : k \in 1..(z - 1) \/ k = z
      BY <2>2, <3>0, Zenon
    <3> HIDE DEF z
    <3> QED BY <2>2, <2>4, <2>7, <3>1 DEF Complete
  <2>8. CASE disk.root[dir].entries = None /\ Goto("apply") /\ UNCHANGED lost
    <3>1. Whole(disk, lost, dir) = <<>>
      BY <2>8 DEF Whole
    <3> QED BY <2>3, <2>6, <2>7, <2>8, <3>1 DEF Goto
  <2>9. CASE Goto("apply") /\ lost' = lost \cup {<<dir, 0>>}
    <3>1. Whole(disk, lost', dir) = <<>>
      BY <2>9 DEF Whole
    <3>2. Complete(sdboot.loaders, disk, lost \cup {<<dir, 0>>}, visited, z - 1)
      BY <2>2, <2>3, CompleteLost
    <3>3. Complete(sdboot.loaders, disk, lost', visited, z)
      BY <2>7, <2>9, <3>1, <3>2
    <3>4. \A q \in lost' : q \in lost \/ q[1] = dir
      BY <2>9
    <3> QED BY <2>6, <2>9, <3>3, <3>4 DEF Goto
  <2>10. CASE \E e \in Failing \ {"NOT_FOUND"} : Return(e) /\ UNCHANGED lost
    BY <1>0, <1>n, <2>1, <2>10, WholeGivesUp DEF Return
  <2> QED BY <1>8, <2>5, <2>8, <2>9, <2>10 DEF OpenFolder
<1>9. CASE ReadEntry
  <2> DEFINE z == Len(visited)
             f == disk.root[dir].entries[file]
             N == Len(disk.root[dir].entries)
  <2>1. pc = "files" /\ UNCHANGED <<sdboot, dir, visited>> /\ file' = file + 1 /\ file <= N
    BY <1>9 DEF ReadEntry, search
  <2>2. /\ z \in Nat \ {0} /\ DOMAIN visited = 1..z
        /\ visited[z] = dir /\ dir \in Roots
        /\ \A k \in 1..(z - 1) : visited[k] # dir
        /\ sdboot.loaders \in Seq(Entries)
    BY <2>1, InPartition DEF InFolder
  <2>3. /\ \A i \in DOMAIN sdboot.loaders : sdboot.loaders[i]["root"] # dir
        /\ Complete(sdboot.loaders, disk, lost, visited, z - 1)
        /\ \A q \in lost : q[1] = dir => q[2] \in 1..(file - 1)
        /\ \A i \in DOMAIN sdboot.loaders :
              \E k \in DOMAIN visited : sdboot.loaders[i]["root"] = visited[k]
        /\ \A q \in lost : \E k \in DOMAIN visited : q[1] = visited[k]
        /\ pending = Pieces(disk, lost, dir, file - 1)
        /\ disk.root[dir].entries # None /\ file \in Nat \ {0}
    BY <2>1 DEF WholeInv, TypeInv
  <2>4. N \in Nat /\ file \in 1..N /\ file - 1 \in Nat
    BY <1>0, <2>1, <2>2, <2>3, PieceIs
  <2>5. \A l : Pieces(disk, l, dir, file) = Pieces(disk, l, dir, file - 1) \o Piece(disk, l, dir, file)
    BY <1>0, <2>2, <2>3, <2>4, PiecesNext
  <2>6. <<dir, file>> \notin lost
    BY <2>3, <2>4
  <2>7. pending \in Seq(EntriesOf(dir)) /\ pending \o <<>> = pending
    <3>1. pending \in Seq(EntriesOf(dir))
      BY <2>1 DEF TypeInv
    <3>2. \A S : \A x \in Seq(S) : x \o <<>> = x
      OBVIOUS
    <3> QED BY <3>1, <3>2
  <2>8. ASSUME pc' = "files", Complete(sdboot.loaders, disk, lost', visited, z - 1),
               lost' = lost \/ lost' = lost \cup {<<dir, file>>},
               pending' = Pieces(disk, lost', dir, file)
        PROVE  WholeInv'
    <3>1. /\ \A q \in lost' : q[1] = dir => q[2] \in 1..file
          /\ \A q \in lost' : \E k \in DOMAIN visited : q[1] = visited[k]
      <4>1. ASSUME NEW q \in lost'
            PROVE  /\ q[1] = dir => q[2] \in 1..file
                   /\ \E k \in DOMAIN visited : q[1] = visited[k]
        <5>1. CASE q \in lost
          BY <2>3, <2>4, <5>1
        <5>2. CASE q = <<dir, file>>
          BY <2>2, <2>4, <5>2
        <5> QED BY <2>8, <4>1, <5>1, <5>2
      <4> QED BY <4>1
    <3>2. file' - 1 = file /\ file' <= N + 1
      BY <2>1, <2>4
    <3>3. /\ file' <= Len(disk'.root[dir'].entries) + 1
          /\ \A q \in lost' : q[1] = dir' => q[2] \in 1..(file' - 1)
          /\ pending' = Pieces(disk', lost', dir', file' - 1)
          /\ \A i \in DOMAIN sdboot'.loaders : sdboot'.loaders[i]["root"] # dir'
          /\ Complete(sdboot'.loaders, disk', lost', visited', Len(visited') - 1)
          /\ \A i \in DOMAIN sdboot'.loaders :
                \E k \in DOMAIN visited' : sdboot'.loaders[i]["root"] = visited'[k]
          /\ \A q \in lost' : \E k \in DOMAIN visited' : q[1] = visited'[k]
          /\ visited'[Len(visited')] = dir'
      BY <1>0, <2>1, <2>2, <2>3, <2>8, <3>1, <3>2
    <3> QED BY <2>8, <3>3 DEF WholeInv, InFolder, Searching
  <2>9. CASE ~f.conf /\ Goto("files") /\ UNCHANGED <<pending, lost>>
    <3>1. Piece(disk, lost, dir, file) = <<>>
      BY <2>9 DEF Piece
    <3>2. pending' = Pieces(disk, lost', dir, file)
      BY <2>3, <2>5, <2>7, <2>9, <3>1
    <3> QED BY <2>3, <2>8, <2>9, <3>2 DEF Goto
  <2>10. CASE f.conf /\ Goto("files") /\ UNCHANGED lost /\ pending' = pending \o LoadEntry(dir, f)
    <3>1. Piece(disk, lost, dir, file) = LoadEntry(dir, f)
      BY <2>6, <2>10 DEF Piece
    <3>2. pending' = Pieces(disk, lost', dir, file)
      BY <2>3, <2>5, <2>10, <3>1
    <3> QED BY <2>3, <2>8, <2>10, <3>2 DEF Goto
  <2>11. CASE Goto("files") /\ UNCHANGED pending /\ lost' = lost \cup {<<dir, file>>}
    <3>1. Piece(disk, lost', dir, file) = <<>>
      BY <2>11 DEF Piece
    <3>2. Pieces(disk, lost', dir, file - 1) = Pieces(disk, lost, dir, file - 1)
      <4>1. file \notin 1..(file - 1)
        BY <2>4
      <4> QED BY <2>4, <2>11, <4>1, PiecesSame
    <3>3. pending' = Pieces(disk, lost', dir, file)
      BY <2>3, <2>5, <2>7, <2>11, <3>1, <3>2
    <3>4. Complete(sdboot.loaders, disk, lost', visited, z - 1)
      BY <2>2, <2>3, <2>11, CompleteLost
    <3> QED BY <2>8, <2>11, <3>3, <3>4 DEF Goto
  <2>12. CASE \E e \in Failing \ {"NOT_FOUND", "LOAD_ERROR"} :
                 f.conf /\ Return(e) /\ UNCHANGED lost /\ pending' = <<>>
    BY <1>0, <1>n, <2>1, <2>12, WholeGivesUp DEF Return
  <2> QED BY <1>9, <2>9, <2>10, <2>11, <2>12 DEF ReadEntry
<1>10. CASE ReadFolderFails
  <2>1. pc = "files" /\ UNCHANGED <<sdboot, visited, lost>> /\ pc' = "done" /\ status' \in Failing
    BY <1>10 DEF ReadFolderFails, Return, history
  <2> QED BY <1>0, <1>n, <2>1, WholeGivesUp
<1>11. CASE CloseFolder
  <2> DEFINE z == Len(visited)
             N == Len(disk.root[dir].entries)
  <2>1. /\ pc = "files" /\ UNCHANGED <<dir, visited, lost>> /\ pc' = "apply" /\ file > N
        /\ sdboot' = [sdboot EXCEPT !.loaders = @ \o pending]
    BY <1>11 DEF CloseFolder, Goto, search, history
  <2>2. /\ z \in Nat \ {0} /\ DOMAIN visited = 1..z
        /\ visited[z] = dir /\ dir \in Roots
        /\ \A k \in 1..(z - 1) : visited[k] # dir
        /\ sdboot.loaders \in Seq(Entries)
    BY <2>1, InPartition DEF InFolder
  <2>3. /\ \A i \in DOMAIN sdboot.loaders : sdboot.loaders[i]["root"] # dir
        /\ Complete(sdboot.loaders, disk, lost, visited, z - 1)
        /\ \A q \in lost : q[1] = dir => q[2] \in 1..(file - 1)
        /\ \A i \in DOMAIN sdboot.loaders :
              \E k \in DOMAIN visited : sdboot.loaders[i]["root"] = visited[k]
        /\ \A q \in lost : \E k \in DOMAIN visited : q[1] = visited[k]
        /\ pending = Pieces(disk, lost, dir, file - 1)
        /\ disk.root[dir].entries # None /\ file \in Nat \ {0}
        /\ file <= N + 1
    BY <2>1 DEF WholeInv, TypeInv
  <2>4. N \in Nat /\ file - 1 = N
    BY <1>0, <2>1, <2>2, <2>3, PieceIs
  <2>5. pending \in Seq(EntriesOf(dir)) /\ pending \in Seq(Entries)
    <3>1. pending \in Seq(EntriesOf(dir))
      BY <2>1 DEF TypeInv
    <3>2. EntriesOf(dir) \subseteq Entries
      BY <2>2 DEF Entries
    <3>3. \A A, B : A \subseteq B => Seq(A) \subseteq Seq(B)
      OBVIOUS
    <3> QED BY <3>1, <3>2, <3>3, Zenon
  <2>6. \A i \in DOMAIN pending : pending[i]["root"] = dir
    <3>1. \A i \in DOMAIN pending : pending[i] \in EntriesOf(dir)
      BY <2>5
    <3> QED BY <3>1 DEF EntriesOf
  <2> DEFINE s == sdboot.loaders \o pending
  <2>7. sdboot'.loaders = s
    <3>1. sdboot \in [menu : Settings, loaders : Seq(Entries)]
      BY <2>1 DEF TypeInv
    <3> QED BY <2>1, <3>1
  <2>8. Got(s, dir) = pending /\ \A h : h # dir => Got(s, h) = Got(sdboot.loaders, h)
    <3> DEFINE L == sdboot.loaders
    <3>1. L \in Seq(Entries) /\ pending \in Seq(Entries)
      BY <2>2, <2>5
    <3>2. /\ \A i \in DOMAIN L : L[i]["root"] # dir
          /\ \A i \in DOMAIN pending : pending[i]["root"] = dir
      BY <2>3, <2>6
    <3>3. s = L \o pending
      OBVIOUS
    <3> HIDE DEF L, s
    <3>4. Got(s, dir) = pending /\ \A h : h # dir => Got(s, h) = Got(L, h)
      <4>1. /\ Got(L \o pending, dir) = pending
            /\ \A h : h # dir => Got(L \o pending, h) = Got(L, h)
        BY ONLY <3>1, <3>2, GotJoined
      <4> QED BY <3>3, <4>1, Zenon
    <3> QED BY <3>4 DEF L
  <2>9. Whole(disk, lost, dir) = pending
    <3>1. <<dir, 0>> \notin lost
      BY <2>3
    <3>2. Whole(disk, lost, dir) = Pieces(disk, lost, dir, N)
      BY <2>3, <3>1 DEF Whole
    <3> QED BY <2>3, <2>4, <3>2
  <2>10. \A i \in DOMAIN s : \E k \in DOMAIN visited : s[i]["root"] = visited[k]
    <3>1. sdboot.loaders \in Seq(Entries) /\ pending \in Seq(Entries)
      BY <2>2, <2>5
    <3>2. ASSUME NEW i \in DOMAIN s
          PROVE  \/ \E j \in DOMAIN sdboot.loaders : s[i] = sdboot.loaders[j]
                 \/ \E j \in DOMAIN pending : s[i] = pending[j]
      <4> DEFINE L == sdboot.loaders
      <4>1. L \in Seq(Entries) /\ pending \in Seq(Entries)
        BY <3>1
      <4> HIDE DEF L
      <4>2. \A a \in DOMAIN (L \o pending) :
               \/ \E j \in DOMAIN L : (L \o pending)[a] = L[j]
               \/ \E j \in DOMAIN pending : (L \o pending)[a] = pending[j]
        BY ONLY <4>1, OfEither
      <4> QED BY <3>2, <4>2, Zenon DEF L
    <3>3. z \in DOMAIN visited /\ visited[z] = dir
      BY <2>2
    <3> HIDE DEF s, z
    <3>4. ASSUME NEW i \in DOMAIN s PROVE \E k \in DOMAIN visited : s[i]["root"] = visited[k]
      <4>1. CASE \E j \in DOMAIN sdboot.loaders : s[i] = sdboot.loaders[j]
        BY <2>3, <4>1
      <4>2. CASE \E j \in DOMAIN pending : s[i] = pending[j]
        BY <2>6, <3>3, <4>2
      <4> QED BY <3>2, <3>4, <4>1, <4>2
    <3> QED BY <3>4
  <2> HIDE DEF s
  <2>11. Complete(s, disk, lost, visited, z)
    <3>0. \A n \in Nat \ {0} : \A j \in 1..n : j \in 1..(n - 1) \/ j = n
      OBVIOUS
    <3>1. \A k \in 1..z : k \in 1..(z - 1) \/ k = z
      BY <2>2, <3>0, Zenon
    <3> HIDE DEF z
    <3> QED BY <2>2, <2>3, <2>8, <2>9, <3>1 DEF Complete
  <2>12. /\ Complete(sdboot'.loaders, disk', lost', visited', Len(visited'))
         /\ \A i \in DOMAIN sdboot'.loaders :
               \E k \in DOMAIN visited' : sdboot'.loaders[i]["root"] = visited'[k]
         /\ \A q \in lost' : \E k \in DOMAIN visited' : q[1] = visited'[k]
         /\ visited'[Len(visited')] = dir'
    <3>1. /\ sdboot'.loaders = s /\ disk' = disk /\ lost' = lost /\ visited' = visited
          /\ dir' = dir /\ visited[z] = dir
      BY <1>0, <2>1, <2>2, <2>7
    <3>2. \A q \in lost : \E k \in DOMAIN visited : q[1] = visited[k]
      BY <2>3
    <3>3. Complete(sdboot'.loaders, disk', lost', visited', Len(visited'))
      BY <2>11, <3>1
    <3>4. \A i \in DOMAIN sdboot'.loaders :
             \E k \in DOMAIN visited' : sdboot'.loaders[i]["root"] = visited'[k]
      BY <2>10, <3>1
    <3> QED BY <3>1, <3>2, <3>3, <3>4
  <2> QED BY <2>1, <2>12 DEF WholeInv, InFolder
<1>12. CASE ApplySettings
  <2>1. /\ pc = "apply" /\ UNCHANGED <<sdboot, visited, lost>>
        /\ pc' \in Searching \/ (pc' = "done" /\ status' # "SUCCESS")
    BY <1>12, <1>n DEF ApplySettings, Goto, Return, history, TypeInv, InFolder, Searching
  <2>2. /\ Complete(sdboot.loaders, disk, lost, visited, Len(visited))
        /\ \A i \in DOMAIN sdboot.loaders :
              \E k \in DOMAIN visited : sdboot.loaders[i]["root"] = visited[k]
        /\ \A q \in lost : \E k \in DOMAIN visited : q[1] = visited[k]
        /\ visited \in Seq(Roots)
    BY <2>1 DEF WholeInv, TypeInv
  <2>3. \A k \in DOMAIN visited : Got(sdboot.loaders, visited[k]) = Whole(disk, lost, visited[k])
    BY <2>2 DEF Complete
  <2>4. /\ Complete(sdboot'.loaders, disk', lost', visited', Len(visited'))
        /\ \A k \in DOMAIN visited' :
              Got(sdboot'.loaders, visited'[k]) = Whole(disk', lost', visited'[k])
        /\ \A i \in DOMAIN sdboot'.loaders :
              \E k \in DOMAIN visited' : sdboot'.loaders[i]["root"] = visited'[k]
        /\ \A q \in lost' : \E k \in DOMAIN visited' : q[1] = visited'[k]
    BY <1>0, <2>1, <2>2, <2>3
  <2>5. pc' \notin InFolder \cup {"start"}
    BY <2>1 DEF Searching, InFolder
  <2> QED BY <2>4, <2>5 DEF WholeInv, InFolder
<1>13. CASE AddItems
  <2>1. pc \in Searching /\ UNCHANGED <<sdboot, visited, lost>> /\ pc' = "done"
    BY <1>13 DEF AddItems, Return, history, Searching
  <2> QED BY <1>0, <2>1, WholeOn
<1>14. CASE UNCHANGED vars
  <2>1. UNCHANGED <<disk, sdboot, pc, status, dir, file, pending, visited, lost>>
    BY <1>14 DEF vars, inputs, search, folder, history
  <2> QED BY <2>1 DEF WholeInv, Complete
<1> QED
  BY <1>1, <1>2, <1>3, <1>4, <1>5, <1>6, <1>7, <1>8, <1>9, <1>10, <1>11, <1>12,
     <1>13, <1>14 DEF Next

EntriesInv == TypeInv /\ OnceInv /\ VisitInv /\ WholeInv

\* What the invariant says of the entries
LEMMA EntriesFrom == EntriesInv => EntriesWhole
<1> SUFFICES ASSUME EntriesInv PROVE EntriesWhole
  OBVIOUS
<1>1. /\ InputInv /\ visited \in Seq(Roots) /\ status \in Status \cup {None}
      /\ (pc = "done") = (status # None)
      /\ index \in 1..(Len(disk.handles) + 1) /\ Len(disk.handles) \in Nat
  <2>1. InputInv
    BY DEF EntriesInv, TypeInv
  <2> QED BY <2>1, InputIs DEF EntriesInv, TypeInv
<1>2. VisitOrder
  <2>1. IsPrefix(visited, Partitions)
    BY <1>1, SeenPrefix DEF EntriesInv, VisitInv
  <2>2. index > Len(disk.handles) => Seen(disk, index + 1) = Partitions
    <3>1. index > Len(disk.handles) => index + 1 = Len(disk.handles) + 2
      BY <1>1
    <3> QED BY <1>1, <3>1, SeenPrefix
  <2> QED BY <2>1, <2>2 DEF EntriesInv, VisitInv, VisitOrder
<1>3. ASSUME sdboot # None, NEW k \in DOMAIN visited
      PROVE  LET got == Got(sdboot.loaders, visited[k])
                 all == Whole(disk, lost, visited[k])
             IN  /\ got \in {<<>>, all}
                 /\ status = "SUCCESS" => got = all
  <2>1. sdboot.loaders \in Seq(Entries) /\ pc # "start"
    BY <1>1, <1>3 DEF EntriesInv, TypeInv
  <2>2. status = "SUCCESS" => pc = "done"
    BY <1>1, NoneAssumption DEF Status
  <2>3. CASE pc = "done"
    BY <1>3, <2>3 DEF EntriesInv, WholeInv
  <2>4. CASE pc \in Searching \cup {"apply"}
    <3>1. Complete(sdboot.loaders, disk, lost, visited, Len(visited))
      BY <2>4 DEF EntriesInv, WholeInv
    <3> QED BY <1>1, <1>3, <3>1 DEF Complete
  <2>5. CASE pc \in {"conf", "folder", "files"}
    <3>1. pc \in InFolder
      BY <2>5 DEF InFolder
    <3>2. /\ Len(visited) \in Nat \ {0} /\ DOMAIN visited = 1..Len(visited)
          /\ visited[Len(visited)] = dir
      BY <3>1, InPartition DEF EntriesInv, OnceInv
    <3>3. /\ \A i \in DOMAIN sdboot.loaders : sdboot.loaders[i]["root"] # dir
          /\ Complete(sdboot.loaders, disk, lost, visited, Len(visited) - 1)
      BY <2>5 DEF EntriesInv, WholeInv
    <3>4. Got(sdboot.loaders, dir) = <<>>
      BY <2>1, <3>3, GotNone
    <3>5. k \in 1..(Len(visited) - 1) \/ k = Len(visited)
      BY <1>3, <3>2
    <3> QED BY <2>2, <2>5, <3>2, <3>3, <3>4, <3>5 DEF Complete
  <2>6. pc \in Control
    BY DEF EntriesInv, TypeInv
  <2> QED BY <2>1, <2>3, <2>4, <2>5, <2>6 DEF Control, Searching
<1>4. WholeFolders
  <2>1. \A k \in DOMAIN visited : ValidEntries(visited[k]) = Whole(disk, lost, visited[k])
    <3> TAKE k \in DOMAIN visited
    <3> DEFINE h == visited[k]
    <3>1. h \in Roots
      BY <1>1
    <3> HIDE DEF h
    <3>2. ValidEntries(h) = Whole(disk, lost, h)
      BY <1>1, <3>1, ValidIsWhole
    <3> QED BY <3>2 DEF h
  <2> QED BY <1>3, <2>1 DEF WholeFolders, Got
<1> QED BY <1>2, <1>4 DEF EntriesWhole

\* The entries are at any time those of whole folders, and in the end those of
\* all partitions, whatever fails on the way.
THEOREM EntriesAreWhole == Spec => []EntriesWhole
<1>1. Init => EntriesInv
  <2> SUFFICES ASSUME Init PROVE EntriesInv
    OBVIOUS
  <2>1. TypeInv /\ InputInv
    BY TypeInit DEF TypeInv
  <2>2. OnceInv
    BY OnceInit
  <2>3. /\ pc = "start" /\ status = None /\ visited = <<>> /\ lost = {} /\ index = 1
    BY DEF Init
  <2>4. VisitInv
    <3>1. Seen(disk, 0) = <<>> /\ Len(disk.handles) \in Nat
      BY <2>1, SeenPrefix, InputIs
    <3>2. 0 \in 0..(Len(disk.handles) + 2)
      BY <3>1
    <3>3. \E m \in 0..(Len(disk.handles) + 2) : visited = Seen(disk, m)
      BY <2>3, <3>1, <3>2
    <3> QED BY <2>3, <3>1, <3>3, NoneAssumption DEF VisitInv, Stage, InFolder, Status
  <2>5. WholeInv
    BY <2>3 DEF WholeInv, InFolder, Searching
  <2> QED BY <2>1, <2>2, <2>4, <2>5 DEF EntriesInv
<1>2. EntriesInv /\ [Next]_vars => EntriesInv'
  BY TypeStep, OnceStep, VisitStep, WholeStep DEF EntriesInv, OnceInv
<1>3. EntriesInv => EntriesWhole
  BY EntriesFrom
<1> QED BY <1>1, <1>2, <1>3, PTL DEF Spec
=============================================================================
