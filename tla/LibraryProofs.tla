---------------------------- MODULE LibraryProofs ----------------------------
(***************************************************************************)
(* Theorems about the algorithms of the library: the layered configuration, *)
(* the directories of nested processes, the declarations of the matrix and  *)
(* the command trees, for every question, and the confinement of the file   *)
(* system for every set of threads, paths and kernels and lanes of any      *)
(* length.                                                                  *)
(***************************************************************************)
EXTENDS Hardening, Library, FiniteSetTheorems, SequenceTheorems, TLAPS

-----------------------------------------------------------------------------
(* Induction: a set of naturals has a least element, so what fails for some *)
(* number fails for a least one.                                           *)

LEMMA LeastOne ==
  ASSUME NEW T \in SUBSET Nat, T # {}
  PROVE  \E n \in T : \A m \in T : n <= m
  <1> DEFINE F == FiniteSubsetsOf(Nat)
             U == {0..n : n \in T}
             R == StrictSubsetOrdering(Nat)
  <1>1. IsWellFoundedOn(R, F)
    BY FS_StrictSubsetOrderingWellFounded
  <1>2. U \subseteq F /\ U # {}
    <2>1. \A n \in Nat : 0..n \in F
      BY FS_Interval DEF FiniteSubsetsOf
    <2>2. QED
      BY <2>1
  <1>3. PICK x \in U : \A y \in U : ~(<<y, x>> \in R)
    <2> HIDE DEF F, U, R
    <2>1. QED
      BY <1>1, <1>2, WFMin
  <1>4. PICK n \in T : x = 0..n
    BY <1>3
  <1>5. ASSUME NEW m \in T, m < n
        PROVE  FALSE
    <2>1. 0..m \in U /\ 0..m \in SUBSET Nat /\ 0..n \in SUBSET Nat
      OBVIOUS
    <2>2. n \in 0..n /\ n \notin 0..m
      BY <1>5
    <2>3. 0..m \subseteq 0..n /\ 0..m # 0..n
      BY <1>5, <2>2
    <2>4. <<0..m, 0..n>> \in R
      BY <2>1, <2>3 DEF StrictSubsetOrdering
    <2>5. QED
      BY <2>1, <2>4, <1>3, <1>4
  <1>6. QED
    BY <1>5

\* Induction over a set of naturals.
LEMMA Inductive ==
  ASSUME NEW T \in SUBSET Nat, 0 \in T, \A n \in T : n + 1 \in T
  PROVE  T = Nat
  <1> SUFFICES ASSUME Nat \ T # {} PROVE FALSE
    OBVIOUS
  <1>1. PICK n \in Nat \ T : \A m \in Nat \ T : n <= m
    BY LeastOne
  <1>2. n # 0 /\ n - 1 \in Nat /\ n - 1 \in T
    BY <1>1
  <1>3. (n - 1) + 1 = n
    BY <1>1
  <1>4. QED
    BY <1>1, <1>2, <1>3

\* A question stays what it is.
LEMMA AskedForever == LibrarySpec => []Asked
  <1>1. Asked /\ [UNCHANGED question]_question => Asked'
    BY DEF Asked
  <1>2. QED
    BY <1>1, PTL DEF LibrarySpec

-----------------------------------------------------------------------------
(* matrix/config.py                                                        *)

\* A declaration that is accepted is accepted phase by phase.
LEMMA PhasesAreOk ==
  ASSUME NEW phases, PhasesOk(phases), PhasesAssumed(phases)
  PROVE  \A phase \in PhasesOf(phases) :
           /\ phase.typo = "absent"
           /\ (phase.run = "good") # (phase.pytest = "good")
  <1>1. CASE phases.is # "list"
    <2>1. PhaseList(phases) = <<>>
      BY <1>1 DEF PhaseList
    <2>2. PhasesOf(phases) = {}
      BY <2>1 DEF PhasesOf
    <2>3. QED
      BY <2>2
  <1>2. CASE phases.is = "list"
    <2>1. PhaseList(phases) = phases.list
      BY <1>2 DEF PhaseList
    <2>2. \A i \in DOMAIN phases.list : PhaseOk(phases.list[i])
      BY <1>2 DEF PhasesOk
    <2>3. ASSUME NEW i \in DOMAIN phases.list
          PROVE  /\ phases.list[i].typo = "absent"
                 /\ (phases.list[i].run = "good") # (phases.list[i].pytest = "good")
      <3> DEFINE phase == phases.list[i]
      <3>1. PhaseOk(phase) /\ phase.run # "odd" /\ phase.pytest # "odd"
        BY <1>2, <2>2 DEF PhasesAssumed
      <3> HIDE DEF phase
      <3>2. phase.typo = "absent" /\ (phase.run = "good") # (phase.pytest = "good")
        BY <3>1 DEF PhaseOk, NoLeftovers, Said
      <3>3. QED
        BY <3>2 DEF phase
    <2>4. QED
      BY <2>1, <2>3 DEF PhasesOf
  <1>3. QED
    BY <1>1, <1>2

\* load_config() and _skip_reason(): no declaration of any number of slots and phases
\* has a key or a phase that is quietly ignored, and no slot that a host could run is
\* left out.
THEOREM NothingIsDropped == LibrarySpec => []NothingQuietlyDropped
  <1>1. Asked => NothingQuietlyDropped
    <2> SUFFICES ASSUME question \in Matrices, Accepted(question.d, DOMAIN Facts)
                 PROVE  IsTakenWhole(question.d, question.requested, question.host, Facts)
      BY MergesAssumption, HomesAssumption, OverlaysAssumption, ExtensionsAssumption,
         InvocationsAssumption DEF Asked, NothingQuietlyDropped, IsTakenWhole
    <2> DEFINE d == question.d
               host == question.host
    <2>1. /\ PhasesAssumed(d.phases)
          /\ \A name \in DOMAIN d.slots : PhasesAssumed(d.slots[name].phases)
      BY MatricesAssumption
    <2> HIDE DEF d, host
    <2>2. /\ NoLeftovers(d) /\ PhasesOk(d.phases)
          /\ \A name \in DOMAIN d.slots : SlotOk(d.slots[name])
      BY DEF Accepted, SlotsOk, d
    <2>3. \A phase \in AllPhases(d) :
            phase.typo = "absent" /\ (phase.run = "good") # (phase.pytest = "good")
      <3>1. \A phase \in PhasesOf(d.phases) :
              phase.typo = "absent" /\ (phase.run = "good") # (phase.pytest = "good")
        BY <2>1, <2>2, PhasesAreOk
      <3>2. ASSUME NEW name \in DOMAIN d.slots
            PROVE  \A phase \in PhasesOf(d.slots[name].phases) :
                     phase.typo = "absent" /\ (phase.run = "good") # (phase.pytest = "good")
        <4>1. PhasesOk(d.slots[name].phases) /\ PhasesAssumed(d.slots[name].phases)
          BY <2>1, <2>2 DEF SlotOk
        <4>2. QED
          BY <4>1, PhasesAreOk
      <3>3. QED
        BY <3>1, <3>2 DEF AllPhases
    <2>4. ~Misspelled(d)
      <3>1. d.typo = "absent" /\ \A name \in DOMAIN d.slots : d.slots[name].typo = "absent"
        BY <2>2 DEF NoLeftovers, SlotOk
      <3>2. \A name \in DOMAIN d.slots :
              d.slots[name].skip.is = "map" => d.slots[name].skip.typo = "absent"
        BY <2>2 DEF NoLeftovers, SlotOk, SkipOk
      <3>3. QED
        BY <2>3, <3>1, <3>2 DEF Misspelled
    <2>5. ASSUME NEW name \in Available(d, question.requested) \ Walked(d, question.requested, host, Facts)
          PROVE  Excused(d, name, host, Facts[name])
      <3>1. SkipReason(d, name, host, Facts[name]) # "none"
        BY <2>5 DEF Walked
      <3>2. QED
        BY <3>1 DEF SkipReason, ConfinesPasta, Excused
    <2>6. ASSUME NEW name, SlotPhases(d, name) = <<>>
          PROVE  d.slots[name].phases.is # "absent" \/ PhaseList(d.phases) = <<>>
      BY <2>6 DEF SlotPhases, Effective
    <2>7. QED
      BY <2>3, <2>4, <2>5, <2>6 DEF IsTakenWhole, d, host
  <1>2. LibrarySpec => []Asked
    BY AskedForever
  <1>3. QED
    BY <1>1, <1>2, PTL

-----------------------------------------------------------------------------
(* paths.py                                                                *)

\* A row of the map that alone has the uid gives its name.
LEMMA HostUidIs ==
  ASSUME NEW p, NEW i \in DOMAIN p.uidMap, Covers(p.uidMap[i], p.euid), i \in Nat,
         \A j \in DOMAIN p.uidMap : Covers(p.uidMap[j], p.euid) => j = i
  PROVE  HostUid(p) = p.uidMap[i][2] + (p.euid - p.uidMap[i][1])
  <1> DEFINE rows == {j \in DOMAIN p.uidMap : Covers(p.uidMap[j], p.euid)}
  <1>1. rows = {i}
    OBVIOUS
  <1>2. Min({i}) = i
    BY DEF Min
  <1>3. QED
    BY <1>1, <1>2 DEF HostUid

\* The processes of an operator who is not root, each in its place.
LEMMA NobodyIsRoot ==
  ASSUME NEW uid \in Nat \ {0}, NEW env, NEW files
  PROVE  /\ ~IsRoot(In(Operator(uid), env, files))
         /\ ~IsRoot(In(Hook(uid), env, files))
         /\ ~IsRoot(In(Agent(uid), env, files))
         /\ IsRoot(In(Root, env, files))
  <1>1. ~IsRoot(In(Operator(uid), env, files)) /\ ~IsRoot(In(Agent(uid), env, files))
    BY DEF IsRoot, In, Operator, Agent
  <1>2. ~IsRoot(In(Hook(uid), env, files))
    <2> DEFINE map == <<<<0, uid, 1>>, <<1, 100, 50>>>>
    <2>1. In(Hook(uid), env, files).uidMap = map
      BY DEF In, Hook
    <2>2. map # <<>>
      OBVIOUS
    <2>3. map # <<<<0, 0, UidMax>>>>
      <3>1. Len(map) = 2 /\ Len(<<<<0, 0, UidMax>>>>) = 1
        OBVIOUS
      <3> HIDE DEF map
      <3>2. QED
        BY <3>1
    <2> HIDE DEF map
    <2>4. QED
      BY <2>1, <2>2, <2>3 DEF IsRoot, InInitialUserns
  <1>3. IsRoot(In(Root, env, files))
    BY DEF IsRoot, InInitialUserns, In, Root
  <1>4. QED
    BY <1>1, <1>2, <1>3

\* A place in the namespaces counts for whether the process is root, and nothing else.
LEMMA PlaceCountsOnce ==
  ASSUME NEW a, NEW b, NEW env, NEW files,
         IsRoot(In(a, env, files)) <=> IsRoot(In(b, env, files))
  PROVE  Directories(In(a, env, files)) = Directories(In(b, env, files))
  <1> DEFINE p == In(a, env, files)
             q == In(b, env, files)
  <1>1. p.env = q.env /\ p.files = q.files /\ (IsRoot(p) <=> IsRoot(q))
    BY DEF In
  <1> HIDE DEF p, q
  <1>2. ConfigFilePaths(p) = ConfigFilePaths(q)
    BY <1>1 DEF ConfigFilePaths, Set
  <1>3. ReadConfigSection(p, "paths") = ReadConfigSection(q, "paths")
    BY <1>1, <1>2 DEF ReadConfigSection
  <1>4. NamespaceRoot(p) = NamespaceRoot(q)
    BY <1>1, <1>3 DEF NamespaceRoot, Set
  <1>5. StateDir(p) = StateDir(q)
    BY <1>1, <1>4 DEF StateDir, PlatformStateBase, Set
  <1>6. ConfigDir(p) = ConfigDir(q) /\ RuntimeDir(p) = RuntimeDir(q)
    BY <1>1 DEF ConfigDir, RuntimeDir, Set
  <1>7. QED
    BY <1>2, <1>5, <1>6 DEF Directories, p, q

\* Only root's own directories are root's.
LEMMA NothingOfRoots ==
  ASSUME NEW p, ~IsRoot(p)
  PROVE  {StateDir(p), ConfigDir(p), RuntimeDir(p)} \intersect RootOnly = {}
  <1>1. NamespaceRoot(p) \in {"TEROK_ROOT", "paths.root", "unset"}
    BY DEF NamespaceRoot
  <1>2. StateDir(p) \notin RootOnly
    BY <1>1 DEF StateDir, PlatformStateBase, RootOnly
  <1>3. ConfigDir(p) \notin RootOnly /\ RuntimeDir(p) \notin RootOnly
    BY DEF ConfigDir, RuntimeDir, RootOnly
  <1>4. QED
    BY <1>2, <1>3

\* host_uid() and _is_root(): for every operator, environment and contents of the
\* three files, the hook and the agent agree with the operator's own process.
THEOREM ProcessesAgree == LibrarySpec => []NestedProcessesAgree
  <1>1. Asked => NestedProcessesAgree
    <2> SUFFICES ASSUME NEW uid \in Uids, NEW env, NEW files
                 PROVE  LET Of(place) == In(place, env, files)
                            own == Of(Operator(uid))
                        IN /\ HostUid(Of(Hook(uid))) = uid /\ HostUid(own) = uid
                           /\ \A p \in {Of(Hook(uid)), Of(Agent(uid))} : Directories(p) = Directories(own)
                           /\ {StateDir(own), ConfigDir(own), RuntimeDir(own)} \intersect RootOnly = {}
                           /\ "CONFIG_DIR" \notin env => ConfigDir(Of(Root)) \in RootOnly
                           /\ "RUNTIME_DIR" \notin env => RuntimeDir(Of(Root)) \in RootOnly
      BY DEF NestedProcessesAgree
    <2> DEFINE Of(place) == In(place, env, files)
               own == Of(Operator(uid))
               hook == Of(Hook(uid))
               agent == Of(Agent(uid))
               root == Of(Root)
    <2>1. uid \in Nat \ {0} /\ UidMax \in Nat
      BY UidsAssumption, UidMaxAssumption
    <2>2. ~IsRoot(own) /\ ~IsRoot(hook) /\ ~IsRoot(agent) /\ IsRoot(root)
      BY <2>1, NobodyIsRoot
    <2>3. HostUid(hook) = uid
      <3>1. hook.euid = 0 /\ hook.uidMap = <<<<0, uid, 1>>, <<1, 100, 50>>>>
        BY DEF In, Hook
      <3> HIDE DEF hook
      <3>2. DOMAIN hook.uidMap = {1, 2} /\ hook.uidMap[1] = <<0, uid, 1>> /\ hook.uidMap[2] = <<1, 100, 50>>
        BY <3>1
      <3>3. Covers(hook.uidMap[1], hook.euid) /\ ~Covers(hook.uidMap[2], hook.euid)
        BY <3>1, <3>2 DEF Covers
      <3>4. HostUid(hook) = hook.uidMap[1][2] + (hook.euid - hook.uidMap[1][1])
        BY <3>2, <3>3, HostUidIs
      <3>5. QED
        BY <2>1, <3>1, <3>2, <3>4
    <2>4. HostUid(own) = uid
      <3>1. own.euid = uid /\ own.uidMap = <<<<0, 0, UidMax>>>>
        BY DEF In, Operator
      <3> HIDE DEF own
      <3>2. DOMAIN own.uidMap = {1} /\ own.uidMap[1] = <<0, 0, UidMax>>
        BY <3>1
      <3>3. Covers(own.uidMap[1], own.euid) <=> uid < UidMax
        BY <2>1, <3>1, <3>2 DEF Covers
      <3>4. CASE uid < UidMax
        <4>1. HostUid(own) = own.uidMap[1][2] + (own.euid - own.uidMap[1][1])
          BY <3>2, <3>3, <3>4, HostUidIs
        <4>2. QED
          BY <2>1, <3>1, <3>2, <4>1
      <3>5. CASE ~(uid < UidMax)
        BY <3>1, <3>2, <3>3, <3>5 DEF HostUid
      <3>6. QED
        BY <3>4, <3>5
    <2>5. Directories(hook) = Directories(own) /\ Directories(agent) = Directories(own)
      BY <2>2, PlaceCountsOnce
    <2>6. {StateDir(own), ConfigDir(own), RuntimeDir(own)} \intersect RootOnly = {}
      BY <2>2, NothingOfRoots
    <2>7. /\ "CONFIG_DIR" \notin env => ConfigDir(root) \in RootOnly
          /\ "RUNTIME_DIR" \notin env => RuntimeDir(root) \in RootOnly
      <3>1. root.env = env
        BY DEF In
      <3> HIDE DEF root
      <3>2. IsRoot(root)
        BY <2>2 DEF root
      <3>3. QED
        BY <3>1, <3>2 DEF ConfigDir, RuntimeDir, RootOnly, Set
    <2>8. QED
      BY <2>3, <2>4, <2>5, <2>6, <2>7
  <1>2. LibrarySpec => []Asked
    BY AskedForever
  <1>3. QED
    BY <1>1, <1>2, PTL

-----------------------------------------------------------------------------
(* The recursive functions of ConfigStack exist                            *)

\* The pairs of mappings n levels deep.
IsPairs(f, base, override, n) ==
  f = [i \in 0..n |->
         IF i = 0 THEN {<<base, override>>} ELSE UNION {Inner(p) : p \in f[i - 1]}]

LEMMA PairsExists ==
  ASSUME NEW base, NEW override, NEW n \in Nat
  PROVE  \E f : IsPairs(f, base, override, n)
  <1> DEFINE At(i, before) ==
               IF i = 0 THEN {<<base, override>>} ELSE UNION {Inner(p) : p \in before}
             T == {m \in Nat : \E f : IsPairs(f, base, override, m)}
  <1>1. \A f, m : IsPairs(f, base, override, m) <=> f = [i \in 0..m |-> At(i, f[i - 1])]
    BY DEF IsPairs
  <1>2. \A x, y : At(0, x) = At(0, y)
    OBVIOUS
  <1> HIDE DEF At
  <1>3. 0 \in T
    <2> DEFINE g == [i \in 0..0 |-> At(0, <<>>)]
    <2>1. g = [i \in 0..0 |-> At(i, g[i - 1])]
      BY <1>2
    <2>2. QED
      BY <2>1, <1>1
  <1>4. ASSUME NEW m \in T
        PROVE  m + 1 \in T
    <2>1. PICK f : IsPairs(f, base, override, m)
      OBVIOUS
    <2> DEFINE g == [i \in 0..(m + 1) |-> IF i = m + 1 THEN At(m + 1, f[m]) ELSE f[i]]
    <2>2. f = [i \in 0..m |-> At(i, f[i - 1])]
      BY <2>1, <1>1
    <2>3. \A i \in 0..m : f[i] = At(i, f[i - 1])
      BY <2>2
    <2>4. \A i \in 0..(m + 1) : g[i] = At(i, g[i - 1])
      BY <2>3, <1>2
    <2>5. g = [i \in 0..(m + 1) |-> g[i]]
      OBVIOUS
    <2> HIDE DEF g
    <2>6. g = [i \in 0..(m + 1) |-> At(i, g[i - 1])]
      BY <2>4, <2>5
    <2>7. IsPairs(g, base, override, m + 1)
      BY <2>6, <1>1
    <2>8. QED
      BY <2>7
  <1>5. T = Nat
    <2> HIDE DEF T
    <2>1. T \in SUBSET Nat
      BY DEF T
    <2>2. QED
      BY <1>3, <1>4, <2>1, Inductive
  <1>6. QED
    BY <1>5

\* What comes of them, from the innermost outwards.
IsMerged(f, pairs, n) ==
  f = [i \in 0..n |->
         [p \in pairs[MaxNesting - i] |-> MergeLevel(p[1], p[2], IF i = 0 THEN <<>> ELSE f[i - 1])]]

LEMMA MergedExists ==
  ASSUME NEW pairs, NEW n \in Nat
  PROVE  \E f : IsMerged(f, pairs, n)
  <1> DEFINE At(i, before) ==
               [p \in pairs[MaxNesting - i] |-> MergeLevel(p[1], p[2], IF i = 0 THEN <<>> ELSE before)]
             T == {m \in Nat : \E f : IsMerged(f, pairs, m)}
  <1>1. \A f, m : IsMerged(f, pairs, m) <=> f = [i \in 0..m |-> At(i, f[i - 1])]
    BY DEF IsMerged
  <1>2. \A x, y : At(0, x) = At(0, y)
    OBVIOUS
  <1> HIDE DEF At
  <1>3. 0 \in T
    <2> DEFINE g == [i \in 0..0 |-> At(0, <<>>)]
    <2>1. g = [i \in 0..0 |-> At(i, g[i - 1])]
      BY <1>2
    <2>2. QED
      BY <2>1, <1>1
  <1>4. ASSUME NEW m \in T
        PROVE  m + 1 \in T
    <2>1. PICK f : IsMerged(f, pairs, m)
      OBVIOUS
    <2> DEFINE g == [i \in 0..(m + 1) |-> IF i = m + 1 THEN At(m + 1, f[m]) ELSE f[i]]
    <2>2. f = [i \in 0..m |-> At(i, f[i - 1])]
      BY <2>1, <1>1
    <2>3. \A i \in 0..m : f[i] = At(i, f[i - 1])
      BY <2>2
    <2>4. \A i \in 0..(m + 1) : g[i] = At(i, g[i - 1])
      BY <2>3, <1>2
    <2>5. g = [i \in 0..(m + 1) |-> g[i]]
      OBVIOUS
    <2> HIDE DEF g
    <2>6. g = [i \in 0..(m + 1) |-> At(i, g[i - 1])]
      BY <2>4, <2>5
    <2>7. IsMerged(g, pairs, m + 1)
      BY <2>6, <1>1
    <2>8. QED
      BY <2>7
  <1>5. T = Nat
    <2> HIDE DEF T
    <2>1. T \in SUBSET Nat
      BY DEF T
    <2>2. QED
      BY <1>3, <1>4, <2>1, Inductive
  <1>6. QED
    BY <1>5

\* What resolve has after n layers.
IsResult(f, stack, n) ==
  f = [i \in 0..n |->
         IF i = 0 THEN Nothing ELSE DeepMerge(f[i - 1], stack[i])]

LEMMA ResultExists ==
  ASSUME NEW stack, NEW n \in Nat
  PROVE  \E f : IsResult(f, stack, n)
  <1> DEFINE At(i, before) ==
               IF i = 0 THEN Nothing ELSE DeepMerge(before, stack[i])
             T == {m \in Nat : \E f : IsResult(f, stack, m)}
  <1>1. \A f, m : IsResult(f, stack, m) <=> f = [i \in 0..m |-> At(i, f[i - 1])]
    BY DEF IsResult
  <1>2. \A x, y : At(0, x) = At(0, y)
    OBVIOUS
  <1> HIDE DEF At
  <1>3. 0 \in T
    <2> DEFINE g == [i \in 0..0 |-> At(0, <<>>)]
    <2>1. g = [i \in 0..0 |-> At(i, g[i - 1])]
      BY <1>2
    <2>2. QED
      BY <2>1, <1>1
  <1>4. ASSUME NEW m \in T
        PROVE  m + 1 \in T
    <2>1. PICK f : IsResult(f, stack, m)
      OBVIOUS
    <2> DEFINE g == [i \in 0..(m + 1) |-> IF i = m + 1 THEN At(m + 1, f[m]) ELSE f[i]]
    <2>2. f = [i \in 0..m |-> At(i, f[i - 1])]
      BY <2>1, <1>1
    <2>3. \A i \in 0..m : f[i] = At(i, f[i - 1])
      BY <2>2
    <2>4. \A i \in 0..(m + 1) : g[i] = At(i, g[i - 1])
      BY <2>3, <1>2
    <2>5. g = [i \in 0..(m + 1) |-> g[i]]
      OBVIOUS
    <2> HIDE DEF g
    <2>6. g = [i \in 0..(m + 1) |-> At(i, g[i - 1])]
      BY <2>4, <2>5
    <2>7. IsResult(g, stack, m + 1)
      BY <2>6, <1>1
    <2>8. QED
      BY <2>7
  <1>5. T = Nat
    <2> HIDE DEF T
    <2>1. T \in SUBSET Nat
      BY DEF T
    <2>2. QED
      BY <1>3, <1>4, <2>1, Inductive
  <1>6. QED
    BY <1>5

\* What resolve_section has after n layers.
IsWrapper(f, stack, key, n) ==
  f = [i \in 0..n |->
         IF i = 0 THEN Nothing
         ELSE IF key \in DOMAIN stack[i] THEN DeepMerge(f[i - 1], [k \in {key} |-> stack[i][key]]) ELSE f[i - 1]]

LEMMA WrapperExists ==
  ASSUME NEW stack, NEW key, NEW n \in Nat
  PROVE  \E f : IsWrapper(f, stack, key, n)
  <1> DEFINE At(i, before) ==
               IF i = 0 THEN Nothing
               ELSE IF key \in DOMAIN stack[i] THEN DeepMerge(before, [k \in {key} |-> stack[i][key]]) ELSE before
             T == {m \in Nat : \E f : IsWrapper(f, stack, key, m)}
  <1>1. \A f, m : IsWrapper(f, stack, key, m) <=> f = [i \in 0..m |-> At(i, f[i - 1])]
    BY DEF IsWrapper
  <1>2. \A x, y : At(0, x) = At(0, y)
    OBVIOUS
  <1> HIDE DEF At
  <1>3. 0 \in T
    <2> DEFINE g == [i \in 0..0 |-> At(0, <<>>)]
    <2>1. g = [i \in 0..0 |-> At(i, g[i - 1])]
      BY <1>2
    <2>2. QED
      BY <2>1, <1>1
  <1>4. ASSUME NEW m \in T
        PROVE  m + 1 \in T
    <2>1. PICK f : IsWrapper(f, stack, key, m)
      OBVIOUS
    <2> DEFINE g == [i \in 0..(m + 1) |-> IF i = m + 1 THEN At(m + 1, f[m]) ELSE f[i]]
    <2>2. f = [i \in 0..m |-> At(i, f[i - 1])]
      BY <2>1, <1>1
    <2>3. \A i \in 0..m : f[i] = At(i, f[i - 1])
      BY <2>2
    <2>4. \A i \in 0..(m + 1) : g[i] = At(i, g[i - 1])
      BY <2>3, <1>2
    <2>5. g = [i \in 0..(m + 1) |-> g[i]]
      OBVIOUS
    <2> HIDE DEF g
    <2>6. g = [i \in 0..(m + 1) |-> At(i, g[i - 1])]
      BY <2>4, <2>5
    <2>7. IsWrapper(g, stack, key, m + 1)
      BY <2>6, <1>1
    <2>8. QED
      BY <2>7
  <1>5. T = Nat
    <2> HIDE DEF T
    <2>1. T \in SUBSET Nat
      BY DEF T
    <2>2. QED
      BY <1>3, <1>4, <2>1, Inductive
  <1>6. QED
    BY <1>5

\* The word on a key after n layers.
IsWord(f, stack, section, key, n) ==
  f = [i \in 0..n |->
         IF i = 0 \/ Resets(stack[i], section) THEN Null
         ELSE IF Says(stack[i], section, key) THEN Spliced(f[i - 1], stack[i][section].of[key]) ELSE f[i - 1]]

LEMMA WordExists ==
  ASSUME NEW stack, NEW section, NEW key, NEW n \in Nat
  PROVE  \E f : IsWord(f, stack, section, key, n)
  <1> DEFINE At(i, before) ==
               IF i = 0 \/ Resets(stack[i], section) THEN Null
               ELSE IF Says(stack[i], section, key) THEN Spliced(before, stack[i][section].of[key]) ELSE before
             T == {m \in Nat : \E f : IsWord(f, stack, section, key, m)}
  <1>1. \A f, m : IsWord(f, stack, section, key, m) <=> f = [i \in 0..m |-> At(i, f[i - 1])]
    BY DEF IsWord
  <1>2. \A x, y : At(0, x) = At(0, y)
    OBVIOUS
  <1> HIDE DEF At
  <1>3. 0 \in T
    <2> DEFINE g == [i \in 0..0 |-> At(0, <<>>)]
    <2>1. g = [i \in 0..0 |-> At(i, g[i - 1])]
      BY <1>2
    <2>2. QED
      BY <2>1, <1>1
  <1>4. ASSUME NEW m \in T
        PROVE  m + 1 \in T
    <2>1. PICK f : IsWord(f, stack, section, key, m)
      OBVIOUS
    <2> DEFINE g == [i \in 0..(m + 1) |-> IF i = m + 1 THEN At(m + 1, f[m]) ELSE f[i]]
    <2>2. f = [i \in 0..m |-> At(i, f[i - 1])]
      BY <2>1, <1>1
    <2>3. \A i \in 0..m : f[i] = At(i, f[i - 1])
      BY <2>2
    <2>4. \A i \in 0..(m + 1) : g[i] = At(i, g[i - 1])
      BY <2>3, <1>2
    <2>5. g = [i \in 0..(m + 1) |-> g[i]]
      OBVIOUS
    <2> HIDE DEF g
    <2>6. g = [i \in 0..(m + 1) |-> At(i, g[i - 1])]
      BY <2>4, <2>5
    <2>7. IsWord(g, stack, section, key, m + 1)
      BY <2>6, <1>1
    <2>8. QED
      BY <2>7
  <1>5. T = Nat
    <2> HIDE DEF T
    <2>1. T \in SUBSET Nat
      BY DEF T
    <2>2. QED
      BY <1>3, <1>4, <2>1, Inductive
  <1>6. QED
    BY <1>5

-----------------------------------------------------------------------------
(* Merging one level                                                       *)

LEMMA Kinds ==
  /\ ~IsDict(Null) /\ ~IsList(Null) /\ ~IsDict(Inherit) /\ Null # Inherit
  /\ \A f : IsDict(Dict(f)) /\ Dict(f).of = f
  /\ \A s : IsList(List(s)) /\ List(s).items = s /\ ~IsDict(List(s)) /\ List(s) # Null
  BY DEF IsDict, IsList, Null, Inherit, Dict, List

Value(map, key) == IF key \in DOMAIN map THEN map[key] ELSE Null

\* A merged mapping at one key.
LEMMA LevelAt ==
  ASSUME NEW base, NEW override, NEW below, NEW k
  PROVE  LET merged == MergeLevel(base, override, below)
         IN /\ k \in DOMAIN merged <=>
                 /\ k \in DOMAIN base \/ k \in DOMAIN override
                 /\ k \in DOMAIN override =>
                      override[k] # Null /\ (override[k] = Inherit => k \in DOMAIN base)
            /\ k \in DOMAIN merged =>
                 merged[k] = IF k \notin DOMAIN override \/ override[k] = Inherit THEN base[k]
                             ELSE MergeValue(Value(base, k), override[k], below)
  BY DEF MergeLevel, Remaining, Value

LEMMA LevelIsMapping ==
  \A base, override, below : IsMapping(MergeLevel(base, override, below))
  BY DEF IsMapping, MergeLevel

LEMMA ValueOfMappings ==
  ASSUME NEW bv, NEW ov, NEW below, IsDict(bv), IsDict(ov)
  PROVE  MergeValue(bv, ov, below) = Dict(below[<<bv.of, Cleaned(ov.of)>>])
  <1>1. ~(IsList(ov) /\ IsList(bv))
    BY DEF IsDict, IsList
  <1>2. QED
    BY <1>1 DEF MergeValue

\* Two merges of what is the same at a key are the same there.
LEMMA LevelsAgree ==
  ASSUME NEW b, NEW o, NEW x, NEW c, NEW u, NEW y, NEW k,
         k \in DOMAIN b <=> k \in DOMAIN c, k \in DOMAIN b => b[k] = c[k],
         k \in DOMAIN o <=> k \in DOMAIN u, k \in DOMAIN o => o[k] = u[k],
         \A q \in Inner(<<b, o>>) \intersect Inner(<<c, u>>) : x[q] = y[q]
  PROVE  /\ k \in DOMAIN MergeLevel(b, o, x) <=> k \in DOMAIN MergeLevel(c, u, y)
         /\ k \in DOMAIN MergeLevel(b, o, x) => MergeLevel(b, o, x)[k] = MergeLevel(c, u, y)[k]
  <1> DEFINE M == MergeLevel(b, o, x)
             N == MergeLevel(c, u, y)
  <1>1. Value(b, k) = Value(c, k)
    BY DEF Value
  <1>2. ASSUME k \in DOMAIN o
        PROVE  MergeValue(Value(b, k), o[k], x) = MergeValue(Value(c, k), u[k], y)
    <2> DEFINE bv == Value(b, k)
               ov == o[k]
               q == <<bv.of, Cleaned(ov.of)>>
    <2>1. CASE IsDict(ov) /\ IsDict(bv)
      <3>1. k \in DOMAIN b /\ bv = b[k]
        BY <2>1, Kinds DEF Value
      <3>2. q \in Inner(<<b, o>>) /\ q \in Inner(<<c, u>>)
        <4>1. k \in DOMAIN c /\ k \in DOMAIN u /\ c[k] = bv /\ u[k] = ov
          BY <1>2, <3>1
        <4> HIDE DEF bv, ov
        <4>2. QED
          BY <1>2, <2>1, <3>1, <4>1 DEF Inner, ov
      <3>3. x[q] = y[q]
        BY <3>2
      <3>4. Value(c, k) = bv /\ u[k] = ov
        BY <1>1, <1>2
      <3>5. MergeValue(bv, ov, x) = Dict(x[q]) /\ MergeValue(bv, ov, y) = Dict(y[q])
        BY ValueOfMappings, <2>1
      <3>6. QED
        BY <3>3, <3>4, <3>5
    <2>2. CASE ~(IsDict(ov) /\ IsDict(bv))
      BY <1>1, <1>2, <2>2 DEF MergeValue
    <2>3. QED
      BY <2>1, <2>2
  <1>3. /\ k \in DOMAIN M <=>
             /\ k \in DOMAIN b \/ k \in DOMAIN o
             /\ k \in DOMAIN o => o[k] # Null /\ (o[k] = Inherit => k \in DOMAIN b)
        /\ k \in DOMAIN M =>
             M[k] = IF k \notin DOMAIN o \/ o[k] = Inherit THEN b[k]
                    ELSE MergeValue(Value(b, k), o[k], x)
    BY LevelAt
  <1>4. /\ k \in DOMAIN N <=>
             /\ k \in DOMAIN c \/ k \in DOMAIN u
             /\ k \in DOMAIN u => u[k] # Null /\ (u[k] = Inherit => k \in DOMAIN c)
        /\ k \in DOMAIN N =>
             N[k] = IF k \notin DOMAIN u \/ u[k] = Inherit THEN c[k]
                    ELSE MergeValue(Value(c, k), u[k], y)
    BY LevelAt
  <1> HIDE DEF M, N
  <1>5. (k \in DOMAIN M <=> k \in DOMAIN N) /\ (k \in DOMAIN M => M[k] = N[k])
    BY <1>2, <1>3, <1>4
  <1>6. QED
    BY <1>5 DEF M, N

\* What deep_merge calls itself for is all that a level needs from below.
LEMMA LevelsAreSame ==
  ASSUME NEW p, NEW x, NEW y, \A q \in Inner(p) : x[q] = y[q]
  PROVE  MergeLevel(p[1], p[2], x) = MergeLevel(p[1], p[2], y)
  <1> DEFINE b == p[1]
             o == p[2]
             M == MergeLevel(b, o, x)
             N == MergeLevel(b, o, y)
  <1>1. Inner(<<b, o>>) = Inner(p)
    BY DEF Inner
  <1>2. IsMapping(M) /\ IsMapping(N)
    BY LevelIsMapping
  <1> HIDE DEF b, o
  <1>3. \A k : (k \in DOMAIN M <=> k \in DOMAIN N) /\ (k \in DOMAIN M => M[k] = N[k])
    BY <1>1, LevelsAgree
  <1> HIDE DEF M, N
  <1>4. M = N
    <2>1. DOMAIN M = DOMAIN N
      BY <1>3
    <2>2. [k \in DOMAIN M |-> M[k]] = [k \in DOMAIN N |-> N[k]]
      BY <1>3, <2>1
    <2>3. QED
      BY <1>2, <2>2 DEF IsMapping
  <1>5. QED
    BY <1>4 DEF M, N, b, o

-----------------------------------------------------------------------------
(* deep_merge                                                              *)

\* deep_merge is its loop, and below it is deep_merge once more; what two calls merge
\* below is the same where they call it for the same.
LEMMA DeepMergesAre ==
  ASSUME NEW b, NEW o, NEW c, NEW u
  PROVE  \E x, y :
           /\ DeepMerge(b, o) = MergeLevel(b, o, x)
           /\ DeepMerge(c, u) = MergeLevel(c, u, y)
           /\ \A q \in Inner(<<b, o>>) \intersect Inner(<<c, u>>) : x[q] = y[q]
           /\ \A q \in Inner(<<b, o>>) : \E z : x[q] = MergeLevel(q[1], q[2], z)
  <1> DEFINE m == MaxNesting
             pairs(base, override) == CHOOSE f : IsPairs(f, base, override, m)
             merged(base, override) == CHOOSE f : IsMerged(f, pairs(base, override), m)
             f == pairs(b, o)
             g == pairs(c, u)
             F == merged(b, o)
             G == merged(c, u)
  <1>1. m \in Nat /\ m # 0 /\ m - 1 \in Nat
    BY MaxNestingAssumption
  <1>2. \A base, override : DeepMerge(base, override) = merged(base, override)[m][<<base, override>>]
    BY DEF DeepMerge, IsPairs, IsMerged
  <1> HIDE DEF m
  <1>3. IsPairs(f, b, o, m) /\ IsPairs(g, c, u, m)
    BY <1>1, PairsExists
  <1>4. IsMerged(F, f, m) /\ IsMerged(G, g, m)
    BY <1>1, MergedExists
  <1>5. DeepMerge(b, o) = F[m][<<b, o>>] /\ DeepMerge(c, u) = G[m][<<c, u>>]
    BY <1>2
  <1> HIDE DEF f, g, F, G
  <1>6. ASSUME NEW h, NEW base, NEW override, IsPairs(h, base, override, m)
        PROVE  h[0] = {<<base, override>>} /\ \A i \in 0..m : i # 0 => h[i] = UNION {Inner(p) : p \in h[i - 1]}
    <2>1. h = [i \in 0..m |-> IF i = 0 THEN {<<base, override>>} ELSE UNION {Inner(p) : p \in h[i - 1]}]
      BY <1>6 DEF IsPairs
    <2>2. 0 \in 0..m
      BY <1>1
    <2>3. QED
      BY <2>1, <2>2
  <1>7. ASSUME NEW H, NEW h, IsMerged(H, h, m)
        PROVE  \A i \in 0..m : \A p \in h[m - i] :
                 H[i][p] = MergeLevel(p[1], p[2], IF i = 0 THEN <<>> ELSE H[i - 1])
    <2> DEFINE At(i, before) == [p \in h[m - i] |-> MergeLevel(p[1], p[2], IF i = 0 THEN <<>> ELSE before)]
    <2>1. H = [i \in 0..m |-> At(i, H[i - 1])]
      BY <1>7 DEF IsMerged, m
    <2>2. \A i \in 0..m : H[i] = At(i, H[i - 1])
      <3> HIDE DEF At
      <3>1. QED
        BY <2>1
    <2>3. QED
      BY <2>2
  <1>a. /\ f[0] = {<<b, o>>} /\ \A i \in 0..m : i # 0 => f[i] = UNION {Inner(p) : p \in f[i - 1]}
        /\ g[0] = {<<c, u>>} /\ \A i \in 0..m : i # 0 => g[i] = UNION {Inner(p) : p \in g[i - 1]}
    BY <1>3, <1>6
  <1>b. /\ \A i \in 0..m : \A p \in f[m - i] :
             F[i][p] = MergeLevel(p[1], p[2], IF i = 0 THEN <<>> ELSE F[i - 1])
        /\ \A i \in 0..m : \A p \in g[m - i] :
             G[i][p] = MergeLevel(p[1], p[2], IF i = 0 THEN <<>> ELSE G[i - 1])
    BY <1>4, <1>7
  <1> DEFINE T == {i \in Nat : i <= m => \A p \in f[m - i] \intersect g[m - i] : F[i][p] = G[i][p]}
  <1>8. 0 \in T
    <2>1. 0 \in 0..m
      BY <1>1
    <2>2. QED
      BY <1>b, <2>1
  <1>9. ASSUME NEW i \in T
        PROVE  i + 1 \in T
    <2> SUFFICES ASSUME i + 1 <= m, NEW p \in f[m - (i + 1)] \intersect g[m - (i + 1)]
                 PROVE  F[i + 1][p] = G[i + 1][p]
      OBVIOUS
    <2> DEFINE j == m - i
    <2>1. i \in Nat /\ i <= m /\ i + 1 \in 0..m /\ i + 1 # 0 /\ (i + 1) - 1 = i
      BY <1>1
    <2>2. j \in 0..m /\ j # 0 /\ j - 1 = m - (i + 1)
      BY <1>1, <2>1
    <2>3. Inner(p) \subseteq f[j] /\ Inner(p) \subseteq g[j]
      BY <1>a, <2>2
    <2>4. \A q \in Inner(p) : F[i][q] = G[i][q]
      BY <2>1, <2>3
    <2>5. MergeLevel(p[1], p[2], F[i]) = MergeLevel(p[1], p[2], G[i])
      BY <2>4, LevelsAreSame
    <2>6. F[i + 1][p] = MergeLevel(p[1], p[2], F[i]) /\ G[i + 1][p] = MergeLevel(p[1], p[2], G[i])
      BY <1>b, <2>1
    <2>7. QED
      BY <2>5, <2>6
  <1>10. T = Nat
    <2>1. T \in SUBSET Nat
      OBVIOUS
    <2> HIDE DEF T
    <2>2. QED
      BY <1>8, <1>9, <2>1, Inductive
  <1>11. DeepMerge(b, o) = MergeLevel(b, o, F[m - 1]) /\ DeepMerge(c, u) = MergeLevel(c, u, G[m - 1])
    <2>1. m \in 0..m /\ m - m = 0
      BY <1>1
    <2>2. <<b, o>> \in f[m - m] /\ <<c, u>> \in g[m - m]
      BY <1>a, <2>1
    <2>3. /\ F[m][<<b, o>>] = MergeLevel(<<b, o>>[1], <<b, o>>[2], F[m - 1])
          /\ G[m][<<c, u>>] = MergeLevel(<<c, u>>[1], <<c, u>>[2], G[m - 1])
      BY <1>1, <1>b, <2>1, <2>2
    <2>4. QED
      BY <1>5, <2>3
  <1>12. m - (m - 1) = 1 /\ 1 \in 0..m /\ m - 1 \in 0..m
    BY <1>1
  <1>13. Inner(<<b, o>>) \subseteq f[1] /\ Inner(<<c, u>>) \subseteq g[1]
    BY <1>a, <1>12
  <1>14. \A q \in Inner(<<b, o>>) \intersect Inner(<<c, u>>) : F[m - 1][q] = G[m - 1][q]
    <2>1. m - 1 \in T
      BY <1>1, <1>10
    <2>2. m - 1 <= m
      BY <1>1
    <2>3. QED
      BY <1>12, <1>13, <2>1, <2>2
  <1>15. \A q \in Inner(<<b, o>>) : \E z : F[m - 1][q] = MergeLevel(q[1], q[2], z)
    BY <1>b, <1>12, <1>13
  <1>16. QED
    BY <1>11, <1>14, <1>15

-----------------------------------------------------------------------------
(* resolve and resolve_section, layer by layer                             *)

Wrapped(stack, key) == CHOOSE f : IsWrapper(f, stack, key, Len(stack))
Worded(stack, section, key) == CHOOSE f : IsWord(f, stack, section, key, Len(stack))
Configured(stack) == CHOOSE f : IsResult(f, stack, Len(stack))

LEMMA ResolveIs ==
  ASSUME NEW stack, Len(stack) \in Nat
  PROVE  /\ Resolve(stack) = Configured(stack)[Len(stack)]
         /\ Configured(stack)[0] = Nothing
         /\ \A i \in 0..Len(stack) : i # 0 => Configured(stack)[i] = DeepMerge(Configured(stack)[i - 1], stack[i])
  <1> DEFINE n == Len(stack)
             f == Configured(stack)
  <1>1. Resolve(stack) = f[n]
    BY DEF Resolve, Configured, IsResult
  <1>2. IsResult(f, stack, n)
    BY ResultExists DEF Configured
  <1> HIDE DEF n, f
  <1>3. f = [i \in 0..n |-> IF i = 0 THEN Nothing ELSE DeepMerge(f[i - 1], stack[i])]
    BY <1>2 DEF IsResult
  <1>4. n \in Nat /\ 0 \in 0..n
    BY DEF n
  <1>5. f[0] = Nothing /\ \A i \in 0..n : i # 0 => f[i] = DeepMerge(f[i - 1], stack[i])
    BY <1>3, <1>4
  <1>6. QED
    BY <1>1, <1>5 DEF n, f

LEMMA SectionIs ==
  ASSUME NEW stack, NEW key, Len(stack) \in Nat
  PROVE  /\ ResolveSection(stack, key) = AsSection(Wrapped(stack, key)[Len(stack)], key)
         /\ Wrapped(stack, key)[0] = Nothing
         /\ \A i \in 0..Len(stack) : i # 0 =>
              Wrapped(stack, key)[i] =
                IF key \in DOMAIN stack[i]
                THEN DeepMerge(Wrapped(stack, key)[i - 1], [k \in {key} |-> stack[i][key]])
                ELSE Wrapped(stack, key)[i - 1]
  <1> DEFINE n == Len(stack)
             f == Wrapped(stack, key)
             At(i, before) == IF key \in DOMAIN stack[i]
                              THEN DeepMerge(before, [k \in {key} |-> stack[i][key]]) ELSE before
  <1>1. ResolveSection(stack, key) = AsSection(f[n], key)
    BY DEF ResolveSection, Wrapped, IsWrapper
  <1>2. IsWrapper(f, stack, key, n)
    BY WrapperExists DEF Wrapped
  <1> HIDE DEF n, f
  <1>3. f = [i \in 0..n |-> IF i = 0 THEN Nothing ELSE At(i, f[i - 1])]
    BY <1>2 DEF IsWrapper
  <1>4. n \in Nat /\ 0 \in 0..n
    BY DEF n
  <1>5. f[0] = Nothing /\ \A i \in 0..n : i # 0 => f[i] = At(i, f[i - 1])
    <2> HIDE DEF At
    <2>1. QED
      BY <1>3, <1>4
  <1>6. QED
    BY <1>1, <1>5 DEF n, f

LEMMA WordIs ==
  ASSUME NEW stack, NEW section, NEW key, Len(stack) \in Nat
  PROVE  /\ Word(stack, section, key) = Worded(stack, section, key)[Len(stack)]
         /\ Worded(stack, section, key)[0] = Null
         /\ \A i \in 0..Len(stack) : i # 0 =>
              Worded(stack, section, key)[i] =
                IF Resets(stack[i], section) THEN Null
                ELSE IF Says(stack[i], section, key)
                THEN Spliced(Worded(stack, section, key)[i - 1], stack[i][section].of[key])
                ELSE Worded(stack, section, key)[i - 1]
  <1> DEFINE n == Len(stack)
             f == Worded(stack, section, key)
             At(i, before) == IF Resets(stack[i], section) THEN Null
                              ELSE IF Says(stack[i], section, key)
                              THEN Spliced(before, stack[i][section].of[key]) ELSE before
  <1>1. Word(stack, section, key) = f[n]
    BY DEF Word, Worded, IsWord
  <1>2. IsWord(f, stack, section, key, n)
    BY WordExists DEF Worded
  <1> HIDE DEF n, f
  <1>3. f = [i \in 0..n |-> IF i = 0 THEN Null ELSE At(i, f[i - 1])]
    BY <1>2 DEF IsWord
  <1>4. n \in Nat /\ 0 \in 0..n
    BY DEF n
  <1>5. f[0] = Null /\ \A i \in 0..n : i # 0 => f[i] = At(i, f[i - 1])
    <2> HIDE DEF At
    <2>1. QED
      BY <1>3, <1>4
  <1>6. QED
    BY <1>1, <1>5 DEF n, f

\* A section is the same alone or in the whole configuration: nothing that the layers
\* have beside it counts for it.
LEMMA SectionIsItsOwn ==
  ASSUME NEW stack, NEW key, Len(stack) \in Nat
  PROVE  ResolveSection(stack, key) = AsSection(Resolve(stack), key)
  <1> DEFINE n == Len(stack)
             w == Wrapped(stack, key)
             r == Configured(stack)
             Same(i) == /\ key \in DOMAIN w[i] <=> key \in DOMAIN r[i]
                        /\ key \in DOMAIN w[i] => w[i][key] = r[i][key]
             T == {i \in Nat : i <= n => Same(i)}
  <1>1. /\ n \in Nat
        /\ w[0] = Nothing /\ r[0] = Nothing
        /\ ResolveSection(stack, key) = AsSection(w[n], key) /\ Resolve(stack) = r[n]
        /\ \A i \in 0..n : i # 0 => r[i] = DeepMerge(r[i - 1], stack[i])
        /\ \A i \in 0..n : i # 0 =>
             w[i] = IF key \in DOMAIN stack[i] THEN DeepMerge(w[i - 1], [k \in {key} |-> stack[i][key]])
                    ELSE w[i - 1]
    BY ResolveIs, SectionIs
  <1> HIDE DEF n, w, r
  <1>2. 0 \in T
    BY <1>1
  <1>3. ASSUME NEW i \in T
        PROVE  i + 1 \in T
    <2> SUFFICES ASSUME i + 1 <= n PROVE Same(i + 1)
      OBVIOUS
    <2> DEFINE a == r[i]
               v == w[i]
               o == stack[i + 1]
               u == [k \in {key} |-> o[key]]
    <2>1. i \in Nat /\ i + 1 \in 0..n /\ i + 1 # 0 /\ (i + 1) - 1 = i /\ i <= n
      BY <1>1
    <2>2. Same(i)
      BY <2>1
    <2>3. r[i + 1] = DeepMerge(a, o) /\ w[i + 1] = IF key \in DOMAIN o THEN DeepMerge(v, u) ELSE v
      BY <1>1, <2>1
    <2>4. (key \in DOMAIN v <=> key \in DOMAIN a) /\ (key \in DOMAIN v => v[key] = a[key])
      BY <2>2
    <2>5. key \in DOMAIN u /\ u[key] = o[key]
      OBVIOUS
    <2>6. PICK x, y : /\ DeepMerge(v, u) = MergeLevel(v, u, x)
                      /\ DeepMerge(a, o) = MergeLevel(a, o, y)
                      /\ \A q \in Inner(<<v, u>>) \intersect Inner(<<a, o>>) : x[q] = y[q]
      BY DeepMergesAre
    <2> HIDE DEF a, v, o, u
    <2>7. CASE key \in DOMAIN o
      <3>1. /\ key \in DOMAIN MergeLevel(v, u, x) <=> key \in DOMAIN MergeLevel(a, o, y)
            /\ key \in DOMAIN MergeLevel(v, u, x) =>
                 MergeLevel(v, u, x)[key] = MergeLevel(a, o, y)[key]
        BY <2>4, <2>5, <2>6, <2>7, LevelsAgree
      <3>2. QED
        BY <2>3, <2>6, <2>7, <3>1
    <2>8. CASE key \notin DOMAIN o
      <3>1. /\ key \in DOMAIN MergeLevel(a, o, y) <=> key \in DOMAIN a
            /\ key \in DOMAIN a => MergeLevel(a, o, y)[key] = a[key]
        BY <2>8, LevelAt
      <3>2. QED
        BY <2>3, <2>4, <2>6, <2>8, <3>1
    <2>9. QED
      BY <2>7, <2>8
  <1>4. T = Nat
    <2>1. T \in SUBSET Nat
      OBVIOUS
    <2> HIDE DEF T
    <2>2. QED
      BY <1>2, <1>3, <2>1, Inductive
  <1>5. Same(n)
    <2>1. n \in T
      BY <1>1, <1>4
    <2>2. QED
      BY <2>1, <1>1
  <1>6. QED
    BY <1>1, <1>5 DEF AsSection

-----------------------------------------------------------------------------
(* The last word                                                           *)

\* The layers that have the section and that none of the first n has put aside since,
\* and whether the lowest of them has a deletion or a sentinel.
Holding(stack, section, n) ==
  {i \in 1..n : Has(stack[i], section) /\ \A j \in i..n : ~Resets(stack[j], section)}
RawAt(stack, section, n) ==
  \E i \in Holding(stack, section, n) :
    /\ \A j \in Holding(stack, section, n) : i <= j
    /\ \E k \in DOMAIN stack[i][section].of : stack[i][section].of[k] \in {Null, Inherit}

\* What is in the section's place has the last word on every key.
Speaks(stack, section, n, of) ==
  /\ IsMapping(of)
  /\ \A k : /\ k \in DOMAIN of <=> Worded(stack, section, k)[n] # Null
            /\ k \in DOMAIN of => of[k] = Worded(stack, section, k)[n] /\ ~IsDict(of[k])

\* After n layers there is a mapping in the section's place if a layer holds it, and it
\* is the last word on every key, unless the lowest such layer is raw.
SectionInv(stack, section, n) ==
  LET place == Wrapped(stack, section)[n]
  IN /\ section \in DOMAIN place /\ IsDict(place[section]) <=> Holding(stack, section, n) # {}
     /\ Holding(stack, section, n) = {} => \A k : Worded(stack, section, k)[n] = Null
     /\ Holding(stack, section, n) # {} /\ ~RawAt(stack, section, n) =>
          Speaks(stack, section, n, place[section].of)

\* A layer that does not put the section aside adds itself, if it has the section.
LEMMA HoldingStep ==
  ASSUME NEW stack, NEW section, NEW n \in Nat
  PROVE  Holding(stack, section, n + 1) =
           IF Resets(stack[n + 1], section) THEN {}
           ELSE IF Has(stack[n + 1], section) THEN Holding(stack, section, n) \union {n + 1}
           ELSE Holding(stack, section, n)
  <1> DEFINE H == Holding(stack, section, n)
             G == Holding(stack, section, n + 1)
  <1>1. \A i \in 1..(n + 1) : n + 1 \in i..(n + 1)
    OBVIOUS
  <1>2. CASE Resets(stack[n + 1], section)
    BY <1>1, <1>2 DEF Holding
  <1>3. CASE ~Resets(stack[n + 1], section)
    <2>1. \A i \in 1..n : i..(n + 1) = (i..n) \union {n + 1}
      OBVIOUS
    <2>2. 1..(n + 1) = (1..n) \union {n + 1} /\ (n + 1)..(n + 1) = {n + 1}
      OBVIOUS
    <2>3. \A i \in 1..n : i \in G <=> i \in H
      BY <1>3, <2>1, <2>2 DEF Holding
    <2>4. n + 1 \in G <=> Has(stack[n + 1], section)
      BY <1>3, <2>2 DEF Holding
    <2>5. G \subseteq 1..(n + 1) /\ H \subseteq 1..n
      BY DEF Holding
    <2> HIDE DEF G, H
    <2>6. G = IF Has(stack[n + 1], section) THEN H \union {n + 1} ELSE H
      <3>1. ASSUME NEW i
            PROVE  i \in G <=> i \in H \/ (i = n + 1 /\ Has(stack[n + 1], section))
        BY <2>2, <2>3, <2>4, <2>5
      <3>2. QED
        BY <3>1
    <2>7. QED
      BY <1>3, <2>6 DEF G, H
  <1>4. QED
    BY <1>2, <1>3

\* A layer on top of others is not the lowest.
LEMMA RawStep ==
  ASSUME NEW stack, NEW section, NEW n \in Nat, ~Resets(stack[n + 1], section),
         Holding(stack, section, n) # {}, RawAt(stack, section, n)
  PROVE  RawAt(stack, section, n + 1)
  <1>1. PICK i \in Holding(stack, section, n) :
          /\ \A j \in Holding(stack, section, n) : i <= j
          /\ \E k \in DOMAIN stack[i][section].of : stack[i][section].of[k] \in {Null, Inherit}
    BY DEF RawAt
  <1>2. i \in 1..n
    BY DEF Holding
  <1>3. /\ Holding(stack, section, n + 1) \subseteq Holding(stack, section, n) \union {n + 1}
        /\ i \in Holding(stack, section, n + 1)
    BY HoldingStep
  <1>4. \A j \in Holding(stack, section, n + 1) : i <= j
    BY <1>1, <1>2, <1>3
  <1>5. QED
    BY <1>1, <1>3, <1>4 DEF RawAt

\* Merged key by key, what speaks for the layers below speaks for one more.
LEMMA SpeaksOn ==
  ASSUME NEW base, NEW of, NEW x, IsMapping(base),
         \A k \in DOMAIN base : ~IsDict(base[k]) /\ base[k] # Null,
         \A k \in DOMAIN of : ~IsDict(of[k]), NEW k
  PROVE  LET merged == MergeLevel(base, Cleaned(of), x)
             word == IF k \in DOMAIN Cleaned(of) /\ of[k] # Inherit
                     THEN Spliced(Value(base, k), of[k]) ELSE Value(base, k)
         IN /\ k \in DOMAIN merged <=> word # Null
            /\ k \in DOMAIN merged => merged[k] = word /\ ~IsDict(merged[k])
  <1> DEFINE o == Cleaned(of)
             bv == Value(base, k)
             merged == MergeLevel(base, o, x)
  <1>1. k \in DOMAIN o => k \in DOMAIN of /\ o[k] = of[k]
    BY DEF Cleaned, Without
  <1>2. (k \in DOMAIN base <=> bv # Null) /\ ~IsDict(bv) /\ (k \in DOMAIN base => bv = base[k])
    BY Kinds DEF Value
  <1>3. /\ k \in DOMAIN merged <=>
             /\ k \in DOMAIN base \/ k \in DOMAIN o
             /\ k \in DOMAIN o => o[k] # Null /\ (o[k] = Inherit => k \in DOMAIN base)
        /\ k \in DOMAIN merged =>
             merged[k] = IF k \notin DOMAIN o \/ o[k] = Inherit THEN base[k] ELSE MergeValue(bv, o[k], x)
    BY LevelAt
  <1> HIDE DEF o, bv, merged
  <1>4. CASE k \notin DOMAIN o \/ o[k] = Inherit
    <2>1. (k \in DOMAIN merged <=> bv # Null) /\ (k \in DOMAIN merged => merged[k] = bv)
      BY <1>2, <1>3, <1>4, Kinds
    <2>2. QED
      BY <1>1, <1>2, <1>4, <2>1 DEF o, bv, merged
  <1>5. CASE k \in DOMAIN o /\ o[k] # Inherit
    <2> DEFINE ov == of[k]
    <2>1. o[k] = ov /\ ~IsDict(ov) /\ ov # Inherit
      BY <1>1, <1>5
    <2> HIDE DEF ov
    <2>2. MergeValue(bv, ov, x) = Spliced(bv, ov) /\ ~IsDict(Spliced(bv, ov))
          /\ (Spliced(bv, ov) = Null <=> ov = Null)
      BY <2>1, Kinds DEF MergeValue, Spliced
    <2>3. (k \in DOMAIN merged <=> ov # Null) /\ (k \in DOMAIN merged => merged[k] = Spliced(bv, ov))
      BY <1>3, <1>5, <2>1, <2>2
    <2>4. QED
      BY <1>1, <1>5, <2>1, <2>2, <2>3 DEF o, bv, merged, ov
  <1>6. QED
    BY <1>4, <1>5

\* One layer more keeps the invariant.
LEMMA SectionStep ==
  ASSUME NEW stack, NEW section, NEW n \in Nat, Len(stack) \in Nat, n + 1 <= Len(stack),
         Flat(stack, section), DOMAIN stack = 1..Len(stack),
         \A i \in DOMAIN stack : Has(stack[i], section) => IsMapping(stack[i][section].of),
         SectionInv(stack, section, n)
  PROVE  SectionInv(stack, section, n + 1)
  <1> DEFINE m == n + 1
             layer == stack[m]
             v == Wrapped(stack, section)[n]
             w == Wrapped(stack, section)[m]
             before(k) == Worded(stack, section, k)[n]
             word(k) == Worded(stack, section, k)[m]
             H == Holding(stack, section, n)
             u == [k \in {section} |-> layer[section]]
             ov == layer[section]
             bv == Value(v, section)
  <1>1. m \in 0..Len(stack) /\ m # 0 /\ m - 1 = n /\ m \in DOMAIN stack
    OBVIOUS
  <1>2. w = IF section \in DOMAIN layer THEN DeepMerge(v, u) ELSE v
    <2>1. \A i \in 0..Len(stack) : i # 0 =>
            Wrapped(stack, section)[i] =
              IF section \in DOMAIN stack[i]
              THEN DeepMerge(Wrapped(stack, section)[i - 1], [k \in {section} |-> stack[i][section]])
              ELSE Wrapped(stack, section)[i - 1]
      BY SectionIs
    <2> HIDE DEF m
    <2>2. QED
      BY <1>1, <2>1
  <1>3. \A k : word(k) = IF Resets(layer, section) THEN Null
                         ELSE IF Says(layer, section, k) THEN Spliced(before(k), layer[section].of[k])
                         ELSE before(k)
    BY <1>1, WordIs
  <1>4. Holding(stack, section, m) =
          IF Resets(layer, section) THEN {} ELSE IF Has(layer, section) THEN H \union {m} ELSE H
    BY HoldingStep
  <1>5. ~Resets(layer, section) /\ H # {} /\ RawAt(stack, section, n) => RawAt(stack, section, m)
    BY RawStep
  <1>6. /\ section \in DOMAIN v /\ IsDict(v[section]) <=> H # {}
        /\ H = {} => \A k : before(k) = Null
        /\ H # {} /\ ~RawAt(stack, section, n) => Speaks(stack, section, n, v[section].of)
    BY DEF SectionInv
  <1>7. /\ section \in DOMAIN u /\ u[section] = ov
        /\ IsDict(bv) <=> H # {}
        /\ section \in DOMAIN v => bv = v[section]
    BY <1>6, Kinds DEF Value
  <1>8. PICK x : /\ DeepMerge(v, u) = MergeLevel(v, u, x)
                 /\ \A q \in Inner(<<v, u>>) : \E z : x[q] = MergeLevel(q[1], q[2], z)
    <2> HIDE DEF v, u
    <2>1. QED
      BY DeepMergesAre
  <1>9. Has(layer, section) => ~Resets(layer, section)
    BY DEF Has, Resets
  <1>10. /\ Has(layer, section) => IsMapping(ov.of)
         /\ Has(layer, section) => \A k \in DOMAIN ov.of : ~IsDict(ov.of[k])
    BY <1>1 DEF Flat
  <1>11. SUFFICES
           /\ section \in DOMAIN w /\ IsDict(w[section]) <=> Holding(stack, section, m) # {}
           /\ Holding(stack, section, m) = {} => \A k : word(k) = Null
           /\ Holding(stack, section, m) # {} /\ ~RawAt(stack, section, m) =>
                Speaks(stack, section, m, w[section].of)
    BY DEF SectionInv
  <1> HIDE DEF m, layer, v, w, H, u, ov, bv
  <1>12. CASE section \notin DOMAIN layer
    <2>1. ~Has(layer, section) /\ ~Resets(layer, section) /\ \A k : ~Says(layer, section, k)
      BY <1>12 DEF Has, Resets, Says
    <2>2. w = v /\ Holding(stack, section, m) = H /\ \A k : word(k) = before(k)
      BY <1>2, <1>3, <1>4, <1>12, <2>1
    <2>3. QED
      BY <1>5, <1>6, <2>1, <2>2 DEF Speaks
  <1>13. CASE section \in DOMAIN layer /\ ov = Inherit
    <2>1. ~Has(layer, section) /\ ~Resets(layer, section) /\ \A k : ~Says(layer, section, k)
      BY <1>13, Kinds DEF Has, Resets, Says, ov
    <2>2. Holding(stack, section, m) = H /\ \A k : word(k) = before(k)
      BY <1>3, <1>4, <2>1
    <2>3. /\ section \in DOMAIN w <=> section \in DOMAIN v
          /\ section \in DOMAIN w => w[section] = v[section]
      BY <1>2, <1>7, <1>8, <1>13, LevelAt, Kinds
    <2>4. QED
      BY <1>5, <1>6, <2>1, <2>2, <2>3 DEF Speaks
  <1>14. CASE section \in DOMAIN layer /\ ov # Inherit /\ ~IsDict(ov)
    <2>1. Resets(layer, section)
      BY <1>14 DEF Resets, ov
    <2>2. Holding(stack, section, m) = {} /\ \A k : word(k) = Null
      BY <1>3, <1>4, <2>1
    <2>3. section \in DOMAIN w => w[section] = MergeValue(bv, ov, x)
      BY <1>2, <1>7, <1>8, <1>14, LevelAt DEF bv
    <2>4. ~IsDict(MergeValue(bv, ov, x))
      BY <1>14, Kinds DEF MergeValue
    <2>5. QED
      BY <2>2, <2>3, <2>4
  <1>15. CASE section \in DOMAIN layer /\ ov # Inherit /\ IsDict(ov)
    <2>1. Has(layer, section)
      BY <1>15 DEF Has, ov
    <2>2. Holding(stack, section, m) = H \union {m} /\ Holding(stack, section, m) # {}
      BY <1>4, <1>9, <2>1
    <2>3. ov # Null
      BY <1>15, Kinds
    <2>4. section \in DOMAIN w /\ w[section] = MergeValue(bv, ov, x)
      BY <1>2, <1>7, <1>8, <1>15, <2>3, LevelAt DEF bv
    <2>5. \A k : Says(layer, section, k) <=> k \in DOMAIN Cleaned(ov.of) /\ ov.of[k] # Inherit
      BY <2>1 DEF Says, ov
    <2>6. \A k : word(k) = IF k \in DOMAIN Cleaned(ov.of) /\ ov.of[k] # Inherit
                           THEN Spliced(before(k), ov.of[k]) ELSE before(k)
      BY <1>3, <1>9, <2>1, <2>5 DEF ov
    <2>7. CASE H # {}
      <3> DEFINE q == <<bv.of, Cleaned(ov.of)>>
      <3>1. w[section] = Dict(x[q])
        BY <1>7, <1>15, <2>4, <2>7, ValueOfMappings
      <3>2. q \in Inner(<<v, u>>)
        BY <1>6, <1>7, <1>15, <2>7 DEF Inner
      <3>3. PICK z : x[q] = MergeLevel(bv.of, Cleaned(ov.of), z)
        BY <1>8, <3>2
      <3>4. IsDict(w[section]) /\ w[section].of = x[q]
        BY <3>1, Kinds
      <3>5. ASSUME ~RawAt(stack, section, m)
            PROVE  Speaks(stack, section, m, w[section].of)
        <4>1. Speaks(stack, section, n, bv.of)
          BY <1>5, <1>6, <1>7, <1>9, <2>1, <2>7, <3>5
        <4> DEFINE base == bv.of
        <4>2. /\ IsMapping(base)
              /\ \A k : k \in DOMAIN base <=> before(k) # Null
              /\ \A k \in DOMAIN base : base[k] = before(k) /\ ~IsDict(base[k])
          BY <4>1 DEF Speaks
        <4> HIDE DEF base
        <4>3. \A k : Value(base, k) = before(k)
          BY <4>2 DEF Value
        <4>4. \A k \in DOMAIN base : ~IsDict(base[k]) /\ base[k] # Null
          BY <4>2
        <4>5. ASSUME NEW k
              PROVE  LET merged == MergeLevel(base, Cleaned(ov.of), z)
                     IN /\ k \in DOMAIN merged <=> word(k) # Null
                        /\ k \in DOMAIN merged => merged[k] = word(k) /\ ~IsDict(merged[k])
          <5> DEFINE merged == MergeLevel(base, Cleaned(ov.of), z)
                     said == IF k \in DOMAIN Cleaned(ov.of) /\ ov.of[k] # Inherit
                             THEN Spliced(Value(base, k), ov.of[k]) ELSE Value(base, k)
          <5>1. (k \in DOMAIN merged <=> said # Null) /\ (k \in DOMAIN merged => merged[k] = said /\ ~IsDict(merged[k]))
            BY <1>10, <2>1, <4>2, <4>4, SpeaksOn
          <5>2. said = word(k)
            BY <2>6, <4>3
          <5>3. QED
            BY <5>1, <5>2
        <4>6. IsMapping(MergeLevel(base, Cleaned(ov.of), z))
          BY LevelIsMapping
        <4>7. w[section].of = MergeLevel(base, Cleaned(ov.of), z)
          BY <3>3, <3>4 DEF base
        <4>8. QED
          BY <4>5, <4>6, <4>7 DEF Speaks
      <3>6. QED
        BY <2>2, <2>4, <3>4, <3>5
    <2>8. CASE H = {}
      <3>1. w[section] = Dict(Cleaned(ov.of))
        BY <1>7, <1>15, <2>4, <2>8, Kinds DEF MergeValue, IsDict, IsList
      <3>2. IsDict(w[section]) /\ w[section].of = Cleaned(ov.of)
        BY <3>1, Kinds
      <3>3. ASSUME ~RawAt(stack, section, m)
            PROVE  Speaks(stack, section, m, w[section].of)
        <4>1. \A k \in DOMAIN ov.of : ov.of[k] # Null /\ ov.of[k] # Inherit
          BY <2>2, <2>8, <1>1, <3>3 DEF RawAt, ov, layer
        <4>2. IsMapping(Cleaned(ov.of))
          BY <1>10, <2>1 DEF IsMapping, Cleaned, Without
        <4>3. \A k \in DOMAIN Cleaned(ov.of) : k \in DOMAIN ov.of /\ Cleaned(ov.of)[k] = ov.of[k]
          BY DEF Cleaned, Without
        <4>4. \A k : before(k) = Null
          BY <1>6, <2>8
        <4>5. \A k : word(k) = IF k \in DOMAIN Cleaned(ov.of) THEN ov.of[k] ELSE Null
          BY <2>6, <4>1, <4>3, <4>4, Kinds DEF Spliced
        <4>6. \A k \in DOMAIN ov.of : ~IsDict(ov.of[k])
          BY <1>10, <2>1
        <4>7. QED
          BY <3>2, <4>1, <4>2, <4>3, <4>5, <4>6 DEF Speaks
      <3>4. QED
        BY <2>2, <2>4, <3>2, <3>3
    <2>9. QED
      BY <2>7, <2>8
  <1>16. QED
    BY <1>12, <1>13, <1>14, <1>15

\* Whoever has a word on a key has it in the section.
LEMMA WordsAreSaid ==
  ASSUME NEW stack, NEW section, NEW k, Len(stack) \in Nat, Word(stack, section, k) # Null
  PROVE  \E i \in 1..Len(stack) : Says(stack[i], section, k)
  <1> DEFINE f == Worded(stack, section, k)
             T == {i \in Nat : i <= Len(stack) => f[i] = Null}
  <1>1. /\ f[0] = Null /\ Word(stack, section, k) = f[Len(stack)]
        /\ \A i \in 0..Len(stack) : i # 0 =>
             f[i] = IF Resets(stack[i], section) THEN Null
                    ELSE IF Says(stack[i], section, k) THEN Spliced(f[i - 1], stack[i][section].of[k])
                    ELSE f[i - 1]
    BY WordIs
  <1> HIDE DEF f
  <1> SUFFICES ASSUME \A i \in 1..Len(stack) : ~Says(stack[i], section, k) PROVE FALSE
    OBVIOUS
  <1>2. 0 \in T
    BY <1>1
  <1>3. ASSUME NEW i \in T
        PROVE  i + 1 \in T
    <2> SUFFICES ASSUME i + 1 <= Len(stack) PROVE f[i + 1] = Null
      OBVIOUS
    <2>1. i + 1 \in 0..Len(stack) /\ i + 1 \in 1..Len(stack) /\ i + 1 # 0 /\ (i + 1) - 1 = i /\ f[i] = Null
      OBVIOUS
    <2>2. QED
      BY <1>1, <2>1
  <1>4. T = Nat
    <2>1. T \in SUBSET Nat
      OBVIOUS
    <2> HIDE DEF T
    <2>2. QED
      BY <1>2, <1>3, <2>1, Inductive
  <1>5. f[Len(stack)] = Null
    BY <1>4
  <1>6. QED
    BY <1>1, <1>5

LEMMA SectionInvHolds ==
  ASSUME NEW stack, NEW section, Len(stack) \in Nat, DOMAIN stack = 1..Len(stack),
         Flat(stack, section),
         \A i \in DOMAIN stack : Has(stack[i], section) => IsMapping(stack[i][section].of)
  PROVE  SectionInv(stack, section, Len(stack))
  <1> DEFINE T == {i \in Nat : i <= Len(stack) => SectionInv(stack, section, i)}
  <1>1. 0 \in T
    <2>1. Wrapped(stack, section)[0] = Nothing
      BY SectionIs
    <2>2. section \notin DOMAIN Wrapped(stack, section)[0]
      BY <2>1 DEF Nothing
    <2>3. Holding(stack, section, 0) = {}
      BY DEF Holding
    <2>4. \A k : Worded(stack, section, k)[0] = Null
      BY WordIs
    <2>5. QED
      BY <2>2, <2>3, <2>4 DEF SectionInv
  <1>2. ASSUME NEW i \in T
        PROVE  i + 1 \in T
    <2> SUFFICES ASSUME i + 1 <= Len(stack) PROVE SectionInv(stack, section, i + 1)
      OBVIOUS
    <2>1. i \in Nat /\ SectionInv(stack, section, i)
      OBVIOUS
    <2>2. QED
      BY <2>1, SectionStep
  <1>3. T = Nat
    <2>1. T \in SUBSET Nat
      OBVIOUS
    <2> HIDE DEF T
    <2>2. QED
      BY <1>1, <1>2, <2>1, Inductive
  <1>4. QED
    BY <1>3

\* The reference is what the layers make, unless the lowest of them is raw.
LEMMA SectionIsLastWord ==
  ASSUME NEW stack, NEW section, Len(stack) \in Nat, DOMAIN stack = 1..Len(stack),
         \A i \in DOMAIN stack : Has(stack[i], section) => IsMapping(stack[i][section].of),
         Flat(stack, section), ~RawBottom(stack, section)
  PROVE  ResolveSection(stack, section) = LastWord(stack, section)
  <1> DEFINE n == Len(stack)
             place == Wrapped(stack, section)[n]
             H == Holding(stack, section, n)
             keys == UNION {DOMAIN stack[i][section].of : i \in {j \in DOMAIN stack : Has(stack[j], section)}}
             word(k) == Word(stack, section, k)
             spoken == {k \in keys : word(k) # Null}
  <1>1. SectionInv(stack, section, n)
    BY SectionInvHolds
  <1>2. ResolveSection(stack, section) = AsSection(place, section)
    BY SectionIs
  <1>3. \A k : word(k) = Worded(stack, section, k)[n]
    BY WordIs
  <1>4. LastWord(stack, section) = [k \in spoken |-> word(k)]
    BY DEF LastWord
  <1>5. \A k : word(k) # Null => k \in spoken
    <2> SUFFICES ASSUME NEW k, word(k) # Null PROVE k \in keys
      OBVIOUS
    <2>1. PICK i \in 1..Len(stack) : Says(stack[i], section, k)
      BY WordsAreSaid
    <2>2. Has(stack[i], section) /\ k \in DOMAIN stack[i][section].of
      BY <2>1 DEF Says, Cleaned, Without
    <2>3. QED
      BY <2>2
  <1>6. ~RawAt(stack, section, n)
    <2>1. H = {i \in Standing(stack, section) : Has(stack[i], section)}
      BY DEF Holding, Standing
    <2>2. H \subseteq 1..n /\ Standing(stack, section) \subseteq 1..n /\ n \in Nat
      BY DEF Holding, Standing
    <2> SUFFICES ASSUME RawAt(stack, section, n) PROVE FALSE
      OBVIOUS
    <2>3. PICK i \in H :
            /\ \A j \in H : i <= j
            /\ \E k \in DOMAIN stack[i][section].of : stack[i][section].of[k] \in {Null, Inherit}
      BY DEF RawAt
    <2> HIDE DEF H, n
    <2>4. \A j \in Standing(stack, section) : j < i => ~Has(stack[j], section)
      <3> SUFFICES ASSUME NEW j \in Standing(stack, section), j < i, Has(stack[j], section) PROVE FALSE
        OBVIOUS
      <3>1. j \in H /\ i \in H
        BY <2>1
      <3>2. i <= j /\ i \in 1..n /\ j \in 1..n
        BY <2>2, <2>3, <3>1
      <3>3. QED
        BY <3>2, <2>2
    <2>5. i \in Standing(stack, section) /\ Has(stack[i], section)
      BY <2>1
    <2>6. QED
      BY <2>3, <2>4, <2>5 DEF RawBottom
  <1>7. /\ section \in DOMAIN place /\ IsDict(place[section]) <=> H # {}
        /\ H = {} => \A k : word(k) = Null
        /\ H # {} => Speaks(stack, section, n, place[section].of)
    BY <1>1, <1>3, <1>6 DEF SectionInv
  <1>8. CASE H = {}
    <2>1. ResolveSection(stack, section) = Nothing
      BY <1>2, <1>7, <1>8 DEF AsSection
    <2>2. spoken = {}
      BY <1>7, <1>8
    <2>3. [k \in spoken |-> word(k)] = Nothing
      BY <2>2 DEF Nothing
    <2>4. QED
      BY <1>4, <2>1, <2>3
  <1>9. CASE H # {}
    <2> DEFINE of == place[section].of
    <2>1. ResolveSection(stack, section) = of
      BY <1>2, <1>7, <1>9 DEF AsSection
    <2>2. /\ of = [k \in DOMAIN of |-> of[k]]
          /\ \A k : (k \in DOMAIN of <=> word(k) # Null) /\ (k \in DOMAIN of => of[k] = word(k))
      BY <1>3, <1>7, <1>9 DEF Speaks, IsMapping
    <2> HIDE DEF of, spoken, word
    <2>3. DOMAIN of = spoken
      BY <1>5, <2>2 DEF spoken
    <2>4. of = [k \in spoken |-> word(k)]
      BY <2>2, <2>3
    <2>5. QED
      BY <1>4, <2>1, <2>4
  <1>10. QED
    BY <1>8, <1>9

\* ConfigStack.resolve() and resolve_section(): for every number of layers, every
\* section, key and value, and whatever the other sections have, however deep.
THEOREM LastWordIsKept == LibrarySpec => []LastWordWins
  <1>1. Asked => LastWordWins
    <2> SUFFICES ASSUME question \in Merges
                 PROVE  LET stack == question.stack
                            section == question.section
                        IN /\ ResolveSection(stack, section) = AsSection(Resolve(stack), section)
                           /\ Flat(stack, section) /\ ~RawBottom(stack, section) =>
                                ResolveSection(stack, section) = LastWord(stack, section)
      BY HomesAssumption, MatricesAssumption, OverlaysAssumption, ExtensionsAssumption,
         InvocationsAssumption DEF Asked, LastWordWins
    <2> DEFINE stack == question.stack
               section == question.section
    <2>1. /\ stack \in Seq(Range(stack))
          /\ \A layer \in Range(stack) : Has(layer, section) => IsMapping(layer[section].of)
      BY MergesAssumption
    <2> HIDE DEF stack, section
    <2>2. Len(stack) \in Nat /\ DOMAIN stack = 1..Len(stack)
      BY <2>1, LenProperties
    <2>3. \A i \in DOMAIN stack : Has(stack[i], section) => IsMapping(stack[i][section].of)
      BY <2>1 DEF Range
    <2>4. ResolveSection(stack, section) = AsSection(Resolve(stack), section)
      BY <2>2, SectionIsItsOwn
    <2>5. Flat(stack, section) /\ ~RawBottom(stack, section) =>
            ResolveSection(stack, section) = LastWord(stack, section)
      BY <2>2, <2>3, SectionIsLastWord
    <2>6. QED
      BY <2>4, <2>5 DEF stack, section
  <1>2. LibrarySpec => []Asked
    BY AskedForever
  <1>3. QED
    BY <1>1, <1>2, PTL

-----------------------------------------------------------------------------
(* The recursive functions of CommandTree exist                            *)

\* The places of a tree, n verbs deep.
IsLevel(f, roots, n) ==
  f = [i \in 0..n |->
         IF i = 0 THEN {Start(roots)}
         ELSE UNION {{Child(x, j) : j \in DOMAIN x.node.children} : x \in f[i - 1]}]

LEMMA LevelExists ==
  ASSUME NEW roots, NEW n \in Nat
  PROVE  \E f : IsLevel(f, roots, n)
  <1> DEFINE At(i, before) ==
               IF i = 0 THEN {Start(roots)}
               ELSE UNION {{Child(x, j) : j \in DOMAIN x.node.children} : x \in before}
             T == {m \in Nat : \E f : IsLevel(f, roots, m)}
  <1>1. \A f, m : IsLevel(f, roots, m) <=> f = [i \in 0..m |-> At(i, f[i - 1])]
    BY DEF IsLevel
  <1>2. \A x, y : At(0, x) = At(0, y)
    OBVIOUS
  <1> HIDE DEF At
  <1>3. 0 \in T
    <2> DEFINE g == [i \in 0..0 |-> At(0, <<>>)]
    <2>1. g = [i \in 0..0 |-> At(i, g[i - 1])]
      BY <1>2
    <2>2. QED
      BY <2>1, <1>1
  <1>4. ASSUME NEW m \in T
        PROVE  m + 1 \in T
    <2>1. PICK f : IsLevel(f, roots, m)
      OBVIOUS
    <2> DEFINE g == [i \in 0..(m + 1) |-> IF i = m + 1 THEN At(m + 1, f[m]) ELSE f[i]]
    <2>2. f = [i \in 0..m |-> At(i, f[i - 1])]
      BY <2>1, <1>1
    <2>3. \A i \in 0..m : f[i] = At(i, f[i - 1])
      BY <2>2
    <2>4. \A i \in 0..(m + 1) : g[i] = At(i, g[i - 1])
      BY <2>3, <1>2
    <2>5. g = [i \in 0..(m + 1) |-> g[i]]
      OBVIOUS
    <2> HIDE DEF g
    <2>6. g = [i \in 0..(m + 1) |-> At(i, g[i - 1])]
      BY <2>4, <2>5
    <2>7. IsLevel(g, roots, m + 1)
      BY <2>6, <1>1
    <2>8. QED
      BY <2>7
  <1>5. T = Nat
    <2> HIDE DEF T
    <2>1. T \in SUBSET Nat
      BY DEF T
    <2>2. QED
      BY <1>3, <1>4, <2>1, Inductive
  <1>6. QED
    BY <1>5

\* What find_at has found after n names.
IsFound(f, roots, path, n) ==
  f = [i \in 0..n |->
         IF i = 0 THEN Top(roots) ELSE Resolved(FirstNamed(f[i - 1].children, path[i]))]

LEMMA FoundExists ==
  ASSUME NEW roots, NEW path, NEW n \in Nat
  PROVE  \E f : IsFound(f, roots, path, n)
  <1> DEFINE At(i, before) ==
               IF i = 0 THEN Top(roots) ELSE Resolved(FirstNamed(before.children, path[i]))
             T == {m \in Nat : \E f : IsFound(f, roots, path, m)}
  <1>1. \A f, m : IsFound(f, roots, path, m) <=> f = [i \in 0..m |-> At(i, f[i - 1])]
    BY DEF IsFound
  <1>2. \A x, y : At(0, x) = At(0, y)
    OBVIOUS
  <1> HIDE DEF At
  <1>3. 0 \in T
    <2> DEFINE g == [i \in 0..0 |-> At(0, <<>>)]
    <2>1. g = [i \in 0..0 |-> At(i, g[i - 1])]
      BY <1>2
    <2>2. QED
      BY <2>1, <1>1
  <1>4. ASSUME NEW m \in T
        PROVE  m + 1 \in T
    <2>1. PICK f : IsFound(f, roots, path, m)
      OBVIOUS
    <2> DEFINE g == [i \in 0..(m + 1) |-> IF i = m + 1 THEN At(m + 1, f[m]) ELSE f[i]]
    <2>2. f = [i \in 0..m |-> At(i, f[i - 1])]
      BY <2>1, <1>1
    <2>3. \A i \in 0..m : f[i] = At(i, f[i - 1])
      BY <2>2
    <2>4. \A i \in 0..(m + 1) : g[i] = At(i, g[i - 1])
      BY <2>3, <1>2
    <2>5. g = [i \in 0..(m + 1) |-> g[i]]
      OBVIOUS
    <2> HIDE DEF g
    <2>6. g = [i \in 0..(m + 1) |-> At(i, g[i - 1])]
      BY <2>4, <2>5
    <2>7. IsFound(g, roots, path, m + 1)
      BY <2>6, <1>1
    <2>8. QED
      BY <2>7
  <1>5. T = Nat
    <2> HIDE DEF T
    <2>1. T \in SUBSET Nat
      BY DEF T
    <2>2. QED
      BY <1>3, <1>4, <2>1, Inductive
  <1>6. QED
    BY <1>5

\* What argparse has read after n tokens.
IsLine(f, argv, n) ==
  f = [i \in 0..n |->
         IF i = 0 THEN [words |-> <<>>, wanting |-> FALSE] ELSE ReadToken(f[i - 1], argv[i])]

LEMMA LineExists ==
  ASSUME NEW argv, NEW n \in Nat
  PROVE  \E f : IsLine(f, argv, n)
  <1> DEFINE At(i, before) ==
               IF i = 0 THEN [words |-> <<>>, wanting |-> FALSE] ELSE ReadToken(before, argv[i])
             T == {m \in Nat : \E f : IsLine(f, argv, m)}
  <1>1. \A f, m : IsLine(f, argv, m) <=> f = [i \in 0..m |-> At(i, f[i - 1])]
    BY DEF IsLine
  <1>2. \A x, y : At(0, x) = At(0, y)
    OBVIOUS
  <1> HIDE DEF At
  <1>3. 0 \in T
    <2> DEFINE g == [i \in 0..0 |-> At(0, <<>>)]
    <2>1. g = [i \in 0..0 |-> At(i, g[i - 1])]
      BY <1>2
    <2>2. QED
      BY <2>1, <1>1
  <1>4. ASSUME NEW m \in T
        PROVE  m + 1 \in T
    <2>1. PICK f : IsLine(f, argv, m)
      OBVIOUS
    <2> DEFINE g == [i \in 0..(m + 1) |-> IF i = m + 1 THEN At(m + 1, f[m]) ELSE f[i]]
    <2>2. f = [i \in 0..m |-> At(i, f[i - 1])]
      BY <2>1, <1>1
    <2>3. \A i \in 0..m : f[i] = At(i, f[i - 1])
      BY <2>2
    <2>4. \A i \in 0..(m + 1) : g[i] = At(i, g[i - 1])
      BY <2>3, <1>2
    <2>5. g = [i \in 0..(m + 1) |-> g[i]]
      OBVIOUS
    <2> HIDE DEF g
    <2>6. g = [i \in 0..(m + 1) |-> At(i, g[i - 1])]
      BY <2>4, <2>5
    <2>7. IsLine(g, argv, m + 1)
      BY <2>6, <1>1
    <2>8. QED
      BY <2>7
  <1>5. T = Nat
    <2> HIDE DEF T
    <2>1. T \in SUBSET Nat
      BY DEF T
    <2>2. QED
      BY <1>3, <1>4, <2>1, Inductive
  <1>6. QED
    BY <1>5

\* What an overlay makes of the places, from the deepest up.
IsOverlaid(f, roots, overrides, n) ==
  f = [i \in 0..n |->
         [x \in Level(roots)[MaxDepth - i] |-> OverlayNode(x, overrides, IF i = 0 THEN <<>> ELSE f[i - 1])]]

LEMMA OverlaidExists ==
  ASSUME NEW roots, NEW overrides, NEW n \in Nat
  PROVE  \E f : IsOverlaid(f, roots, overrides, n)
  <1> DEFINE At(i, before) ==
               [x \in Level(roots)[MaxDepth - i] |-> OverlayNode(x, overrides, IF i = 0 THEN <<>> ELSE before)]
             T == {m \in Nat : \E f : IsOverlaid(f, roots, overrides, m)}
  <1>1. \A f, m : IsOverlaid(f, roots, overrides, m) <=> f = [i \in 0..m |-> At(i, f[i - 1])]
    BY DEF IsOverlaid
  <1>2. \A x, y : At(0, x) = At(0, y)
    OBVIOUS
  <1> HIDE DEF At
  <1>3. 0 \in T
    <2> DEFINE g == [i \in 0..0 |-> At(0, <<>>)]
    <2>1. g = [i \in 0..0 |-> At(i, g[i - 1])]
      BY <1>2
    <2>2. QED
      BY <2>1, <1>1
  <1>4. ASSUME NEW m \in T
        PROVE  m + 1 \in T
    <2>1. PICK f : IsOverlaid(f, roots, overrides, m)
      OBVIOUS
    <2> DEFINE g == [i \in 0..(m + 1) |-> IF i = m + 1 THEN At(m + 1, f[m]) ELSE f[i]]
    <2>2. f = [i \in 0..m |-> At(i, f[i - 1])]
      BY <2>1, <1>1
    <2>3. \A i \in 0..m : f[i] = At(i, f[i - 1])
      BY <2>2
    <2>4. \A i \in 0..(m + 1) : g[i] = At(i, g[i - 1])
      BY <2>3, <1>2
    <2>5. g = [i \in 0..(m + 1) |-> g[i]]
      OBVIOUS
    <2> HIDE DEF g
    <2>6. g = [i \in 0..(m + 1) |-> At(i, g[i - 1])]
      BY <2>4, <2>5
    <2>7. IsOverlaid(g, roots, overrides, m + 1)
      BY <2>6, <1>1
    <2>8. QED
      BY <2>7
  <1>5. T = Nat
    <2> HIDE DEF T
    <2>1. T \in SUBSET Nat
      BY DEF T
    <2>2. QED
      BY <1>3, <1>4, <2>1, Inductive
  <1>6. QED
    BY <1>5

\* What an extension makes of them.
IsGrown(f, roots, path, additions, n) ==
  f = [i \in 0..n |->
         [x \in Level(roots)[MaxDepth - i] |->
            ExtendNode(x, path, additions, IF i = 0 THEN <<>> ELSE f[i - 1])]]

LEMMA GrownExists ==
  ASSUME NEW roots, NEW path, NEW additions, NEW n \in Nat
  PROVE  \E f : IsGrown(f, roots, path, additions, n)
  <1> DEFINE At(i, before) ==
               [x \in Level(roots)[MaxDepth - i] |->
                  ExtendNode(x, path, additions, IF i = 0 THEN <<>> ELSE before)]
             T == {m \in Nat : \E f : IsGrown(f, roots, path, additions, m)}
  <1>1. \A f, m : IsGrown(f, roots, path, additions, m) <=> f = [i \in 0..m |-> At(i, f[i - 1])]
    BY DEF IsGrown
  <1>2. \A x, y : At(0, x) = At(0, y)
    OBVIOUS
  <1> HIDE DEF At
  <1>3. 0 \in T
    <2> DEFINE g == [i \in 0..0 |-> At(0, <<>>)]
    <2>1. g = [i \in 0..0 |-> At(i, g[i - 1])]
      BY <1>2
    <2>2. QED
      BY <2>1, <1>1
  <1>4. ASSUME NEW m \in T
        PROVE  m + 1 \in T
    <2>1. PICK f : IsGrown(f, roots, path, additions, m)
      OBVIOUS
    <2> DEFINE g == [i \in 0..(m + 1) |-> IF i = m + 1 THEN At(m + 1, f[m]) ELSE f[i]]
    <2>2. f = [i \in 0..m |-> At(i, f[i - 1])]
      BY <2>1, <1>1
    <2>3. \A i \in 0..m : f[i] = At(i, f[i - 1])
      BY <2>2
    <2>4. \A i \in 0..(m + 1) : g[i] = At(i, g[i - 1])
      BY <2>3, <1>2
    <2>5. g = [i \in 0..(m + 1) |-> g[i]]
      OBVIOUS
    <2> HIDE DEF g
    <2>6. g = [i \in 0..(m + 1) |-> At(i, g[i - 1])]
      BY <2>4, <2>5
    <2>7. IsGrown(g, roots, path, additions, m + 1)
      BY <2>6, <1>1
    <2>8. QED
      BY <2>7
  <1>5. T = Nat
    <2> HIDE DEF T
    <2>1. T \in SUBSET Nat
      BY DEF T
    <2>2. QED
      BY <1>3, <1>4, <2>1, Inductive
  <1>6. QED
    BY <1>5

\* What wiring makes of them.
IsWired(f, roots, n) ==
  f = [i \in 0..n |->
         [x \in Level(roots)[MaxDepth - i] |-> WireCommand(x, IF i = 0 THEN <<>> ELSE f[i - 1])]]

LEMMA WiredExists ==
  ASSUME NEW roots, NEW n \in Nat
  PROVE  \E f : IsWired(f, roots, n)
  <1> DEFINE At(i, before) ==
               [x \in Level(roots)[MaxDepth - i] |-> WireCommand(x, IF i = 0 THEN <<>> ELSE before)]
             T == {m \in Nat : \E f : IsWired(f, roots, m)}
  <1>1. \A f, m : IsWired(f, roots, m) <=> f = [i \in 0..m |-> At(i, f[i - 1])]
    BY DEF IsWired
  <1>2. \A x, y : At(0, x) = At(0, y)
    OBVIOUS
  <1> HIDE DEF At
  <1>3. 0 \in T
    <2> DEFINE g == [i \in 0..0 |-> At(0, <<>>)]
    <2>1. g = [i \in 0..0 |-> At(i, g[i - 1])]
      BY <1>2
    <2>2. QED
      BY <2>1, <1>1
  <1>4. ASSUME NEW m \in T
        PROVE  m + 1 \in T
    <2>1. PICK f : IsWired(f, roots, m)
      OBVIOUS
    <2> DEFINE g == [i \in 0..(m + 1) |-> IF i = m + 1 THEN At(m + 1, f[m]) ELSE f[i]]
    <2>2. f = [i \in 0..m |-> At(i, f[i - 1])]
      BY <2>1, <1>1
    <2>3. \A i \in 0..m : f[i] = At(i, f[i - 1])
      BY <2>2
    <2>4. \A i \in 0..(m + 1) : g[i] = At(i, g[i - 1])
      BY <2>3, <1>2
    <2>5. g = [i \in 0..(m + 1) |-> g[i]]
      OBVIOUS
    <2> HIDE DEF g
    <2>6. g = [i \in 0..(m + 1) |-> At(i, g[i - 1])]
      BY <2>4, <2>5
    <2>7. IsWired(g, roots, m + 1)
      BY <2>6, <1>1
    <2>8. QED
      BY <2>7
  <1>5. T = Nat
    <2> HIDE DEF T
    <2>1. T \in SUBSET Nat
      BY DEF T
    <2>2. QED
      BY <1>3, <1>4, <2>1, Inductive
  <1>6. QED
    BY <1>5

-----------------------------------------------------------------------------
(* What the recursive functions of CommandTree compute                     *)

\* The roots are one verb deep, the children of a place one deeper than it.
LEMMA LevelIs ==
  ASSUME NEW roots
  PROVE  /\ Level(roots)[0] = {Start(roots)}
         /\ \A n \in 0..MaxDepth : n # 0 =>
              Level(roots)[n] = UNION {{Child(x, i) : i \in DOMAIN x.node.children} : x \in Level(roots)[n - 1]}
  <1> DEFINE f == Level(roots)
             Next(before) == UNION {{Child(x, i) : i \in DOMAIN x.node.children} : x \in before}
  <1>1. MaxDepth \in Nat /\ 0 \in 0..MaxDepth
    BY MaxDepthAssumption
  <1>2. f = CHOOSE g : IsLevel(g, roots, MaxDepth)
    BY DEF Level, IsLevel
  <1>3. IsLevel(f, roots, MaxDepth)
    BY <1>1, <1>2, LevelExists
  <1> HIDE DEF f
  <1>4. f = [n \in 0..MaxDepth |-> IF n = 0 THEN {Start(roots)} ELSE Next(f[n - 1])]
    BY <1>3 DEF IsLevel
  <1>5. f[0] = {Start(roots)} /\ \A n \in 0..MaxDepth : n # 0 => f[n] = Next(f[n - 1])
    <2> HIDE DEF Next
    <2>1. QED
      BY <1>1, <1>4
  <1>6. QED
    BY <1>5 DEF f

\* What was found after each name.
Finding(roots, path) == CHOOSE f : IsFound(f, roots, path, Len(path))

LEMMA FoundIs ==
  ASSUME NEW roots, NEW path, Len(path) \in Nat
  PROVE  /\ Find(roots, path) = Finding(roots, path)[Len(path)]
         /\ Finding(roots, path)[0] = Top(roots)
         /\ \A n \in 0..Len(path) : n # 0 =>
              Finding(roots, path)[n] = Resolved(FirstNamed(Finding(roots, path)[n - 1].children, path[n]))
  <1> DEFINE l == Len(path)
             f == Finding(roots, path)
             Step(n, before) == Resolved(FirstNamed(before.children, path[n]))
  <1>1. Find(roots, path) = f[l]
    BY DEF Find, Finding, IsFound
  <1>2. IsFound(f, roots, path, l)
    BY FoundExists DEF Finding
  <1> HIDE DEF l, f
  <1>3. f = [n \in 0..l |-> IF n = 0 THEN Top(roots) ELSE Step(n, f[n - 1])]
    BY <1>2 DEF IsFound
  <1>4. l \in Nat /\ 0 \in 0..l
    BY DEF l
  <1>5. f[0] = Top(roots) /\ \A n \in 0..l : n # 0 => f[n] = Step(n, f[n - 1])
    <2> HIDE DEF Step
    <2>1. QED
      BY <1>3, <1>4
  <1>6. QED
    BY <1>1, <1>5 DEF l, f

\* What was read after each token.
Reading(argv) == CHOOSE f : IsLine(f, argv, Len(argv))

LEMMA LineIs ==
  ASSUME NEW argv, Len(argv) \in Nat
  PROVE  /\ CommandLine(argv) = Reading(argv)[Len(argv)]
         /\ Reading(argv)[0] = [words |-> <<>>, wanting |-> FALSE]
         /\ \A n \in 0..Len(argv) : n # 0 => Reading(argv)[n] = ReadToken(Reading(argv)[n - 1], argv[n])
  <1> DEFINE l == Len(argv)
             f == Reading(argv)
  <1>1. CommandLine(argv) = f[l]
    BY DEF CommandLine, Reading, IsLine
  <1>2. IsLine(f, argv, l)
    BY LineExists DEF Reading
  <1> HIDE DEF l, f
  <1>3. f = [n \in 0..l |-> IF n = 0 THEN [words |-> <<>>, wanting |-> FALSE] ELSE ReadToken(f[n - 1], argv[n])]
    BY <1>2 DEF IsLine
  <1>4. l \in Nat /\ 0 \in 0..l
    BY DEF l
  <1>5. f[0] = [words |-> <<>>, wanting |-> FALSE] /\ \A n \in 0..l : n # 0 => f[n] = ReadToken(f[n - 1], argv[n])
    BY <1>3, <1>4
  <1>6. QED
    BY <1>1, <1>5 DEF l, f

\* What became of each place in an overlay.
Overlaying(roots, overrides) == CHOOSE f : IsOverlaid(f, roots, overrides, MaxDepth)

LEMMA OverlaidIs ==
  ASSUME NEW roots, NEW overrides
  PROVE  /\ Overlay(roots, overrides) = Overlaying(roots, overrides)[MaxDepth][Start(roots)].children
         /\ \A n \in 0..MaxDepth : \A x \in Level(roots)[n] :
              Overlaying(roots, overrides)[MaxDepth - n][x] =
                OverlayNode(x, overrides, IF n = MaxDepth THEN <<>> ELSE Overlaying(roots, overrides)[MaxDepth - (n + 1)])
  <1> DEFINE f == Overlaying(roots, overrides)
             At(i, before) == [x \in Level(roots)[MaxDepth - i] |->
                                 OverlayNode(x, overrides, IF i = 0 THEN <<>> ELSE before)]
  <1>1. MaxDepth \in Nat
    BY MaxDepthAssumption
  <1>2. Overlay(roots, overrides) = f[MaxDepth][Start(roots)].children
    BY DEF Overlay, Overlaying, IsOverlaid
  <1>3. IsOverlaid(f, roots, overrides, MaxDepth)
    BY <1>1, OverlaidExists DEF Overlaying
  <1> HIDE DEF f
  <1>4. f = [i \in 0..MaxDepth |-> At(i, f[i - 1])]
    BY <1>3 DEF IsOverlaid
  <1>5. \A i \in 0..MaxDepth : f[i] = At(i, f[i - 1])
    <2> HIDE DEF At
    <2>1. QED
      BY <1>4
  <1>6. ASSUME NEW n \in 0..MaxDepth, NEW x \in Level(roots)[n]
        PROVE  f[MaxDepth - n][x] = OverlayNode(x, overrides, IF n = MaxDepth THEN <<>> ELSE f[MaxDepth - (n + 1)])
    <2> DEFINE i == MaxDepth - n
    <2>1. /\ i \in 0..MaxDepth /\ MaxDepth - i = n /\ (i = 0 <=> n = MaxDepth)
          /\ i - 1 = MaxDepth - (n + 1)
      BY <1>1
    <2>2. f[i] = At(i, f[i - 1])
      BY <1>5, <2>1
    <2> HIDE DEF i
    <2>3. f[i][x] = OverlayNode(x, overrides, IF i = 0 THEN <<>> ELSE f[i - 1])
      BY <2>1, <2>2
    <2>4. QED
      BY <2>1, <2>3 DEF i
  <1>7. QED
    BY <1>2, <1>6 DEF f

\* What became of each place in an extension.
Growing(roots, path, additions) == CHOOSE f : IsGrown(f, roots, path, additions, MaxDepth)

LEMMA GrownIs ==
  ASSUME NEW roots, NEW path, NEW additions
  PROVE  /\ Extended(roots, path, additions) = Growing(roots, path, additions)[MaxDepth][Start(roots)].children
         /\ \A n \in 0..MaxDepth : \A x \in Level(roots)[n] :
              Growing(roots, path, additions)[MaxDepth - n][x] =
                ExtendNode(x, path, additions, IF n = MaxDepth THEN <<>> ELSE Growing(roots, path, additions)[MaxDepth - (n + 1)])
  <1> DEFINE f == Growing(roots, path, additions)
             At(i, before) == [x \in Level(roots)[MaxDepth - i] |->
                                 ExtendNode(x, path, additions, IF i = 0 THEN <<>> ELSE before)]
  <1>1. MaxDepth \in Nat
    BY MaxDepthAssumption
  <1>2. Extended(roots, path, additions) = f[MaxDepth][Start(roots)].children
    BY DEF Extended, Growing, IsGrown
  <1>3. IsGrown(f, roots, path, additions, MaxDepth)
    BY <1>1, GrownExists DEF Growing
  <1> HIDE DEF f
  <1>4. f = [i \in 0..MaxDepth |-> At(i, f[i - 1])]
    BY <1>3 DEF IsGrown
  <1>5. \A i \in 0..MaxDepth : f[i] = At(i, f[i - 1])
    <2> HIDE DEF At
    <2>1. QED
      BY <1>4
  <1>6. ASSUME NEW n \in 0..MaxDepth, NEW x \in Level(roots)[n]
        PROVE  f[MaxDepth - n][x] = ExtendNode(x, path, additions, IF n = MaxDepth THEN <<>> ELSE f[MaxDepth - (n + 1)])
    <2> DEFINE i == MaxDepth - n
    <2>1. /\ i \in 0..MaxDepth /\ MaxDepth - i = n /\ (i = 0 <=> n = MaxDepth)
          /\ i - 1 = MaxDepth - (n + 1)
      BY <1>1
    <2>2. f[i] = At(i, f[i - 1])
      BY <1>5, <2>1
    <2> HIDE DEF i
    <2>3. f[i][x] = ExtendNode(x, path, additions, IF i = 0 THEN <<>> ELSE f[i - 1])
      BY <2>1, <2>2
    <2>4. QED
      BY <2>1, <2>3 DEF i
  <1>7. QED
    BY <1>2, <1>6 DEF f

\* The parser of each place.
Wiring(roots) == CHOOSE f : IsWired(f, roots, MaxDepth)

LEMMA WiredIs ==
  ASSUME NEW roots
  PROVE  /\ WireAll(roots) = Wiring(roots)[MaxDepth][Start(roots)].children
         /\ \A n \in 0..MaxDepth : \A x \in Level(roots)[n] :
              Wiring(roots)[MaxDepth - n][x] =
                WireCommand(x, IF n = MaxDepth THEN <<>> ELSE Wiring(roots)[MaxDepth - (n + 1)])
  <1> DEFINE f == Wiring(roots)
             At(i, before) == [x \in Level(roots)[MaxDepth - i] |->
                                 WireCommand(x, IF i = 0 THEN <<>> ELSE before)]
  <1>1. MaxDepth \in Nat
    BY MaxDepthAssumption
  <1>2. WireAll(roots) = f[MaxDepth][Start(roots)].children
    BY DEF WireAll, Wiring, IsWired
  <1>3. IsWired(f, roots, MaxDepth)
    BY <1>1, WiredExists DEF Wiring
  <1> HIDE DEF f
  <1>4. f = [i \in 0..MaxDepth |-> At(i, f[i - 1])]
    BY <1>3 DEF IsWired
  <1>5. \A i \in 0..MaxDepth : f[i] = At(i, f[i - 1])
    <2> HIDE DEF At
    <2>1. QED
      BY <1>4
  <1>6. ASSUME NEW n \in 0..MaxDepth, NEW x \in Level(roots)[n]
        PROVE  f[MaxDepth - n][x] = WireCommand(x, IF n = MaxDepth THEN <<>> ELSE f[MaxDepth - (n + 1)])
    <2> DEFINE i == MaxDepth - n
    <2>1. /\ i \in 0..MaxDepth /\ MaxDepth - i = n /\ (i = 0 <=> n = MaxDepth)
          /\ i - 1 = MaxDepth - (n + 1)
      BY <1>1
    <2>2. f[i] = At(i, f[i - 1])
      BY <1>5, <2>1
    <2> HIDE DEF i
    <2>3. f[i][x] = WireCommand(x, IF i = 0 THEN <<>> ELSE f[i - 1])
      BY <2>1, <2>2
    <2>4. QED
      BY <2>1, <2>3 DEF i
  <1>7. QED
    BY <1>2, <1>6 DEF f

-----------------------------------------------------------------------------
(* Paths, and the places of a tree                                         *)

LEMMA PrefixIs ==
  ASSUME NEW s \in Seq(STRING), NEW t \in Seq(STRING)
  PROVE  IsPrefix(s, t) <=> Len(s) <= Len(t) /\ \A i \in 1..Len(s) : s[i] = t[i]
  <1>1. CASE Len(s) <= Len(t)
    <2> DEFINE a == SubSeq(s, 1, Len(s))
               b == SubSeq(t, 1, Len(s))
    <2>1. /\ Len(a) = Len(s) /\ \A i \in 1..Len(s) : a[i] = s[i]
          /\ Len(b) = Len(s) /\ \A i \in 1..Len(s) : b[i] = t[i]
          /\ a \in Seq(STRING) /\ b \in Seq(STRING)
      BY <1>1
    <2> HIDE DEF a, b
    <2>2. a = b <=> \A i \in 1..Len(s) : a[i] = b[i]
      BY <2>1, SeqEqual
    <2>3. QED
      BY <1>1, <2>1, <2>2 DEF IsPrefix, a, b
  <1>2. CASE ~(Len(s) <= Len(t))
    BY <1>2 DEF IsPrefix
  <1>3. QED
    BY <1>1, <1>2

LEMMA EmptyIsPrefix ==
  ASSUME NEW t \in Seq(STRING)
  PROVE  IsPrefix(<<>>, t)
  <1> DEFINE s == <<>>
  <1>1. s \in Seq(STRING) /\ Len(s) = 0 /\ Len(t) \in Nat
    OBVIOUS
  <1> HIDE DEF s
  <1>2. IsPrefix(s, t)
    <2>1. Len(s) <= Len(t) /\ \A i \in 1..Len(s) : s[i] = t[i]
      BY <1>1
    <2>2. QED
      BY <1>1, <2>1, PrefixIs
  <1>3. QED
    BY <1>2 DEF s

\* One more name on a path.
LEMMA OneNameMore ==
  ASSUME NEW s \in Seq(STRING), NEW t \in Seq(STRING), NEW a \in STRING
  PROVE  /\ IsStrictPrefix(s, Append(s, a))
         /\ IsPrefix(Append(s, a), t) => IsStrictPrefix(s, t)
         /\ IsPrefix(s, t) /\ Len(s) < Len(t) /\ t[Len(s) + 1] = a => IsPrefix(Append(s, a), t)
         /\ IsPrefix(s, t) /\ Len(s) = Len(t) => s = t
         /\ IsPrefix(Append(s, a), t) => t[Len(s) + 1] = a
  <1> DEFINE u == Append(s, a)
             l == Len(s)
  <1>1. /\ u \in Seq(STRING) /\ Len(u) = l + 1 /\ u[l + 1] = a /\ l \in Nat /\ Len(t) \in Nat
        /\ \A i \in 1..l : u[i] = s[i]
    <2>1. l \in Nat /\ Len(t) \in Nat
      OBVIOUS
    <2>2. /\ u \in Seq(STRING) /\ Len(u) = l + 1 /\ u[l + 1] = a
          /\ \A i \in 1..l : u[i] = s[i]
      <3> HIDE DEF u
      <3>1. u = Append(s, a)
        BY DEF u
      <3>2. QED
        BY <3>1, AppendProperties
    <2>3. QED
      BY <2>1, <2>2
  <1>2. /\ IsPrefix(u, t) <=> Len(u) <= Len(t) /\ \A i \in 1..Len(u) : u[i] = t[i]
        /\ IsPrefix(s, u) <=> Len(s) <= Len(u) /\ \A i \in 1..Len(s) : s[i] = u[i]
        /\ IsPrefix(s, t) <=> Len(s) <= Len(t) /\ \A i \in 1..Len(s) : s[i] = t[i]
    <2> HIDE DEF u
    <2>1. QED
      BY <1>1, PrefixIs
  <1> HIDE DEF u, l
  <1>3. 1..Len(u) = 1..l \union {l + 1}
    BY <1>1
  <1>4. Len(s) = l
    BY DEF l
  <1>5. IsStrictPrefix(s, u)
    <2>1. s # u
      BY <1>1, <1>4
    <2>2. IsPrefix(s, u)
      BY <1>1, <1>2, <1>4
    <2>3. QED
      BY <2>1, <2>2 DEF IsStrictPrefix
  <1>6. ASSUME IsPrefix(u, t)
        PROVE  IsStrictPrefix(s, t) /\ t[l + 1] = a
    <2>1. Len(t) >= l + 1 /\ \A i \in 1..(l + 1) : u[i] = t[i]
      BY <1>1, <1>2, <1>6
    <2>2. \A i \in 1..l : s[i] = t[i]
      BY <1>1, <2>1
    <2>3. IsPrefix(s, t) /\ s # t
      BY <1>1, <1>2, <1>4, <2>1, <2>2
    <2>4. t[l + 1] = a
      <3>1. l + 1 \in 1..(l + 1)
        BY <1>1
      <3>2. u[l + 1] = t[l + 1]
        BY <2>1, <3>1
      <3>3. QED
        BY <1>1, <3>2
    <2>5. QED
      BY <2>3, <2>4 DEF IsStrictPrefix
  <1>7. ASSUME IsPrefix(s, t), l < Len(t), t[l + 1] = a
        PROVE  IsPrefix(u, t)
    <2>1. \A i \in 1..l : s[i] = t[i]
      BY <1>2, <1>4, <1>7
    <2>2. \A i \in 1..Len(u) : u[i] = t[i]
      BY <1>1, <1>3, <1>7, <2>1
    <2>3. Len(u) <= Len(t)
      BY <1>1, <1>7
    <2>4. QED
      BY <1>2, <2>2, <2>3
  <1>8. ASSUME IsPrefix(s, t), Len(s) = Len(t)
        PROVE  s = t
    <2>1. \A i \in 1..Len(s) : s[i] = t[i]
      BY <1>2, <1>8
    <2>2. QED
      BY <2>1, <1>8, SeqEqual
  <1>9. QED
    BY <1>4, <1>5, <1>6, <1>7, <1>8 DEF u

\* A strict prefix of a prefix.
LEMMA StrictTransitive ==
  ASSUME NEW s \in Seq(STRING), NEW t \in Seq(STRING), NEW u \in Seq(STRING),
         IsStrictPrefix(s, t), IsPrefix(t, u)
  PROVE  IsStrictPrefix(s, u)
  <1>1. /\ Len(s) <= Len(t) /\ \A i \in 1..Len(s) : s[i] = t[i]
        /\ Len(t) <= Len(u) /\ \A i \in 1..Len(t) : t[i] = u[i]
    BY PrefixIs DEF IsStrictPrefix
  <1>2. Len(s) # Len(t)
    <2>1. Len(s) = Len(t) => s = t
      BY <1>1, SeqEqual
    <2>2. QED
      BY <2>1 DEF IsStrictPrefix
  <1>3. Len(s) \in Nat /\ Len(t) \in Nat /\ Len(u) \in Nat
    OBVIOUS
  <1>4. Len(s) <= Len(u) /\ \A i \in 1..Len(s) : s[i] = u[i]
    BY <1>1, <1>3
  <1>5. s # u
    BY <1>1, <1>2, <1>3
  <1>6. IsPrefix(s, u)
    BY <1>4, PrefixIs
  <1>7. QED
    BY <1>5, <1>6 DEF IsStrictPrefix

\* What holds of a place n verbs deep.
IsPlace(roots, n, x) ==
  /\ x.path \in Seq(STRING) /\ Len(x.path) = n
  /\ x = [path |-> x.path, listed |-> x.listed, node |-> x.node]
  /\ x.node.children \in Seq(Range(x.node.children))
  /\ DOMAIN x.node.children = 1..Len(x.node.children) /\ Len(x.node.children) \in Nat
  /\ n = MaxDepth => x.node.children = <<>>
  /\ n # MaxDepth => \A i \in DOMAIN x.node.children : Child(x, i) \in Level(roots)[n + 1]
  /\ n # 0 =>
       /\ x.node = Resolved(x.listed)
       /\ ~Lazy(x.node) /\ x.node.name = x.listed.name /\ x.node.name \in STRING
       /\ x.listed.id # Copied /\ (Lazy(x.listed) => x.node.id # x.listed.id)

LEMMA PlacesAre ==
  ASSUME NEW roots, IsForest(roots), NEW n \in 0..MaxDepth, NEW x \in Level(roots)[n]
  PROVE  IsPlace(roots, n, x)
  <1> DEFINE L == Level(roots)
             At(m) == \A y \in L[m] :
                        /\ y.path \in Seq(STRING) /\ Len(y.path) = m
                        /\ y = [path |-> y.path, listed |-> y.listed, node |-> y.node]
                        /\ m # 0 => y.node = Resolved(y.listed)
             T == {m \in Nat : m <= MaxDepth => At(m)}
  <1>1. MaxDepth \in Nat /\ MaxDepth # 0
    BY MaxDepthAssumption
  <1>2. /\ L[0] = {Start(roots)}
        /\ \A m \in 0..MaxDepth : m # 0 =>
             L[m] = UNION {{Child(y, i) : i \in DOMAIN y.node.children} : y \in L[m - 1]}
    BY LevelIs
  <1>3. Places(roots) = UNION {L[m] : m \in 1..MaxDepth}
    BY DEF Places
  <1> HIDE DEF L
  <1>4. \A m \in 1..MaxDepth : \A y \in L[m] :
          /\ y \in Places(roots)
          /\ ~Lazy(y.node) /\ y.node.name = y.listed.name /\ y.node.name \in STRING
          /\ y.listed.id # Copied /\ (Lazy(y.listed) => y.node.id # y.listed.id)
          /\ y.node.children \in Seq(Range(y.node.children))
    <2>1. ASSUME NEW m \in 1..MaxDepth, NEW y \in L[m]
          PROVE  y \in Places(roots)
      BY <1>3
    <2>2. QED
      BY <2>1 DEF IsForest
  <1>5. 0 \in T
    <2>1. At(0)
      <3>1. \A y \in L[0] : y = [path |-> <<>>, listed |-> Top(roots), node |-> Top(roots)]
        BY <1>2 DEF Start
      <3> DEFINE top == Top(roots)
      <3> HIDE DEF top
      <3>2. <<>> \in Seq(STRING) /\ Len(<<>>) = 0
        OBVIOUS
      <3>3. \A y \in L[0] : y = [path |-> <<>>, listed |-> top, node |-> top]
        BY <3>1 DEF top
      <3>4. ASSUME NEW y \in L[0]
            PROVE  /\ y.path \in Seq(STRING) /\ Len(y.path) = 0
                   /\ y = [path |-> y.path, listed |-> y.listed, node |-> y.node]
        <4>1. y = [path |-> <<>>, listed |-> top, node |-> top]
          BY <3>3
        <4>2. y.path = <<>> /\ y.listed = top /\ y.node = top
          BY <4>1
        <4>3. QED
          BY <3>2, <4>1, <4>2
      <3>5. QED
        BY <3>4
    <2>2. QED
      BY <2>1
  <1>6. ASSUME NEW m \in T
        PROVE  m + 1 \in T
    <2> SUFFICES ASSUME m + 1 <= MaxDepth
                 PROVE  At(m + 1)
      OBVIOUS
    <2>1. m \in Nat /\ m + 1 \in 1..MaxDepth /\ m <= MaxDepth /\ At(m)
      BY <1>1
    <2>2. L[m + 1] = UNION {{Child(y, i) : i \in DOMAIN y.node.children} : y \in L[m]}
      <3>1. m + 1 \in 0..MaxDepth /\ m + 1 # 0 /\ (m + 1) - 1 = m
        BY <2>1
      <3>2. QED
        BY <1>2, <3>1
    <2>3. ASSUME NEW z \in L[m + 1]
          PROVE  /\ z.path \in Seq(STRING) /\ Len(z.path) = m + 1
                 /\ z = [path |-> z.path, listed |-> z.listed, node |-> z.node]
                 /\ z.node = Resolved(z.listed)
      <3>1. PICK y \in L[m] : \E i \in DOMAIN y.node.children : z = Child(y, i)
        BY <2>2
      <3> PICK i \in DOMAIN y.node.children : z = Child(y, i)
        BY <3>1
      <3>2. z = [path |-> Append(y.path, Resolved(y.node.children[i]).name),
                 listed |-> y.node.children[i], node |-> Resolved(y.node.children[i])]
        BY DEF Child
      <3>3. z.node.name \in STRING
        BY <1>4, <2>1
      <3>4. y.path \in Seq(STRING) /\ Len(y.path) = m
        BY <2>1
      <3>5. z.path = Append(y.path, z.node.name)
        BY <3>2
      <3>6. QED
        BY <3>2, <3>3, <3>4, <3>5
    <2>4. QED
      BY <2>3
  <1>7. T = Nat
    <2> HIDE DEF T
    <2>1. T \in SUBSET Nat
      BY DEF T
    <2>2. QED
      BY <1>5, <1>6, <2>1, Inductive
  <1>8. n \in Nat /\ n <= MaxDepth /\ x \in L[n]
    BY <1>1 DEF L
  <1>9. At(n)
    BY <1>7, <1>8
  <1>10. x.node.children \in Seq(Range(x.node.children))
    <2>1. CASE n = 0
      <3>1. x = Start(roots)
        BY <1>2, <1>8, <2>1
      <3>2. QED
        BY <3>1 DEF IsForest
    <2>2. CASE n # 0
      BY <1>4, <1>8, <2>2
    <2>3. QED
      BY <2>1, <2>2
  <1>11. n # MaxDepth => \A i \in DOMAIN x.node.children : Child(x, i) \in L[n + 1]
    <2> SUFFICES ASSUME n # MaxDepth, NEW i \in DOMAIN x.node.children
                 PROVE  Child(x, i) \in L[n + 1]
      OBVIOUS
    <2>1. n + 1 \in 0..MaxDepth /\ n + 1 # 0 /\ (n + 1) - 1 = n
      BY <1>1, <1>8
    <2>2. L[n + 1] = UNION {{Child(y, j) : j \in DOMAIN y.node.children} : y \in L[n]}
      BY <1>2, <2>1
    <2>3. QED
      BY <1>8, <2>2
  <1>12. n = MaxDepth => x.node.children = <<>>
    BY <1>8 DEF IsForest, L
  <1>13. DOMAIN x.node.children = 1..Len(x.node.children) /\ Len(x.node.children) \in Nat
    <2> DEFINE children == x.node.children
    <2>1. children \in Seq(Range(children))
      BY <1>10
    <2> HIDE DEF children
    <2>2. DOMAIN children = 1..Len(children) /\ Len(children) \in Nat
      BY <2>1
    <2>3. QED
      BY <2>2 DEF children
  <1>14. n # 0 => n \in 1..MaxDepth
    BY <1>8
  <1>15. QED
    BY <1>4, <1>8, <1>9, <1>10, <1>11, <1>12, <1>13, <1>14 DEF IsPlace, L

-----------------------------------------------------------------------------
(* overlay()                                                               *)

\* What became of a place, and the place in the new tree.
InOverlay(roots, overrides, x) == Overlaying(roots, overrides)[MaxDepth - Len(x.path)][x]
OverlaidPlace(roots, overrides, x) ==
  [path |-> x.path, listed |-> InOverlay(roots, overrides, x), node |-> InOverlay(roots, overrides, x)]

OverlaidChildren(roots, overrides, x) ==
  [i \in DOMAIN x.node.children |-> InOverlay(roots, overrides, Child(x, i))]
NewHandler(overrides, x) == IF x.path \in DOMAIN overrides THEN overrides[x.path] ELSE x.node.handler

LEMMA InOverlayIs ==
  ASSUME NEW roots, NEW overrides, IsForest(roots), NEW n \in 0..MaxDepth, NEW x \in Level(roots)[n]
  PROVE  LET children == OverlaidChildren(roots, overrides, x)
             changed == Changed(x.node.children, children)
             handler == NewHandler(overrides, x)
         IN InOverlay(roots, overrides, x) =
              IF handler = x.node.handler /\ ~changed THEN x.node
              ELSE Replaced(x.node, handler, IF changed THEN children ELSE x.node.children)
  <1> DEFINE f == Overlaying(roots, overrides)
             below == IF n = MaxDepth THEN <<>> ELSE f[MaxDepth - (n + 1)]
             listed == x.node.children
  <1>1. IsPlace(roots, n, x)
    BY PlacesAre
  <1>2. f[MaxDepth - n][x] = OverlayNode(x, overrides, below)
    BY OverlaidIs
  <1>3. InOverlay(roots, overrides, x) = OverlayNode(x, overrides, below)
    BY <1>1, <1>2 DEF IsPlace, InOverlay
  <1>4. [i \in DOMAIN listed |-> below[Child(x, i)]] = OverlaidChildren(roots, overrides, x)
    <2> SUFFICES ASSUME NEW i \in DOMAIN listed
                 PROVE  below[Child(x, i)] = InOverlay(roots, overrides, Child(x, i))
      BY DEF OverlaidChildren
    <2>1. n # MaxDepth
      BY <1>1 DEF IsPlace
    <2>2. n + 1 \in 0..MaxDepth /\ Child(x, i) \in Level(roots)[n + 1]
      BY <1>1, <2>1, MaxDepthAssumption DEF IsPlace
    <2>3. Len(Child(x, i).path) = n + 1
      BY <2>2, PlacesAre DEF IsPlace
    <2>4. QED
      BY <2>1, <2>3 DEF InOverlay
  <1> HIDE DEF below
  <1>5. QED
    BY <1>3, <1>4 DEF OverlayNode, NewHandler

LEMMA OverlayIs ==
  ASSUME NEW roots, NEW overrides
  PROVE  Overlay(roots, overrides) = InOverlay(roots, overrides, Start(roots)).children
  <1>1. Start(roots).path = <<>>
    BY DEF Start
  <1>2. MaxDepth - Len(Start(roots).path) = MaxDepth
    BY <1>1, MaxDepthAssumption
  <1>3. QED
    BY <1>2, OverlaidIs DEF InOverlay

\* A node that an overlay has made, or left, is a full one of the same name.
LEMMA OverlaidIsFull ==
  ASSUME NEW roots, NEW overrides, IsForest(roots), NEW n \in 0..MaxDepth, n # 0, NEW x \in Level(roots)[n]
  PROVE  LET node == InOverlay(roots, overrides, x)
         IN /\ ~Lazy(node) /\ Resolved(node) = node
            /\ node.name = x.node.name /\ node.handler = NewHandler(overrides, x)
            /\ node.id # Copied => node = x.node
  <1> DEFINE node == InOverlay(roots, overrides, x)
             children == OverlaidChildren(roots, overrides, x)
             changed == Changed(x.node.children, children)
             handler == NewHandler(overrides, x)
             kept == IF changed THEN children ELSE x.node.children
  <1>1. ~Lazy(x.node)
    BY PlacesAre DEF IsPlace
  <1>2. node = IF handler = x.node.handler /\ ~changed THEN x.node ELSE Replaced(x.node, handler, kept)
    BY InOverlayIs
  <1> HIDE DEF node, children, changed, handler, kept
  <1>3. CASE node = x.node /\ handler = x.node.handler
    BY <1>1, <1>3 DEF node, handler, Resolved
  <1>4. CASE node = Replaced(x.node, handler, kept)
    <2>1. /\ node.id = Copied /\ node.name = x.node.name /\ node.source = x.node.source
          /\ node.handler = handler
      BY <1>4 DEF Replaced
    <2>2. QED
      BY <1>1, <2>1 DEF node, handler, Resolved, Lazy
  <1>5. QED
    BY <1>2, <1>3, <1>4

\* The children of a place in the new tree are what became of its children.
LEMMA OverlaidBelow ==
  ASSUME NEW roots, NEW overrides, IsForest(roots), NEW n \in 0..MaxDepth, NEW x \in Level(roots)[n],
         NEW y, y.path = x.path, y.node.children = InOverlay(roots, overrides, x).children
  PROVE  /\ DOMAIN y.node.children = DOMAIN x.node.children
         /\ \A i \in DOMAIN x.node.children : Child(y, i) = OverlaidPlace(roots, overrides, Child(x, i))
  <1> DEFINE old == x.node.children
             children == OverlaidChildren(roots, overrides, x)
             changed == Changed(old, children)
             handler == NewHandler(overrides, x)
             new == y.node.children
             c(i) == Child(x, i)
             New(i) == InOverlay(roots, overrides, c(i))
  <1>1. IsPlace(roots, n, x)
    BY PlacesAre
  <1>2. new = IF changed THEN children ELSE old
    <2> DEFINE kept == IF changed THEN children ELSE old
    <2>1. InOverlay(roots, overrides, x) =
            IF handler = x.node.handler /\ ~changed THEN x.node ELSE Replaced(x.node, handler, kept)
      BY InOverlayIs
    <2> HIDE DEF changed, handler, children
    <2>2. Replaced(x.node, handler, kept).children = kept
      BY DEF Replaced
    <2>3. QED
      BY <2>1, <2>2
  <1>3. DOMAIN children = DOMAIN old /\ \A i \in DOMAIN old : children[i] = New(i)
    BY DEF OverlaidChildren
  <1>4. ASSUME NEW i \in DOMAIN old
        PROVE  /\ c(i).listed = old[i] /\ c(i).node = Resolved(old[i])
               /\ c(i).path = Append(x.path, c(i).node.name)
               /\ c(i).listed.id # Copied /\ (Lazy(c(i).listed) => c(i).node.id # c(i).listed.id)
               /\ ~Lazy(New(i)) /\ Resolved(New(i)) = New(i) /\ New(i).name = c(i).node.name
               /\ New(i).id # Copied => New(i) = c(i).node
    <2>1. n + 1 \in 0..MaxDepth /\ n + 1 # 0 /\ Child(x, i) \in Level(roots)[n + 1]
      BY <1>1, MaxDepthAssumption DEF IsPlace
    <2>2. IsPlace(roots, n + 1, Child(x, i))
      BY <2>1, PlacesAre
    <2>3. /\ ~Lazy(New(i)) /\ Resolved(New(i)) = New(i) /\ New(i).name = c(i).node.name
          /\ New(i).id # Copied => New(i) = c(i).node
      BY <2>1, OverlaidIsFull
    <2>4. /\ c(i).listed = old[i] /\ c(i).node = Resolved(old[i])
          /\ c(i).path = Append(x.path, c(i).node.name)
      BY DEF Child
    <2>5. c(i).listed.id # Copied /\ (Lazy(c(i).listed) => c(i).node.id # c(i).listed.id)
      BY <2>1, <2>2 DEF IsPlace
    <2>6. QED
      BY <2>3, <2>4, <2>5
  <1>5. ASSUME NEW i \in DOMAIN old
        PROVE  new[i] = New(i)
    <2>1. CASE changed
      BY <1>2, <1>3, <2>1
    <2>2. CASE ~changed
      <3>1. children[i].id = old[i].id
        BY <2>2 DEF Changed
      <3>2. New(i).id = c(i).listed.id
        BY <1>3, <1>4, <3>1
      <3>3. New(i) = c(i).node
        BY <1>4, <3>2
      <3>4. ~Lazy(c(i).listed)
        BY <1>4, <3>2, <3>3
      <3>5. c(i).node = old[i]
        BY <1>4, <3>4 DEF Resolved
      <3>6. QED
        BY <1>2, <2>2, <3>3, <3>5
    <2>3. QED
      BY <2>1, <2>2
  <1>6. DOMAIN new = DOMAIN old
    BY <1>2, <1>3
  <1>7. ASSUME NEW i \in DOMAIN old
        PROVE  Child(y, i) = OverlaidPlace(roots, overrides, c(i))
    <2> DEFINE made == New(i)
    <2>1. new[i] = made /\ Resolved(made) = made /\ c(i).path = Append(x.path, made.name)
      BY <1>4, <1>5
    <2>2. Child(y, i) = [path |-> Append(y.path, Resolved(new[i]).name), listed |-> new[i], node |-> Resolved(new[i])]
      BY DEF Child
    <2>3. OverlaidPlace(roots, overrides, c(i)) = [path |-> c(i).path, listed |-> made, node |-> made]
      BY DEF OverlaidPlace
    <2> HIDE DEF made, new, c
    <2>4. QED
      BY <2>1, <2>2, <2>3
  <1>8. QED
    BY <1>6, <1>7

\* Level by level, the new tree has what became of the old one.
LEMMA OverlaidLevels ==
  ASSUME NEW roots, NEW overrides, IsForest(roots), NEW n \in 1..MaxDepth
  PROVE  Level(Overlay(roots, overrides))[n] = {OverlaidPlace(roots, overrides, x) : x \in Level(roots)[n]}
  <1> DEFINE after == Overlay(roots, overrides)
             L == Level(roots)
             A == Level(after)
             Im(x) == OverlaidPlace(roots, overrides, x)
             Kids(x) == {Child(x, i) : i \in DOMAIN x.node.children}
             At(m) == A[m] = {Im(x) : x \in L[m]}
             T == {m \in Nat : m < MaxDepth => At(m + 1)}
  <1>1. MaxDepth \in Nat /\ MaxDepth # 0
    BY MaxDepthAssumption
  <1>2. \A m \in 0..MaxDepth : m # 0 => L[m] = UNION {Kids(x) : x \in L[m - 1]} /\ A[m] = UNION {Kids(x) : x \in A[m - 1]}
    BY LevelIs
  <1>3. L[0] = {Start(roots)} /\ A[0] = {Start(after)}
    BY LevelIs
  <1>4. \A m \in 0..MaxDepth : \A x \in L[m] : \A y :
          y.path = x.path /\ y.node.children = InOverlay(roots, overrides, x).children =>
            Kids(y) = {Im(z) : z \in Kids(x)}
    <2> SUFFICES ASSUME NEW m \in 0..MaxDepth, NEW x \in L[m], NEW y,
                        y.path = x.path, y.node.children = InOverlay(roots, overrides, x).children
                 PROVE  Kids(y) = {Im(z) : z \in Kids(x)}
      OBVIOUS
    <2>1. /\ DOMAIN y.node.children = DOMAIN x.node.children
          /\ \A i \in DOMAIN x.node.children : Child(y, i) = Im(Child(x, i))
      BY OverlaidBelow
    <2> HIDE DEF Im
    <2>2. QED
      BY <2>1
  <1>5. \A x : Im(x).path = x.path /\ Im(x).node = InOverlay(roots, overrides, x)
    BY DEF OverlaidPlace
  <1>6. /\ Start(after).path = Start(roots).path
        /\ Start(after).node.children = InOverlay(roots, overrides, Start(roots)).children
    BY OverlayIs DEF Start, Top, Command
  <1> HIDE DEF L, A, Kids, Im, after
  <1>7. 0 \in T
    <2>1. 0 \in 0..MaxDepth /\ 1 \in 0..MaxDepth /\ 1 - 1 = 0 /\ 0 + 1 = 1
      BY <1>1
    <2>2. L[1] = Kids(Start(roots)) /\ A[1] = Kids(Start(after))
      <3>1. L[1] = UNION {Kids(x) : x \in L[0]} /\ A[1] = UNION {Kids(x) : x \in A[0]}
        BY <1>2, <2>1
      <3>2. QED
        BY <1>3, <3>1
    <2>3. Kids(Start(after)) = {Im(z) : z \in Kids(Start(roots))}
      BY <1>3, <1>4, <1>6, <2>1
    <2>4. QED
      BY <2>1, <2>2, <2>3
  <1>8. ASSUME NEW m \in T
        PROVE  m + 1 \in T
    <2> SUFFICES ASSUME m + 1 < MaxDepth
                 PROVE  At((m + 1) + 1)
      OBVIOUS
    <2>1. /\ m \in Nat /\ m + 1 \in 0..MaxDepth /\ (m + 1) + 1 \in 0..MaxDepth
          /\ (m + 1) + 1 # 0 /\ ((m + 1) + 1) - 1 = m + 1
      BY <1>1
    <2>2. A[m + 1] = {Im(x) : x \in L[m + 1]}
      BY <1>1, <2>1
    <2>3. \A x \in L[m + 1] : Kids(Im(x)) = {Im(z) : z \in Kids(x)}
      BY <1>4, <1>5, <2>1
    <2>4. /\ A[(m + 1) + 1] = UNION {Kids(y) : y \in A[m + 1]}
          /\ L[(m + 1) + 1] = UNION {Kids(x) : x \in L[m + 1]}
      BY <1>2, <2>1
    <2>5. QED
      BY <2>2, <2>3, <2>4
  <1>9. T = Nat
    <2> HIDE DEF T
    <2>1. T \in SUBSET Nat
      BY DEF T
    <2>2. QED
      BY <1>7, <1>8, <2>1, Inductive
  <1>10. n - 1 \in Nat /\ n - 1 < MaxDepth /\ (n - 1) + 1 = n
    BY <1>1
  <1>11. At(n)
    BY <1>9, <1>10
  <1>12. QED
    BY <1>11 DEF L, A, Im, after

LEMMA OverlaidPlaces ==
  ASSUME NEW roots, NEW overrides, IsForest(roots)
  PROVE  Places(Overlay(roots, overrides)) = {OverlaidPlace(roots, overrides, x) : x \in Places(roots)}
  <1> DEFINE after == Overlay(roots, overrides)
             L == Level(roots)
             A == Level(after)
             Im(x) == OverlaidPlace(roots, overrides, x)
  <1>1. \A n \in 1..MaxDepth : A[n] = {Im(x) : x \in L[n]}
    BY OverlaidLevels
  <1>2. Places(after) = UNION {A[n] : n \in 1..MaxDepth} /\ Places(roots) = UNION {L[n] : n \in 1..MaxDepth}
    BY DEF Places
  <1> HIDE DEF after, L, A, Im
  <1>3. Places(after) = {Im(x) : x \in Places(roots)}
    BY <1>1, <1>2
  <1>4. QED
    BY <1>3 DEF after, Im

\* What an overlay has neither a handler for, at a node or below, nor a module to
\* import for, it leaves alone.
LEMMA OverlayShares ==
  ASSUME NEW roots, NEW overrides, IsForest(roots), \A path \in DOMAIN overrides : path \in Seq(STRING),
         NEW n \in 0..MaxDepth, NEW x \in Level(roots)[n], n # 0,
         IsSettled(roots, x.path), \A path \in DOMAIN overrides : ~IsPrefix(x.path, path)
  PROVE  InOverlay(roots, overrides, x) = x.node
  <1> DEFINE L == Level(roots)
             Quiet(y) == IsSettled(roots, y.path) /\ \A path \in DOMAIN overrides : ~IsPrefix(y.path, path)
             New(y) == InOverlay(roots, overrides, y)
             At(m) == \A y \in L[MaxDepth - m] : Quiet(y) => New(y) = y.node
             T == {m \in Nat : m < MaxDepth => At(m)}
  <1>1. MaxDepth \in Nat /\ MaxDepth # 0
    BY MaxDepthAssumption
  <1>2. ASSUME NEW m \in 1..MaxDepth, NEW y \in L[m], Quiet(y),
               m # MaxDepth => \A z \in L[m + 1] : Quiet(z) => New(z) = z.node
        PROVE  New(y) = y.node
    <2> DEFINE old == y.node.children
               children == OverlaidChildren(roots, overrides, y)
    <2>1. m \in 0..MaxDepth /\ m # 0 /\ m \in Nat
      OBVIOUS
    <2>2. IsPlace(roots, m, y)
      BY <2>1, PlacesAre
    <2>3. ASSUME NEW i \in DOMAIN old
          PROVE  children[i] = old[i]
      <3> DEFINE c == Child(y, i)
      <3>1. m # MaxDepth /\ c \in L[m + 1] /\ m + 1 \in 1..MaxDepth /\ m + 1 \in 0..MaxDepth
        BY <1>1, <2>1, <2>2 DEF IsPlace
      <3>2. IsPlace(roots, m + 1, c) /\ m + 1 # 0
        BY <2>1, <3>1, PlacesAre
      <3>3. c.path = Append(y.path, c.node.name) /\ c.listed = old[i] /\ c.node = Resolved(old[i])
        BY DEF Child
      <3> HIDE DEF c
      <3>4. /\ y.path \in Seq(STRING) /\ c.path \in Seq(STRING) /\ c.node.name \in STRING
        BY <2>2, <3>2 DEF IsPlace
      <3>5. IsStrictPrefix(y.path, c.path)
        <4> DEFINE s == y.path
                   a == c.node.name
        <4>1. s \in Seq(STRING) /\ a \in STRING
          BY <3>4
        <4> HIDE DEF s, a
        <4>2. IsStrictPrefix(s, Append(s, a))
          BY <4>1, OneNameMore
        <4>3. QED
          BY <3>3, <4>2 DEF s, a
      <3>6. c \in Places(roots)
        BY <3>1 DEF Places
      <3>7. ~Lazy(c.listed)
        BY <1>2, <3>5, <3>6 DEF IsSettled
      <3>8. IsSettled(roots, c.path)
        <4> SUFFICES ASSUME NEW z \in Places(roots), IsStrictPrefix(c.path, z.path)
                     PROVE  ~Lazy(z.listed)
          BY DEF IsSettled
        <4>1. PICK k \in 1..MaxDepth : z \in L[k]
          BY DEF Places
        <4>2. z.path \in Seq(STRING)
          <5>1. k \in 0..MaxDepth
            OBVIOUS
          <5>2. QED
            BY <4>1, <5>1, PlacesAre DEF IsPlace
        <4>3. IsStrictPrefix(y.path, z.path)
          BY <3>4, <3>5, <4>2, StrictTransitive DEF IsStrictPrefix
        <4>4. QED
          BY <1>2, <4>3 DEF IsSettled
      <3>9. \A path \in DOMAIN overrides : ~IsPrefix(c.path, path)
        <4> SUFFICES ASSUME NEW path \in DOMAIN overrides, IsPrefix(c.path, path)
                     PROVE  FALSE
          OBVIOUS
        <4>1. IsStrictPrefix(y.path, path)
          BY <3>4, <3>5, StrictTransitive
        <4>2. QED
          BY <1>2, <4>1 DEF IsStrictPrefix
      <3>10. New(c) = c.node
        BY <1>2, <3>1, <3>8, <3>9
      <3>11. children[i] = New(c)
        BY DEF OverlaidChildren, c
      <3>12. QED
        BY <3>3, <3>7, <3>10, <3>11 DEF Resolved
    <2>4. ~Changed(old, children)
      BY <2>3 DEF Changed
    <2>5. y.path \notin DOMAIN overrides
      <3> SUFFICES ASSUME y.path \in DOMAIN overrides
                   PROVE  FALSE
        OBVIOUS
      <3>1. y.path \in Seq(STRING)
        BY <2>2 DEF IsPlace
      <3>2. IsPrefix(y.path, y.path)
        BY <3>1, PrefixIs
      <3>3. QED
        BY <1>2, <3>2
    <2>6. NewHandler(overrides, y) = y.node.handler
      BY <2>5 DEF NewHandler
    <2> HIDE DEF old, children
    <2>7. QED
      BY <2>1, <2>4, <2>6, InOverlayIs DEF old, children
  <1> HIDE DEF L, Quiet, New
  <1>3. 0 \in T
    <2>1. MaxDepth \in 1..MaxDepth /\ MaxDepth - 0 = MaxDepth
      BY <1>1
    <2>2. QED
      BY <1>2, <2>1
  <1>4. ASSUME NEW m \in T
        PROVE  m + 1 \in T
    <2> SUFFICES ASSUME m + 1 < MaxDepth
                 PROVE  At(m + 1)
      OBVIOUS
    <2> DEFINE k == MaxDepth - (m + 1)
    <2>1. m \in Nat /\ At(m) /\ k \in 1..MaxDepth /\ k + 1 = MaxDepth - m
      BY <1>1
    <2> HIDE DEF k
    <2>2. \A z \in L[k + 1] : Quiet(z) => New(z) = z.node
      BY <2>1
    <2>3. \A y \in L[k] : Quiet(y) => New(y) = y.node
      BY <1>2, <2>1, <2>2
    <2>4. QED
      BY <2>3 DEF k
  <1>5. T = Nat
    <2> HIDE DEF T
    <2>1. T \in SUBSET Nat
      BY DEF T
    <2>2. QED
      BY <1>3, <1>4, <2>1, Inductive
  <1>6. MaxDepth - n \in Nat /\ MaxDepth - n < MaxDepth /\ MaxDepth - (MaxDepth - n) = n
    BY <1>1
  <1>7. At(MaxDepth - n)
    BY <1>5, <1>6
  <1>8. QED
    BY <1>6, <1>7 DEF L, Quiet, New

LEMMA OverlaysAreExact ==
  ASSUME NEW roots, NEW overrides, IsForest(roots), \A path \in DOMAIN overrides : path \in Seq(STRING)
  PROVE  OverlayIsExact(roots, overrides)
  <1> DEFINE after == Overlay(roots, overrides)
             Im(x) == OverlaidPlace(roots, overrides, x)
             Now(h) == IF h[1] \in DOMAIN overrides THEN overrides[h[1]] ELSE h[2]
  <1>1. Places(after) = {Im(x) : x \in Places(roots)}
    BY OverlaidPlaces
  <1>2. \A x : Im(x).path = x.path /\ Im(x).node = InOverlay(roots, overrides, x)
    BY DEF OverlaidPlace
  <1>3. ASSUME NEW x \in Places(roots)
        PROVE  \E n \in 0..MaxDepth : n # 0 /\ x \in Level(roots)[n]
    BY DEF Places
  <1>4. ASSUME NEW x \in Places(roots)
        PROVE  Im(x).node.handler = Now(<<x.path, x.node.handler>>)
    <2>1. InOverlay(roots, overrides, x).handler = NewHandler(overrides, x)
      BY <1>3, OverlaidIsFull
    <2>2. QED
      BY <1>2, <2>1 DEF NewHandler
  <1>5. \A tree : HandlersOf(tree) = {<<x.path, x.node.handler>> : x \in Places(tree)}
    <2> SUFFICES ASSUME NEW tree
                 PROVE  HandlersOf(tree) = {<<x.path, x.node.handler>> : x \in Places(tree)}
      OBVIOUS
    <2> DEFINE W(x) == [path |-> x.path, node |-> x.node]
    <2>1. Walk(tree) = {W(x) : x \in Places(tree)}
      BY DEF Walk
    <2>2. \A x : W(x).path = x.path /\ W(x).node = x.node
      OBVIOUS
    <2> HIDE DEF W
    <2>3. HandlersOf(tree) = {<<w.path, w.node.handler>> : w \in Walk(tree)}
      BY DEF HandlersOf
    <2>4. QED
      BY <2>1, <2>2, <2>3
  <1>6. HandlersOf(after) = {<<h[1], Now(h)>> : h \in HandlersOf(roots)}
    <2> DEFINE H(x) == <<x.path, x.node.handler>>
    <2>1. HandlersOf(after) = {H(y) : y \in Places(after)} /\ HandlersOf(roots) = {H(x) : x \in Places(roots)}
      BY <1>5
    <2>2. \A x \in Places(roots) : H(Im(x)) = <<H(x)[1], Now(H(x))>>
      BY <1>2, <1>4
    <2> HIDE DEF H, Im, Now, after
    <2>3. QED
      BY <1>1, <2>1, <2>2
  <1>7. ASSUME NEW w \in Walk(roots), IsSettled(roots, w.path),
               \A path \in DOMAIN overrides : ~IsPrefix(w.path, path)
        PROVE  w \in Walk(after)
    <2>1. PICK x \in Places(roots) : w = [path |-> x.path, node |-> x.node]
      BY DEF Walk
    <2>2. w.path = x.path
      BY <2>1
    <2>3. InOverlay(roots, overrides, x) = x.node
      BY <1>3, <1>7, <2>2, OverlayShares
    <2>4. w = [path |-> Im(x).path, node |-> Im(x).node]
      BY <1>2, <2>1, <2>3
    <2>5. Im(x) \in Places(after)
      BY <1>1
    <2> HIDE DEF Im, after
    <2>6. QED
      BY <2>4, <2>5 DEF Walk
  <1>8. QED
    BY <1>6, <1>7 DEF OverlayIsExact

-----------------------------------------------------------------------------
(* extend_at()                                                             *)

\* What became of a place, and the place in the new tree; an added place.
InExtension(roots, path, additions, x) == Growing(roots, path, additions)[MaxDepth - Len(x.path)][x]
GrownPlace(roots, path, additions, x) ==
  LET new == InExtension(roots, path, additions, x)
  IN [path |-> x.path, listed |-> new, node |-> Resolved(new)]
MovedPlace(path, z) == [path |-> path \o z.path, listed |-> z.listed, node |-> z.node]

GrownChildren(roots, path, additions, x) ==
  IF ~IsPrefix(x.path, path) THEN x.node.children
  ELSE IF x.path = path THEN x.node.children \o additions
  ELSE [i \in DOMAIN x.node.children |-> InExtension(roots, path, additions, Child(x, i))]

LEMMA InExtensionIs ==
  ASSUME NEW roots, NEW path, NEW additions, IsForest(roots), NEW n \in 0..MaxDepth, NEW x \in Level(roots)[n]
  PROVE  InExtension(roots, path, additions, x) =
           IF ~IsPrefix(x.path, path) THEN x.listed
           ELSE Replaced(x.node, x.node.handler, GrownChildren(roots, path, additions, x))
  <1> DEFINE f == Growing(roots, path, additions)
             below == IF n = MaxDepth THEN <<>> ELSE f[MaxDepth - (n + 1)]
             listed == x.node.children
             children == [i \in DOMAIN listed |-> InExtension(roots, path, additions, Child(x, i))]
  <1>1. IsPlace(roots, n, x)
    BY PlacesAre
  <1>2. f[MaxDepth - n][x] = ExtendNode(x, path, additions, below)
    BY GrownIs
  <1>3. InExtension(roots, path, additions, x) = ExtendNode(x, path, additions, below)
    BY <1>1, <1>2 DEF IsPlace, InExtension
  <1>4. [i \in DOMAIN listed |-> below[Child(x, i)]] = children
    <2> SUFFICES ASSUME NEW i \in DOMAIN listed
                 PROVE  below[Child(x, i)] = InExtension(roots, path, additions, Child(x, i))
      OBVIOUS
    <2>1. n # MaxDepth
      BY <1>1 DEF IsPlace
    <2>2. n + 1 \in 0..MaxDepth /\ Child(x, i) \in Level(roots)[n + 1]
      BY <1>1, <2>1, MaxDepthAssumption DEF IsPlace
    <2>3. Len(Child(x, i).path) = n + 1
      BY <2>2, PlacesAre DEF IsPlace
    <2>4. QED
      BY <2>1, <2>3 DEF InExtension
  <1>5. GrownChildren(roots, path, additions, x) =
          IF ~IsPrefix(x.path, path) THEN listed ELSE IF x.path = path THEN listed \o additions ELSE children
    BY DEF GrownChildren
  <1> HIDE DEF below, children
  <1>6. ExtendNode(x, path, additions, below) =
          IF ~IsPrefix(x.path, path) THEN x.listed
          ELSE Replaced(x.node, x.node.handler, IF x.path = path THEN listed \o additions ELSE children)
    BY <1>4 DEF ExtendNode
  <1>7. QED
    BY <1>3, <1>5, <1>6

LEMMA ExtendedIs ==
  ASSUME NEW roots, NEW path \in Seq(STRING), NEW additions, IsForest(roots)
  PROVE  Extended(roots, path, additions) = GrownChildren(roots, path, additions, Start(roots))
  <1> DEFINE new == InExtension(roots, path, additions, Start(roots))
             children == GrownChildren(roots, path, additions, Start(roots))
  <1>1. Start(roots).path = <<>>
    BY DEF Start
  <1>2. MaxDepth - Len(Start(roots).path) = MaxDepth /\ 0 \in 0..MaxDepth
    BY <1>1, MaxDepthAssumption
  <1>3. Extended(roots, path, additions) = new.children
    BY <1>2, GrownIs DEF InExtension
  <1>4. IsPrefix(Start(roots).path, path)
    BY <1>1, EmptyIsPrefix
  <1>5. Start(roots) \in Level(roots)[0]
    BY LevelIs
  <1>6. new = Replaced(Start(roots).node, Start(roots).node.handler, children)
    BY <1>2, <1>4, <1>5, InExtensionIs
  <1> HIDE DEF new, children
  <1>7. QED
    BY <1>3, <1>6 DEF Replaced, children

\* A place of the new tree has the name and the handler of the old one.
LEMMA GrownIsFull ==
  ASSUME NEW roots, NEW path, NEW additions, IsForest(roots), NEW n \in 0..MaxDepth, n # 0,
         NEW x \in Level(roots)[n]
  PROVE  /\ GrownPlace(roots, path, additions, x).path = x.path
         /\ GrownPlace(roots, path, additions, x).listed = InExtension(roots, path, additions, x)
         /\ GrownPlace(roots, path, additions, x).node = Resolved(InExtension(roots, path, additions, x))
         /\ GrownPlace(roots, path, additions, x).node.name = x.node.name
         /\ GrownPlace(roots, path, additions, x).node.handler = x.node.handler
         /\ GrownPlace(roots, path, additions, x).node.children = GrownChildren(roots, path, additions, x)
  <1> DEFINE new == InExtension(roots, path, additions, x)
             children == GrownChildren(roots, path, additions, x)
  <1>1. x.node = Resolved(x.listed) /\ ~Lazy(x.node)
    BY PlacesAre DEF IsPlace
  <1>2. new = IF ~IsPrefix(x.path, path) THEN x.listed ELSE Replaced(x.node, x.node.handler, children)
    BY InExtensionIs
  <1>3. ~IsPrefix(x.path, path) => children = x.node.children
    BY DEF GrownChildren
  <1> HIDE DEF new, children
  <1>4. /\ Resolved(new).name = x.node.name /\ Resolved(new).handler = x.node.handler
        /\ Resolved(new).children = children
    <2>1. CASE ~IsPrefix(x.path, path)
      BY <1>1, <1>2, <1>3, <2>1
    <2>2. CASE IsPrefix(x.path, path)
      <3>1. /\ new.name = x.node.name /\ new.handler = x.node.handler
            /\ new.source = x.node.source /\ new.children = children
        BY <1>2, <2>2 DEF Replaced
      <3>2. QED
        BY <1>1, <3>1 DEF Resolved, Lazy
    <2>3. QED
      BY <2>1, <2>2
  <1>5. QED
    BY <1>4 DEF GrownPlace, new, children

Below(x) == {Child(x, i) : i \in DOMAIN x.node.children}

\* Below a place of the new tree is what became of the places below the old one and,
\* below the target, what was added.
LEMMA GrownBelow ==
  ASSUME NEW roots, NEW path \in Seq(STRING), NEW additions, additions \in Seq(Range(additions)),
         IsForest(roots), NEW n \in 0..MaxDepth, NEW x \in Level(roots)[n],
         NEW y, y.path = x.path, y.node.children = GrownChildren(roots, path, additions, x)
  PROVE  Below(y) = {GrownPlace(roots, path, additions, c) : c \in Below(x)}
                      \union (IF x.path = path THEN {MovedPlace(path, z) : z \in Below(Start(additions))} ELSE {})
  <1> DEFINE old == x.node.children
             new == y.node.children
             c(i) == Child(x, i)
             New(i) == InExtension(roots, path, additions, c(i))
             Im(z) == GrownPlace(roots, path, additions, z)
  <1>1. IsPlace(roots, n, x)
    BY PlacesAre
  <1>2. old \in Seq(Range(old)) /\ DOMAIN old = 1..Len(old) /\ Len(old) \in Nat
    BY <1>1 DEF IsPlace
  <1>3. ASSUME NEW i \in DOMAIN old
        PROVE  /\ c(i).listed = old[i]
               /\ c(i).path = Append(x.path, c(i).node.name)
               /\ Im(c(i)).path = c(i).path /\ Im(c(i)).listed = New(i)
               /\ Im(c(i)).node = Resolved(New(i)) /\ Im(c(i)).node.name = c(i).node.name
               /\ IsPrefix(c(i).path, path) => IsStrictPrefix(x.path, path)
               /\ ~IsPrefix(c(i).path, path) => New(i) = old[i]
    <2>1. n + 1 \in 0..MaxDepth /\ n + 1 # 0 /\ Child(x, i) \in Level(roots)[n + 1]
      BY <1>1, MaxDepthAssumption DEF IsPlace
    <2>2. IsPlace(roots, n + 1, Child(x, i))
      BY <2>1, PlacesAre
    <2>3. /\ Im(c(i)).path = c(i).path /\ Im(c(i)).listed = New(i)
          /\ Im(c(i)).node = Resolved(New(i)) /\ Im(c(i)).node.name = c(i).node.name
      <3>1. PICK k \in 0..MaxDepth : k # 0 /\ Child(x, i) \in Level(roots)[k]
        BY <2>1
      <3>2. PICK z \in Level(roots)[k] : z = Child(x, i)
        BY <3>1
      <3>3. /\ GrownPlace(roots, path, additions, z).path = z.path
            /\ GrownPlace(roots, path, additions, z).listed = InExtension(roots, path, additions, z)
            /\ GrownPlace(roots, path, additions, z).node = Resolved(InExtension(roots, path, additions, z))
            /\ GrownPlace(roots, path, additions, z).node.name = z.node.name
        <4>1. /\ GrownPlace(roots, path, additions, z).path = z.path
              /\ GrownPlace(roots, path, additions, z).listed = InExtension(roots, path, additions, z)
              /\ GrownPlace(roots, path, additions, z).node = Resolved(InExtension(roots, path, additions, z))
          BY DEF GrownPlace
        <4>2. GrownPlace(roots, path, additions, z).node.name = z.node.name
          BY <3>1, GrownIsFull
        <4>3. QED
          BY <4>1, <4>2
      <3>4. QED
        BY <3>2, <3>3
    <2>4. c(i).listed = old[i] /\ c(i).path = Append(x.path, c(i).node.name)
      BY DEF Child
    <2>5. x.path \in Seq(STRING) /\ c(i).node.name \in STRING
      BY <1>1, <2>1, <2>2 DEF IsPlace
    <2>6. IsPrefix(c(i).path, path) => IsStrictPrefix(x.path, path)
      <3> DEFINE s == x.path
                 a == c(i).node.name
      <3>1. s \in Seq(STRING) /\ a \in STRING
        BY <2>5
      <3> HIDE DEF s, a
      <3>2. IsPrefix(Append(s, a), path) => IsStrictPrefix(s, path)
        BY <3>1, OneNameMore
      <3>3. QED
        BY <2>4, <3>2 DEF s, a
    <2>7. ~IsPrefix(c(i).path, path) => New(i) = c(i).listed
      BY <2>1, InExtensionIs
    <2>8. QED
      BY <2>3, <2>4, <2>6, <2>7
  <1>4. new = IF ~IsPrefix(x.path, path) THEN old ELSE IF x.path = path THEN old \o additions
              ELSE [i \in DOMAIN old |-> New(i)]
    BY DEF GrownChildren
  <1> HIDE DEF c, New, Im
  <1>5. ASSUME NEW i \in DOMAIN old
        PROVE  i \in DOMAIN new /\ new[i] = New(i)
    <2>1. CASE ~IsPrefix(x.path, path)
      BY <1>3, <1>4, <2>1 DEF IsStrictPrefix
    <2>2. CASE x.path = path /\ IsPrefix(x.path, path)
      <3>1. new = old \o additions
        BY <1>4, <2>2
      <3> HIDE DEF old, new
      <3>2. i \in 1..Len(old) /\ Len(additions) \in Nat
        BY <1>2
      <3>3. /\ DOMAIN (old \o additions) = 1..(Len(old) + Len(additions))
            /\ (old \o additions)[i] = old[i]
        <4>1. DOMAIN additions = 1..Len(additions)
          OBVIOUS
        <4>2. QED
          BY <1>2, <3>2, <4>1
      <3>4. ~IsPrefix(c(i).path, path)
        BY <1>3, <2>2 DEF IsStrictPrefix
      <3>5. New(i) = old[i]
        BY <1>3, <3>4
      <3>6. i \in 1..(Len(old) + Len(additions))
        BY <1>2, <3>2
      <3>7. QED
        BY <3>1, <3>3, <3>5, <3>6
    <2>3. CASE x.path # path /\ IsPrefix(x.path, path)
      BY <1>4, <2>3
    <2>4. QED
      BY <2>1, <2>2, <2>3
  <1>6. ASSUME NEW i \in DOMAIN old
        PROVE  Child(y, i) = Im(c(i))
    <2>1. Child(y, i) = [path |-> Append(y.path, Resolved(new[i]).name), listed |-> new[i], node |-> Resolved(new[i])]
      BY DEF Child
    <2>2. Im(c(i)) = [path |-> c(i).path, listed |-> New(i), node |-> Resolved(New(i))]
      BY DEF Im, New, GrownPlace
    <2>3. Append(y.path, Resolved(New(i)).name) = c(i).path
      BY <1>3
    <2> HIDE DEF new
    <2>4. QED
      BY <1>5, <2>1, <2>2, <2>3
  <1>7. CASE x.path # path
    <2>1. DOMAIN new = DOMAIN old
      <3>1. CASE IsPrefix(x.path, path)
        <4>1. new = [i \in DOMAIN old |-> New(i)]
          BY <1>4, <1>7, <3>1
        <4>2. QED
          BY <4>1
      <3>2. CASE ~IsPrefix(x.path, path)
        BY <1>4, <3>2
      <3>3. QED
        BY <3>1, <3>2
    <2>2. Below(y) = {Im(c(i)) : i \in DOMAIN old}
      BY <1>6, <2>1 DEF Below
    <2>3. Below(x) = {c(i) : i \in DOMAIN old}
      BY DEF Below, c
    <2> HIDE DEF old
    <2>4. Below(y) = {Im(z) : z \in Below(x)}
      BY <2>2, <2>3
    <2>5. QED
      BY <1>7, <2>4 DEF Im
  <1>8. CASE x.path = path
    <2> DEFINE top == Start(additions)
               l == Len(old)
               m == Len(additions)
    <2>1. new = old \o additions
      <3>1. IsPrefix(x.path, path)
        BY <1>8, PrefixIs
      <3>2. QED
        BY <1>4, <1>8, <3>1
    <2>2. /\ DOMAIN additions = 1..m /\ m \in Nat
          /\ top.node.children = additions /\ top.path = <<>>
      <3>1. DOMAIN additions = 1..m /\ m \in Nat
        OBVIOUS
      <3>2. top.node.children = additions /\ top.path = <<>>
        BY DEF Start, Top, Command
      <3>3. QED
        BY <3>1, <3>2
    <2>3. /\ DOMAIN new = 1..(l + m) /\ \A j \in 1..m : new[l + j] = additions[j]
      <3> HIDE DEF old, new
      <3>1. QED
        BY <1>2, <2>1, <2>2
    <2>4. ASSUME NEW j \in 1..m
          PROVE  Child(y, l + j) = MovedPlace(path, Child(top, j))
      <3> DEFINE name == Resolved(additions[j]).name
      <3>1. Child(top, j) = [path |-> Append(<<>>, name), listed |-> additions[j], node |-> Resolved(additions[j])]
        BY <2>2 DEF Child
      <3>2. Child(y, l + j) = [path |-> Append(path, name), listed |-> additions[j], node |-> Resolved(additions[j])]
        <4>1. new[l + j] = additions[j]
          BY <2>3
        <4> HIDE DEF l
        <4>2. QED
          BY <1>8, <4>1 DEF Child
      <3> HIDE DEF name, top
      <3>3. Append(path, name) = path \o Append(<<>>, name)
        <4>1. Append(<<>>, name) = <<name>>
          OBVIOUS
        <4>2. path \in Seq(STRING \union {name})
          <5>1. STRING \subseteq STRING \union {name}
            OBVIOUS
          <5>2. QED
            BY <5>1
        <4>3. Append(path, name) = path \o <<name>>
          BY <4>2, AppendIsConcat
        <4>4. QED
          BY <4>1, <4>3
      <3>4. QED
        BY <3>1, <3>2, <3>3 DEF MovedPlace
    <2>5. 1..(l + m) = DOMAIN old \union {l + j : j \in 1..m}
      <3>1. DOMAIN old = 1..l /\ l \in Nat /\ m \in Nat
        BY <1>2, <2>2
      <3> HIDE DEF l, m
      <3>2. \A i \in 1..(l + m) : i \in 1..l \/ (i - l \in 1..m /\ i = l + (i - l))
        BY <3>1
      <3>3. \A j \in 1..m : l + j \in 1..(l + m)
        BY <3>1
      <3>4. 1..l \subseteq 1..(l + m)
        BY <3>1
      <3>5. QED
        BY <3>1, <3>2, <3>3, <3>4
    <2>6. Below(y) = {Child(y, i) : i \in DOMAIN old \union {l + j : j \in 1..m}}
      BY <2>3, <2>5 DEF Below
    <2>7. Below(top) = {Child(top, j) : j \in 1..m}
      BY <2>2 DEF Below
    <2>8. Below(x) = {c(i) : i \in DOMAIN old}
      BY DEF Below, c
    <2> HIDE DEF old, l, m, top
    <2>9. Below(y) = {Child(y, i) : i \in DOMAIN old} \union {Child(y, l + j) : j \in 1..m}
      BY <2>6
    <2>10. {Child(y, i) : i \in DOMAIN old} = {Im(z) : z \in Below(x)}
      BY <1>6, <2>8
    <2>11. {Child(y, l + j) : j \in 1..m} = {MovedPlace(path, z) : z \in Below(top)}
      BY <2>4, <2>7
    <2>12. QED
      BY <1>8, <2>9, <2>10, <2>11 DEF Im, top
  <1>9. QED
    BY <1>7, <1>8

\* Below a place that was added is what was below it.
LEMMA MovedBelow ==
  ASSUME NEW path \in Seq(STRING), NEW additions, IsForest(additions),
         NEW n \in 0..MaxDepth, NEW z \in Level(additions)[n]
  PROVE  Below(MovedPlace(path, z)) = {MovedPlace(path, c) : c \in Below(z)}
  <1> DEFINE old == z.node.children
             c(i) == Child(z, i)
             y == MovedPlace(path, z)
  <1>1. IsPlace(additions, n, z)
    BY PlacesAre
  <1>2. ASSUME NEW i \in DOMAIN old
        PROVE  Child(y, i) = MovedPlace(path, c(i))
    <2>1. n + 1 \in 0..MaxDepth /\ n + 1 # 0 /\ Child(z, i) \in Level(additions)[n + 1]
      BY <1>1, MaxDepthAssumption DEF IsPlace
    <2>2. IsPlace(additions, n + 1, Child(z, i))
      BY <2>1, PlacesAre
    <2> DEFINE listed == z.node.children[i]
               name == Resolved(listed).name
    <2>3. c(i) = [path |-> Append(z.path, name), listed |-> listed, node |-> Resolved(listed)]
      BY DEF Child
    <2>4. name \in STRING
      BY <2>1, <2>2, <2>3 DEF IsPlace
    <2>5. y.path = path \o z.path /\ y.node = z.node
      BY DEF MovedPlace
    <2>6. Child(y, i) = [path |-> Append(path \o z.path, name), listed |-> listed, node |-> Resolved(listed)]
      BY <2>5 DEF Child
    <2> HIDE DEF name, listed, y, c
    <2>7. z.path \in Seq(STRING)
      BY <1>1 DEF IsPlace
    <2>8. Append(path \o z.path, name) = path \o Append(z.path, name)
      <3> DEFINE s == z.path
      <3>1. s \in Seq(STRING)
        BY <2>7
      <3> HIDE DEF s
      <3>2. Append(path \o s, name) = path \o Append(s, name)
        <4>1. path \o s \in Seq(STRING)
          BY <3>1
        <4>2. Append(path \o s, name) = (path \o s) \o <<name>>
          BY <2>4, <4>1, AppendIsConcat
        <4>3. Append(s, name) = s \o <<name>>
          BY <2>4, <3>1, AppendIsConcat
        <4>4. <<name>> \in Seq(STRING)
          BY <2>4
        <4>5. (path \o s) \o <<name>> = path \o (s \o <<name>>)
          BY <3>1, <4>4, ConcatAssociative
        <4>6. QED
          BY <4>2, <4>3, <4>5
      <3>3. QED
        BY <3>2 DEF s
    <2>9. QED
      BY <2>3, <2>6, <2>8 DEF MovedPlace
  <1>3. y.node.children = old
    BY DEF MovedPlace
  <1>4. Below(y) = {Child(y, i) : i \in DOMAIN old} /\ Below(z) = {c(i) : i \in DOMAIN old}
    BY <1>3 DEF Below
  <1> HIDE DEF old, c
  <1>5. {Child(y, i) : i \in DOMAIN old} = {MovedPlace(path, v) : v \in {c(i) : i \in DOMAIN old}}
    BY <1>2
  <1>6. QED
    BY <1>4, <1>5

\* Unless it is refused, an extension has a target.
LEMMA ReachesTarget ==
  ASSUME NEW roots, IsForest(roots), NEW path \in Seq(STRING), Len(path) <= MaxDepth, ~DeadEnd(roots, path)
  PROVE  \E x \in Level(roots)[Len(path)] : x.path = path
  <1> DEFINE L == Level(roots)
             l == Len(path)
             At(m) == \E x \in L[m] : IsPrefix(x.path, path)
             T == {m \in Nat : m <= l => At(m)}
  <1>1. MaxDepth \in Nat /\ l \in Nat
    BY MaxDepthAssumption
  <1>2. 0 \in T
    <2>1. Start(roots) \in L[0]
      BY LevelIs
    <2>2. IsPrefix(Start(roots).path, path)
      BY EmptyIsPrefix DEF Start
    <2>3. QED
      BY <2>1, <2>2
  <1>3. ASSUME NEW m \in T
        PROVE  m + 1 \in T
    <2> SUFFICES ASSUME m + 1 <= l
                 PROVE  At(m + 1)
      OBVIOUS
    <2>1. m \in Nat /\ m \in 0..MaxDepth /\ m + 1 \in 0..MaxDepth /\ m < l /\ m <= l /\ m + 1 # 0
      BY <1>1
    <2>2. PICK x \in L[m] : IsPrefix(x.path, path)
      BY <2>1
    <2>3. IsPlace(roots, m, x)
      BY <2>1, PlacesAre
    <2>4. x.path \in Seq(STRING) /\ Len(x.path) = m
      BY <2>3 DEF IsPlace
    <2>5. IsStrictPrefix(x.path, path)
      BY <2>1, <2>2, <2>4 DEF IsStrictPrefix
    <2>6. x \in {Start(roots)} \union Places(roots)
      <3>1. CASE m = 0
        BY <3>1, LevelIs
      <3>2. CASE m # 0
        BY <2>1, <3>2 DEF Places
      <3>3. QED
        BY <3>1, <3>2
    <2>7. PICK i \in DOMAIN x.node.children : x.node.children[i].name = path[m + 1]
      BY <2>4, <2>5, <2>6 DEF DeadEnd
    <2> DEFINE z == Child(x, i)
    <2>8. z \in L[m + 1]
      BY <1>1, <2>1, <2>3 DEF IsPlace
    <2>9. z.listed = x.node.children[i] /\ z.path = Append(x.path, z.node.name)
      BY DEF Child
    <2>10. IsPlace(roots, m + 1, z)
      BY <2>1, <2>8, PlacesAre
    <2>11. z.node.name = path[m + 1] /\ z.node.name \in STRING
      BY <2>1, <2>7, <2>9, <2>10 DEF IsPlace
    <2> HIDE DEF z
    <2>12. IsPrefix(z.path, path)
      <3> DEFINE s == x.path
                 a == z.node.name
      <3>1. /\ s \in Seq(STRING) /\ a \in STRING /\ IsPrefix(s, path)
            /\ Len(s) < Len(path) /\ path[Len(s) + 1] = a
        BY <2>1, <2>2, <2>4, <2>11
      <3> HIDE DEF s, a
      <3>2. IsPrefix(Append(s, a), path)
        BY <3>1, OneNameMore
      <3>3. QED
        BY <2>9, <3>2 DEF s, a
    <2>13. QED
      BY <2>8, <2>12
  <1>4. T = Nat
    <2> HIDE DEF T
    <2>1. T \in SUBSET Nat
      BY DEF T
    <2>2. QED
      BY <1>2, <1>3, <2>1, Inductive
  <1>5. PICK x \in L[l] : IsPrefix(x.path, path)
    BY <1>1, <1>4
  <1>6. x.path \in Seq(STRING) /\ Len(x.path) = l
    <2>1. l \in 0..MaxDepth
      BY <1>1
    <2>2. IsPlace(roots, l, x)
      BY <2>1, PlacesAre
    <2>3. QED
      BY <2>2 DEF IsPlace
  <1>7. x.path = path
    <2> DEFINE s == x.path
    <2>1. s \in Seq(STRING) /\ Len(s) = Len(path) /\ IsPrefix(s, path)
      BY <1>5, <1>6
    <2> HIDE DEF s
    <2>2. \A i \in 1..Len(s) : s[i] = path[i]
      BY <2>1, PrefixIs
    <2>3. s = path
      BY <2>1, <2>2, SeqEqual
    <2>4. QED
      BY <2>3 DEF s
  <1>8. QED
    BY <1>7

\* The places that were added, m verbs deep.
AddedPlaces(path, additions, m) ==
  IF m > Len(path) THEN {MovedPlace(path, z) : z \in Level(additions)[m - Len(path)]} ELSE {}

\* Level by level, the new tree has what became of the old one, and what was added.
LEMMA GrownLevels ==
  ASSUME NEW roots, IsForest(roots), NEW path \in Seq(STRING), NEW additions, IsForest(additions),
         \/ Level(additions)[1] = {}
         \/ Len(path) < MaxDepth /\ \E x \in Level(roots)[Len(path)] : x.path = path,
         NEW n \in 1..MaxDepth
  PROVE  Level(Extended(roots, path, additions))[n] =
           {GrownPlace(roots, path, additions, x) : x \in Level(roots)[n]} \union AddedPlaces(path, additions, n)
  <1> DEFINE after == Extended(roots, path, additions)
             L == Level(roots)
             A == Level(after)
             D == Level(additions)
             l == Len(path)
             Im(x) == IF x.path = <<>> THEN Start(after) ELSE GrownPlace(roots, path, additions, x)
             M(k) == {MovedPlace(path, z) : z \in D[k]}
             Added(m) == IF m > l THEN M(m - l) ELSE {}
             At(m) == A[m] = {Im(x) : x \in L[m]} \union Added(m)
             T == {m \in Nat : m <= MaxDepth => At(m)}
  <1>1. MaxDepth \in Nat /\ MaxDepth # 0 /\ l \in Nat
    BY MaxDepthAssumption
  <1>2. \A m \in 0..MaxDepth : m + 1 \in 0..MaxDepth =>
          /\ L[m + 1] = UNION {Below(x) : x \in L[m]}
          /\ A[m + 1] = UNION {Below(x) : x \in A[m]}
          /\ D[m + 1] = UNION {Below(x) : x \in D[m]}
    <2> SUFFICES ASSUME NEW m \in 0..MaxDepth, m + 1 \in 0..MaxDepth
                 PROVE  /\ L[m + 1] = UNION {Below(x) : x \in L[m]}
                        /\ A[m + 1] = UNION {Below(x) : x \in A[m]}
                        /\ D[m + 1] = UNION {Below(x) : x \in D[m]}
      OBVIOUS
    <2>1. m + 1 # 0 /\ (m + 1) - 1 = m
      OBVIOUS
    <2>2. \A tree : Level(tree)[m + 1] = UNION {Below(x) : x \in Level(tree)[m]}
      BY <2>1, LevelIs DEF Below
    <2>3. QED
      BY <2>2
  <1>3. L[0] = {Start(roots)} /\ A[0] = {Start(after)} /\ D[0] = {Start(additions)}
    BY LevelIs
  <1>4. \A m \in 0..MaxDepth : \A x \in L[m] :
          /\ x.path \in Seq(STRING) /\ Len(x.path) = m
          /\ m # 0 => Im(x) = GrownPlace(roots, path, additions, x)
          /\ Im(x).path = x.path /\ Im(x).node.children = GrownChildren(roots, path, additions, x)
    <2> SUFFICES ASSUME NEW m \in 0..MaxDepth, NEW x \in L[m]
                 PROVE  /\ x.path \in Seq(STRING) /\ Len(x.path) = m
                        /\ m # 0 => Im(x) = GrownPlace(roots, path, additions, x)
                        /\ Im(x).path = x.path /\ Im(x).node.children = GrownChildren(roots, path, additions, x)
      OBVIOUS
    <2>1. x.path \in Seq(STRING) /\ Len(x.path) = m
      BY PlacesAre DEF IsPlace
    <2>2. CASE m = 0
      <3>1. x = Start(roots)
        BY <1>3, <2>2
      <3>2. x.path = <<>>
        BY <3>1 DEF Start
      <3>3. Im(x) = Start(after)
        BY <3>2
      <3>4. Start(after).path = <<>> /\ Start(after).node.children = after
        BY DEF Start, Top, Command
      <3>5. after = GrownChildren(roots, path, additions, x)
        BY <3>1, ExtendedIs
      <3> HIDE DEF Im, after
      <3>6. QED
        BY <2>1, <2>2, <3>2, <3>3, <3>4, <3>5
    <2>3. CASE m # 0
      <3>1. x.path # <<>>
        BY <2>1, <2>3
      <3>2. Im(x) = GrownPlace(roots, path, additions, x)
        BY <3>1
      <3>3. GrownPlace(roots, path, additions, x).path = x.path
        BY DEF GrownPlace
      <3>4. GrownPlace(roots, path, additions, x).node.children = GrownChildren(roots, path, additions, x)
        BY <2>3, GrownIsFull
      <3> HIDE DEF Im
      <3>5. QED
        BY <2>1, <3>2, <3>3, <3>4
    <2>4. QED
      BY <2>2, <2>3
  <1>5. D[1] = Below(Start(additions))
    <2>1. 0 \in 0..MaxDepth /\ 0 + 1 \in 0..MaxDepth /\ 0 + 1 = 1
      BY <1>1
    <2>2. D[1] = UNION {Below(x) : x \in D[0]}
      BY <1>2, <2>1
    <2> HIDE DEF D
    <2>3. QED
      BY <1>3, <2>2
  <1>6. \A m \in 0..MaxDepth : m + 1 \in 0..MaxDepth => \A x \in L[m] :
          Below(Im(x)) = {Im(c) : c \in Below(x)} \union (IF x.path = path THEN M(1) ELSE {})
    <2> SUFFICES ASSUME NEW m \in 0..MaxDepth, m + 1 \in 0..MaxDepth, NEW x \in L[m]
                 PROVE  Below(Im(x)) = {Im(c) : c \in Below(x)} \union (IF x.path = path THEN M(1) ELSE {})
      OBVIOUS
    <2>1. additions \in Seq(Range(additions))
      <3>1. Start(additions).node.children \in Seq(Range(Start(additions).node.children))
        BY DEF IsForest
      <3>2. Start(additions).node.children = additions
        BY DEF Start, Top, Command
      <3>3. QED
        BY <3>1, <3>2
    <2> DEFINE y == Im(x)
    <2>2. y.path = x.path /\ y.node.children = GrownChildren(roots, path, additions, x)
      BY <1>4
    <2> HIDE DEF y
    <2>3. Below(y) = {GrownPlace(roots, path, additions, c) : c \in Below(x)}
                       \union (IF x.path = path THEN {MovedPlace(path, z) : z \in Below(Start(additions))} ELSE {})
      BY <2>1, <2>2, GrownBelow
    <2>4. \A c \in Below(x) : c \in L[m + 1]
      BY <1>2
    <2>5. m + 1 # 0
      OBVIOUS
    <2>6. \A c \in Below(x) : Im(c) = GrownPlace(roots, path, additions, c)
      BY <1>4, <2>4, <2>5
    <2>7. M(1) = {MovedPlace(path, z) : z \in Below(Start(additions))}
      BY <1>5
    <2> HIDE DEF Im, M
    <2>8. QED
      BY <2>3, <2>6, <2>7 DEF y
  <1>7. \A k \in 0..MaxDepth : k + 1 \in 0..MaxDepth => UNION {Below(v) : v \in M(k)} = M(k + 1)
    <2> SUFFICES ASSUME NEW k \in 0..MaxDepth, k + 1 \in 0..MaxDepth
                 PROVE  UNION {Below(v) : v \in M(k)} = M(k + 1)
      OBVIOUS
    <2> DEFINE Mv(z) == MovedPlace(path, z)
    <2>1. \A z \in D[k] : Below(Mv(z)) = {Mv(c) : c \in Below(z)}
      BY MovedBelow
    <2>2. D[k + 1] = UNION {Below(z) : z \in D[k]}
      BY <1>2
    <2>3. M(k) = {Mv(z) : z \in D[k]} /\ M(k + 1) = {Mv(z) : z \in D[k + 1]}
      OBVIOUS
    <2> HIDE DEF Mv, M, D
    <2>4. UNION {Below(v) : v \in M(k)} = UNION {Below(Mv(z)) : z \in D[k]}
      BY <2>3
    <2>5. UNION {Below(Mv(z)) : z \in D[k]} = UNION {{Mv(c) : c \in Below(z)} : z \in D[k]}
      BY <2>1
    <2>6. UNION {{Mv(c) : c \in Below(z)} : z \in D[k]} = {Mv(c) : c \in UNION {Below(z) : z \in D[k]}}
      OBVIOUS
    <2>7. QED
      BY <2>2, <2>3, <2>4, <2>5, <2>6
  <1>8. D[1] = {} => M(1) = {}
    OBVIOUS
  <1>9. D[1] = {} \/ (l < MaxDepth /\ \E x \in L[l] : x.path = path)
    OBVIOUS
  <1> HIDE DEF L, A, D, l, Im, M, after
  <1>10. 0 \in T
    <2>1. 0 \in 0..MaxDepth /\ ~(0 > l)
      BY <1>1
    <2>2. Im(Start(roots)) = Start(after)
      BY DEF Im, Start
    <2>3. QED
      BY <1>3, <2>1, <2>2
  <1>11. ASSUME NEW m \in T
         PROVE  m + 1 \in T
    <2> SUFFICES ASSUME m + 1 <= MaxDepth
                 PROVE  At(m + 1)
      OBVIOUS
    <2>1. m \in Nat /\ m \in 0..MaxDepth /\ m + 1 \in 0..MaxDepth
      BY <1>1
    <2>2. A[m] = {Im(x) : x \in L[m]} \union Added(m)
      BY <1>1, <2>1
    <2>3. A[m + 1] = UNION {Below(v) : v \in A[m]} /\ L[m + 1] = UNION {Below(x) : x \in L[m]}
      BY <1>2, <2>1
    <2> DEFINE Here == {x \in L[m] : x.path = path}
               Old == UNION {Below(Im(x)) : x \in L[m]}
               New == UNION {Below(v) : v \in Added(m)}
    <2>4. A[m + 1] = Old \union New
      <3> HIDE DEF Added
      <3>1. QED
        BY <2>2, <2>3
    <2>5. Old = {Im(c) : c \in L[m + 1]} \union (IF Here = {} THEN {} ELSE M(1))
      <3>1. \A x \in L[m] : Below(Im(x)) = {Im(c) : c \in Below(x)} \union (IF x.path = path THEN M(1) ELSE {})
        BY <1>6, <2>1
      <3>2. ASSUME NEW v \in Old
            PROVE  v \in {Im(c) : c \in L[m + 1]} \union (IF Here = {} THEN {} ELSE M(1))
        <4>1. PICK x \in L[m] : v \in Below(Im(x))
          OBVIOUS
        <4>2. CASE v \in {Im(c) : c \in Below(x)}
          BY <2>3, <4>2
        <4>3. CASE x.path = path /\ v \in M(1)
          BY <4>3
        <4>4. QED
          BY <3>1, <4>1, <4>2, <4>3
      <3>3. ASSUME NEW c \in L[m + 1]
            PROVE  Im(c) \in Old
        <4>1. PICK x \in L[m] : c \in Below(x)
          BY <2>3
        <4>2. Im(c) \in Below(Im(x))
          BY <3>1, <4>1
        <4>3. QED
          BY <4>2
      <3>4. ASSUME Here # {}, NEW v \in M(1)
            PROVE  v \in Old
        <4>1. PICK x \in L[m] : x.path = path
          BY <3>4
        <4>2. v \in Below(Im(x))
          BY <3>1, <3>4, <4>1
        <4>3. QED
          BY <4>2
      <3> HIDE DEF Old, Here
      <3>5. QED
        BY <3>2, <3>3, <3>4
    <2>6. Here # {} => m = l
      BY <1>4, <2>1 DEF l
    <2>7. m = l => Here # {} \/ M(1) = {}
      BY <1>8, <1>9
    <2> HIDE DEF Here, Old
    <2>8. (IF Here = {} THEN {} ELSE M(1)) \union New = Added(m + 1)
      <3>1. CASE m = l
        <4>1. ~(m > l) /\ m + 1 > l /\ (m + 1) - l = 1
          BY <1>1, <3>1
        <4>2. New = {} /\ Added(m + 1) = M(1)
          BY <4>1
        <4> HIDE DEF New, Added
        <4>3. QED
          BY <2>7, <3>1, <4>2
      <3>2. CASE m < l
        <4>1. ~(m > l) /\ ~(m + 1 > l) /\ m # l
          BY <1>1, <2>1, <3>2
        <4>2. New = {} /\ Added(m + 1) = {}
          BY <4>1
        <4> HIDE DEF New, Added
        <4>3. QED
          BY <2>6, <4>1, <4>2
      <3>3. CASE m > l
        <4>1. /\ m + 1 > l /\ m # l /\ m - l \in 0..MaxDepth /\ (m - l) + 1 \in 0..MaxDepth
              /\ (m + 1) - l = (m - l) + 1
          BY <1>1, <2>1, <3>3
        <4>2. Added(m) = M(m - l) /\ Added(m + 1) = M((m - l) + 1)
          BY <3>3, <4>1
        <4>3. UNION {Below(v) : v \in M(m - l)} = M((m - l) + 1)
          BY <1>7, <4>1
        <4> HIDE DEF Added
        <4>4. New = Added(m + 1)
          BY <4>2, <4>3
        <4>5. QED
          BY <2>6, <4>1, <4>4
      <3>4. QED
        BY <1>1, <2>1, <3>1, <3>2, <3>3
    <2> HIDE DEF New, Added
    <2>9. A[m + 1] = {Im(c) : c \in L[m + 1]} \union Added(m + 1)
      BY <2>4, <2>5, <2>8
    <2>10. QED
      BY <2>9
  <1>12. T = Nat
    <2> HIDE DEF T
    <2>1. T \in SUBSET Nat
      BY DEF T
    <2>2. QED
      BY <1>10, <1>11, <2>1, Inductive
  <1>13. n \in Nat /\ n <= MaxDepth /\ n \in 0..MaxDepth /\ n # 0
    BY <1>1
  <1>14. A[n] = {Im(x) : x \in L[n]} \union Added(n)
    BY <1>12, <1>13
  <1>15. \A x \in L[n] : Im(x) = GrownPlace(roots, path, additions, x)
    BY <1>4, <1>13
  <1>16. Added(n) = AddedPlaces(path, additions, n)
    BY DEF AddedPlaces, M, D, l
  <1> HIDE DEF Added
  <1>17. A[n] = {GrownPlace(roots, path, additions, x) : x \in L[n]} \union AddedPlaces(path, additions, n)
    BY <1>14, <1>15, <1>16
  <1>18. QED
    BY <1>17 DEF A, L, after

LEMMA ExtensionsAreExact ==
  ASSUME NEW roots, IsForest(roots), NEW path \in Seq(STRING), NEW additions, IsForest(additions),
         \A x \in Places(additions) : Len(path) + Len(x.path) <= MaxDepth
  PROVE  ExtensionIsExact(roots, path, additions)
  <1> SUFFICES ASSUME ~IsRefused(roots, path)
               PROVE  HandlersOf(Extended(roots, path, additions)) =
                        HandlersOf(roots) \union {<<path \o h[1], h[2]>> : h \in HandlersOf(additions)}
    BY DEF ExtensionIsExact, ExtendAt
  <1> DEFINE after == Extended(roots, path, additions)
             L == Level(roots)
             A == Level(after)
             D == Level(additions)
             l == Len(path)
             Im(x) == GrownPlace(roots, path, additions, x)
             Mv(z) == MovedPlace(path, z)
             H(x) == <<x.path, x.node.handler>>
             P(h) == <<path \o h[1], h[2]>>
  <1>1. MaxDepth \in Nat /\ MaxDepth # 0 /\ l \in Nat
    BY MaxDepthAssumption
  <1>2. D[1] = {} \/ (l < MaxDepth /\ \E x \in L[l] : x.path = path)
    <2> SUFFICES ASSUME D[1] # {}
                 PROVE  l < MaxDepth /\ \E x \in L[l] : x.path = path
      OBVIOUS
    <2>1. 1 \in 0..MaxDepth /\ 1 \in 1..MaxDepth
      BY <1>1
    <2>2. PICK z : z \in D[1]
      OBVIOUS
    <2>3. Len(z.path) = 1
      <3>1. IsPlace(additions, 1, z)
        BY <2>1, <2>2, PlacesAre
      <3>2. QED
        BY <3>1 DEF IsPlace
    <2>4. z \in Places(additions)
      BY <2>1, <2>2 DEF Places
    <2>5. l + 1 <= MaxDepth
      BY <2>3, <2>4
    <2>6. l < MaxDepth /\ l <= MaxDepth
      BY <1>1, <2>5
    <2>7. ~DeadEnd(roots, path)
      BY DEF IsRefused
    <2>8. QED
      BY <2>6, <2>7, ReachesTarget
  <1>3. \A n \in 1..MaxDepth : A[n] = {Im(x) : x \in L[n]} \union (IF n > l THEN {Mv(z) : z \in D[n - l]} ELSE {})
    BY <1>2, GrownLevels DEF AddedPlaces
  <1>4. /\ Places(after) = UNION {A[n] : n \in 1..MaxDepth}
        /\ Places(roots) = UNION {L[n] : n \in 1..MaxDepth}
        /\ Places(additions) = UNION {D[n] : n \in 1..MaxDepth}
    BY DEF Places
  <1>5. \A n \in 1..MaxDepth : \A x \in L[n] : H(Im(x)) = H(x)
    <2> SUFFICES ASSUME NEW n \in 1..MaxDepth, NEW x \in L[n]
                 PROVE  H(Im(x)) = H(x)
      OBVIOUS
    <2>1. n \in 0..MaxDepth /\ n # 0
      OBVIOUS
    <2>2. GrownPlace(roots, path, additions, x).node.handler = x.node.handler
      BY <2>1, GrownIsFull
    <2>3. GrownPlace(roots, path, additions, x).path = x.path
      BY DEF GrownPlace
    <2>4. QED
      BY <2>2, <2>3
  <1>6. \A z : H(Mv(z)) = P(H(z))
    BY DEF MovedPlace
  <1>7. \A n \in 1..MaxDepth : \A z \in D[n] : l + n <= MaxDepth
    <2> SUFFICES ASSUME NEW n \in 1..MaxDepth, NEW z \in D[n]
                 PROVE  l + n <= MaxDepth
      OBVIOUS
    <2>1. n \in 0..MaxDepth
      OBVIOUS
    <2>2. Len(z.path) = n
      BY <2>1, PlacesAre DEF IsPlace
    <2>3. z \in Places(additions)
      BY <1>4
    <2>4. QED
      BY <2>2, <2>3
  <1>8. \A tree : HandlersOf(tree) = {H(x) : x \in Places(tree)}
    <2> SUFFICES ASSUME NEW tree
                 PROVE  HandlersOf(tree) = {<<x.path, x.node.handler>> : x \in Places(tree)}
      OBVIOUS
    <2> DEFINE W(x) == [path |-> x.path, node |-> x.node]
    <2>1. Walk(tree) = {W(x) : x \in Places(tree)}
      BY DEF Walk
    <2>2. \A x : W(x).path = x.path /\ W(x).node = x.node
      OBVIOUS
    <2> HIDE DEF W
    <2>3. HandlersOf(tree) = {<<w.path, w.node.handler>> : w \in Walk(tree)}
      BY DEF HandlersOf
    <2>4. QED
      BY <2>1, <2>2, <2>3
  <1> HIDE DEF L, A, D, l, Im, Mv, H, P, after
  <1>9. Places(after) = {Im(x) : x \in Places(roots)} \union {Mv(z) : z \in Places(additions)}
    <2>1. ASSUME NEW y \in Places(after)
          PROVE  y \in {Im(x) : x \in Places(roots)} \union {Mv(z) : z \in Places(additions)}
      <3>1. PICK n \in 1..MaxDepth : y \in A[n]
        BY <1>4
      <3>2. CASE y \in {Im(x) : x \in L[n]}
        BY <1>4, <3>2
      <3>3. CASE n > l /\ y \in {Mv(z) : z \in D[n - l]}
        <4>1. n - l \in 1..MaxDepth
          BY <1>1, <3>3
        <4>2. PICK z \in D[n - l] : y = Mv(z)
          BY <3>3
        <4>3. z \in Places(additions)
          BY <1>4, <4>1
        <4>4. QED
          BY <4>2, <4>3
      <3>4. QED
        BY <1>3, <3>1, <3>2, <3>3
    <2>2. ASSUME NEW x \in Places(roots)
          PROVE  Im(x) \in Places(after)
      <3>1. PICK n \in 1..MaxDepth : x \in L[n]
        BY <1>4
      <3>2. Im(x) \in A[n]
        BY <1>3, <3>1
      <3>3. QED
        BY <1>4, <3>2
    <2>3. ASSUME NEW z \in Places(additions)
          PROVE  Mv(z) \in Places(after)
      <3>1. PICK k \in 1..MaxDepth : z \in D[k]
        BY <1>4
      <3> DEFINE n == l + k
      <3>2. n \in 1..MaxDepth /\ n > l /\ n - l = k
        BY <1>1, <1>7, <3>1
      <3> HIDE DEF n
      <3>3. Mv(z) \in A[n]
        BY <1>3, <3>1, <3>2
      <3>4. QED
        BY <1>4, <3>2, <3>3
    <2>4. QED
      BY <2>1, <2>2, <2>3
  <1>10. \A x \in Places(roots) : H(Im(x)) = H(x)
    BY <1>4, <1>5
  <1>11. HandlersOf(after) = HandlersOf(roots) \union {P(h) : h \in HandlersOf(additions)}
    <2>1. /\ HandlersOf(after) = {H(y) : y \in Places(after)} /\ HandlersOf(roots) = {H(x) : x \in Places(roots)}
          /\ HandlersOf(additions) = {H(z) : z \in Places(additions)}
      BY <1>8
    <2>2. {H(y) : y \in Places(after)} = {H(Im(x)) : x \in Places(roots)} \union {H(Mv(z)) : z \in Places(additions)}
      BY <1>9
    <2>3. {H(Im(x)) : x \in Places(roots)} = {H(x) : x \in Places(roots)}
      BY <1>10
    <2>4. {H(Mv(z)) : z \in Places(additions)} = {P(h) : h \in {H(z) : z \in Places(additions)}}
      BY <1>6
    <2>5. QED
      BY <2>1, <2>2, <2>3, <2>4
  <1>12. QED
    BY <1>11 DEF after, P

\* overlay() and extend_at(): for every tree, every set of handlers, every place and
\* every addition, an overlay has the named handlers replaced, every other one kept, and
\* what it has no reason to copy shared; an extension that is not refused has what there
\* was and the additions below the place it names.
THEOREM CompositionsAreExact == LibrarySpec => []CompositionIsExact
  <1>1. Asked => CompositionIsExact
    <2> SUFFICES ASSUME Asked
                 PROVE  CompositionIsExact
      OBVIOUS
    <2>1. ASSUME question.of = "overlay"
          PROVE  OverlayIsExact(question.tree, question.overrides)
      <3>1. question \in Overlays
        BY <2>1, MergesAssumption, HomesAssumption, MatricesAssumption, ExtensionsAssumption,
           InvocationsAssumption DEF Asked
      <3>2. IsForest(question.tree) /\ \A path \in DOMAIN question.overrides : path \in Seq(STRING)
        BY <3>1, OverlaysAssumption
      <3>3. QED
        BY <3>2, OverlaysAreExact
    <2>2. ASSUME question.of = "extend"
          PROVE  ExtensionIsExact(question.tree, question.path, question.additions)
      <3>1. question \in Extensions
        BY <2>2, MergesAssumption, HomesAssumption, MatricesAssumption, OverlaysAssumption,
           InvocationsAssumption DEF Asked
      <3>2. /\ IsForest(question.tree) /\ question.path \in Seq(STRING) /\ IsForest(question.additions)
            /\ \A x \in Places(question.additions) : Len(question.path) + Len(x.path) <= MaxDepth
        BY <3>1, ExtensionsAssumption
      <3>3. QED
        BY <3>2, ExtensionsAreExact
    <2>3. QED
      BY <2>1, <2>2 DEF CompositionIsExact
  <1>2. LibrarySpec => []Asked
    BY AskedForever
  <1>3. QED
    BY <1>1, <1>2, PTL

-----------------------------------------------------------------------------
(* wire() and dispatch()                                                   *)

\* What argparse reads of a command line.
LEMMA WordsAre ==
  ASSUME NEW argv \in Seq(STRING)
  PROVE  /\ Words(argv) \in Seq(STRING)
         /\ (\A i \in 1..Len(argv) : IsOption(argv[i])) => Words(argv) = <<>>
  <1> DEFINE f == Reading(argv)
             l == Len(argv)
             At(n) == /\ f[n].words \in Seq(STRING)
                      /\ (\A i \in 1..l : IsOption(argv[i])) => f[n].words = <<>>
             T == {n \in Nat : n <= l => At(n)}
  <1>1. l \in Nat /\ \A i \in 1..l : argv[i] \in STRING
    OBVIOUS
  <1>2. /\ CommandLine(argv) = f[l]
        /\ f[0] = [words |-> <<>>, wanting |-> FALSE]
        /\ \A n \in 0..l : n # 0 => f[n] = ReadToken(f[n - 1], argv[n])
    BY <1>1, LineIs
  <1> HIDE DEF f, l
  <1>3. 0 \in T
    <2>1. f[0].words = <<>>
      BY <1>2
    <2>2. <<>> \in Seq(STRING)
      OBVIOUS
    <2>3. QED
      BY <2>1, <2>2
  <1>4. ASSUME NEW n \in T
        PROVE  n + 1 \in T
    <2> SUFFICES ASSUME n + 1 <= l
                 PROVE  At(n + 1)
      OBVIOUS
    <2>1. n \in Nat /\ At(n) /\ n + 1 \in 1..l /\ n + 1 \in 0..l /\ n + 1 # 0 /\ (n + 1) - 1 = n
      BY <1>1
    <2> DEFINE token == argv[n + 1]
    <2>2. f[n + 1] = ReadToken(f[n], token) /\ token \in STRING
      BY <1>1, <1>2, <2>1
    <2> HIDE DEF token
    <2>3. \/ f[n + 1].words = f[n].words
          \/ ~IsOption(token) /\ f[n + 1].words = Append(f[n].words, token)
      BY <2>2 DEF ReadToken
    <2>4. f[n + 1].words \in Seq(STRING)
      <3> DEFINE before == f[n].words
      <3>1. before \in Seq(STRING)
        BY <1>1, <2>1
      <3> HIDE DEF before
      <3>2. Append(before, token) \in Seq(STRING)
        BY <2>2, <3>1, AppendProperties
      <3>3. QED
        BY <2>3, <3>1, <3>2 DEF before
    <2>5. (\A i \in 1..l : IsOption(argv[i])) => f[n + 1].words = <<>>
      BY <2>1, <2>3 DEF token
    <2>6. QED
      BY <2>4, <2>5
  <1>5. T = Nat
    <2> HIDE DEF T
    <2>1. T \in SUBSET Nat
      BY DEF T
    <2>2. QED
      BY <1>3, <1>4, <2>1, Inductive
  <1>6. At(l)
    BY <1>1, <1>5
  <1>7. QED
    BY <1>2, <1>6 DEF Words, l

\* Where there is no verb to guess, there are only options.
LEMMA NoVerbNoWord ==
  ASSUME NEW argv \in Seq(STRING), FirstVerb(argv) = {}
  PROVE  \A i \in 1..Len(argv) : IsOption(argv[i])
  <1> DEFINE V == {m \in 1..Len(argv) : ~IsOption(argv[m])}
  <1> SUFFICES ASSUME V # {}
               PROVE  FALSE
    OBVIOUS
  <1>1. V \in SUBSET Nat /\ DOMAIN argv = 1..Len(argv)
    OBVIOUS
  <1>2. PICK n \in V : \A m \in V : n <= m
    <2> HIDE DEF V
    <2>1. QED
      BY <1>1, LeastOne
  <1>3. \A k \in 1..(n - 1) : IsOption(argv[k])
    <2> SUFFICES ASSUME NEW k \in 1..(n - 1), ~IsOption(argv[k])
                 PROVE  FALSE
      OBVIOUS
    <2>1. n \in 1..Len(argv) /\ Len(argv) \in Nat
      OBVIOUS
    <2>2. k \in 1..Len(argv) /\ ~(n <= k)
      BY <2>1
    <2>3. QED
      BY <1>2, <2>2
  <1>4. argv[n] \in FirstVerb(argv)
    BY <1>1, <1>3 DEF FirstVerb
  <1>5. QED
    BY <1>4

\* The parsers under the root are those of the roots, in full or placeheld, and have
\* their names.
LEMMA WiredRoots ==
  ASSUME NEW roots, IsForest(roots), NEW argv, NEW completing
  PROVE  /\ DOMAIN roots = 1..Len(roots) /\ Len(roots) \in Nat
         /\ WireAll(roots) = [i \in DOMAIN roots |-> WireAll(roots)[i]]
         /\ \A i \in DOMAIN roots :
              /\ WireAll(roots)[i].name = roots[i].name
              /\ Wire(roots, argv, completing)[i].name = roots[i].name
              /\ ~IsPlaceheld(roots[i], roots, argv, completing) =>
                   Wire(roots, argv, completing)[i] = WireAll(roots)[i]
  <1> DEFINE f == Wiring(roots)
             top == Start(roots)
             c(i) == Child(top, i)
             full == WireAll(roots)
             w == Wire(roots, argv, completing)
             Held(i) == IsPlaceheld(roots[i], roots, argv, completing)
  <1>1. MaxDepth \in Nat /\ MaxDepth # 0 /\ 0 \in 0..MaxDepth /\ 0 + 1 = 1 /\ 1 \in 0..MaxDepth /\ 1 # 0
    BY MaxDepthAssumption
  <1>2. top \in Level(roots)[0] /\ top.node.children = roots
    BY LevelIs DEF Start, Top, Command
  <1>3. IsPlace(roots, 0, top)
    BY <1>1, <1>2, PlacesAre
  <1>4. DOMAIN roots = 1..Len(roots) /\ Len(roots) \in Nat
    BY <1>2, <1>3 DEF IsPlace
  <1>5. \A n \in 0..MaxDepth : \A x \in Level(roots)[n] :
          f[MaxDepth - n][x] = WireCommand(x, IF n = MaxDepth THEN <<>> ELSE f[MaxDepth - (n + 1)])
    BY WiredIs
  <1>6. f[MaxDepth][top] = WireCommand(top, f[MaxDepth - 1])
    <2>1. MaxDepth - 0 = MaxDepth
      BY <1>1
    <2> HIDE DEF f, top
    <2>2. f[MaxDepth - 0][top] = WireCommand(top, IF 0 = MaxDepth THEN <<>> ELSE f[MaxDepth - (0 + 1)])
      BY <1>1, <1>2, <1>5
    <2>3. QED
      BY <1>1, <2>1, <2>2
  <1>7. full = [i \in DOMAIN roots |-> f[MaxDepth - 1][c(i)]]
    <2>1. full = f[MaxDepth][top].children
      BY WiredIs
    <2> HIDE DEF f, full, top
    <2>2. f[MaxDepth][top].children = [i \in DOMAIN top.node.children |-> f[MaxDepth - 1][Child(top, i)]]
      BY <1>6 DEF WireCommand, Command
    <2>3. QED
      BY <1>2, <2>1, <2>2
  <1>8. ASSUME NEW i \in DOMAIN roots
        PROVE  full[i].name = roots[i].name
    <2>1. c(i) \in Level(roots)[1]
      <3>1. \A j \in DOMAIN top.node.children : Child(top, j) \in Level(roots)[0 + 1]
        BY <1>1, <1>3 DEF IsPlace
      <3>2. QED
        BY <1>1, <1>2, <3>1
    <2>2. c(i).listed = roots[i]
      BY <1>2 DEF Child
    <2> HIDE DEF c, full, f
    <2>3. IsPlace(roots, 1, c(i))
      BY <1>1, <2>1, PlacesAre
    <2>4. c(i).node.name = roots[i].name
      BY <1>1, <2>2, <2>3 DEF IsPlace
    <2>5. f[MaxDepth - 1][c(i)] = WireCommand(c(i), IF 1 = MaxDepth THEN <<>> ELSE f[MaxDepth - (1 + 1)])
      BY <1>1, <1>5, <2>1
    <2>6. f[MaxDepth - 1][c(i)].name = c(i).node.name
      BY <2>5 DEF WireCommand, Command
    <2>7. QED
      BY <1>7, <2>4, <2>6
  <1>9. full = [i \in DOMAIN roots |-> full[i]]
    BY <1>7
  <1>10. w = [i \in DOMAIN roots |-> IF Held(i) THEN Placeholder(roots[i]) ELSE full[i]]
    BY DEF Wire
  <1> HIDE DEF w, full, Held
  <1>11. ASSUME NEW i \in DOMAIN roots
         PROVE  w[i].name = roots[i].name /\ (~Held(i) => w[i] = full[i])
    <2>1. Placeholder(roots[i]).name = roots[i].name
      BY DEF Placeholder, Command
    <2>2. w[i] = IF Held(i) THEN Placeholder(roots[i]) ELSE full[i]
      BY <1>10
    <2>3. QED
      BY <1>8, <2>1, <2>2
  <1>12. QED
    BY <1>4, <1>8, <1>9, <1>11 DEF w, full, Held

\* What is found depends on the first name's node alone.
LEMMA FindsAlike ==
  ASSUME NEW a, NEW b, NEW path, Len(path) \in Nat \ {0},
         FirstNamed(a, path[1]) = FirstNamed(b, path[1])
  PROVE  Find(a, path) = Find(b, path)
  <1> DEFINE l == Len(path)
             f == Finding(a, path)
             g == Finding(b, path)
             Step(n, before) == Resolved(FirstNamed(before.children, path[n]))
             T == {n \in Nat : n + 1 <= l => f[n + 1] = g[n + 1]}
  <1>1. l \in Nat /\ l # 0
    OBVIOUS
  <1>2. /\ Find(a, path) = f[l] /\ f[0] = Top(a) /\ \A n \in 0..l : n # 0 => f[n] = Step(n, f[n - 1])
        /\ Find(b, path) = g[l] /\ g[0] = Top(b) /\ \A n \in 0..l : n # 0 => g[n] = Step(n, g[n - 1])
    BY FoundIs
  <1>3. Step(1, Top(a)) = Step(1, Top(b))
    BY DEF Top, Command
  <1> HIDE DEF l, f, g, Step
  <1>4. 0 \in T
    <2>1. 1 \in 0..l /\ 1 # 0 /\ 1 - 1 = 0 /\ 0 + 1 = 1
      BY <1>1
    <2>2. f[1] = Step(1, f[0]) /\ g[1] = Step(1, g[0])
      BY <1>2, <2>1
    <2>3. f[0 + 1] = g[0 + 1]
      BY <1>2, <1>3, <2>1, <2>2
    <2>4. QED
      BY <2>3
  <1>5. ASSUME NEW n \in T
        PROVE  n + 1 \in T
    <2> SUFFICES ASSUME (n + 1) + 1 <= l
                 PROVE  f[(n + 1) + 1] = g[(n + 1) + 1]
      OBVIOUS
    <2> DEFINE m == n + 1
    <2>1. n \in Nat /\ m \in Nat /\ f[m] = g[m] /\ m + 1 \in 0..l /\ m + 1 # 0 /\ (m + 1) - 1 = m
      BY <1>1
    <2> HIDE DEF m
    <2>2. f[m + 1] = Step(m + 1, f[m]) /\ g[m + 1] = Step(m + 1, g[m])
      BY <1>2, <2>1
    <2>3. QED
      BY <2>1, <2>2 DEF m
  <1>6. T = Nat
    <2> HIDE DEF T
    <2>1. T \in SUBSET Nat
      BY DEF T
    <2>2. QED
      BY <1>4, <1>5, <2>1, Inductive
  <1>7. l - 1 \in Nat /\ (l - 1) + 1 = l /\ l <= l
    BY <1>1
  <1>8. f[l] = g[l]
    BY <1>6, <1>7
  <1>9. QED
    BY <1>2, <1>8

\* In the parsers that are wired lazily, a first verb finds what it would in full.
LEMMA VerbFindsItsNode ==
  ASSUME NEW roots, IsForest(roots), NEW argv, NEW completing, NEW verb \in FirstVerb(argv)
  PROVE  FirstNamed(Wire(roots, argv, completing), verb) = FirstNamed(WireAll(roots), verb)
  <1> DEFINE full == WireAll(roots)
             w == Wire(roots, argv, completing)
             Held(i) == IsPlaceheld(roots[i], roots, argv, completing)
             N == {i \in DOMAIN roots : roots[i].name = verb}
  <1>1. /\ DOMAIN roots = 1..Len(roots) /\ Len(roots) \in Nat
        /\ full = [i \in DOMAIN roots |-> full[i]]
        /\ \A i \in DOMAIN roots : full[i].name = roots[i].name /\ w[i].name = roots[i].name /\ (~Held(i) => w[i] = full[i])
    BY WiredRoots
  <1>2. DOMAIN w = DOMAIN roots
    BY DEF Wire
  <1>3. \A i \in N : ~Held(i)
    BY DEF IsPlaceheld
  <1> HIDE DEF full, w, Held
  <1>4. DOMAIN full = DOMAIN roots
    BY <1>1
  <1>5. {i \in DOMAIN full : full[i].name = verb} = N /\ {i \in DOMAIN w : w[i].name = verb} = N
    BY <1>1, <1>2, <1>4
  <1> DEFINE Named(nodes) == {i \in DOMAIN nodes : nodes[i].name = verb}
  <1>6. \A nodes : FirstNamed(nodes, verb) = IF Named(nodes) = {} THEN Nowhere ELSE nodes[Min(Named(nodes))]
    BY DEF FirstNamed
  <1>7. Named(full) = N /\ Named(w) = N
    BY <1>5
  <1> HIDE DEF Named
  <1>8. CASE N = {}
    BY <1>6, <1>7, <1>8 DEF full, w
  <1>9. CASE N # {}
    <2>1. N \in SUBSET Nat
      BY <1>1
    <2> HIDE DEF N
    <2>2. Min(N) \in N
      <3>1. \E n \in N : \A m \in N : n <= m
        BY <1>9, <2>1, LeastOne
      <3>2. QED
        BY <3>1 DEF Min
    <2>3. w[Min(N)] = full[Min(N)]
      BY <1>1, <1>3, <2>2 DEF N
    <2>4. QED
      BY <1>6, <1>7, <1>9, <2>3 DEF full, w
  <1>10. QED
    BY <1>8, <1>9 DEF full, w

\* Trees that find the same at every start of the command line dispatch alike.
LEMMA DispatchesAlike ==
  ASSUME NEW a, NEW b, NEW argv, NEW l \in Nat, Len(Words(argv)) = l,
         Find(a, Words(argv)).id = Find(b, Words(argv)).id,
         \A n \in 1..l : Find(a, SubSeq(Words(argv), 1, n)) = Find(b, SubSeq(Words(argv), 1, n))
  PROVE  Dispatch(a, argv) = Dispatch(b, argv)
  <1> DEFINE HandlerAt(tree, n) == Find(tree, SubSeq(Words(argv), 1, n)).handler
             Handled(tree) == {n \in 1..l : HandlerAt(tree, n) # NoHandler}
             Refused(tree) == CommandLine(argv).wanting \/ Find(tree, Words(argv)).id = Failure
  <1>1. \A tree : Dispatch(tree, argv) =
          IF Refused(tree) THEN Failure
          ELSE IF Handled(tree) = {} THEN "exit2" ELSE HandlerAt(tree, Max(Handled(tree)))
    BY DEF Dispatch
  <1>2. Refused(a) <=> Refused(b)
    OBVIOUS
  <1>3. \A n \in 1..l : HandlerAt(a, n) = HandlerAt(b, n)
    OBVIOUS
  <1> HIDE DEF HandlerAt, Refused
  <1>4. Handled(a) = Handled(b)
    BY <1>3
  <1> DEFINE H == Handled(a)
  <1>5. H # {} => Max(H) \in 1..l
    <2> SUFFICES ASSUME H # {}
                 PROVE  Max(H) \in 1..l
      OBVIOUS
    <2> DEFINE M == {m \in Nat : \A n \in H : n <= m}
    <2>1. H \in SUBSET (1..l)
      OBVIOUS
    <2> HIDE DEF H
    <2>2. l \in M
      BY <2>1
    <2>3. PICK m \in M : \A k \in M : m <= k
      <3>1. M \in SUBSET Nat /\ M # {}
        BY <2>2
      <3> HIDE DEF M
      <3>2. QED
        BY <3>1, LeastOne
    <2>4. m \in H
      <3> SUFFICES ASSUME m \notin H
                   PROVE  FALSE
        OBVIOUS
      <3>1. PICK h : h \in H
        OBVIOUS
      <3>2. m \in Nat /\ h \in Nat /\ h <= m /\ h # m /\ h >= 1
        BY <2>1, <3>1
      <3>3. m - 1 \in Nat
        BY <3>2
      <3>4. \A n \in H : n <= m - 1
        BY <2>1, <3>2
      <3>5. m - 1 \in M /\ ~(m <= m - 1)
        BY <3>2, <3>3, <3>4
      <3>6. QED
        BY <2>3, <3>5
    <2>5. \A n \in H : m >= n
      BY <2>1, <2>3
    <2>6. Max(H) \in H
      BY <2>4, <2>5 DEF Max
    <2>7. QED
      BY <2>1, <2>6
  <1>6. QED
    <2> HIDE DEF Handled
    <2>1. QED
      BY <1>1, <1>2, <1>3, <1>4, <1>5

LEMMA LazinessHides ==
  ASSUME NEW roots, IsForest(roots), NEW argv \in Seq(STRING), NEW completing \in BOOLEAN
  PROVE  LazinessIsInvisible(roots, argv, completing)
  <1> DEFINE full == WireAll(roots)
             w == Wire(roots, argv, completing)
             words == Words(argv)
             l == Len(words)
  <1>1. words \in Seq(STRING) /\ l \in Nat
    BY WordsAre
  <1>2. ASSUME WireEverything(roots, argv, completing)
        PROVE  w = full
    <2>1. full = [i \in DOMAIN roots |-> full[i]]
      BY WiredRoots
    <2> HIDE DEF full
    <2>2. w = [i \in DOMAIN roots |-> full[i]]
      BY <1>2 DEF Wire, IsPlaceheld, full
    <2>3. QED
      BY <2>1, <2>2
  <1>3. ASSUME FirstVerb(argv) = {}
        PROVE  Dispatch(w, argv) = Dispatch(full, argv)
    <2>1. words = <<>> /\ l = 0
      BY <1>3, NoVerbNoWord, WordsAre
    <2> HIDE DEF words, l
    <2>2. \A tree : Find(tree, words).id = "top"
      <3> SUFFICES ASSUME NEW tree
                   PROVE  Find(tree, words).id = "top"
        OBVIOUS
      <3>1. Len(words) = 0 /\ Len(words) \in Nat
        BY <2>1
      <3>2. Find(tree, words) = Top(tree)
        BY <3>1, FoundIs
      <3>3. Top(tree).id = "top"
        BY DEF Top, Command
      <3>4. QED
        BY <3>2, <3>3
    <2> HIDE DEF full, w
    <2>3. Find(w, words).id = Find(full, words).id
      BY <2>2
    <2>4. l \in Nat /\ \A n \in 1..l : Find(w, SubSeq(words, 1, n)) = Find(full, SubSeq(words, 1, n))
      BY <2>1
    <2>5. QED
      BY <2>3, <2>4, DispatchesAlike DEF words, l
  <1>4. ASSUME words # <<>>, Head(words) \in FirstVerb(argv)
        PROVE  Dispatch(w, argv) = Dispatch(full, argv)
    <2>1. FirstNamed(w, Head(words)) = FirstNamed(full, Head(words))
      BY <1>4, VerbFindsItsNode
    <2> HIDE DEF full, w, words
    <2>2. ASSUME NEW path, Len(path) \in Nat \ {0}, path[1] = Head(words)
          PROVE  Find(w, path) = Find(full, path)
      BY <2>1, <2>2, FindsAlike
    <2>3. Len(words) \in Nat \ {0} /\ words[1] = Head(words)
      BY <1>1, <1>4
    <2>4. ASSUME NEW n \in 1..l
          PROVE  Find(w, SubSeq(words, 1, n)) = Find(full, SubSeq(words, 1, n))
      <3> DEFINE path == SubSeq(words, 1, n)
      <3>1. Len(path) = n /\ path[1] = words[1]
        BY <1>1
      <3>2. n \in Nat \ {0}
        OBVIOUS
      <3> HIDE DEF path
      <3>3. Find(w, path) = Find(full, path)
        BY <2>2, <2>3, <3>1, <3>2
      <3>4. QED
        BY <3>3 DEF path
    <2>5. Find(w, words).id = Find(full, words).id
      BY <2>2, <2>3
    <2>6. QED
      BY <1>1, <2>4, <2>5, DispatchesAlike DEF words
  <1>5. ~Misguessed(roots, argv) => Dispatch(w, argv) = Dispatch(full, argv)
    <2> SUFFICES ASSUME ~Misguessed(roots, argv), ~WireEverything(roots, argv, completing), FirstVerb(argv) # {}
                 PROVE  words # <<>> /\ Head(words) \in FirstVerb(argv)
      BY <1>2, <1>3, <1>4
    <2>1. QED
      BY DEF Misguessed, WireEverything
  <1>6. ASSUME FirstVerb(argv) # {}, FirstVerb(argv) \subseteq LazyNames(roots), ~completing
        PROVE  Imported(roots, argv, completing) =
                 UNION {Imports(roots[i]) : i \in {j \in DOMAIN roots : ~Lazy(roots[j]) \/ roots[j].name \in FirstVerb(argv)}}
    <2>1. \A node : IsPlaceheld(node, roots, argv, completing) <=> Lazy(node) /\ node.name \notin FirstVerb(argv)
      BY <1>6 DEF IsPlaceheld, WireEverything
    <2>2. {j \in DOMAIN roots : ~IsPlaceheld(roots[j], roots, argv, completing)} =
            {j \in DOMAIN roots : ~Lazy(roots[j]) \/ roots[j].name \in FirstVerb(argv)}
      BY <2>1
    <2>3. QED
      BY <2>2 DEF Imported
  <1>7. QED
    BY <1>5, <1>6 DEF LazinessIsInvisible

\* wire() and dispatch(): for every tree, command line and shell, a command line whose
\* verb is guessed right, or not guessed at all, runs the handler it would run if every
\* module had been imported; and a guess imports nothing for the other lazy verbs.
THEOREM HandlersAreReached == LibrarySpec => []CommandsReachTheirHandlers
  <1>1. Asked => CommandsReachTheirHandlers
    <2> SUFFICES ASSUME Asked, question.of = "dispatch"
                 PROVE  LazinessIsInvisible(question.tree, question.argv, question.completing)
      BY DEF CommandsReachTheirHandlers
    <2>1. question \in Invocations
      BY MergesAssumption, HomesAssumption, MatricesAssumption, OverlaysAssumption,
         ExtensionsAssumption DEF Asked
    <2>2. IsForest(question.tree) /\ question.argv \in Seq(STRING) /\ question.completing \in BOOLEAN
      BY <2>1, InvocationsAssumption
    <2>3. QED
      BY <2>2, LazinessHides
  <1>2. LibrarySpec => []Asked
    BY AskedForever
  <1>3. QED
    BY <1>1, <1>2, PTL

-----------------------------------------------------------------------------
(* hardening.py: the type, the grants that the ruleset has so far, and who  *)
(* is confined                                                             *)

Steps == {"harden", "probe", "scope", "mounts", "grant", "returned"}

TypeInv ==
  /\ kernel \in Kernels /\ paths \in Layouts /\ lane \in Lanes
  /\ step \in Steps /\ noNewPrivs \in BOOLEAN
  /\ Live \subseteq Threads /\ Caller \in Live
  /\ granted \in 0..Len(Grants)
  /\ report \in {"none", "confined", "partly", "unconfined"}

\* What one grant gives a path, and what the first n of them do.
Given(grant, p) ==
  IF grant.path # p \/ paths[p] = "missing" THEN {}
  ELSE IF paths[p] = "dir" THEN grant.access ELSE grant.access \intersect FileObjects
BuiltOn(n, p) == UNION {Given(Grants[i], p) : i \in 1..n}
Built(n) == [handled |-> WriteAccess(kernel.abi), rights |-> [p \in GrantPaths |-> BuiltOn(n, p)]]

\* Nobody is confined before the call returns, the ruleset holds the grants so far,
\* and a kernel without TSYNC gets that far with the calling thread alone.
ConfineInv ==
  /\ report = "none" <=> step # "returned"
  /\ report \in {"none", "unconfined"} => \A t \in Live : domain[t] = Free
  /\ step \in {"mounts", "grant"} /\ kernel.abi < 8 => Live = {Caller}
  /\ step # "grant" => ruleset = Free
  /\ step \in {"harden", "probe", "scope", "mounts"} => granted = 0
  /\ step = "grant" => ruleset = Built(granted)
  /\ report \in {"confined", "partly"} => noNewPrivs /\ \A t \in Live : domain[t] = Policy
  /\ report = "confined" => kernel.abi >= 3

Inv == TypeInv /\ ConfineInv

-----------------------------------------------------------------------------
(* The grants                                                              *)

\* The grants are the two sequences, one after the other.
LEMMA GrantsAre ==
  ASSUME kernel \in Kernels, lane \in Lanes
  PROVE  /\ Len(lane.read) \in Nat /\ Len(lane.write) \in Nat
         /\ DOMAIN lane.read = 1..Len(lane.read)
         /\ DOMAIN lane.write = 1..Len(lane.write)
         /\ Len(Grants) = Len(lane.read) + Len(lane.write)
         /\ Len(Grants) \in Nat /\ 0 \in 0..Len(Grants)
         /\ \A i \in 1..Len(Grants) : Grants[i].path \in GrantPaths
         /\ kernel.abi \in Nat
  <1>1. lane.read \in Seq(GrantPaths) /\ lane.write \in Seq(GrantPaths) /\ kernel.abi \in Nat
    BY LaneAssumption, KernelAssumption
  <1> DEFINE a == Len(lane.read)
             b == Len(lane.write)
             n == a + b
  <1>2. a \in Nat /\ b \in Nat
    BY <1>1, LenProperties
  <1>3. lane.read \in [1..a -> GrantPaths] /\ lane.write \in [1..b -> GrantPaths]
    BY <1>1, LenProperties
  <1>4. Grants = [i \in 1..n |->
                    IF i <= a THEN [path |-> lane.read[i], access |-> ReadAccess]
                    ELSE [path |-> lane.write[i - a], access |-> WriteAccess(kernel.abi)]]
    BY DEF Grants
  <1>d. DOMAIN lane.read = 1..a /\ DOMAIN lane.write = 1..b
    BY <1>3
  <1>h. a = Len(lane.read) /\ b = Len(lane.write)
    OBVIOUS
  <1> HIDE DEF a, b
  <1>5. n \in Nat
    BY <1>2
  <1>6. ASSUME NEW i \in 1..n PROVE Grants[i].path \in GrantPaths
    <2>1. CASE i <= a
      <3>1. i \in 1..a
        BY <1>2, <2>1
      <3>2. Grants[i].path = lane.read[i]
        BY <1>4, <2>1
      <3>3. QED
        BY <3>1, <3>2, <1>3
    <2>2. CASE ~(i <= a)
      <3>1. i - a \in 1..b
        BY <1>2, <2>2
      <3>2. Grants[i].path = lane.write[i - a]
        BY <1>4, <2>2
      <3>3. QED
        BY <3>1, <3>2, <1>3
    <2>3. QED
      BY <2>1, <2>2
  <1> HIDE DEF n
  <1>7. Grants \in [1..n -> Range(Grants)]
    BY <1>4 DEF Range
  <1>8. Grants \in Seq(Range(Grants))
    BY <1>5, <1>7, SeqDef
  <1>9. Len(Grants) = n
    <2>1. DOMAIN Grants = 1..Len(Grants) /\ Len(Grants) \in Nat
      BY <1>8, LenProperties
    <2> DEFINE l == Len(Grants)
    <2>2. 1..l = 1..n /\ l \in Nat
      BY <2>1, <1>7
    <2> HIDE DEF l
    <2>3. l = n
      BY <2>2, <1>5
    <2>4. QED
      BY <2>3 DEF l
  <1>10. \A i \in 1..Len(Grants) : Grants[i].path \in GrantPaths
    BY <1>6, <1>9
  <1>11. 0 \in 0..n
    BY <1>5
  <1>12. QED
    BY <1>1, <1>2, <1>d, <1>h, <1>5, <1>9, <1>10, <1>11 DEF n

\* A grant adds what it gives.
LEMMA OneMore ==
  ASSUME NEW n \in Nat, NEW p
  PROVE  BuiltOn(n + 1, p) = BuiltOn(n, p) \union Given(Grants[n + 1], p)
  <1>1. 1..(n + 1) = 1..n \union {n + 1}
    OBVIOUS
  <1>2. QED
    BY <1>1 DEF BuiltOn

\* All grants together are the policy.
LEMMA AllIsPolicy ==
  ASSUME TypeInv
  PROVE  Built(Len(Grants)) = Policy
  <1> DEFINE W == WriteAccess(kernel.abi)
             a == Len(lane.read)
             b == Len(lane.write)
  <1>1. /\ a \in Nat /\ b \in Nat /\ DOMAIN lane.read = 1..a /\ DOMAIN lane.write = 1..b
        /\ Len(Grants) = a + b
    BY GrantsAre DEF TypeInv
  <1>2. /\ \A i \in 1..a : i \in 1..(a + b) /\ Grants[i] = [path |-> lane.read[i], access |-> ReadAccess]
        /\ \A i \in 1..b : a + i \in 1..(a + b)
                           /\ Grants[a + i] = [path |-> lane.write[i], access |-> W]
    <2> HIDE DEF W
    <2>1. Grants = [i \in 1..(a + b) |->
                      IF i <= a THEN [path |-> lane.read[i], access |-> ReadAccess]
                      ELSE [path |-> lane.write[i - a], access |-> W]]
      BY DEF Grants, W
    <2> HIDE DEF a, b
    <2>2. \A i \in 1..b : ~(a + i <= a) /\ (a + i) - a = i /\ a + i \in 1..(a + b)
      BY <1>1
    <2>3. \A i \in 1..a : i <= a /\ i \in 1..(a + b)
      BY <1>1
    <2>4. QED
      BY <2>1, <2>2, <2>3
  <1>3. \A i \in 1..(a + b) : i \in 1..a \/ \E j \in 1..b : i = a + j
    <2> HIDE DEF a, b
    <2>1. SUFFICES ASSUME NEW i \in 1..(a + b), i \notin 1..a PROVE \E j \in 1..b : i = a + j
      OBVIOUS
    <2>2. i - a \in 1..b /\ i = a + (i - a)
      BY <2>1, <1>1
    <2>3. QED
      BY <2>2
  <1>4. ASSUME NEW p \in GrantPaths
        PROVE  BuiltOn(a + b, p) = Lane(p, lane.read, ReadAccess) \union Lane(p, lane.write, W)
    <2> DEFINE Cut(access) == IF paths[p] = "missing" THEN {}
                              ELSE IF paths[p] = "dir" THEN access ELSE access \intersect FileObjects
    <2>0. \A q, access : Given([path |-> q, access |-> access], p) = IF q = p THEN Cut(access) ELSE {}
      BY DEF Given
    <2>1. \A i \in 1..a : Given(Grants[i], p) = IF lane.read[i] = p THEN Cut(ReadAccess) ELSE {}
      <3> HIDE DEF a, b, W, Cut
      <3>1. QED
        BY <1>2, <2>0
    <2>2. \A i \in 1..b : Given(Grants[a + i], p) = IF lane.write[i] = p THEN Cut(W) ELSE {}
      <3> HIDE DEF a, b, W, Cut
      <3>1. QED
        BY <1>2, <2>0
    <2>3. Lane(p, lane.read, ReadAccess) = IF \E i \in 1..a : lane.read[i] = p THEN Cut(ReadAccess) ELSE {}
      BY <1>1 DEF Lane, Range
    <2>4. Lane(p, lane.write, W) = IF \E i \in 1..b : lane.write[i] = p THEN Cut(W) ELSE {}
      BY <1>1 DEF Lane, Range
    <2>5. ASSUME NEW r
          PROVE  r \in BuiltOn(a + b, p) <=>
                   r \in Lane(p, lane.read, ReadAccess) \/ r \in Lane(p, lane.write, W)
      <3>1. r \in BuiltOn(a + b, p) <=> \E i \in 1..(a + b) : r \in Given(Grants[i], p)
        BY DEF BuiltOn
      <3> HIDE DEF a, b, W, Cut
      <3>2. r \in BuiltOn(a + b, p) <=> \/ \E i \in 1..a : r \in Given(Grants[i], p)
                                        \/ \E i \in 1..b : r \in Given(Grants[a + i], p)
        BY <3>1, <1>2, <1>3
      <3>3. QED
        BY <3>2, <2>1, <2>2, <2>3, <2>4
    <2>6. QED
      BY <2>5
  <1>5. QED
    BY <1>1, <1>4 DEF Built, Policy

\* With one live thread, it is the caller.
LEMMA OneIsCaller ==
  ASSUME TypeInv, Cardinality(Live) = 1
  PROVE  Live = {Caller}
  <1>1. IsFiniteSet(Live)
    BY CallerAssumption, FS_Subset DEF TypeInv
  <1>2. PICK t : Live = {t}
    BY <1>1, FS_Singleton
  <1>3. QED
    BY <1>2 DEF TypeInv

-----------------------------------------------------------------------------
(* The invariant                                                           *)

LEMMA InvInit == HardeningInit => Inv
  <1> SUFFICES ASSUME HardeningInit PROVE Inv
    OBVIOUS
  <1>1. Live \subseteq Threads /\ Caller \in Live /\ \A t \in Live : domain[t] = Free
    BY CallerAssumption DEF HardeningInit, Live
  <1>2. kernel \in Kernels /\ paths \in Layouts /\ lane \in Lanes
    BY DEF HardeningInit
  <1>3. 0 \in 0..Len(Grants)
    BY <1>2, GrantsAre
  <1>4. TypeInv
    <2>1. granted \in 0..Len(Grants)
      BY <1>3 DEF HardeningInit
    <2>2. QED
      BY <1>1, <1>2, <2>1 DEF HardeningInit, TypeInv, Steps
  <1>5. ConfineInv
    BY <1>1 DEF HardeningInit, ConfineInv
  <1>6. QED
    BY <1>4, <1>5 DEF Inv

\* The operators of the state functions that a step leaves alone.
LEMMA SamePolicy ==
  ASSUME UNCHANGED <<kernel, paths, lane>>
  PROVE  /\ Grants' = Grants /\ Policy' = Policy
         /\ \A n : Built(n)' = Built(n)
  <1>1. Grants' = Grants
    BY DEF Grants
  <1>2. Policy' = Policy
    BY DEF Policy, Lane
  <1>3. ASSUME NEW n PROVE Built(n)' = Built(n)
    BY <1>1 DEF Built, BuiltOn, Given
  <1>4. QED
    BY <1>1, <1>2, <1>3

LEMMA InvStep == Inv /\ [HardeningNext]_vars => Inv'
  <1> SUFFICES ASSUME Inv, [HardeningNext]_vars PROVE Inv'
    OBVIOUS
  <1>t. TypeInv /\ ConfineInv
    BY DEF Inv
  <1>g. kernel.abi \in Nat /\ Len(Grants) \in Nat /\ \A i \in 1..Len(Grants) : Grants[i].path \in GrantPaths
    BY <1>t, GrantsAre DEF TypeInv
  <1>s. UNCHANGED <<kernel, paths, lane>>
    BY DEF vars, HardeningNext, Call, OtherThreads, HardenSelf, Probe, ThreadScope, CreateRuleset,
           GrantBeneath, RestrictSelf, StartThread, EndThread, Goto, Returns
  <1>p. Grants' = Grants /\ Policy' = Policy /\ \A n : Built(n)' = Built(n)
    BY <1>s, SamePolicy
  <1>1. CASE HardenSelf
    <2>1. noNewPrivs' \in BOOLEAN
      BY <1>1, <1>t, KernelAssumption DEF HardenSelf, TypeInv
    <2>2. TypeInv'
      BY <1>1, <1>t, <1>p, <1>g, <2>1 DEF HardenSelf, Goto, TypeInv, Steps, Live
    <2>3. ConfineInv'
      BY <1>1, <1>t, <1>p DEF HardenSelf, Goto, ConfineInv, Live
    <2>4. QED
      BY <2>2, <2>3 DEF Inv
  <1>2. CASE Probe
    <2>2. TypeInv'
      BY <1>2, <1>t, <1>p DEF Probe, Goto, Returns, TypeInv, Steps, Live
    <2>3. ConfineInv'
      BY <1>2, <1>t, <1>p DEF Probe, Goto, Returns, ConfineInv, Live
    <2>4. QED
      BY <2>2, <2>3 DEF Inv
  <1>3. CASE ThreadScope
    <2>1. TypeInv'
      BY <1>3, <1>t, <1>p DEF ThreadScope, Goto, Returns, TypeInv, Steps, Live
    <2>2. step' = "mounts" /\ kernel.abi < 8 => Live = {Caller}
      BY <1>3, <1>t, OneIsCaller DEF ThreadScope, Goto, Returns
    <2>3. ConfineInv'
      BY <1>3, <1>t, <1>p, <1>s, <2>2 DEF ThreadScope, Goto, Returns, ConfineInv, Live
    <2>4. QED
      BY <2>1, <2>3 DEF Inv
  <1>4. CASE CreateRuleset
    <2>1. TypeInv'
      BY <1>4, <1>t, <1>p DEF CreateRuleset, Goto, Returns, TypeInv, Steps, Live
    <2>2. step' = "grant" => ruleset' = Built(0)
      <3>1. \A p : BuiltOn(0, p) = {}
        BY DEF BuiltOn
      <3>2. QED
        BY <1>4, <3>1 DEF CreateRuleset, Goto, Returns, Built
    <2>3. ConfineInv'
      BY <1>4, <1>t, <1>p, <1>s, <2>2 DEF CreateRuleset, Goto, Returns, ConfineInv, Live
    <2>4. QED
      BY <2>1, <2>3 DEF Inv
  <1>5. CASE GrantBeneath
    <2>1. TypeInv'
      BY <1>5, <1>t, <1>p, <1>g DEF GrantBeneath, Goto, Returns, TypeInv, Steps, Live
    <2>2. step' = "grant" => ruleset' = Built(granted')
      <3>1. SUFFICES ASSUME step' = "grant" PROVE ruleset' = Built(granted')
        OBVIOUS
      <3> DEFINE g == Grants[granted + 1]
                 q == g.path
                 rights == IF paths[q] = "dir" THEN g.access ELSE g.access \intersect FileObjects
      <3>2. /\ granted \in Nat /\ granted + 1 \in 1..Len(Grants) /\ granted' = granted + 1
            /\ ruleset = Built(granted)
        BY <1>5, <1>t, <1>g, <3>1 DEF GrantBeneath, Returns, Goto, TypeInv, ConfineInv
      <3>3. q \in GrantPaths
        BY <3>2, <1>g
      <3>4. \A p : BuiltOn(granted + 1, p) = BuiltOn(granted, p) \union Given(g, p)
        BY <3>2, OneMore
      <3>5. CASE paths[q] = "missing"
        <4>1. \A p : Given(g, p) = {}
          BY <3>5 DEF Given
        <4>2. ruleset' = ruleset
          BY <1>5, <3>5 DEF GrantBeneath
        <4>3. QED
          BY <3>2, <3>4, <4>1, <4>2 DEF Built
      <3>6. CASE paths[q] \in {"dir", "file"}
        <4>1. ruleset' = [ruleset EXCEPT !.rights[q] = @ \union rights]
          BY <1>5, <3>6 DEF GrantBeneath
        <4>2. \A p : Given(g, p) = IF p = q THEN rights ELSE {}
          BY <3>6 DEF Given
        <4> HIDE DEF g, q, rights
        <4>3. \A p : BuiltOn(granted + 1, p) =
                       IF p = q THEN BuiltOn(granted, p) \union rights ELSE BuiltOn(granted, p)
          BY <3>4, <4>2
        <4>4. ruleset' = [handled |-> WriteAccess(kernel.abi),
                          rights |-> [[p \in GrantPaths |-> BuiltOn(granted, p)]
                                        EXCEPT ![q] = @ \union rights]]
          BY <3>2, <4>1 DEF Built
        <4>5. [[p \in GrantPaths |-> BuiltOn(granted, p)] EXCEPT ![q] = @ \union rights]
                = [p \in GrantPaths |-> BuiltOn(granted + 1, p)]
          BY <3>3, <4>3
        <4>6. QED
          BY <3>2, <4>4, <4>5 DEF Built
      <3>7. paths[q] \notin {"missing", "dir", "file"} => step' # "grant"
        BY <1>5 DEF GrantBeneath, Returns, Goto
      <3>8. QED
        BY <3>1, <3>5, <3>6, <3>7
    <2>3. ConfineInv'
      BY <1>5, <1>t, <1>p, <1>s, <2>2 DEF GrantBeneath, Goto, Returns, ConfineInv, Live
    <2>4. QED
      BY <2>1, <2>3 DEF Inv
  <1>6. CASE RestrictSelf
    <2>1. DOMAIN domain' = Live
      BY <1>6 DEF RestrictSelf, Live
    <2>2. TypeInv'
      BY <1>6, <1>t, <1>p, <2>1 DEF RestrictSelf, Goto, Returns, TypeInv, Steps, Live
    <2>3. ruleset = Policy
      BY <1>6, <1>t, AllIsPolicy DEF RestrictSelf, ConfineInv
    <2>4. Covered = Live
      BY <1>6, <1>t, <1>g DEF RestrictSelf, Covered, ConfineInv
    <2>5. ConfineInv'
      <3>1. CASE ~noNewPrivs \/ ~kernel.restricts
        BY <1>6, <1>t, <1>p, <1>s, <3>1 DEF RestrictSelf, Goto, Returns, ConfineInv, Live
      <3>2. CASE noNewPrivs /\ kernel.restricts
        <4>1. \A t \in Live : domain'[t] = Policy
          BY <1>6, <3>2, <2>3, <2>4 DEF RestrictSelf
        <4>2. QED
          BY <1>6, <1>t, <1>g, <1>p, <1>s, <3>2, <2>1, <4>1 DEF RestrictSelf, Goto, Returns, ConfineInv, Live
      <3>3. QED
        BY <3>1, <3>2
    <2>6. QED
      BY <2>2, <2>5 DEF Inv
  <1>7. ASSUME NEW t \in Threads, NEW u \in Threads, StartThread(t, u) PROVE Inv'
    <2>1. /\ DOMAIN domain' = Live \union {u} /\ t \in Live
          /\ \A v \in Live \union {u} : domain'[v] = IF v = u THEN domain[t] ELSE domain[v]
      BY <1>7 DEF StartThread, Live
    <2>2. TypeInv'
      BY <1>7, <1>t, <1>p, <2>1 DEF StartThread, TypeInv, Live
    <2>3. step \in {"mounts", "grant"} => ~(kernel.abi < 8)
      BY <1>7, <1>t DEF StartThread, ConfineInv, TypeInv
    <2>4. ConfineInv'
      BY <1>7, <1>t, <1>p, <1>s, <2>1, <2>3 DEF StartThread, ConfineInv, Live
    <2>5. QED
      BY <2>2, <2>4 DEF Inv
  <1>8. ASSUME NEW t \in Threads, EndThread(t) PROVE Inv'
    <2>1. /\ DOMAIN domain' = Live \ {t} /\ t # Caller /\ t \in Live
          /\ \A v \in Live \ {t} : domain'[v] = domain[v]
      BY <1>8 DEF EndThread, Live
    <2>2. TypeInv'
      BY <1>8, <1>t, <1>p, <2>1 DEF EndThread, TypeInv, Live
    <2>3. step \in {"mounts", "grant"} => ~(kernel.abi < 8)
      BY <1>t, <2>1 DEF ConfineInv
    <2>4. ConfineInv'
      BY <1>8, <1>t, <1>p, <1>s, <2>1, <2>3 DEF EndThread, ConfineInv, Live
    <2>5. QED
      BY <2>2, <2>4 DEF Inv
  <1>9. CASE UNCHANGED vars
    <2>1. TypeInv'
      BY <1>9, <1>t, <1>p DEF vars, TypeInv, Live
    <2>2. ConfineInv'
      BY <1>9, <1>t, <1>p DEF vars, ConfineInv, Live
    <2>3. QED
      BY <2>1, <2>2 DEF Inv
  <1>10. QED
    BY <1>1, <1>2, <1>3, <1>4, <1>5, <1>6, <1>7, <1>8, <1>9 DEF HardeningNext, Call, OtherThreads

LEMMA InvIsTrue == Inv => ReportIsTrue
  <1> SUFFICES ASSUME Inv PROVE ReportIsTrue
    OBVIOUS
  <1>1. TypeInv /\ ConfineInv
    BY DEF Inv
  <1>2. report = "confined" => "truncate" \in Policy.handled
    <2>1. report = "confined" => "truncate" \in WriteAccess(kernel.abi)
      BY <1>1 DEF ConfineInv, WriteAccess
    <2>2. Policy.handled = WriteAccess(kernel.abi)
      BY DEF Policy
    <2>3. QED
      BY <2>1, <2>2
  <1>3. QED
    BY <1>1, <1>2 DEF ConfineInv, ReportIsTrue

\* confine_filesystem(): what its report says is true of every thread there is, for
\* any number of threads that start and end meanwhile, grants of any number and
\* order, and every kernel.
THEOREM ReportsAreTrue == HardeningSpec => []ReportIsTrue
  <1>1. HardeningSpec => []Inv
    BY InvInit, InvStep, PTL DEF HardeningSpec
  <1>2. QED
    BY <1>1, InvIsTrue, PTL

=============================================================================
