---------------------------- MODULE SlotRunProofs ----------------------------
(***************************************************************************)
(* Theorems about SlotRun for every set of declared slots, whatever their   *)
(* phases, and every number of skipped tests.                              *)
(***************************************************************************)
EXTENDS SlotRun, SequenceTheorems, TLAPS

PCs == {"asked", "raised", "boot", "container", "outer", "inner", "walk", "left",
        "gone", "streamed", "ended"}
\* Every step that either script may hold.
Steps == BestEffort \union
  {"disk", "store", "runroot", "workspace", "initProof", "resolvConf", "installInner",
   "userManager", "userDrop", "tmpdir", "contract", "version", "preflight", "venv", "sync"}
\* What the container is, and what run_slot() returns.
Machine == [systemd : BOOLEAN, bus : BOOLEAN, pid1 : BOOLEAN, walkedBefore : BOOLEAN]
Result == [passed : BOOLEAN, observed : {"?", "recorded"}, skips : Nat]
\* The types of what the host sees, and of what the scripts keep.
HostTypes ==
  /\ slot \in Cases /\ machine \in Machine /\ pc \in PCs /\ booted \in BOOLEAN
  /\ exitFile \in {"absent", "", "0", "nonzero", "KILL"}
  /\ status \in {"none", "0", "nonzero"} /\ result \in Result
InsideTypes ==
  /\ script \in Seq(Steps) /\ at \in Nat \ {0} /\ done \subseteq Steps
  /\ outcome \in [DOMAIN slot.phases -> {"none", "ok", "failed", "refused"}]
  /\ rc \in Nat /\ expects \subseteq {"podman", "hooks"}
  /\ skipFile \in Nat \union {Absent, Torn} /\ seen \in Nat /\ lossy \in BOOLEAN
TypeInv == HostTypes /\ InsideTypes

\* The stages before the scripts, before the phases, and after the slot.
Before == {"asked", "raised", "boot", "container"}
After == {"gone", "streamed", "ended"}

\* A script is done when all its steps took effect, the best-effort ones apart.
OuterDone == Range(OuterScript) \ BestEffort \subseteq done
InnerDone == Range(InnerScript) \subseteq done

\* How far the scripts are.  "sync" is the inner script's last step, so a script
\* that did it did everything.
ScriptInv ==
  /\ pc \in Before => done = {}
  /\ pc = "boot" => booted
  /\ done \subseteq Range(OuterScript) \union Range(InnerScript)
  /\ pc = "outer" =>
       /\ script = OuterScript /\ at <= Len(script) + 1 /\ "sync" \notin done
       /\ \A i \in 1..(at - 1) : script[i] \in BestEffort \union done
  /\ pc = "inner" =>
       /\ script = InnerScript /\ at <= Len(script) + 1 /\ OuterDone
       /\ \A i \in 1..(at - 1) : script[i] \in done
       /\ "sync" \in done => at = Len(script) + 1
  /\ pc = "walk" => OuterDone /\ InnerDone
  /\ pc = "left" /\ "sync" \in done => OuterDone /\ InnerDone

\* The proof of the init system and the user manager took effect where they can.
ProofInv ==
  /\ "initProof" \in done => InitProofHolds
  /\ "userManager" \in done => machine.pid1

\* A phase that is behind the walk was not selected or has run, and if no status
\* was recorded it has passed or is tolerated.
Past(i) == outcome[i] = "none" => ~Selected(slot.phases[i])
Fine(i) ==
  LET phase == slot.phases[i]
  IN \/ outcome[i] = "ok"
     \/ phase.run = "pytest" /\ slot.scope # "all" /\ phase.scope # slot.scope
     \/ phase.run = "commands" /\ phase.tolerate /\ outcome[i] = "failed"
WalkInv ==
  /\ pc \in Before \union {"outer", "inner"} =>
       \A i \in DOMAIN slot.phases : outcome[i] = "none"
  /\ pc = "walk" =>
       \A i \in DOMAIN slot.phases :
         /\ i < at => Past(i) /\ (rc = 0 => Fine(i))
         /\ i >= at => outcome[i] = "none"
  /\ pc = "left" /\ "sync" \in done =>
       \A i \in DOMAIN slot.phases : Past(i) \/ \E j \in 1..(i - 1) : Aborts(j)
  /\ pc = "left" /\ rc = 0 =>
       OuterDone /\ InnerDone /\ \A i \in DOMAIN slot.phases : Fine(i)

\* What a status that says "passed" stands on.
Earned == OuterDone /\ InnerDone /\ \A i \in DOMAIN slot.phases : Fine(i)
StatusInv ==
  /\ machine.walkedBefore => pc \in {"asked", "raised"}
  /\ exitFile = "0" => machine.walkedBefore \/ (Earned /\ pc \in After)
  /\ pc \notin After => status = "none"
  /\ pc = "gone" => status # "0" /\ (status = "none" => booted)
  /\ pc \in {"streamed", "ended"} /\ status = "0" /\ ~booted => Earned
  /\ pc = "ended" /\ result.passed => Earned

\* The count file never says more than was seen, and no less unless a write of
\* it was cut short.
SkipInv ==
  /\ ReadSlotSkips <= seen
  /\ ~lossy => ReadSlotSkips = seen
  /\ pc = "ended" => result.skips = ReadSlotSkips

Inv == TypeInv /\ ScriptInv /\ ProofInv /\ WalkInv /\ StatusInv /\ SkipInv

\* What the exported contract asks for was declared or is a phase's that has ended,
\* so that a suite it refuses comes after a phase that failed to provide.
Starved(i) ==
  \E j \in 1..(i - 1) : outcome[j] \in {"failed", "refused"} /\ slot.phases[j].adds # {}
ContractInv ==
  /\ \A c \in expects :
       \/ c \in slot.expect
       \/ \E j \in DOMAIN slot.phases : outcome[j] # "none" /\ c \in slot.phases[j].adds
  /\ \A i \in DOMAIN slot.phases : outcome[i] = "refused" => Starved(i)

-----------------------------------------------------------------------------
(* The scripts                                                             *)

\* Scripts are put together from steps: what they are, and what is in them.
LEMMA OneStep ==
  ASSUME NEW a \in Steps
  PROVE  <<a>> \in Seq(Steps) /\ Range(<<a>>) = {a}
  <1>1. DOMAIN <<a>> = 1..1 /\ <<a>>[1] = a
    OBVIOUS
  <1>2. QED
    BY <1>1 DEF Range

LEMMA TwoSteps ==
  ASSUME NEW a \in Steps, NEW b \in Steps
  PROVE  <<a, b>> \in Seq(Steps) /\ Range(<<a, b>>) = {a, b}
  <1>1. DOMAIN <<a, b>> = {1, 2} /\ <<a, b>>[1] = a /\ <<a, b>>[2] = b
    OBVIOUS
  <1>2. Range(<<a, b>>) = {a, b}
    BY <1>1, Zenon DEF Range
  <1>3. QED
    BY <1>2

LEMMA Joined ==
  ASSUME NEW s \in Seq(Steps), NEW t \in Seq(Steps)
  PROVE  s \o t \in Seq(Steps) /\ Range(s \o t) = Range(s) \union Range(t)
  BY ConcatProperties, RangeConcatenation

LEMMA Chosen ==
  ASSUME NEW condition \in BOOLEAN, NEW steps \in Seq(Steps)
  PROVE  /\ When(condition, steps) \in Seq(Steps)
         /\ Range(When(condition, steps)) = IF condition THEN Range(steps) ELSE {}
  BY DEF When, Range

\* What the preparation under krun consists of.
LEMMA PreparationIs ==
  ASSUME TypeInv
  PROVE  /\ KrunPreparation \in Seq(Steps)
         /\ Range(KrunPreparation) =
              {"devLinks"} \union (IF slot.kind = "container" THEN {"disk"} ELSE {})
                \union (IF RunsNestedPodman THEN {"devModes", "mqueue", "store"} ELSE {})
                \union (IF RunsNestedPodman /\ ~booted THEN {"runroot"} ELSE {})
  <1> DEFINE nested == RunsNestedPodman
             mounts == <<"devModes", "mqueue">>
             links == <<"devLinks">>
  <1> SUFFICES /\ KrunPreparation \in Seq(Steps)
               /\ Range(KrunPreparation) =
                    {"devLinks"} \union (IF slot.kind = "container" THEN {"disk"} ELSE {})
                      \union (IF nested THEN {"devModes", "mqueue", "store"} ELSE {})
                      \union (IF nested /\ ~booted THEN {"runroot"} ELSE {})
    OBVIOUS
  <1>1. nested \in BOOLEAN /\ booted \in BOOLEAN /\ (slot.kind = "container") \in BOOLEAN
    BY DEF TypeInv, HostTypes, RunsNestedPodman
  <1>2. /\ RealDisk \in Seq(Steps)
        /\ Range(RealDisk) = IF slot.kind = "container" THEN {"disk"} ELSE {}
    BY <1>1, OneStep, TwoSteps, Chosen DEF RealDisk, Steps, BestEffort
  <1>3. /\ PodmanBinds \in Seq(Steps)
        /\ Range(PodmanBinds) = {"store"} \union IF ~booted THEN {"runroot"} ELSE {}
    <2> DEFINE store == <<"store">>
               root == When(~booted, <<"runroot">>)
    <2>1. store \in Seq(Steps) /\ Range(store) = {"store"}
      BY OneStep DEF Steps
    <2>2. root \in Seq(Steps) /\ Range(root) = IF ~booted THEN {"runroot"} ELSE {}
      BY <1>1, OneStep, Chosen DEF Steps
    <2>3. PodmanBinds = store \o root
      BY DEF PodmanBinds
    <2> HIDE DEF store, root
    <2>4. QED
      BY <2>1, <2>2, <2>3, Joined
  <1>4. mounts \in Seq(Steps) /\ Range(mounts) = {"devModes", "mqueue"}
    BY TwoSteps DEF Steps, BestEffort
  <1> HIDE DEF mounts
  <1>5. /\ mounts \o PodmanBinds \in Seq(Steps)
        /\ Range(mounts \o PodmanBinds) = Range(mounts) \union Range(PodmanBinds)
    BY <1>3, <1>4, Joined
  <1>6. /\ When(nested, mounts \o PodmanBinds) \in Seq(Steps)
        /\ Range(When(nested, mounts \o PodmanBinds)) =
             IF nested THEN Range(mounts \o PodmanBinds) ELSE {}
    BY <1>1, <1>5, Chosen
  <1>7. links \in Seq(Steps) /\ Range(links) = {"devLinks"}
    BY OneStep DEF Steps, BestEffort
  <1>8. KrunPreparation = (links \o RealDisk) \o When(nested, mounts \o PodmanBinds)
    BY DEF KrunPreparation, mounts
  <1> HIDE DEF nested, links
  <1>9. /\ links \o RealDisk \in Seq(Steps)
        /\ Range(links \o RealDisk) = Range(links) \union Range(RealDisk)
    BY <1>2, <1>7, Joined
  <1>10. /\ KrunPreparation \in Seq(Steps)
         /\ Range(KrunPreparation) =
              Range(links \o RealDisk) \union Range(When(nested, mounts \o PodmanBinds))
    BY <1>6, <1>8, <1>9, Joined
  <1>11. QED
    BY <1>1, <1>2, <1>3, <1>4, <1>5, <1>6, <1>7, <1>9, <1>10

\* What the outer script consists of.
LEMMA OuterIs ==
  ASSUME TypeInv
  PROVE  /\ OuterScript \in Seq(Steps)
         /\ Range(OuterScript) =
              (IF slot.krun THEN Range(KrunPreparation) ELSE {})
                \union {"workspace", "installInner", "userDrop"}
                \union (IF slot.kind = "container" THEN {"initProof"} ELSE {})
                \union (IF RunsNestedPodman THEN {"resolvConf"} ELSE {})
                \union (IF booted THEN {"userManager"} ELSE {})
  <1> DEFINE nested == RunsNestedPodman
             s1 == When(slot.krun, KrunPreparation)
             s2 == When(slot.kind = "container", <<"initProof">>)
             s3 == When(nested, <<"resolvConf">>)
             s4 == When(booted, <<"userManager">>)
             j1 == s1 \o <<"workspace">>
             j2 == j1 \o s2
             j3 == j2 \o s3
             j4 == j3 \o <<"installInner">>
             j5 == j4 \o s4
  <1>1. nested \in BOOLEAN /\ booted \in BOOLEAN /\ slot.krun \in BOOLEAN
    BY CasesAssumption DEF TypeInv, HostTypes, RunsNestedPodman, Declared
  <1>2. s1 \in Seq(Steps) /\ Range(s1) = IF slot.krun THEN Range(KrunPreparation) ELSE {}
    BY <1>1, PreparationIs, Chosen
  <1>3. /\ s2 \in Seq(Steps)
        /\ Range(s2) = IF slot.kind = "container" THEN {"initProof"} ELSE {}
    BY OneStep, TwoSteps, Chosen DEF Steps, BestEffort
  <1>4. s3 \in Seq(Steps) /\ Range(s3) = IF nested THEN {"resolvConf"} ELSE {}
    BY <1>1, OneStep, TwoSteps, Chosen DEF Steps, BestEffort
  <1>5. s4 \in Seq(Steps) /\ Range(s4) = IF booted THEN {"userManager"} ELSE {}
    BY <1>1, OneStep, TwoSteps, Chosen DEF Steps, BestEffort
  <1>6. OuterScript = j5 \o <<"userDrop">>
    BY DEF OuterScript
  <1> HIDE DEF nested, s1, s2, s3, s4
  <1>7. j1 \in Seq(Steps) /\ Range(j1) = Range(s1) \union {"workspace"}
    BY <1>2, OneStep, TwoSteps, Joined DEF Steps, BestEffort
  <1>8. j2 \in Seq(Steps) /\ Range(j2) = Range(j1) \union Range(s2)
    BY <1>7, <1>3, Joined
  <1>9. j3 \in Seq(Steps) /\ Range(j3) = Range(j2) \union Range(s3)
    BY <1>8, <1>4, Joined
  <1>10. j4 \in Seq(Steps) /\ Range(j4) = Range(j3) \union {"installInner"}
    BY <1>9, OneStep, TwoSteps, Joined DEF Steps, BestEffort
  <1>11. j5 \in Seq(Steps) /\ Range(j5) = Range(j4) \union Range(s4)
    BY <1>10, <1>5, Joined
  <1>12. /\ j5 \o <<"userDrop">> \in Seq(Steps)
         /\ Range(j5 \o <<"userDrop">>) = Range(j5) \union {"userDrop"}
    BY <1>11, OneStep, TwoSteps, Joined DEF Steps, BestEffort
  <1> HIDE DEF j1, j2, j3, j4, j5
  <1>13. QED
    BY <1>2, <1>3, <1>4, <1>5, <1>6, <1>7, <1>8, <1>9, <1>10, <1>11, <1>12 DEF nested

\* What the inner script consists of: "sync" is its last step.
LEMMA InnerIs ==
  ASSUME TypeInv
  PROVE  /\ InnerScript \in Seq(Steps)
         /\ Range(InnerScript) =
              (IF slot.krun /\ slot.kind = "container" THEN {"tmpdir"} ELSE {})
                \union {"contract", "venv", "sync"}
                \union (IF slot.kind = "nix" \/ RunsNestedPodman THEN {"version"} ELSE {})
                \union (IF RunsNestedPodman THEN {"preflight"} ELSE {})
         /\ \A i \in 1..Len(InnerScript) : InnerScript[i] = "sync" <=> i = Len(InnerScript)
  <1> DEFINE nested == RunsNestedPodman
             s1 == TmpdirExport
             r1 == When(slot.kind = "nix", <<"version">>)
             r2 == When(nested, <<"version", "preflight">>)
             s2 == VersionReport
             j1 == s1 \o <<"contract">>
             j2 == j1 \o s2
             j3 == j2 \o <<"venv">>
             last == <<"venv", "sync">>
  <1>1. nested \in BOOLEAN /\ (slot.krun /\ slot.kind = "container") \in BOOLEAN
    BY CasesAssumption DEF TypeInv, HostTypes, RunsNestedPodman, Declared
  <1>2. /\ s1 \in Seq(Steps)
        /\ Range(s1) = IF slot.krun /\ slot.kind = "container" THEN {"tmpdir"} ELSE {}
    BY <1>1, OneStep, TwoSteps, Chosen DEF TmpdirExport, Steps, BestEffort
  <1>3. r1 \in Seq(Steps) /\ Range(r1) = IF slot.kind = "nix" THEN {"version"} ELSE {}
    BY OneStep, TwoSteps, Chosen DEF Steps, BestEffort
  <1>4. r2 \in Seq(Steps) /\ Range(r2) = IF nested THEN {"version", "preflight"} ELSE {}
    BY <1>1, OneStep, TwoSteps, Chosen DEF Steps, BestEffort
  <1>5. s2 = r1 \o r2
    BY DEF VersionReport
  <1>6. InnerScript = j2 \o last
    BY DEF InnerScript
  <1>7. last \in Seq(Steps) /\ Range(last) = {"venv", "sync"}
    BY OneStep, TwoSteps DEF Steps, BestEffort
  <1>8. Len(last) = 2 /\ last[1] = "venv" /\ last[2] = "sync"
    OBVIOUS
  <1> HIDE DEF nested, s1, s2, r1, r2, last
  <1>9. s2 \in Seq(Steps) /\ Range(s2) = Range(r1) \union Range(r2)
    BY <1>3, <1>4, <1>5, Joined
  <1>10. j1 \in Seq(Steps) /\ Range(j1) = Range(s1) \union {"contract"}
    BY <1>2, OneStep, TwoSteps, Joined DEF Steps, BestEffort
  <1>11. j2 \in Seq(Steps) /\ Range(j2) = Range(j1) \union Range(s2)
    BY <1>9, <1>10, Joined
  <1> HIDE DEF j1, j2
  <1>12. /\ j2 \o last \in Seq(Steps)
         /\ Range(j2 \o last) = Range(j2) \union {"venv", "sync"}
    BY <1>7, <1>11, Joined
  <1>13. "sync" \notin Range(j2)
    BY <1>2, <1>3, <1>4, <1>9, <1>10, <1>11
  <1>14. \A i \in 1..Len(j2) : j2[i] # "sync"
    BY <1>11, <1>13, RangeEquality
  <1>15. /\ Len(j2) \in Nat /\ Len(j2 \o last) = Len(j2) + Len(last)
         /\ \A i \in 1..(Len(j2) + Len(last)) :
              (j2 \o last)[i] = IF i <= Len(j2) THEN j2[i] ELSE last[i - Len(j2)]
    BY <1>7, <1>11, ConcatProperties, LenProperties
  <1>16. \A i \in 1..Len(j2 \o last) : (j2 \o last)[i] = "sync" <=> i = Len(j2 \o last)
    BY <1>8, <1>14, <1>15
  <1>17. QED
    BY <1>2, <1>3, <1>4, <1>6, <1>9, <1>10, <1>11, <1>12, <1>16 DEF nested

\* What the properties need to know of the two scripts.
LEMMA ScriptsHave ==
  ASSUME TypeInv
  PROVE  /\ OuterScript \in Seq(Steps) /\ InnerScript \in Seq(Steps)
         /\ Len(OuterScript) \in Nat /\ Len(InnerScript) \in Nat
         /\ "sync" \notin Range(OuterScript) /\ "tmpdir" \notin Range(OuterScript)
         /\ Range(InnerScript) \intersect BestEffort = {}
         /\ Range(OuterScript) = {OuterScript[i] : i \in 1..Len(OuterScript)}
         /\ Range(InnerScript) = {InnerScript[i] : i \in 1..Len(InnerScript)}
         /\ \A i \in 1..Len(InnerScript) : InnerScript[i] = "sync" <=> i = Len(InnerScript)
  BY OuterIs, InnerIs, PreparationIs, RangeEquality, LenProperties DEF BestEffort

\* What was written for a slot stays what it is.
LEMMA ScriptsStay ==
  ASSUME UNCHANGED <<slot, booted>>
  PROVE  OuterScript' = OuterScript /\ InnerScript' = InnerScript
  BY DEF OuterScript, InnerScript, KrunPreparation, RunsNestedPodman, RealDisk, PodmanBinds,
         TmpdirExport, VersionReport

\* The phases of a declared slot.
LEMMA PhasesAre ==
  ASSUME TypeInv
  PROVE  /\ Len(slot.phases) \in Nat /\ DOMAIN slot.phases = 1..Len(slot.phases)
         /\ \A i \in 1..Len(slot.phases) : slot.phases[i] \in Phase
         /\ slot \in Declared
  BY CasesAssumption, LenProperties, ElementOfSeq DEF TypeInv, HostTypes, Declared

-----------------------------------------------------------------------------
(* Steps: each action keeps each part of the invariant                     *)


LEMMA StartOuterStep ==
  ASSUME Inv, ContainerStarts \/ BootCompletes
  PROVE  Inv'
  <1>1. /\ pc \in {"container", "boot"} /\ pc' = "outer" /\ script' = OuterScript /\ at' = 1
        /\ UNCHANGED <<slot, machine, booted, exitFile, status, result, done, outcome, rc,
                       expects, skipFile, seen, lossy>>
    BY DEF ContainerStarts, BootCompletes, StartOuter
  <1>2. OuterScript \in Seq(Steps) /\ Len(OuterScript) \in Nat /\ OuterScript' = OuterScript
    BY <1>1, ScriptsHave, ScriptsStay DEF Inv
  <1>3. InnerScript' = InnerScript
    BY <1>1, ScriptsStay
  <1>4. HostTypes'
    BY <1>1 DEF Inv, TypeInv, HostTypes, PCs
  <1>5. InsideTypes'
    BY <1>1, <1>2 DEF Inv, TypeInv, InsideTypes
  <1>6. ScriptInv'
    BY <1>1, <1>2, <1>3 DEF Inv, ScriptInv, Before
  <1>7. ProofInv'
    BY <1>1 DEF Inv, ProofInv, InitProofHolds
  <1>8. WalkInv'
    BY <1>1 DEF Inv, WalkInv, Before
  <1>9. StatusInv'
    BY <1>1 DEF Inv, StatusInv, Before, After, ScriptInv
  <1>10. SkipInv'
    BY <1>1 DEF Inv, SkipInv, ReadSlotSkips
  <1>11. QED
    BY <1>4, <1>5, <1>6, <1>7, <1>8, <1>9, <1>10 DEF Inv, TypeInv

LEMMA StepWorksStep ==
  ASSUME Inv, StepWorks
  PROVE  Inv'
  <1> DEFINE step == script[at]
  <1>1. /\ pc \in {"outer", "inner"} /\ at <= Len(script) /\ Works(step)
        /\ done' = done \union {step} /\ at' = at + 1 /\ expects' \in {slot.expect, expects}
        /\ UNCHANGED <<slot, machine, pc, booted, exitFile, status, result, script, outcome,
                       rc, skipFile, seen, lossy>>
    BY DEF StepWorks
  <1>2. OuterScript' = OuterScript /\ InnerScript' = InnerScript
    BY <1>1, ScriptsStay
  <1>3. /\ script \in Seq(Steps) /\ Len(script) \in Nat /\ at \in 1..Len(script)
        /\ done \subseteq Steps
    BY <1>1, LenProperties DEF Inv, TypeInv, InsideTypes
  <1>4. step \in Steps
    BY <1>3, ElementOfSeq
  <1>5. slot.expect \subseteq {"podman", "hooks"}
    BY PhasesAre DEF Inv, Declared
  <1> HIDE DEF step
  <1>6. HostTypes'
    BY <1>1 DEF Inv, TypeInv, HostTypes
  <1>7. InsideTypes'
    <2>1. done' \subseteq Steps
      BY <1>1, <1>3, <1>4
    <2>2. expects' \subseteq {"podman", "hooks"}
      BY <1>1, <1>5 DEF Inv, TypeInv, InsideTypes
    <2>3. at' \in Nat \ {0}
      BY <1>1, <1>3
    <2>4. QED
      BY <1>1, <2>1, <2>2, <2>3 DEF Inv, TypeInv, InsideTypes
  <1>8. ScriptInv'
    <2>1. CASE pc = "outer"
      <3>1. /\ script = OuterScript /\ "sync" \notin done
            /\ \A i \in 1..(at - 1) : script[i] \in BestEffort \union done
        BY <2>1 DEF Inv, ScriptInv
      <3>2. step \in Range(OuterScript) /\ step # "sync"
        BY <1>3, <3>1, ScriptsHave DEF Inv, step
      <3>3. \A i \in 1..(at' - 1) : script'[i] \in BestEffort \union done'
        BY <1>1, <1>3, <3>1 DEF step
      <3>4. QED
        BY <1>1, <1>2, <1>3, <2>1, <3>1, <3>2, <3>3 DEF Inv, ScriptInv, Before
    <2>2. CASE pc = "inner"
      <3>1. /\ script = InnerScript /\ OuterDone
            /\ \A i \in 1..(at - 1) : script[i] \in done
            /\ "sync" \in done => at = Len(script) + 1
        BY <2>2 DEF Inv, ScriptInv
      <3>2. step \in Range(InnerScript) /\ (step = "sync" => at = Len(script))
        BY <1>3, <3>1, ScriptsHave DEF Inv, step
      <3>3. \A i \in 1..(at' - 1) : script'[i] \in done'
        BY <1>1, <1>3, <3>1 DEF step
      <3>4. QED
        BY <1>1, <1>2, <1>3, <2>2, <3>1, <3>2, <3>3 DEF Inv, ScriptInv, OuterDone, Before
    <2>3. QED
      BY <1>1, <2>1, <2>2
  <1>9. ProofInv'
    BY <1>1 DEF Inv, ProofInv, InitProofHolds, Works
  <1>10. WalkInv'
    BY <1>1, <1>2 DEF Inv, WalkInv, Before
  <1>11. StatusInv'
    BY <1>1 DEF Inv, StatusInv, After
  <1>12. SkipInv'
    BY <1>1 DEF Inv, SkipInv, ReadSlotSkips
  <1>13. QED
    BY <1>6, <1>7, <1>8, <1>9, <1>10, <1>11, <1>12 DEF Inv, TypeInv

LEMMA StepFailsStep ==
  ASSUME Inv, StepFails
  PROVE  Inv'
  <1> DEFINE step == script[at]
  <1>1. /\ pc \in {"outer", "inner"} /\ at <= Len(script)
        /\ \/ step \in BestEffort /\ at' = at + 1 /\ UNCHANGED <<pc, rc>>
           \/ step \notin BestEffort /\ pc' = "left" /\ rc' = 1 /\ UNCHANGED at
        /\ UNCHANGED <<slot, machine, booted, exitFile, status, result, script, done, outcome,
                       expects, skipFile, seen, lossy>>
    BY DEF StepFails, EndScript
  <1>2. OuterScript' = OuterScript /\ InnerScript' = InnerScript
    BY <1>1, ScriptsStay
  <1>3. /\ script \in Seq(Steps) /\ Len(script) \in Nat /\ at \in 1..Len(script)
    BY <1>1, LenProperties DEF Inv, TypeInv, InsideTypes
  <1>4. pc = "inner" => step \notin BestEffort
    BY <1>3, ScriptsHave DEF Inv, ScriptInv
  <1>5. "sync" \notin done
    BY <1>1, <1>3 DEF Inv, ScriptInv
  <1>6. HostTypes'
    BY <1>1 DEF Inv, TypeInv, HostTypes, PCs
  <1>7. InsideTypes'
    BY <1>1, <1>3 DEF Inv, TypeInv, InsideTypes
  <1>8. ScriptInv'
    <2>1. CASE step \in BestEffort
      <3>1. /\ pc = "outer" /\ script = OuterScript
            /\ \A i \in 1..(at - 1) : script[i] \in BestEffort \union done
        BY <1>1, <1>4, <2>1 DEF Inv, ScriptInv
      <3>2. at' = at + 1 /\ pc' = pc
        BY <1>1, <2>1
      <3>3. \A i \in 1..(at' - 1) : script'[i] \in BestEffort \union done'
        BY <1>1, <1>3, <2>1, <3>1, <3>2
      <3> HIDE DEF step
      <3>4. QED
        BY <1>1, <1>2, <1>3, <1>5, <3>1, <3>2, <3>3 DEF Inv, ScriptInv, Before
    <2>2. CASE step \notin BestEffort
      BY <1>1, <1>2, <1>5, <2>2 DEF Inv, ScriptInv, Before
    <2>3. QED
      BY <2>1, <2>2
  <1>9. ProofInv'
    BY <1>1 DEF Inv, ProofInv, InitProofHolds
  <1> HIDE DEF step
  <1>10. WalkInv'
    BY <1>1, <1>5 DEF Inv, WalkInv, Before
  <1>11. StatusInv'
    BY <1>1 DEF Inv, StatusInv, After
  <1>12. SkipInv'
    BY <1>1 DEF Inv, SkipInv, ReadSlotSkips
  <1>13. QED
    BY <1>6, <1>7, <1>8, <1>9, <1>10, <1>11, <1>12 DEF Inv, TypeInv

LEMMA NextScriptStep ==
  ASSUME Inv, NextScript
  PROVE  Inv'
  <1>1. /\ at > Len(script) /\ at' = 1
        /\ \/ pc = "outer" /\ pc' = "inner" /\ script' = InnerScript
           \/ pc = "inner" /\ pc' = "walk" /\ script' = script
        /\ UNCHANGED <<slot, machine, booted, exitFile, status, result, done, outcome, rc,
                       expects, skipFile, seen, lossy>>
    BY DEF NextScript
  <1>2. OuterScript' = OuterScript /\ InnerScript' = InnerScript
    BY <1>1, ScriptsStay
  <1>3. /\ OuterScript \in Seq(Steps) /\ InnerScript \in Seq(Steps)
        /\ Len(OuterScript) \in Nat /\ Len(InnerScript) \in Nat
        /\ Range(OuterScript) = {OuterScript[i] : i \in 1..Len(OuterScript)}
        /\ Range(InnerScript) = {InnerScript[i] : i \in 1..Len(InnerScript)}
    BY ScriptsHave DEF Inv
  <1>4. at \in Nat
    BY DEF Inv, TypeInv, InsideTypes
  <1>5. HostTypes'
    BY <1>1 DEF Inv, TypeInv, HostTypes, PCs
  <1>6. InsideTypes'
    BY <1>1, <1>3 DEF Inv, TypeInv, InsideTypes
  <1>7. ScriptInv'
    <2>1. CASE pc = "outer"
      <3>1. /\ script = OuterScript /\ at = Len(script) + 1 /\ "sync" \notin done
            /\ \A i \in 1..(at - 1) : script[i] \in BestEffort \union done
        BY <1>1, <1>3, <1>4, <2>1 DEF Inv, ScriptInv
      <3>2. OuterDone
        BY <1>3, <3>1 DEF OuterDone
      <3>3. QED
        BY <1>1, <1>2, <1>3, <2>1, <3>1, <3>2 DEF Inv, ScriptInv, OuterDone, Before
    <2>2. CASE pc = "inner"
      <3>1. /\ script = InnerScript /\ at = Len(script) + 1 /\ OuterDone
            /\ \A i \in 1..(at - 1) : script[i] \in done
        BY <1>1, <1>3, <1>4, <2>2 DEF Inv, ScriptInv
      <3>2. InnerDone
        BY <1>3, <3>1 DEF InnerDone
      <3>3. QED
        BY <1>1, <1>2, <2>2, <3>1, <3>2 DEF Inv, ScriptInv, OuterDone, InnerDone, Before
    <2>3. QED
      BY <1>1, <2>1, <2>2
  <1>8. ProofInv'
    BY <1>1 DEF Inv, ProofInv, InitProofHolds
  <1>9. WalkInv'
    BY <1>1, PhasesAre DEF Inv, WalkInv, Before
  <1>10. StatusInv'
    BY <1>1 DEF Inv, StatusInv, After
  <1>11. SkipInv'
    BY <1>1 DEF Inv, SkipInv, ReadSlotSkips
  <1>12. QED
    BY <1>5, <1>6, <1>7, <1>8, <1>9, <1>10, <1>11 DEF Inv, TypeInv

LEMMA SkipPhaseStep ==
  ASSUME Inv, SkipPhase
  PROVE  Inv'
  <1>1. /\ pc = "walk" /\ at \in DOMAIN slot.phases /\ ~Selected(slot.phases[at]) /\ at' = at + 1
        /\ UNCHANGED <<slot, machine, pc, booted, exitFile, status, result, script, done,
                       outcome, rc, expects, skipFile, seen, lossy>>
    BY DEF SkipPhase
  <1>2. OuterScript' = OuterScript /\ InnerScript' = InnerScript
    BY <1>1, ScriptsStay
  <1>3. /\ at \in 1..Len(slot.phases) /\ Len(slot.phases) \in Nat
        /\ DOMAIN slot.phases = 1..Len(slot.phases) /\ slot.phases[at] \in Phase
    BY <1>1, PhasesAre DEF Inv
  <1>4. HostTypes'
    BY <1>1 DEF Inv, TypeInv, HostTypes
  <1>5. InsideTypes'
    BY <1>1, <1>3 DEF Inv, TypeInv, InsideTypes
  <1>6. ScriptInv'
    BY <1>1, <1>2 DEF Inv, ScriptInv, OuterDone, InnerDone, Before
  <1>7. ProofInv'
    BY <1>1 DEF Inv, ProofInv, InitProofHolds
  <1>8. WalkInv'
    <2>1. Past(at) /\ Fine(at)
      BY <1>1, <1>3 DEF Past, Fine, Selected, Phase
    <2>2. \A i \in DOMAIN slot.phases :
            /\ i < at => Past(i) /\ (rc = 0 => Fine(i))
            /\ i >= at => outcome[i] = "none"
      BY <1>1 DEF Inv, WalkInv
    <2>3. \A i \in DOMAIN slot.phases :
            /\ i < at' => Past(i) /\ (rc = 0 => Fine(i))
            /\ i >= at' => outcome[i] = "none"
      BY <1>1, <1>3, <2>1, <2>2
    <2>4. \A i \in DOMAIN slot.phases : (Past(i)' <=> Past(i)) /\ (Fine(i)' <=> Fine(i))
      BY <1>1 DEF Past, Fine, Selected
    <2>5. QED
      BY <1>1, <2>3, <2>4 DEF WalkInv, Before
  <1>9. StatusInv'
    BY <1>1 DEF Inv, StatusInv, After
  <1>10. SkipInv'
    BY <1>1 DEF Inv, SkipInv, ReadSlotSkips
  <1>11. QED
    BY <1>4, <1>5, <1>6, <1>7, <1>8, <1>9, <1>10 DEF Inv, TypeInv

\* A phase that ends with this outcome and leaves this status keeps the walk.
LEMMA PhaseEndsStep ==
  ASSUME Inv, pc = "walk", at \in DOMAIN slot.phases, Selected(slot.phases[at]),
         NEW end \in {"ok", "failed", "refused"}, NEW code \in Nat, PhaseEnds(at, end, code),
         code = 0 => rc = 0 /\ (end = "ok" \/ (end = "failed" /\ slot.phases[at].tolerate
                                               /\ slot.phases[at].run = "commands")),
         UNCHANGED <<slot, machine, booted, exitFile, status, result, script, done>>
  PROVE  /\ HostTypes' /\ ScriptInv' /\ ProofInv' /\ WalkInv' /\ StatusInv'
         /\ at' \in Nat \ {0} /\ rc' \in Nat /\ expects' \subseteq {"podman", "hooks"}
         /\ outcome' \in [DOMAIN slot'.phases -> {"none", "ok", "failed", "refused"}]
  <1>1. /\ pc' = "walk" /\ outcome' = [outcome EXCEPT ![at] = end] /\ rc' = code
        /\ expects' = expects \union slot.phases[at].adds /\ at' = at + 1
    BY DEF PhaseEnds
  <1>2. OuterScript' = OuterScript /\ InnerScript' = InnerScript
    BY ScriptsStay
  <1>3. /\ at \in 1..Len(slot.phases) /\ Len(slot.phases) \in Nat
        /\ DOMAIN slot.phases = 1..Len(slot.phases) /\ slot.phases[at] \in Phase
    BY PhasesAre DEF Inv
  <1>4. outcome \in [DOMAIN slot.phases -> {"none", "ok", "failed", "refused"}]
    BY DEF Inv, TypeInv, InsideTypes
  <1>5. HostTypes'
    BY <1>1 DEF Inv, TypeInv, HostTypes
  <1>6. at' \in Nat \ {0} /\ rc' \in Nat
    BY <1>1, <1>3
  <1>7. expects' \subseteq {"podman", "hooks"}
    BY <1>1, <1>3 DEF Inv, TypeInv, InsideTypes, Phase
  <1>8. outcome' \in [DOMAIN slot'.phases -> {"none", "ok", "failed", "refused"}]
    BY <1>1, <1>4
  <1>9. ScriptInv'
    BY <1>1, <1>2 DEF Inv, ScriptInv, OuterDone, InnerDone, Before
  <1>10. ProofInv'
    BY <1>1 DEF Inv, ProofInv, InitProofHolds
  <1>11. WalkInv'
    <2>0. PICK k \in DOMAIN slot.phases : k = at
      OBVIOUS
    <2>1. \A i \in DOMAIN slot.phases :
            /\ i < at => Past(i) /\ (rc = 0 => Fine(i))
            /\ i >= at => outcome[i] = "none"
      BY DEF Inv, WalkInv
    <2>2. outcome'[k] = end /\ \A i \in DOMAIN slot.phases : i # k => outcome'[i] = outcome[i]
      BY <1>1, <1>4, <2>0
    <2>3. Past(k)' /\ (rc' = 0 => Fine(k)')
      BY <1>1, <1>3, <2>0, <2>2 DEF Past, Fine
    <2>4. \A i \in DOMAIN slot.phases :
            i # k => (Past(i)' <=> Past(i)) /\ (Fine(i)' <=> Fine(i))
      BY <1>1, <2>2 DEF Past, Fine, Selected
    <2>5. \A i \in DOMAIN slot'.phases :
            /\ i < at' => Past(i)' /\ (rc' = 0 => Fine(i)')
            /\ i >= at' => outcome'[i] = "none"
      BY <1>1, <1>3, <2>0, <2>1, <2>2, <2>3, <2>4
    <2>6. QED
      BY <1>1, <2>5 DEF WalkInv, Before
  <1>12. StatusInv'
    BY <1>1 DEF Inv, StatusInv, After
  <1>13. QED
    BY <1>5, <1>6, <1>7, <1>8, <1>9, <1>10, <1>11, <1>12

LEMMA RunCommandsStep ==
  ASSUME Inv, RunCommands
  PROVE  Inv'
  <1>1. /\ pc = "walk" /\ at \in DOMAIN slot.phases /\ slot.phases[at].run = "commands"
        /\ UNCHANGED <<slot, machine, booted, exitFile, status, result, script, done,
                       skipFile, seen, lossy>>
    BY DEF RunCommands
  <1>2. PICK end \in {"ok", "failed"} : CommandsEnd(at, end)
    BY DEF RunCommands
  <1>3. SkipInv'
    <2>1. pc' # "ended"
      BY <1>1, <1>2 DEF CommandsEnd, EndScript, PhaseEnds
    <2>2. QED
      BY <1>1, <2>1 DEF Inv, SkipInv, ReadSlotSkips
  <1>4. CASE end = "failed" /\ ~slot.phases[at].tolerate
    <2>1. /\ pc' = "left" /\ rc' = 1 /\ outcome' = [outcome EXCEPT ![at] = end]
          /\ UNCHANGED <<at, expects>>
      BY <1>2, <1>4 DEF CommandsEnd, EndScript
    <2>2. OuterScript' = OuterScript /\ InnerScript' = InnerScript
      BY <1>1, ScriptsStay
    <2>3. HostTypes'
      BY <1>1, <2>1 DEF Inv, TypeInv, HostTypes, PCs
    <2>4. InsideTypes'
      BY <1>1, <2>1 DEF Inv, TypeInv, InsideTypes
    <2>5. ScriptInv'
      BY <1>1, <2>1, <2>2 DEF Inv, ScriptInv, OuterDone, InnerDone, Before
    <2>6. ProofInv'
      BY <1>1 DEF Inv, ProofInv, InitProofHolds
    <2>7. WalkInv'
      <3>1. PICK k \in DOMAIN slot.phases : k = at
        BY <1>1
      <3>2. \A i \in DOMAIN slot.phases : i < at => Past(i)
        BY <1>1 DEF Inv, WalkInv
      <3>3. outcome'[k] = "failed" /\ \A i \in DOMAIN slot.phases : i # k => outcome'[i] = outcome[i]
        BY <1>4, <2>1, <3>1 DEF Inv, TypeInv, InsideTypes
      <3>4. Past(k)' /\ Aborts(k)'
        BY <1>1, <1>4, <3>1, <3>3 DEF Past, Aborts
      <3>5. \A i \in DOMAIN slot.phases : i # k => (Past(i)' <=> Past(i))
        BY <1>1, <3>3 DEF Past, Selected
      <3>6. \A i \in DOMAIN slot.phases : i < k \/ i = k \/ k \in 1..(i - 1)
        BY PhasesAre DEF Inv
      <3>7. \A i \in DOMAIN slot.phases : Past(i)' \/ \E j \in 1..(i - 1) : Aborts(j)'
        BY <3>1, <3>2, <3>4, <3>5, <3>6
      <3>8. QED
        BY <1>1, <2>1, <3>7 DEF WalkInv, Before
    <2>8. StatusInv'
      BY <1>1, <2>1 DEF Inv, StatusInv, After
    <2>9. QED
      BY <1>3, <2>3, <2>4, <2>5, <2>6, <2>7, <2>8 DEF Inv, TypeInv
  <1>5. CASE ~(end = "failed" /\ ~slot.phases[at].tolerate)
    <2>1. PhaseEnds(at, end, rc)
      BY <1>2, <1>5 DEF CommandsEnd
    <2>2. rc \in Nat /\ Selected(slot.phases[at])
      BY <1>1 DEF Inv, TypeInv, InsideTypes, Selected
    <2>3. /\ HostTypes' /\ ScriptInv' /\ ProofInv' /\ WalkInv' /\ StatusInv'
          /\ at' \in Nat \ {0} /\ rc' \in Nat /\ expects' \subseteq {"podman", "hooks"}
          /\ outcome' \in [DOMAIN slot'.phases -> {"none", "ok", "failed", "refused"}]
      BY <1>1, <1>5, <2>1, <2>2, PhaseEndsStep
    <2>4. InsideTypes'
      BY <1>1, <2>3 DEF Inv, TypeInv, InsideTypes
    <2>5. QED
      BY <1>3, <2>3, <2>4 DEF Inv, TypeInv
  <1>6. QED
    BY <1>4, <1>5

\* The plugin's merge keeps the count file between nothing and what was seen.
LEMMA SessionFinishKeeps ==
  ASSUME TypeInv, SkipInv, NEW count \in Nat, SessionFinish(count), seen' = seen + count
  PROVE  /\ skipFile' \in Nat \union {Absent, Torn} /\ seen' \in Nat /\ lossy' \in BOOLEAN
         /\ ReadSlotSkips' <= seen' /\ (~lossy' => ReadSlotSkips' = seen')
  <1>1. /\ skipFile \in Nat \union {Absent, Torn} /\ seen \in Nat /\ lossy \in BOOLEAN
        /\ ReadSlotSkips <= seen /\ (~lossy => ReadSlotSkips = seen)
    BY DEF TypeInv, InsideTypes, SkipInv
  <1>2. CASE count = 0
    <2>1. UNCHANGED <<skipFile, lossy, seen>>
      BY <1>1, <1>2 DEF SessionFinish
    <2>2. QED
      BY <1>1, <2>1 DEF ReadSlotSkips
  <1>3. CASE skipFile' = Merge(count) /\ UNCHANGED lossy
    BY <1>1, <1>3 DEF Merge, ReadSlotSkips, Absent, Torn
  <1>4. CASE skipFile' \in {skipFile, Torn} /\ lossy' = TRUE
    BY <1>1, <1>4 DEF ReadSlotSkips, Absent, Torn
  <1>5. QED
    BY <1>2, <1>3, <1>4 DEF SessionFinish

LEMMA RunPytestStep ==
  ASSUME Inv, RunPytest
  PROVE  Inv'
  <1>1. /\ pc = "walk" /\ at \in DOMAIN slot.phases /\ Selected(slot.phases[at])
        /\ UNCHANGED <<slot, machine, booted, exitFile, status, result, script, done>>
    BY DEF RunPytest
  <1>2. rc \in Nat /\ MaxSkips \in Nat
    BY SkipsAssumption DEF Inv, TypeInv, InsideTypes
  <1>3. ASSUME NEW code \in Nat, NEW end \in {"ok", "failed", "refused"},
               PhaseEnds(at, end, FirstCode(code)), code = 0 => end = "ok"
        PROVE  /\ HostTypes' /\ ScriptInv' /\ ProofInv' /\ WalkInv' /\ StatusInv' /\ pc' = "walk"
               /\ at' \in Nat \ {0} /\ rc' \in Nat /\ expects' \subseteq {"podman", "hooks"}
               /\ outcome' \in [DOMAIN slot'.phases -> {"none", "ok", "failed", "refused"}]
    <2>1. /\ FirstCode(code) \in Nat
          /\ FirstCode(code) = 0 => rc = 0 /\ end = "ok"
      BY <1>2, <1>3 DEF FirstCode
    <2>2. PhaseEnds(at, end, FirstCode(code)) /\ pc' = "walk"
      BY <1>1, <1>3 DEF PhaseEnds
    <2>3. QED
      BY <1>1, <2>1, <2>2, PhaseEndsStep
  <1>4. CASE \E code \in 0..2, count \in 0..MaxSkips :
               /\ PhaseEnds(at, IF code = 0 THEN "ok" ELSE "failed", FirstCode(code))
               /\ SessionFinish(count)
               /\ seen' = seen + count
    <2>1. PICK code \in 0..2, count \in 0..MaxSkips :
               /\ PhaseEnds(at, IF code = 0 THEN "ok" ELSE "failed", FirstCode(code))
               /\ SessionFinish(count)
               /\ seen' = seen + count
      BY <1>4
    <2>2. code \in Nat /\ count \in Nat
      BY <1>2
    <2>3. /\ HostTypes' /\ ScriptInv' /\ ProofInv' /\ WalkInv' /\ StatusInv' /\ pc' = "walk"
          /\ at' \in Nat \ {0} /\ rc' \in Nat /\ expects' \subseteq {"podman", "hooks"}
          /\ outcome' \in [DOMAIN slot'.phases -> {"none", "ok", "failed", "refused"}]
      BY <1>3, <2>1, <2>2
    <2>4. /\ skipFile' \in Nat \union {Absent, Torn} /\ seen' \in Nat /\ lossy' \in BOOLEAN
          /\ ReadSlotSkips' <= seen' /\ (~lossy' => ReadSlotSkips' = seen')
      BY <2>1, <2>2, SessionFinishKeeps DEF Inv
    <2>5. QED
      BY <1>1, <2>3, <2>4 DEF Inv, TypeInv, InsideTypes, SkipInv
  <1>5. CASE /\ PhaseEnds(at, "refused", FirstCode(3))
             /\ UNCHANGED <<skipFile, seen, lossy>>
    <2>1. /\ HostTypes' /\ ScriptInv' /\ ProofInv' /\ WalkInv' /\ StatusInv' /\ pc' = "walk"
          /\ at' \in Nat \ {0} /\ rc' \in Nat /\ expects' \subseteq {"podman", "hooks"}
          /\ outcome' \in [DOMAIN slot'.phases -> {"none", "ok", "failed", "refused"}]
      BY <1>3, <1>5
    <2>2. InsideTypes'
      BY <1>1, <1>5, <2>1 DEF Inv, TypeInv, InsideTypes
    <2>3. SkipInv'
      BY <1>5, <2>1 DEF Inv, SkipInv, ReadSlotSkips
    <2>4. QED
      BY <2>1, <2>2, <2>3 DEF Inv, TypeInv
  <1>6. QED
    BY <1>4, <1>5 DEF RunPytest

LEMMA PytestKilledStep ==
  ASSUME Inv, PytestKilled
  PROVE  Inv'
  <1>1. /\ pc = "walk" /\ at \in DOMAIN slot.phases /\ Selected(slot.phases[at])
        /\ PhaseEnds(at, "failed", FirstCode(137))
        /\ UNCHANGED <<slot, machine, booted, exitFile, status, result, script, done, seen>>
    BY DEF PytestKilled
  <1>2. \/ UNCHANGED <<skipFile, lossy>>
        \/ skipFile' = Torn /\ lossy' = TRUE
    BY DEF PytestKilled
  <1>3. FirstCode(137) \in Nat /\ FirstCode(137) # 0
    BY DEF Inv, TypeInv, InsideTypes, FirstCode
  <1>4. pc' = "walk"
    BY <1>1 DEF PhaseEnds
  <1>5. /\ HostTypes' /\ ScriptInv' /\ ProofInv' /\ WalkInv' /\ StatusInv'
        /\ at' \in Nat \ {0} /\ rc' \in Nat /\ expects' \subseteq {"podman", "hooks"}
        /\ outcome' \in [DOMAIN slot'.phases -> {"none", "ok", "failed", "refused"}]
    BY <1>1, <1>3, PhaseEndsStep
  <1>6. InsideTypes'
    BY <1>1, <1>2, <1>5 DEF Inv, TypeInv, InsideTypes
  <1>7. SkipInv'
    BY <1>1, <1>2, <1>4 DEF Inv, TypeInv, InsideTypes, SkipInv, ReadSlotSkips, Absent, Torn
  <1>8. QED
    BY <1>5, <1>6, <1>7 DEF Inv, TypeInv

LEMMA WalkEndsStep ==
  ASSUME Inv, WalkEnds
  PROVE  Inv'
  <1>1. /\ pc = "walk" /\ at > Len(slot.phases) /\ pc' = "left" /\ rc' = rc
        /\ UNCHANGED <<slot, machine, booted, exitFile, status, result, script, at, done,
                       outcome, expects, skipFile, seen, lossy>>
    BY DEF WalkEnds, EndScript
  <1>2. OuterScript' = OuterScript /\ InnerScript' = InnerScript
    BY <1>1, ScriptsStay
  <1>3. HostTypes'
    BY <1>1 DEF Inv, TypeInv, HostTypes, PCs
  <1>4. InsideTypes'
    BY <1>1 DEF Inv, TypeInv, InsideTypes
  <1>5. ScriptInv'
    BY <1>1, <1>2 DEF Inv, ScriptInv, OuterDone, InnerDone, Before
  <1>6. ProofInv'
    BY <1>1 DEF Inv, ProofInv, InitProofHolds
  <1>7. WalkInv'
    <2>1. \A i \in DOMAIN slot.phases : i < at
      BY <1>1, PhasesAre DEF Inv, TypeInv, InsideTypes
    <2>2. \A i \in DOMAIN slot.phases : Past(i) /\ (rc = 0 => Fine(i))
      BY <1>1, <2>1 DEF Inv, WalkInv
    <2>3. \A i \in DOMAIN slot.phases : (Past(i)' <=> Past(i)) /\ (Fine(i)' <=> Fine(i))
      BY <1>1 DEF Past, Fine, Selected
    <2>4. OuterDone' /\ InnerDone'
      BY <1>1, <1>2 DEF Inv, ScriptInv, OuterDone, InnerDone
    <2>5. QED
      BY <1>1, <2>2, <2>3, <2>4 DEF WalkInv, Before
  <1>8. StatusInv'
    BY <1>1 DEF Inv, StatusInv, After
  <1>9. SkipInv'
    BY <1>1 DEF Inv, SkipInv, ReadSlotSkips
  <1>10. QED
    BY <1>3, <1>4, <1>5, <1>6, <1>7, <1>8, <1>9 DEF Inv, TypeInv

-----------------------------------------------------------------------------
(* Outside of the slot: steps that leave its inside alone                  *)

LEMMA InsideStays ==
  ASSUME Inv, UNCHANGED <<slot, machine, booted, insideVars>>, pc' \in After
  PROVE  /\ InsideTypes' /\ ScriptInv' /\ ProofInv' /\ WalkInv'
         /\ Earned' <=> Earned
         /\ ReadSlotSkips' = ReadSlotSkips
  <1>1. UNCHANGED <<slot, machine, booted, script, at, done, outcome, rc, expects, skipFile,
                    seen, lossy>>
    BY DEF insideVars
  <1>2. OuterScript' = OuterScript /\ InnerScript' = InnerScript
    BY <1>1, ScriptsStay
  <1>3. InsideTypes'
    BY <1>1 DEF Inv, TypeInv, InsideTypes
  <1>4. ScriptInv'
    BY <1>1, <1>2 DEF Inv, ScriptInv, Before, After
  <1>5. ProofInv'
    BY <1>1 DEF Inv, ProofInv, InitProofHolds
  <1>6. WalkInv'
    BY DEF WalkInv, Before, After
  <1>7. Earned' <=> Earned
    BY <1>1, <1>2 DEF Earned, OuterDone, InnerDone, Fine
  <1>8. QED
    BY <1>1, <1>3, <1>4, <1>5, <1>6, <1>7 DEF ReadSlotSkips

LEMMA PrepareStep ==
  ASSUME Inv, Prepare
  PROVE  Inv'
  <1>1. /\ pc = "asked" /\ booted' = BootsSystemd
        /\ pc' = IF machine.walkedBefore THEN "raised" ELSE IF booted' THEN "boot" ELSE "container"
        /\ UNCHANGED <<slot, machine, exitFile, status, result, script, at, done, outcome, rc,
                       expects, skipFile, seen, lossy>>
    BY DEF Prepare, insideVars
  <1>2. booted' \in BOOLEAN
    BY <1>1, PhasesAre
       DEF Inv, TypeInv, HostTypes, Machine, Declared, BootsSystemd, MayBootSystemd
  <1>3. HostTypes'
    BY <1>1, <1>2 DEF Inv, TypeInv, HostTypes, PCs
  <1>4. InsideTypes'
    BY <1>1 DEF Inv, TypeInv, InsideTypes
  <1>5. ScriptInv'
    BY <1>1 DEF Inv, ScriptInv, Before
  <1>6. ProofInv'
    BY <1>1 DEF Inv, ProofInv, ScriptInv, Before
  <1>7. WalkInv'
    BY <1>1 DEF Inv, WalkInv, Before
  <1>8. StatusInv'
    BY <1>1 DEF Inv, StatusInv, After
  <1>9. SkipInv'
    BY <1>1 DEF Inv, SkipInv, ReadSlotSkips
  <1>10. QED
    BY <1>3, <1>4, <1>5, <1>6, <1>7, <1>8, <1>9 DEF Inv, TypeInv

\* What ends a slot from outside: nothing has reported a status of zero.
LEMMA EndsFromOutside ==
  ASSUME Inv, BootDeadline \/ Record \/ ServiceKilled \/ ContainerDies
  PROVE  Inv'
  <1>1. /\ pc \notin After \union {"asked", "raised"} /\ pc' = "gone"
        /\ UNCHANGED <<slot, machine, booted, result, insideVars>>
    BY DEF BootDeadline, Record, ServiceKilled, ContainerDies, After
  <1>2. \/ UNCHANGED status /\ booted
        \/ status' = "nonzero"
    BY DEF BootDeadline, Record, ServiceKilled, ContainerDies, Inv, ScriptInv
  <1>3. \/ UNCHANGED exitFile
        \/ exitFile' \in {"", "nonzero", "KILL"}
        \/ exitFile' = "0" /\ pc = "left" /\ rc = 0
    BY DEF BootDeadline, Record, ServiceKilled, ContainerDies
  <1>4. /\ InsideTypes' /\ ScriptInv' /\ ProofInv' /\ WalkInv'
        /\ Earned' <=> Earned
        /\ ReadSlotSkips' = ReadSlotSkips
    BY <1>1, InsideStays DEF After
  <1>5. HostTypes'
    BY <1>1, <1>2, <1>3 DEF Inv, TypeInv, HostTypes, PCs
  <1>6. pc = "left" /\ rc = 0 => Earned
    BY DEF Inv, WalkInv, Earned
  <1>7. StatusInv'
    BY <1>1, <1>2, <1>3, <1>4, <1>6 DEF Inv, StatusInv, After
  <1>8. SkipInv'
    BY <1>1, <1>4 DEF Inv, SkipInv, insideVars
  <1>9. QED
    BY <1>4, <1>5, <1>7, <1>8 DEF Inv, TypeInv

LEMMA PodmanEndsStep ==
  ASSUME Inv, PodmanEnds
  PROVE  Inv'
  <1>1. pc' = "streamed" /\ UNCHANGED <<slot, machine, booted, exitFile, result, insideVars>>
    BY DEF PodmanEnds
  <1>2. \/ pc = "left" /\ ~booted /\ status' = IF rc = 0 THEN "0" ELSE "nonzero"
        \/ pc = "gone" /\ status = "none" /\ status' \in {"0", "nonzero"}
        \/ pc = "gone" /\ status = "nonzero" /\ UNCHANGED status
    BY DEF PodmanEnds
  <1>3. /\ InsideTypes' /\ ScriptInv' /\ ProofInv' /\ WalkInv'
        /\ Earned' <=> Earned
        /\ ReadSlotSkips' = ReadSlotSkips
    BY <1>1, InsideStays DEF After
  <1>4. HostTypes'
    BY <1>1, <1>2 DEF Inv, TypeInv, HostTypes, PCs
  <1>5. pc = "left" /\ rc = 0 => Earned
    BY DEF Inv, WalkInv, Earned
  <1>6. StatusInv'
    BY <1>1, <1>2, <1>3, <1>5 DEF Inv, StatusInv, After
  <1>7. SkipInv'
    BY <1>1, <1>3 DEF Inv, SkipInv, insideVars
  <1>8. QED
    BY <1>3, <1>4, <1>6, <1>7 DEF Inv, TypeInv

LEMMA CollectStep ==
  ASSUME Inv, Collect
  PROVE  Inv'
  <1>1. /\ pc = "streamed" /\ pc' = "ended"
        /\ result' = [passed |-> FinalStatus = "0", observed |-> ObservedVersion,
                      skips |-> ReadSlotSkips]
        /\ UNCHANGED <<slot, machine, booted, exitFile, status, insideVars>>
    BY DEF Collect
  <1>2. /\ InsideTypes' /\ ScriptInv' /\ ProofInv' /\ WalkInv'
        /\ Earned' <=> Earned
        /\ ReadSlotSkips' = ReadSlotSkips
    BY <1>1, InsideStays DEF After
  <1>3. ReadSlotSkips \in Nat /\ ObservedVersion \in {"?", "recorded"}
    BY DEF Inv, TypeInv, InsideTypes, ReadSlotSkips, Absent, Torn, ObservedVersion
  <1>4. /\ result' \in Result /\ result'.skips = ReadSlotSkips
        /\ result'.passed <=> FinalStatus = "0"
    BY <1>1, <1>3 DEF Result
  <1>5. HostTypes'
    BY <1>1, <1>4 DEF Inv, TypeInv, HostTypes, PCs
  <1>6. FinalStatus = "0" => Earned
    BY <1>1 DEF Inv, StatusInv, FinalStatus, Recorded
  <1>7. StatusInv'
    BY <1>1, <1>2, <1>4, <1>6 DEF Inv, StatusInv, After
  <1>8. SkipInv'
    BY <1>1, <1>2, <1>4 DEF Inv, SkipInv, insideVars
  <1>9. QED
    BY <1>2, <1>5, <1>7, <1>8 DEF Inv, TypeInv

-----------------------------------------------------------------------------
(* The invariant                                                           *)

LEMMA Initially == Init => Inv
  <1> SUFFICES ASSUME Init PROVE Inv
    OBVIOUS
  <1>1. HostTypes
    BY DEF Init, HostTypes, PCs, Machine, Result
  <1>2. InsideTypes
    <2>1. script \in Seq(Steps)
      BY EmptySeq DEF Init
    <2>2. outcome \in [DOMAIN slot.phases -> {"none", "ok", "failed", "refused"}]
      BY DEF Init
    <2>3. /\ at = 1 /\ done = {} /\ rc = 0 /\ expects = {}
          /\ skipFile = Absent /\ seen = 0 /\ lossy = FALSE
      BY DEF Init
    <2>4. at \in Nat \ {0} /\ done \subseteq Steps /\ expects \subseteq {"podman", "hooks"}
      BY <2>3
    <2>5. rc \in Nat /\ skipFile \in Nat \union {Absent, Torn} /\ seen \in Nat /\ lossy \in BOOLEAN
      BY <2>3
    <2>6. QED
      BY <2>1, <2>2, <2>4, <2>5 DEF InsideTypes
  <1>3. ScriptInv
    BY DEF Init, ScriptInv, Before
  <1>4. ProofInv
    BY DEF Init, ProofInv
  <1>5. WalkInv
    BY DEF Init, WalkInv, Before
  <1>6. StatusInv
    BY DEF Init, StatusInv, After
  <1>7. SkipInv
    BY DEF Init, SkipInv, ReadSlotSkips, Absent
  <1>8. QED
    BY <1>1, <1>2, <1>3, <1>4, <1>5, <1>6, <1>7 DEF Inv, TypeInv

LEMMA EveryStep == Inv /\ [Next]_vars => Inv'
  <1> SUFFICES ASSUME Inv, [Next]_vars PROVE Inv'
    OBVIOUS
  <1>1. CASE Progress
    BY <1>1, PrepareStep, StartOuterStep, EndsFromOutside, StepFailsStep, StepWorksStep,
       NextScriptStep, SkipPhaseStep, RunCommandsStep, RunPytestStep, WalkEndsStep,
       PodmanEndsStep, CollectStep DEF Progress
  <1>2. CASE BootCompletes \/ PytestKilled \/ ServiceKilled \/ ContainerDies
    BY <1>2, StartOuterStep, PytestKilledStep, EndsFromOutside
  <1>3. CASE UNCHANGED vars
    <2>1. UNCHANGED <<slot, machine, pc, booted, exitFile, status, result, insideVars>>
      BY <1>3 DEF vars
    <2>2. UNCHANGED <<script, at, done, outcome, rc, expects, skipFile, seen, lossy>>
      BY <2>1 DEF insideVars
    <2>3. OuterScript' = OuterScript /\ InnerScript' = InnerScript
      BY <2>1, ScriptsStay
    <2>4. HostTypes' /\ InsideTypes'
      BY <2>1, <2>2 DEF Inv, TypeInv, HostTypes, InsideTypes
    <2>5. ScriptInv' /\ ProofInv'
      BY <2>1, <2>2, <2>3 DEF Inv, ScriptInv, ProofInv, OuterDone, InnerDone, InitProofHolds
    <2>6. WalkInv'
      BY <2>1, <2>2, <2>3
         DEF Inv, WalkInv, OuterDone, InnerDone, Past, Fine, Aborts, Selected
    <2>7. StatusInv' /\ SkipInv'
      BY <2>1, <2>2, <2>3
         DEF Inv, StatusInv, SkipInv, Earned, OuterDone, InnerDone, Fine, ReadSlotSkips
    <2>8. QED
      BY <2>4, <2>5, <2>6, <2>7 DEF Inv, TypeInv
  <1>4. QED
    BY <1>1, <1>2, <1>3 DEF Next, Ended

LEMMA InvHolds == Spec => []Inv
  BY Initially, EveryStep, PTL DEF Spec

-----------------------------------------------------------------------------
(* The contract                                                            *)

\* What a phase that ends leaves of the contract.
LEMMA PhaseContract ==
  ASSUME Inv, ContractInv, pc = "walk", at \in DOMAIN slot.phases, UNCHANGED slot,
         NEW end \in {"ok", "failed", "refused"}, outcome' = [outcome EXCEPT ![at] = end],
         expects' \in {expects, expects \union slot.phases[at].adds},
         end = "refused" => ContractBreaks
  PROVE  ContractInv'
  <1>1. PICK k \in DOMAIN slot.phases : k = at
    OBVIOUS
  <1>2. /\ outcome'[k] = end /\ \A i \in DOMAIN slot.phases : i # k => outcome'[i] = outcome[i]
        /\ outcome[k] = "none" /\ \A i \in DOMAIN slot.phases : i >= k => outcome[i] = "none"
        /\ \A i \in DOMAIN slot.phases : outcome[i] \in {"none", "ok", "failed", "refused"}
    BY <1>1 DEF Inv, TypeInv, InsideTypes, WalkInv
  <1>3. /\ DOMAIN slot.phases = 1..Len(slot.phases) /\ Len(slot.phases) \in Nat
    BY PhasesAre DEF Inv
  <1>4. \A c \in expects' :
          \/ c \in slot.expect
          \/ \E j \in DOMAIN slot.phases : outcome'[j] # "none" /\ c \in slot.phases[j].adds
    <2>1. \A c \in expects :
            \/ c \in slot.expect
            \/ \E j \in DOMAIN slot.phases : outcome'[j] # "none" /\ c \in slot.phases[j].adds
      BY <1>2 DEF ContractInv
    <2>2. QED
      BY <1>1, <1>2, <2>1
  <1>5. end = "refused" => Starved(k)
    <2>1. SUFFICES ASSUME ContractBreaks PROVE Starved(k)
      OBVIOUS
    <2>2. PICK c \in expects : c \notin Provided({"ok"})
      BY <2>1 DEF ContractBreaks
    <2>3. c \notin slot.expect /\ \A j \in DOMAIN slot.phases : c \in slot.phases[j].adds => outcome[j] # "ok"
      BY <2>2 DEF Provided
    <2>4. PICK j \in DOMAIN slot.phases : outcome[j] # "none" /\ c \in slot.phases[j].adds
      BY <2>3 DEF ContractInv
    <2>5. outcome[j] \in {"failed", "refused"} /\ ~(j >= k)
      BY <1>2, <2>3, <2>4
    <2>6. j \in 1..(k - 1)
      BY <1>3, <2>5
    <2>7. QED
      BY <2>4, <2>5, <2>6 DEF Starved
  <1>6. ASSUME NEW i \in DOMAIN slot.phases, Starved(i), i <= k
        PROVE  Starved(i)'
    <2>1. PICK j \in 1..(i - 1) : outcome[j] \in {"failed", "refused"} /\ slot.phases[j].adds # {}
      BY <1>6 DEF Starved
    <2>2. j \in DOMAIN slot.phases /\ j # k
      BY <1>3, <1>6
    <2>3. QED
      BY <1>2, <2>1, <2>2 DEF Starved
  <1>7. ASSUME NEW i \in DOMAIN slot.phases, outcome'[i] = "refused"
        PROVE  Starved(i)'
    <2>1. CASE i = k
      BY <1>2, <1>3, <1>5, <1>6, <1>7, <2>1
    <2>2. CASE i # k
      <3>1. outcome[i] = "refused" /\ ~(i >= k)
        BY <1>2, <1>7, <2>2
      <3>2. Starved(i) /\ i <= k
        BY <1>3, <3>1 DEF ContractInv
      <3>3. QED
        BY <1>6, <3>2
    <2>3. QED
      BY <2>1, <2>2
  <1>8. QED
    BY <1>4, <1>7 DEF ContractInv

LEMMA ContractStep == Inv /\ ContractInv /\ [Next]_vars => ContractInv'
  <1> SUFFICES ASSUME Inv, ContractInv, [Next]_vars PROVE ContractInv'
    OBVIOUS
  <1>1. CASE UNCHANGED <<slot, outcome, expects>>
    BY <1>1 DEF ContractInv, Starved
  <1>2. CASE StepWorks
    BY <1>2 DEF StepWorks, ContractInv, Starved
  <1>3. CASE RunCommands
    <2>1. PICK end \in {"ok", "failed"} : CommandsEnd(at, end)
      BY <1>3 DEF RunCommands
    <2>2. /\ pc = "walk" /\ at \in DOMAIN slot.phases /\ UNCHANGED slot
          /\ outcome' = [outcome EXCEPT ![at] = end]
          /\ expects' \in {expects, expects \union slot.phases[at].adds}
      BY <1>3, <2>1 DEF RunCommands, CommandsEnd, PhaseEnds
    <2>3. QED
      BY <2>2, PhaseContract
  <1>4. CASE RunPytest
    <2>1. PICK end \in {"ok", "failed", "refused"} :
            /\ outcome' = [outcome EXCEPT ![at] = end]
            /\ expects' = expects \union slot.phases[at].adds
            /\ end = "refused" => ContractBreaks
      BY <1>4 DEF RunPytest, PhaseEnds
    <2>2. pc = "walk" /\ at \in DOMAIN slot.phases /\ UNCHANGED slot
      BY <1>4 DEF RunPytest
    <2>3. QED
      BY <2>1, <2>2, PhaseContract
  <1>5. CASE PytestKilled
    <2>1. /\ pc = "walk" /\ at \in DOMAIN slot.phases /\ UNCHANGED slot
          /\ outcome' = [outcome EXCEPT ![at] = "failed"]
          /\ expects' = expects \union slot.phases[at].adds
      BY <1>5 DEF PytestKilled, PhaseEnds
    <2>2. QED
      BY <2>1, PhaseContract
  <1>6. CASE Prepare \/ ContainerStarts \/ BootCompletes \/ BootDeadline \/ StepFails \/ NextScript
             \/ SkipPhase \/ WalkEnds
    BY <1>1, <1>6 DEF Prepare, ContainerStarts, BootCompletes, StartOuter, BootDeadline,
                      StepFails, NextScript, SkipPhase, WalkEnds, insideVars
  <1>7. CASE Record \/ PodmanEnds \/ Collect \/ ServiceKilled \/ ContainerDies \/ UNCHANGED vars
    BY <1>1, <1>7 DEF Record, PodmanEnds, Collect, ServiceKilled, ContainerDies, vars,
                      insideVars
  <1>8. QED
    BY <1>2, <1>3, <1>4, <1>5, <1>6, <1>7 DEF Next, Progress, Ended

LEMMA ContractKept == Spec => []ContractInv
  <1>1. Init => ContractInv
    BY DEF Init, ContractInv
  <1>2. QED
    BY <1>1, InvHolds, ContractStep, PTL DEF Spec

-----------------------------------------------------------------------------
(* The theorems                                                            *)

\* Every variable keeps its type, and the script under way is one of known steps.
THEOREM TypeCorrect == Spec => []TypeInv
  <1>1. Inv => TypeInv
    BY DEF Inv
  <1>2. QED
    BY <1>1, InvHolds, PTL

\* A slot passes only on what it did itself: each step of both scripts and each
\* selected phase, whatever was declared and whoever died meanwhile.
THEOREM PassesAreEarned == Spec => []PassedIsEarned
  <1>1. Inv => PassedIsEarned
    BY ScriptsHave DEF Inv, StatusInv, Earned, OuterDone, InnerDone, Fine, PassedIsEarned, Range
  <1>2. QED
    BY <1>1, InvHolds, PTL

\* The phases start on laid ground, in each shape a declaration can ask for.
THEOREM GroundIsLaidFirst == Spec => []GroundIsLaid
  <1>1. ASSUME Inv, pc = "walk"
        PROVE  GroundIsLaid
    <2>1. OuterDone /\ InnerDone /\ done \subseteq Range(OuterScript) \union Range(InnerScript)
      BY <1>1 DEF Inv, ScriptInv
    <2>2. "sync" \in done
      BY <1>1, <2>1, InnerIs DEF Inv, InnerDone
    <2>3. slot.krun /\ slot.kind = "container" => "disk" \in done
      BY <1>1, <2>1, OuterIs, PreparationIs DEF Inv, OuterDone, BestEffort
    <2>4. "tmpdir" \in done => "disk" \in done
      BY <1>1, <2>1, <2>3, OuterIs, PreparationIs, InnerIs DEF Inv
    <2>5. slot.krun /\ RunsNestedPodman => "store" \in done /\ (~booted => "runroot" \in done)
      BY <1>1, <2>1, OuterIs, PreparationIs DEF Inv, OuterDone, BestEffort
    <2>6. booted => "userManager" \in done
      BY <1>1, <2>1, OuterIs DEF Inv, OuterDone, BestEffort
    <2>7. slot.kind = "container" => "initProof" \in done
      BY <1>1, <2>1, OuterIs DEF Inv, OuterDone, BestEffort
    <2>8. RunsNestedPodman => slot.kind = "container"
      BY DEF RunsNestedPodman
    <2>9. QED
      BY <1>1, <2>2, <2>3, <2>4, <2>5, <2>6, <2>7, <2>8
         DEF Inv, ProofInv, InitProofHolds, GroundIsLaid
  <1>2. Inv => GroundIsLaid
    BY <1>1 DEF GroundIsLaid
  <1>3. QED
    BY <1>2, InvHolds, PTL

\* EverySuiteRuns: for any phases, a script that ends by itself has run each selected
\* suite (_phase_walk()), unless commands before it failed, or a phase that was to
\* provide what check_capability_contract() then asks for.
THEOREM SuitesAllRun == Spec => []EverySuiteRuns
  <1>1. Inv /\ ContractInv => EverySuiteRuns
    <2> SUFFICES ASSUME Inv, ContractInv, pc = "left", "sync" \in done,
                        NEW i \in DOMAIN slot.phases, Untested(i)
                 PROVE  \E j \in 1..(i - 1) :
                          \/ Aborts(j)
                          \/ outcome[j] \in {"failed", "refused"} /\ slot.phases[j].adds # {}
      BY DEF EverySuiteRuns
    <2>1. CASE outcome[i] = "refused"
      BY <2>1 DEF ContractInv, Starved
    <2>2. CASE outcome[i] = "none"
      BY <2>2 DEF Inv, WalkInv, Past, Untested
    <2>3. QED
      BY <2>1, <2>2 DEF Untested
  <1>2. QED
    BY <1>1, InvHolds, ContractKept, PTL

\* The reported skips are the sum over all phases, and never more.
THEOREM CountsAreTrue == Spec => []SkipsAreCounted
  <1>1. Inv => SkipsAreCounted
    BY DEF Inv, SkipInv, SkipsAreCounted
  <1>2. QED
    BY <1>1, InvHolds, PTL

=============================================================================
