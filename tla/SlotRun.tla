------------------------------ MODULE SlotRun -------------------------------
(***************************************************************************)
(* One slot of the matrix, from run_slot() to its SlotResult:               *)
(* matrix/runner.py prepares the mounts and reads back what the slot left,  *)
(* the scripts that matrix/inner.py generates run inside, in a plain        *)
(* container or as a service of a booted systemd, and the pytest plugin     *)
(* matrix_skip_plugin.py merges its counts into a file of the slot.         *)
(*                                                                         *)
(* A script is the sequence of its steps; under set -e the first step that  *)
(* fails ends it.  What a step is good for is that it is in `done`.         *)
(***************************************************************************)
EXTENDS Integers, Sequences, FiniteSets

CONSTANTS
  Cases,       \* the declared slots, see Declared
  MaxSkips     \* bound: tests skipped by one pytest invocation

VARIABLES
  slot,        \* the catalog and configuration facts of this slot
  machine,     \* what image and host turn out to be
  pc,          \* the stage of the slot
  booted,      \* boots_systemd
  script,      \* the steps of the script under way
  at,          \* the step, or the phase, that is next
  done,        \* steps that took effect
  outcome,     \* per phase: "none", "ok", "failed", or "refused" (a suite that
               \* ran no test); a history of the walk
  rc,          \* $_rc
  expects,     \* $TEROK_EXPECT
  exitFile,    \* <slot>.exit, or "absent"
  skipFile,    \* total of <slot>.skips.json, Absent, or Torn
  seen,        \* skips the plugin observed in all phases: a history variable
  lossy,       \* some write of skipFile was cut short: a history variable
  status,      \* the status run_slot() goes by
  result       \* SlotResult, with the skip counts

insideVars == <<script, at, done, outcome, rc, expects, skipFile, seen, lossy>>
vars == <<slot, machine, pc, booted, exitFile, status, result, insideVars>>

Phase == [run : {"commands", "pytest"}, scope : {"unit", "integ", "none"},
          tolerate : BOOLEAN, adds : SUBSET {"podman", "hooks"}]

\* A slot as catalog.py and matrix.yml declare it.
Declared == [kind : {"container", "nix"}, flavor : {"podman", "dbus"}, krun : BOOLEAN,
             requiresBoot : BOOLEAN, nonSystemd : BOOLEAN, scope : {"all", "unit", "integ"},
             expect : SUBSET {"podman", "hooks"}, phases : Seq(Phase)]
ASSUME CasesAssumption == \A c \in Cases : c \in Declared
ASSUME SkipsAssumption == MaxSkips \in Nat \ {0}

Absent == -1            \* there is no skip file
Torn   == -2            \* the skip file is no JSON

When(condition, steps) == IF condition THEN steps ELSE <<>>

RunsNestedPodman == slot.flavor = "podman" /\ slot.kind = "container"
MayBootSystemd == slot.krun /\ (slot.requiresBoot \/ (RunsNestedPodman /\ ~slot.nonSystemd))

-----------------------------------------------------------------------------
(* The generated scripts                                                   *)

\* Device links, device modes and the message queue mount: "|| true".
BestEffort == {"devLinks", "devModes", "mqueue"}

\* The loop-mounted disk of every container slot under krun.
RealDisk == When(slot.kind = "container", <<"disk">>)

\* A booted slot's /run/user is systemd's own, and must not be covered.
PodmanBinds == <<"store">> \o When(~booted, <<"runroot">>)

KrunPreparation ==
  <<"devLinks">> \o RealDisk
    \o When(RunsNestedPodman, <<"devModes", "mqueue">> \o PodmanBinds)

OuterScript ==
  When(slot.krun, KrunPreparation) \o <<"workspace">>
    \o When(slot.kind = "container", <<"initProof">>)
    \o When(RunsNestedPodman, <<"resolvConf">>)
    \o <<"installInner">> \o When(booted, <<"userManager">>) \o <<"userDrop">>

\* TMPDIR and the uv cache of a container slot under krun are on the disk.
TmpdirExport == When(slot.krun /\ slot.kind = "container", <<"tmpdir">>)
VersionReport ==
  When(slot.kind = "nix", <<"version">>) \o
  When(RunsNestedPodman, <<"version", "preflight">>)

InnerScript ==
  TmpdirExport \o <<"contract">> \o VersionReport \o <<"venv", "sync">>

\* Mutant: a systemd in a systemd-free slot is only logged.
InitProofOfPid1 == booted => machine.pid1

\* PID 1 is systemd in a booted slot whose libkrun honours KRUN_INIT_PID1.
InitProofHolds ==
  /\ slot.nonSystemd => ~machine.systemd
  /\ booted => machine.pid1

\* The steps that cannot work: the proof of the init system, a bind from or a
\* TMPDIR on a disk nobody mounted, a user manager without PID 1 to start it.
Works(step) ==
  CASE step = "initProof" -> InitProofHolds
    [] step \in {"store", "runroot"} -> "disk" \in done
    [] step = "venv" -> "tmpdir" \in done => "disk" \in done
    [] step = "userManager" -> machine.pid1 /\ "runroot" \notin done
    [] OTHER -> TRUE

-----------------------------------------------------------------------------
(* run_slot before the container                                           *)

Init ==
  /\ slot \in Cases
  /\ machine \in [systemd : BOOLEAN, bus : BOOLEAN, pid1 : BOOLEAN, walkedBefore : BOOLEAN]
  /\ machine.pid1 => machine.systemd
  /\ pc = "asked" /\ booted = FALSE /\ script = <<>> /\ at = 1
  /\ done = {} /\ rc = 0 /\ expects = {}
  /\ outcome = [i \in DOMAIN slot.phases |-> "none"]
  /\ exitFile = IF machine.walkedBefore THEN "0" ELSE "absent"
  /\ skipFile = Absent /\ seen = 0 /\ lossy = FALSE
  /\ status = "none" /\ result = [passed |-> FALSE, observed |-> "?", skips |-> 0]

\* A slot that needs its normal boot boots; others where the probe finds a
\* systemd and a system bus in the image.
BootsSystemd ==
  MayBootSystemd /\ (slot.requiresBoot \/ (machine.systemd /\ machine.bus))

\* output.mkdir() is exclusive: a slot that was walked before raises.
Prepare ==
  /\ pc = "asked"
  /\ booted' = BootsSystemd
  /\ pc' = IF machine.walkedBefore THEN "raised" ELSE IF booted' THEN "boot" ELSE "container"
  /\ UNCHANGED <<slot, machine, exitFile, status, result, insideVars>>

\* The outer script starts: the one written for this shape.
StartOuter(stage) ==
  /\ pc = stage
  /\ pc' = "outer" /\ script' = OuterScript /\ at' = 1
  /\ UNCHANGED <<slot, machine, booted, exitFile, status, result, done, outcome, rc,
                 expects, skipFile, seen, lossy>>

\* A plain container's command is the script.
ContainerStarts == StartOuter("container")

\* A booted slot's service starts it after multi-user.target.
BootCompletes == StartOuter("boot")

\* Mutant: a hung boot is left to itself.
NoDeadline == FALSE

\* A boot that does not reach multi-user.target in time ends the VM.
BootDeadline ==
  /\ pc = "boot"
  /\ pc' = "gone"
  /\ UNCHANGED <<slot, machine, booted, exitFile, status, result, insideVars>>

-----------------------------------------------------------------------------
(* Inside the slot                                                         *)

\* The outer script, which execs into the inner one, has ended with this status.
EndScript(code) == pc' = "left" /\ rc' = code

StepWorks ==
  /\ pc \in {"outer", "inner"} /\ at <= Len(script) /\ Works(script[at])
  /\ done' = done \union {script[at]} /\ at' = at + 1
  /\ expects' = IF script[at] = "contract" THEN slot.expect ELSE expects
  /\ UNCHANGED <<slot, machine, pc, booted, exitFile, status, result, script, outcome, rc,
                 skipFile, seen, lossy>>

\* "|| true" goes on, everything else ends the script under set -e.
StepFails ==
  /\ pc \in {"outer", "inner"} /\ at <= Len(script)
  /\ script[at] \notin {"tmpdir", "contract"}
  /\ IF script[at] \in BestEffort THEN at' = at + 1 /\ UNCHANGED <<pc, rc>>
     ELSE EndScript(1) /\ UNCHANGED at
  /\ UNCHANGED <<slot, machine, booted, exitFile, status, result, script, done, outcome,
                 expects, skipFile, seen, lossy>>

\* The last step of the outer script execs the inner one, whose steps lead to
\* the phases.
NextScript ==
  /\ at > Len(script)
  /\ \/ pc = "outer" /\ pc' = "inner" /\ script' = InnerScript
     \/ pc = "inner" /\ pc' = "walk" /\ UNCHANGED script
  /\ at' = 1
  /\ UNCHANGED <<slot, machine, booted, exitFile, status, result, done, outcome, rc,
                 expects, skipFile, seen, lossy>>

Selected(phase) == phase.run = "commands" \/ slot.scope \in {"all", phase.scope}

\* Mutant: set -e ends the walk at a failed pytest, too.
PhaseEndsWalk(i, end, code) ==
  /\ outcome' = [outcome EXCEPT ![i] = end]
  /\ rc' = code
  /\ expects' = expects \union slot.phases[i].adds
  /\ at' = IF end = "failed" THEN Len(slot.phases) + 1 ELSE at + 1
  /\ UNCHANGED pc

\* What phase i leaves: its outcome, the exported contract (whatever the
\* outcome), and the next phase.
PhaseEnds(i, end, code) ==
  /\ outcome' = [outcome EXCEPT ![i] = end]
  /\ rc' = code
  /\ expects' = expects \union slot.phases[i].adds
  /\ at' = at + 1
  /\ UNCHANGED pc

SkipPhase ==
  /\ pc = "walk" /\ at \in DOMAIN slot.phases
  /\ ~Selected(slot.phases[at])
  /\ at' = at + 1
  /\ UNCHANGED <<slot, machine, pc, booted, exitFile, status, result, script, done,
                 outcome, rc, expects, skipFile, seen, lossy>>

\* Without tolerate-failure a failing command ends the script.
CommandsEnd(i, end) ==
  IF end = "failed" /\ ~slot.phases[i].tolerate
  THEN EndScript(1) /\ outcome' = [outcome EXCEPT ![i] = end] /\ UNCHANGED <<at, expects>>
  ELSE PhaseEnds(i, end, rc)

RunCommands ==
  /\ pc = "walk" /\ at \in DOMAIN slot.phases
  /\ slot.phases[at].run = "commands"
  /\ \E end \in {"ok", "failed"} : CommandsEnd(at, end)
  /\ UNCHANGED <<slot, machine, booted, exitFile, status, result, script, done,
                 skipFile, seen, lossy>>

\* The first failing status is kept.
FirstCode(code) == IF rc # 0 THEN rc ELSE code

\* Mutant: a phase's counts replace those of the phases before it.
MergeOver(count) == count

\* An unreadable file counts for nothing.
Merge(count) == IF skipFile < 0 THEN count ELSE skipFile + count

\* pytest_sessionfinish: nothing is written without a skip; the write truncates
\* first, and an error in it is swallowed.
SessionFinish(count) ==
  IF count = 0 THEN UNCHANGED <<skipFile, lossy>>
  ELSE \/ skipFile' = Merge(count) /\ UNCHANGED lossy
       \/ skipFile' \in {skipFile, Torn} /\ lossy' = TRUE

\* What the image declares is there, and what the phases that ended so provide.
Provided(ends) == slot.expect \union
  UNION {slot.phases[i].adds : i \in {j \in DOMAIN slot.phases : outcome[j] \in ends}}

\* check_capability_contract asks for every capability of the exported contract and
\* refuses the suite when one is missing, before a test runs.  A phase that failed
\* may have provided its capabilities all the same, or not.
ContractHolds == expects \subseteq Provided({"ok", "failed"})
ContractBreaks == ~(expects \subseteq Provided({"ok"}))

RunPytest ==
  /\ pc = "walk" /\ at \in DOMAIN slot.phases
  /\ slot.phases[at].run = "pytest" /\ Selected(slot.phases[at])
  /\ \/ /\ ContractHolds
        /\ \E code \in 0..2, count \in 0..MaxSkips :
             /\ PhaseEnds(at, IF code = 0 THEN "ok" ELSE "failed", FirstCode(code))
             /\ SessionFinish(count)
             /\ seen' = seen + count
     \/ /\ ContractBreaks
        /\ PhaseEnds(at, "refused", FirstCode(3))
        /\ UNCHANGED <<skipFile, seen, lossy>>
  /\ UNCHANGED <<slot, machine, booted, exitFile, status, result, script, done>>

\* pytest is killed: while it writes the counts, or before.
PytestKilled ==
  /\ pc = "walk" /\ at \in DOMAIN slot.phases
  /\ slot.phases[at].run = "pytest" /\ Selected(slot.phases[at])
  /\ PhaseEnds(at, "failed", FirstCode(137))
  /\ \/ UNCHANGED <<skipFile, lossy>>
     \/ skipFile' = Torn /\ lossy' = TRUE
  /\ UNCHANGED <<slot, machine, booted, exitFile, status, result, script, done, seen>>

\* exit $_rc.
WalkEnds ==
  /\ pc = "walk" /\ at > Len(slot.phases)
  /\ EndScript(rc)
  /\ UNCHANGED <<slot, machine, booted, exitFile, status, result, script, at, done, outcome,
                 expects, skipFile, seen, lossy>>

-----------------------------------------------------------------------------
(* The way back                                                            *)

\* A booted slot's service writes $EXIT_STATUS, a number or the name of a signal,
\* and ends the VM.  The write may fail, or leave an empty file.
Record ==
  /\ pc = "left" /\ booted
  /\ exitFile' \in {exitFile, "", IF rc = 0 THEN "0" ELSE "nonzero"}
  /\ pc' = "gone"
  /\ UNCHANGED <<slot, machine, booted, status, result, insideVars>>

\* The script's main process is killed by a signal, whose name is recorded.
ServiceKilled ==
  /\ pc \in {"outer", "inner", "walk"} /\ booted
  /\ exitFile' = "KILL" /\ pc' = "gone"
  /\ UNCHANGED <<slot, machine, booted, status, result, insideVars>>

\* podman or the VM dies at any point.
ContainerDies ==
  /\ pc \in {"container", "boot", "outer", "inner", "walk"}
  /\ pc' = "gone" /\ status' = "nonzero"
  /\ UNCHANGED <<slot, machine, booted, exitFile, result, insideVars>>

\* podman ends: in a plain slot with the script's status.  The status of a VM
\* says nothing of its script.
PodmanEnds ==
  /\ \/ pc = "left" /\ ~booted /\ status' = IF rc = 0 THEN "0" ELSE "nonzero"
     \/ pc = "gone" /\ status = "none" /\ status' \in {"0", "nonzero"}
     \/ pc = "gone" /\ status = "nonzero" /\ UNCHANGED status
  /\ pc' = "streamed"
  /\ UNCHANGED <<slot, machine, booted, exitFile, result, insideVars>>

\* Mutant: without a record, podman's status stands.
RecordedOrPodman(podman) == IF exitFile \in {"0", "nonzero"} THEN exitFile ELSE podman

\* Only a numeric record is believed; "status or 1" otherwise.
Recorded(podman) == IF exitFile \in {"0", "nonzero"} THEN exitFile ELSE "nonzero"

FinalStatus == IF booted THEN Recorded(status) ELSE status

\* What the host makes of the slot's files: a torn count file counts nothing.
ReadSlotSkips == IF skipFile < 0 THEN 0 ELSE skipFile
ObservedVersion == IF "version" \in done THEN "recorded" ELSE "?"

Collect ==
  /\ pc = "streamed"
  /\ pc' = "ended"
  /\ result' = [passed |-> FinalStatus = "0", observed |-> ObservedVersion,
                skips |-> ReadSlotSkips]
  /\ UNCHANGED <<slot, machine, booted, exitFile, status, insideVars>>

Progress ==
  \/ Prepare \/ ContainerStarts \/ BootDeadline \/ StepFails \/ StepWorks \/ NextScript
  \/ SkipPhase \/ RunCommands \/ RunPytest \/ WalkEnds
  \/ Record \/ PodmanEnds \/ Collect

Ended == pc \in {"ended", "raised"} /\ UNCHANGED vars

Next == Progress \/ BootCompletes \/ PytestKilled \/ ServiceKilled \/ ContainerDies \/ Ended

Spec == Init /\ [][Next]_vars

\* Steps and suites end by themselves, and systemd's timer fires; nobody has to
\* finish the boot, to kill anything or to die.
FairSpec == Spec /\ WF_vars(Progress)

-----------------------------------------------------------------------------
(* Properties                                                              *)

\* A slot passes only if all its scripts were to do was done: every step but the
\* best-effort ones took effect, and each selected phase succeeded, the
\* tolerated commands apart; in the booted shape as in the plain one, and never
\* on what an earlier walk of the slot left behind.
PassedIsEarned ==
  pc = "ended" /\ result.passed =>
    /\ {OuterScript[i] : i \in DOMAIN OuterScript} \ BestEffort \subseteq done
    /\ {InnerScript[i] : i \in DOMAIN InnerScript} \subseteq done
    /\ \A i \in DOMAIN slot.phases :
         LET phase == slot.phases[i]
         IN \/ outcome[i] = "ok"
            \/ phase.run = "pytest" /\ slot.scope # "all" /\ phase.scope # slot.scope
            \/ phase.run = "commands" /\ phase.tolerate /\ outcome[i] = "failed"

\* What the tests stand on when the first phase starts, whatever flags the two
\* scripts were written with: nested podman under krun has its store and runroot
\* on the guest's disk, TMPDIR is there, a booted slot has its user manager, a
\* systemd-free slot no systemd.
GroundIsLaid ==
  pc = "walk" =>
    /\ "sync" \in done
    /\ "tmpdir" \in done => "disk" \in done
    /\ slot.krun /\ RunsNestedPodman => {"disk", "store"} \subseteq done
    /\ slot.krun /\ RunsNestedPodman /\ ~booted => "runroot" \in done
    /\ booted => {"userManager"} \subseteq done /\ machine.pid1
    /\ slot.kind = "container" /\ slot.nonSystemd => ~machine.systemd

\* A suite that did not run: not started, or refused by the contract.
Untested(i) ==
  Selected(slot.phases[i]) /\
    (outcome[i] = "refused" \/ (outcome[i] = "none" /\ slot.phases[i].run = "pytest"))

\* Commands that fail end the script, unless they are tolerated.
Aborts(i) == outcome[i] = "failed" /\ slot.phases[i].run = "commands"
             /\ ~slot.phases[i].tolerate

\* inner.py l.20: "Command phases abort the slot on failure; pytest phases record
\* the first failing exit code and keep going, so a single run surfaces every
\* failing suite".  A script that ends by itself has run every selected suite,
\* unless commands before it failed, or a phase that was to provide a capability
\* did: the contract grows whatever the outcome.
EverySuiteRuns ==
  pc = "left" /\ "sync" \in done =>
    \A i \in DOMAIN slot.phases : Untested(i) =>
      \E j \in 1..(i - 1) :
        \/ Aborts(j)
        \/ outcome[j] \in {"failed", "refused"} /\ slot.phases[j].adds # {}

\* config.py l.52-55: only command phases abort, "pytest phases record the failure
\* and continue, so one run surfaces every failing suite".  No suite is kept from
\* running by the failure of another suite.
OnlyCommandsStopSuites ==
  pc = "left" /\ "sync" \in done =>
    \A i \in DOMAIN slot.phases : Untested(i) =>
      \E j \in 1..(i - 1) : outcome[j] = "failed" /\ slot.phases[j].run = "commands"

\* The runner reports the sum of what the plugin saw in all phases; less when a
\* write was cut short, and never more.
SkipsAreCounted ==
  pc = "ended" =>
    /\ result.skips <= seen
    /\ ~lossy => result.skips = seen

\* A slot ends: a boot that hangs is ended by its timer, and whatever died in
\* the slot, run_slot() comes back.
EverySlotEnds == <>(pc \in {"ended", "raised"})

=============================================================================
