---------------------------- MODULE MatrixConfig ----------------------------
(***************************************************************************)
(* matrix/config.py and the selection of slots in matrix/cli.py: which      *)
(* matrix.yml is accepted, what it says of a slot, and which of the         *)
(* requested slots a host runs.                                             *)
(*                                                                         *)
(* A value is "absent", "null", "good", "empty", "wrong" (of another type)  *)
(* or "odd" (of the type, outside of the values allowed); what has a        *)
(* structure is a record or a sequence instead.  "typo" stands for a key    *)
(* that the section does not know.                                          *)
(***************************************************************************)
EXTENDS Integers, Sequences

\* _Section: string, strings_or_none, boolean; null is none of them.
StringOk(value) == value \in {"absent", "good", "empty", "odd"}
RequiredOk(value) == value \in {"good", "empty", "odd"}
StringsOk(value) == value \in {"absent", "good", "empty", "odd"}
BooleanOk(value) == value \in {"absent", "good"}

\* Mutant: what nothing consumed is left alone.
KeepLeftovers(section) == TRUE
NoLeftovers(section) == section.typo = "absent"

\* _parse_phases, for one phase.
Said(value) == value \in {"good", "odd"}
PhaseOk(phase) ==
  /\ RequiredOk(phase.name) /\ StringsOk(phase.run) /\ StringOk(phase.pytest)
  /\ StringOk(phase.scope) /\ StringsOk(phase.expectAdd) /\ BooleanOk(phase.tolerate)
  /\ NoLeftovers(phase)
  /\ Said(phase.run) # Said(phase.pytest)
  /\ phase.scope # "odd"
PhasesOk(phases) ==
  \/ phases.is \in {"absent", "null"}
  \/ phases.is = "list" /\ \A i \in DOMAIN phases.list : PhaseOk(phases.list[i])

\* _parse_slots, for one slot of the catalog.
SkipOk(skip) ==
  \/ skip.is \in {"absent", "null"}
  \/ skip.is = "map" /\ StringsOk(skip.arches) /\ StringOk(skip.reason) /\ NoLeftovers(skip)
SlotOk(slot) ==
  /\ StringsOk(slot.extraPackages) /\ slot.extraPackages # "odd"
  /\ SkipOk(slot.skip) /\ StringsOk(slot.groups) /\ StringsOk(slot.expect)
  /\ PhasesOk(slot.phases) /\ NoLeftovers(slot)
SlotsOk(slots, Catalog) ==
  DOMAIN slots \subseteq Catalog /\ \A name \in DOMAIN slots : SlotOk(slots[name])

\* load_config.
Accepted(d, Catalog) ==
  /\ RequiredOk(d.flavor) /\ d.flavor = "good"
  /\ RequiredOk(d.prefix) /\ d.prefix = "good"
  /\ StringsOk(d.groups) /\ StringsOk(d.expect)
  /\ SlotsOk(d.slots, Catalog) /\ PhasesOk(d.phases) /\ NoLeftovers(d)

\* MatrixConfig.slot_phases: the slot's own if it has the key.  "phases:" with
\* nothing behind it is a declaration of no phases.
Effective(own, common) == IF own.is = "absent" THEN common ELSE own
PhaseList(phases) == IF phases.is = "list" THEN phases.list ELSE <<>>
SlotPhases(d, name) == PhaseList(Effective(d.slots[name].phases, d.phases))

-----------------------------------------------------------------------------
(* Selection.  A host has an arch, krun is the run mode; passtProfile is    *)
(* "none", "distro", "replaced" or "disabled".                              *)

\* main and _host_confines_pasta.
ConfinesPasta(host) ==
  ~host.krun /\ host.apparmor /\ host.passtProfile = "distro"

\* _skip_reason; facts is what the catalog says of the slot.
SkipReason(d, name, host, facts) ==
  CASE d.slots[name].skip.is = "map" /\ d.slots[name].skip.arches = "good" /\ host.listedArch -> "arch"
    [] facts.requiresBoot /\ ~host.krun -> "boot"
    [] facts.pastaSymlink /\ ConfinesPasta(host) -> "pasta"
    [] OTHER -> "none"

\* main: the requested slots, or all; those that are not declared are left out.
Targets(d, requested) == IF requested = {} THEN DOMAIN d.slots ELSE requested
Available(d, requested) == Targets(d, requested) \intersect DOMAIN d.slots
Walked(d, requested, host, Facts) ==
  {name \in Available(d, requested) : SkipReason(d, name, host, Facts[name]) = "none"}

-----------------------------------------------------------------------------
(* What a declaration promises                                             *)

\* Sections with a key that means nothing.
PhasesOf(phases) == {PhaseList(phases)[i] : i \in DOMAIN PhaseList(phases)}
AllPhases(d) == PhasesOf(d.phases) \union UNION {PhasesOf(d.slots[n].phases) : n \in DOMAIN d.slots}
Misspelled(d) ==
  \/ d.typo # "absent"
  \/ \E n \in DOMAIN d.slots :
       d.slots[n].typo # "absent" \/ (d.slots[n].skip.is = "map" /\ d.slots[n].skip.typo # "absent")
  \/ \E phase \in AllPhases(d) : phase.typo # "absent"

\* Why a slot may be left out: its own declaration, or the host; a microVM has a
\* kernel and an init of its own.
Excused(d, name, host, facts) ==
  \/ d.slots[name].skip.is = "map" /\ d.slots[name].skip.arches = "good" /\ host.listedArch
  \/ ~host.krun /\ (facts.requiresBoot \/ (facts.pastaSymlink /\ ConfinesPasta(host)))

\* A declaration that is accepted has no key that nothing reads, and each of its
\* phases one kind of work; what is requested and declared runs or is excused, and
\* has phases to run unless the declaration has none for it.
IsTakenWhole(d, requested, host, Facts) ==
  Accepted(d, DOMAIN Facts) =>
    /\ ~Misspelled(d)
    /\ \A phase \in AllPhases(d) : (phase.run = "good") # (phase.pytest = "good")
    /\ \A name \in Available(d, requested) \ Walked(d, requested, host, Facts) :
         Excused(d, name, host, Facts[name])
    /\ \A name \in Walked(d, requested, host, Facts) :
         SlotPhases(d, name) = <<>> =>
           d.slots[name].phases.is # "absent" \/ PhaseList(d.phases) = <<>>

=============================================================================
