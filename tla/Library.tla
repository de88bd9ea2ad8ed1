------------------------------ MODULE Library -------------------------------
(***************************************************************************)
(* The algorithms of the library that keep no state: a state is a question  *)
(* put to one of them.                                                      *)
(***************************************************************************)
EXTENDS Paths, MatrixConfig, CommandTree

CONSTANTS
  Merges,     \* questions of config_stack.py: a stack of layers, a section
  Uids,       \* operators
  Homes,      \* questions of paths.py: an environment, the three config files
  Facts,      \* what the catalog says of each slot
  Matrices,   \* questions of matrix/config.py: a declaration, a request, a host
  Overlays,   \* questions of cli_types.py: a tree, the handlers to replace
  Extensions, \* a tree, a path, the commands to add there
  Invocations \* a tree, a command line, whether the shell completes it

\* A declaration's phases; "run" and "pytest" have no values outside of those allowed.
PhasesAssumed(phases) ==
  phases.is = "list" =>
    /\ phases.list \in Seq(Range(phases.list))
    /\ \A i \in DOMAIN phases.list : "odd" \notin {phases.list[i].run, phases.list[i].pytest}

ASSUME MergesAssumption ==
  \A q \in Merges :
    /\ q.of = "merge" /\ q.stack \in Seq(Range(q.stack))
    /\ \A layer \in Range(q.stack) : Has(layer, q.section) => IsMapping(layer[q.section].of)
ASSUME UidsAssumption == Uids \subseteq Nat \ {0}
ASSUME HomesAssumption == \A q \in Homes : q.of = "paths"
ASSUME MatricesAssumption ==
  \A q \in Matrices :
    /\ q.of = "config" /\ PhasesAssumed(q.d.phases)
    /\ \A name \in DOMAIN q.d.slots : PhasesAssumed(q.d.slots[name].phases)
ASSUME OverlaysAssumption ==
  \A q \in Overlays :
    q.of = "overlay" /\ IsForest(q.tree) /\ \A path \in DOMAIN q.overrides : path \in Seq(STRING)
ASSUME ExtensionsAssumption ==
  \A q \in Extensions :
    /\ q.of = "extend" /\ IsForest(q.tree) /\ q.path \in Seq(STRING) /\ IsForest(q.additions)
    /\ \A x \in Places(q.additions) : Len(q.path) + Len(x.path) <= MaxDepth
ASSUME InvocationsAssumption ==
  \A q \in Invocations :
    /\ q.of = "dispatch" /\ IsForest(q.tree) /\ IsWirable(q.tree)
    /\ q.argv \in Seq(STRING) /\ q.completing \in BOOLEAN

VARIABLE question

Asked ==
  \/ question \in Merges \/ question \in Homes \/ question \in Matrices
  \/ question \in Overlays \/ question \in Extensions \/ question \in Invocations
LibrarySpec == Asked /\ [][UNCHANGED question]_question

-----------------------------------------------------------------------------
(* What the answers promise                                                *)

\* A section is what the layers say last of each of its keys, and the same alone or
\* in the whole configuration; sections with mappings in them and a lowest layer with
\* deletions or sentinels aside (ConfigStack.resolve and resolve_section,
\* config_stack.py).
LastWordWins ==
  question.of = "merge" =>
    LET stack == question.stack
        section == question.section
    IN /\ ResolveSection(stack, section) = AsSection(Resolve(stack), section)
       /\ Flat(stack, section) /\ ~RawBottom(stack, section) =>
            ResolveSection(stack, section) = LastWord(stack, section)

RootOnly == {"/var/lib", "/etc", "/run"}

\* The operator's process, the OCI hook that is root in its own namespace and the
\* agent whom its parent namespace calls root resolve the same directories, and none
\* that only root may write; the hook tells its peers the operator's uid (host_uid()
\* and _is_root(), paths.py).
NestedProcessesAgree ==
  question.of = "paths" =>
    \A uid \in Uids :
      LET Of(place) == In(place, question.env, question.files)
          own == Of(Operator(uid))
      IN /\ HostUid(Of(Hook(uid))) = uid /\ HostUid(own) = uid
         /\ \A p \in {Of(Hook(uid)), Of(Agent(uid))} : Directories(p) = Directories(own)
         /\ {StateDir(own), ConfigDir(own), RuntimeDir(own)} \intersect RootOnly = {}
         /\ "CONFIG_DIR" \notin question.env => ConfigDir(Of(Root)) \in RootOnly
         /\ "RUNTIME_DIR" \notin question.env => RuntimeDir(Of(Root)) \in RootOnly

\* An overlay replaces the named handlers and no other, and shares every node with
\* nothing named and nothing lazy below it; an extension adds what it was given and
\* nothing else (overlay() and extend_at(), cli_types.py).
CompositionIsExact ==
  /\ question.of = "overlay" => OverlayIsExact(question.tree, question.overrides)
  /\ question.of = "extend" => ExtensionIsExact(question.tree, question.path, question.additions)

\* The laziness of a command shows in the imports alone, unless the value of an option
\* is the name of a lazy verb and not of the one meant: any other command line reaches
\* the handler it would reach in a tree wired in full, and one whose verb is lazy imports
\* that verb and the eager ones only (wire(), cli_types.py).
CommandsReachTheirHandlers ==
  question.of = "dispatch" => LazinessIsInvisible(question.tree, question.argv, question.completing)

\* Nothing a declaration says is quietly ignored: an unknown key anywhere rejects it,
\* a phase has one kind of work, and each slot requested and declared runs or has a
\* reason not to (the docstring of matrix/config.py: a typo "would mean a slot or
\* phase quietly not running"; _skip_reason, matrix/cli.py).
NothingQuietlyDropped ==
  question.of = "config" =>
    IsTakenWhole(question.d, question.requested, question.host, Facts)

=============================================================================
