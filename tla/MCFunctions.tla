---------------------------- MODULE MCFunctions -----------------------------
(***************************************************************************)
(* The algorithms of the library, each asked every question of a small set; *)
(* the confinement of the file system, which is a sequence of system calls  *)
(* among other threads, goes on from its question.                          *)
(***************************************************************************)
EXTENDS Hardening, Library

Some(records, fields) == [f \in {f \in fields : records[f].kind # "absent"} |-> records[f]]
Absent == [kind |-> "absent"]

-----------------------------------------------------------------------------
(* config_stack.py: three layers of one section with two keys               *)

Ones == List(<<Scalar(1)>>)
Around == List(<<Scalar(2), Inherit>>)
Section(a, b, inherit) ==
  Dict(Some([a |-> a, b |-> b, _inherit |-> inherit], {"a", "b", "_inherit"}))
Sections ==
  {Section(a, b, inherit) : a \in {Absent, Null, Inherit, Scalar(1), Ones, Around},
                            b \in {Absent, Scalar(2)}, inherit \in {Absent, True}}
Layers == {Some([s |-> s], {"s"}) : s \in Sections \union {Absent, Null, Inherit, Scalar(3)}}
ThreeLayers == {[of |-> "merge", stack |-> <<x, y, z>>, section |-> "s"] : x, y, z \in Layers}

\* No sentinel is left in what was resolved (tests/unit/test_config_stack.py:50).
SentinelsNeverLeak ==
  question.of = "merge" => ~HasSentinel(ResolveSection(question.stack, question.section))

-----------------------------------------------------------------------------
(* paths.py: one operator's processes, with one environment and one home    *)

SomeUids == 1..2
Variables == {"TEROK_CONFIG_FILE", "TEROK_ROOT", "STATE_DIR", "XDG_DATA_HOME", "XDG_RUNTIME_DIR", "XDG_STATE_HOME"}
RootedAt(v) == Dict([k \in {"paths"} |-> v])
Contents ==
  {[kind |-> "corrupt"], Dict(Nothing), RootedAt(Null), RootedAt(Scalar("here"))}
    \union {RootedAt(Dict([k \in {"root"} |-> v])) : v \in {Null, Scalar(""), Scalar("/virt")}}
SomeHomes ==
  {[of |-> "paths", env |-> env, files |-> [system |-> s, user |-> u, override |-> o]] :
     env \in SUBSET Variables, s \in Contents, u \in Contents, o \in {[kind |-> "corrupt"], Dict(Nothing)}}

-----------------------------------------------------------------------------
(* cli_types.py: trees of eager and lazy commands                           *)

Leaf(name, handler) ==
  [id |-> name, name |-> name, source |-> "none", handler |-> handler, children |-> <<>>]
LazyNode(name, source) ==
  [id |-> source \o "?", name |-> name, source |-> source, handler |-> NoHandler, children |-> <<>>]
Group(id, name, handler, children) ==
  [id |-> id, name |-> name, source |-> "none", handler |-> handler, children |-> children]

Modules ==
  [inner |-> Group("inner", "deep", "h1", <<>>),
   tasks |-> Group("tasks", "task", NoHandler, <<Leaf("run", "h2"), LazyNode("deep", "inner")>>),
   sick |-> Group("sick", "sick", "h3", <<Group("group", "run", NoHandler, <<Leaf("run", "h4")>>)>>)]
Roots == {Leaf("run", "h5"), Group("cfg", "cfg", NoHandler, <<Leaf("run", "h6"), LazyNode("deep", "inner")>>),
          LazyNode("task", "tasks"), LazyNode("sick", "sick")}
Trees == {tree \in UNION {[1..n -> Roots] : n \in 1..3} : IsInjective(tree)}

Tokens == {"run", "cfg", "task", "sick", "deep", "-o", "-c"}
CommandLines == UNION {[1..n -> Tokens] : n \in 0..3}

CommandPaths == {<<>>} \union UNION {[1..n -> {"run", "cfg", "task", "deep"}] : n \in 1..2}
Replacements == UNION {[named -> {"new"}] : named \in kSubset(1, CommandPaths) \union kSubset(2, CommandPaths)}
Extra == <<Group("extra", "extra", "h7", <<Leaf("run", "h8")>>)>>

SomeOverlays == [of : {"overlay"}, tree : Trees, overrides : Replacements]
SomeExtensions == [of : {"extend"}, tree : Trees, path : CommandPaths, additions : {Extra}]
SomeInvocations == [of : {"dispatch"}, tree : Trees, argv : CommandLines, completing : BOOLEAN]

\* "a wrong guess costs laziness, never correctness" (_first_verb, cli_types.py:405-409):
\* each command line reaches the handler that the tree wired in full has for it.
WrongGuessCostsLaziness ==
  question.of = "dispatch" =>
    Dispatch(Wire(question.tree, question.argv, question.completing), question.argv) =
      Dispatch(WireAll(question.tree), question.argv)

-----------------------------------------------------------------------------
(* matrix/config.py: declarations, and hosts that run them                  *)

SomeFacts == [s1 |-> [requiresBoot |-> FALSE, pastaSymlink |-> TRUE],
              s2 |-> [requiresBoot |-> TRUE, pastaSymlink |-> FALSE],
              s3 |-> [requiresBoot |-> FALSE, pastaSymlink |-> FALSE]]

SomePhases ==
  {[name |-> n, run |-> r, pytest |-> p, scope |-> s, expectAdd |-> "absent", tolerate |-> t, typo |-> y] :
     n \in {"good", "absent"}, r \in {"absent", "good", "empty"}, p \in {"absent", "good", "empty", "wrong"},
     s \in {"absent", "good", "odd"}, t \in {"absent", "good", "wrong"}, y \in {"absent", "good"}}
PhaseLists == {[is |-> "absent"], [is |-> "null"], [is |-> "list", list |-> <<>>], [is |-> "wrong"]}
                \union {[is |-> "list", list |-> <<p>>] : p \in SomePhases}
Plain == [extraPackages |-> "absent", skip |-> [is |-> "absent"], groups |-> "absent", expect |-> "absent",
          phases |-> [is |-> "absent"], typo |-> "absent"]
Skips == {[is |-> "absent"], [is |-> "null"], [is |-> "wrong"]}
           \union {[is |-> "map", arches |-> a, reason |-> "absent", typo |-> y] :
                     a \in {"absent", "good", "empty", "wrong"}, y \in {"absent", "good"}}
Slots == {[extraPackages |-> "absent", skip |-> k, groups |-> g, expect |-> "absent", phases |-> p, typo |-> y] :
            k \in Skips, g \in {"absent", "null", "good"}, p \in {[is |-> "absent"], [is |-> "null"]},
            y \in {"absent", "good"}}
Declaration(slots, phases, typo) ==
  [flavor |-> "good", prefix |-> "good", groups |-> "absent", expect |-> "absent",
   slots |-> slots, phases |-> phases, typo |-> typo]
Hosts == [krun : BOOLEAN, listedArch : BOOLEAN, apparmor : BOOLEAN, passtProfile : {"none", "distro", "replaced"}]
SlotQuestions ==
  {[of |-> "config", requested |-> r, host |-> h,
    d |-> Declaration([s1 |-> slot, s2 |-> Plain], [is |-> "absent"], "absent")] :
     slot \in Slots, r \in SUBSET {"s1", "s2", "s3"}, h \in Hosts}
PhaseQuestions ==
  {[of |-> "config", requested |-> {}, host |-> CHOOSE h \in Hosts : h.apparmor,
    d |-> Declaration([s1 |-> [Plain EXCEPT !.phases = p[1]]], p[2], y)] :
     y \in {"absent", "good"},
     p \in {p \in PhaseLists \X PhaseLists :
              p[1].is = "list" => p[2].is = "absent" \/ (p[2].is = "list" /\ p[2].list = <<>>)}}
SomeMatrices == SlotQuestions \union PhaseQuestions

-----------------------------------------------------------------------------
(* hardening.py: kernels with at most one thing missing                     *)

Sound(abi) == [libc |-> TRUE, abi |-> abi, countsThreads |-> TRUE, eCryptfs |-> FALSE,
               createsRuleset |-> TRUE, restricts |-> TRUE]
SmallKernels ==
  UNION {{k, [k EXCEPT !.libc = FALSE], [k EXCEPT !.countsThreads = FALSE], [k EXCEPT !.eCryptfs = TRUE],
          [k EXCEPT !.createsRuleset = FALSE], [k EXCEPT !.restricts = FALSE]} :
           k \in {Sound(abi) : abi \in {0, 1, 2, 3, 7, 8}}}
TwoPaths == {"p", "q"}
AllLayouts == [TwoPaths -> PathKinds]
SomeLanes == {[read |-> <<"p">>, write |-> <<"q">>], [read |-> <<"p", "q">>, write |-> <<"q">>],
          [read |-> <<>>, write |-> <<"p">>]}

Init ==
  \/ /\ question = [of |-> "confine"] /\ HardeningInit
  \/ /\ Asked
     /\ kernel = Sound(8) /\ paths = [p \in GrantPaths |-> "missing"] /\ lane = [read |-> <<>>, write |-> <<>>]
     /\ step = "returned" /\ domain = [t \in {Caller} |-> Free] /\ noNewPrivs = FALSE
     /\ ruleset = Free /\ granted = 0 /\ report = "none"
Next == question.of = "confine" /\ HardeningNext /\ UNCHANGED question
Spec == Init /\ [][Next]_<<vars, question>>

=============================================================================
