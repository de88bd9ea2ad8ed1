---------------------------- MODULE CommandTree -----------------------------
(***************************************************************************)
(* The command trees of cli_types.py.  A node is a record                   *)
(*   [id, name, source, handler, children]                                  *)
(* whose id is the identity of the CommandDef object: replace() makes a new *)
(* one.  A lazy node has a source, and nothing but its name; importing the  *)
(* module gives the node that Registry has for it, the same every time.     *)
(* What the code does by recursion is done level by level here: downwards   *)
(* from the roots, or upwards from the deepest nodes.                       *)
(***************************************************************************)
EXTENDS Integers, Sequences, SequencesExt

CONSTANTS
  Registry,    \* module -> the CommandDef it defines
  MaxDepth     \* bound: how deep commands nest

ASSUME MaxDepthAssumption == MaxDepth \in Nat \ {0}

NoHandler == "none"
Copied == "copied"   \* the id of what replace() returns
Failure == "error"

Command(id, name, handler, children) ==
  [id |-> id, name |-> name, source |-> "none", handler |-> handler, children |-> children]

\* What a forest hangs from: the tree itself, or the parser under which it is wired.
Top(roots) == Command("top", "", NoHandler, roots)
Nowhere == Command(Failure, "", Failure, <<>>)

Lazy(node) == node.source # "none"

\* _resolved, CommandDef.resolve.
Resolved(node) == IF Lazy(node) THEN Registry[node.source] ELSE node

\* with_handler, with_children.
Replaced(node, handler, children) ==
  [id |-> Copied, name |-> node.name, source |-> node.source, handler |-> handler, children |-> children]

-----------------------------------------------------------------------------
(* Walking a tree                                                           *)

\* A place in a tree: its node as the children above list it, and resolved.
Start(roots) == [path |-> <<>>, listed |-> Top(roots), node |-> Top(roots)]
Child(x, i) ==
  LET listed == x.node.children[i]
  IN [path |-> Append(x.path, Resolved(listed).name), listed |-> listed, node |-> Resolved(listed)]

\* The places n verbs deep.
Level(roots) ==
  LET level[n \in 0..MaxDepth] ==
        IF n = 0 THEN {Start(roots)}
        ELSE UNION {{Child(x, i) : i \in DOMAIN x.node.children} : x \in level[n - 1]}
  IN level
Places(roots) == UNION {Level(roots)[n] : n \in 1..MaxDepth}

\* CommandTree.walk: every path, with its node.
Walk(roots) == {[path |-> x.path, node |-> x.node] : x \in Places(roots)}

\* CommandTree.find_at and _descend, the first node of each name; Nowhere is their
\* KeyError.
FirstNamed(nodes, name) ==
  LET named == {i \in DOMAIN nodes : nodes[i].name = name}
  IN IF named = {} THEN Nowhere ELSE nodes[Min(named)]
Find(roots, path) ==
  LET found[n \in 0..Len(path)] ==
        IF n = 0 THEN Top(roots) ELSE Resolved(FirstNamed(found[n - 1].children, path[n]))
  IN found[Len(path)]

-----------------------------------------------------------------------------
(* Composing trees                                                          *)

\* Mutant: the last sibling says whether any has changed.
LastChanged(old, new) == old # <<>> /\ new[Len(old)].id # old[Len(old)].id
Changed(old, new) == \E i \in DOMAIN old : new[i].id # old[i].id

\* _overlay_node; "below" has what became of the places one level deeper.
OverlayNode(x, overrides, below) ==
  LET handler == IF x.path \in DOMAIN overrides THEN overrides[x.path] ELSE x.node.handler
      children == [i \in DOMAIN x.node.children |-> below[Child(x, i)]]
      changed == Changed(x.node.children, children)
  IN IF handler = x.node.handler /\ ~changed THEN x.node
     ELSE Replaced(x.node, handler, IF changed THEN children ELSE x.node.children)

\* CommandTree.overlay and _overlay_forest.  A forest that is not touched is the tuple
\* it was, its lazy nodes included: a lazy node is an object other than the one it
\* resolves to.
Overlay(roots, overrides) ==
  LET new[n \in 0..MaxDepth] ==
        [x \in Level(roots)[MaxDepth - n] |-> OverlayNode(x, overrides, IF n = 0 THEN <<>> ELSE new[n - 1])]
  IN new[MaxDepth][Start(roots)].children

\* _extend_forest: every node of that name, although only the first was checked.
ExtendNode(x, path, additions, below) ==
  IF ~IsPrefix(x.path, path) THEN x.listed
  ELSE Replaced(x.node, x.node.handler,
         IF x.path = path THEN x.node.children \o additions
         ELSE [i \in DOMAIN x.node.children |-> below[Child(x, i)]])
Extended(roots, path, additions) ==
  LET new[n \in 0..MaxDepth] ==
        [x \in Level(roots)[MaxDepth - n] |->
           ExtendNode(x, path, additions, IF n = 0 THEN <<>> ELSE new[n - 1])]
  IN new[MaxDepth][Start(roots)].children

\* extend_at: a leaf is refused, and a path that stops short under a node of its names
\* is a KeyError; either way the caller keeps the tree it has.
DeadEnd(roots, path) ==
  \E x \in {Start(roots)} \union Places(roots) :
    /\ IsStrictPrefix(x.path, path)
    /\ \A i \in DOMAIN x.node.children : x.node.children[i].name # path[Len(x.path) + 1]
IsRefused(roots, path) ==
  LET target == Find(roots, path)
  IN DeadEnd(roots, path) \/ (target.handler # NoHandler /\ target.children = <<>>)
ExtendAt(roots, path, additions) ==
  IF IsRefused(roots, path) THEN roots ELSE Extended(roots, path, additions)

-----------------------------------------------------------------------------
(* Wiring and dispatch                                                     *)

\* Tokens of the command line: an option is "-o", one that takes a value "-c".
IsOption(token) == token \in {"-o", "-c"}

\* _first_verb, if there is one: the value of an option is taken for the verb.
FirstVerb(argv) ==
  {argv[n] : n \in {m \in DOMAIN argv : ~IsOption(argv[m]) /\ \A k \in 1..(m - 1) : IsOption(argv[k])}}

LazyNames(roots) == {roots[i].name : i \in {j \in DOMAIN roots : Lazy(roots[j])}}

\* Mutant: the guess is taken for the verb.
TrustTheGuess(roots, argv, completing) == completing
WireEverything(roots, argv, completing) ==
  completing \/ ~(FirstVerb(argv) \subseteq LazyNames(roots))

\* _wire_command: a full parser, its nested lazy nodes resolved.
WireCommand(x, below) ==
  Command(x.node.id, x.node.name, x.node.handler, [i \in DOMAIN x.node.children |-> below[Child(x, i)]])
WireAll(roots) ==
  LET parser[n \in 0..MaxDepth] ==
        [x \in Level(roots)[MaxDepth - n] |-> WireCommand(x, IF n = 0 THEN <<>> ELSE parser[n - 1])]
  IN parser[MaxDepth][Start(roots)].children

Placeholder(node) == Command(node.id, node.name, NoHandler, <<>>)
IsPlaceheld(node, roots, argv, completing) ==
  Lazy(node) /\ ~WireEverything(roots, argv, completing) /\ node.name \notin FirstVerb(argv)

\* CommandTree.wire with argv; without it every root is wired in full.
Wire(roots, argv, completing) ==
  LET full == WireAll(roots)
  IN [i \in DOMAIN roots |->
        IF IsPlaceheld(roots[i], roots, argv, completing) THEN Placeholder(roots[i]) ELSE full[i]]

\* The modules that wiring imports.
Imports(node) == {x.listed.source : x \in {y \in Places(<<node>>) : Lazy(y.listed)}}
Imported(roots, argv, completing) ==
  UNION {Imports(roots[i]) : i \in {j \in DOMAIN roots : ~IsPlaceheld(roots[j], roots, argv, completing)}}

\* argparse: the words of the command line, options and their values aside; "wanting" is
\* an option that is still without its value.
ReadToken(before, token) ==
  IF before.wanting THEN [words |-> before.words, wanting |-> FALSE]
  ELSE [words |-> IF IsOption(token) THEN before.words ELSE Append(before.words, token),
        wanting |-> token = "-c"]
CommandLine(argv) ==
  LET line[n \in 0..Len(argv)] ==
        IF n = 0 THEN [words |-> <<>>, wanting |-> FALSE] ELSE ReadToken(line[n - 1], argv[n])
  IN line[Len(argv)]
Words(argv) == CommandLine(argv).words

\* argparse and CommandTree.dispatch: a word nobody knows is an error; the deepest command
\* that has a handler is the one that is set, and without one the exit status is 2.
Dispatch(parsers, argv) ==
  LET words == Words(argv)
      HandlerAt(n) == Find(parsers, SubSeq(words, 1, n)).handler
      handled == {n \in 1..Len(words) : HandlerAt(n) # NoHandler}
  IN IF CommandLine(argv).wanting \/ Find(parsers, words).id = Failure THEN Failure
     ELSE IF handled = {} THEN "exit2" ELSE HandlerAt(Max(handled))

-----------------------------------------------------------------------------
(* What composing and wiring promise                                        *)

HandlersOf(roots) == {<<w.path, w.node.handler>> : w \in Walk(roots)}

\* A node with a lazy one below is a copy after any overlay: the lazy node is another
\* object than what it resolves to.
IsSettled(roots, path) == \A x \in Places(roots) : IsStrictPrefix(path, x.path) => ~Lazy(x.listed)

\* An overlay has exactly the named handlers replaced, and shares every node that has
\* nothing named and nothing lazy below.
OverlayIsExact(roots, overrides) ==
  LET after == Overlay(roots, overrides)
  IN /\ HandlersOf(after) = {<<h[1], IF h[1] \in DOMAIN overrides THEN overrides[h[1]] ELSE h[2]>> :
                               h \in HandlersOf(roots)}
     /\ \A w \in Walk(roots) :
          IsSettled(roots, w.path) /\ (\A path \in DOMAIN overrides : ~IsPrefix(w.path, path)) =>
            w \in Walk(after)

\* An extension that is not refused has what there was and the additions, at that place.
ExtensionIsExact(roots, path, additions) ==
  ~IsRefused(roots, path) =>
    HandlersOf(ExtendAt(roots, path, additions)) =
      HandlersOf(roots) \union {<<path \o h[1], h[2]>> : h \in HandlersOf(additions)}

\* The value of an option that is the name of a lazy verb is taken for the verb.
Misguessed(roots, argv) ==
  /\ FirstVerb(argv) # {} /\ FirstVerb(argv) \subseteq LazyNames(roots)
  /\ Words(argv) = <<>> \/ Head(Words(argv)) \notin FirstVerb(argv)

LazinessIsInvisible(roots, argv, completing) ==
  /\ ~Misguessed(roots, argv) =>
       Dispatch(Wire(roots, argv, completing), argv) = Dispatch(WireAll(roots), argv)
  /\ FirstVerb(argv) # {} /\ FirstVerb(argv) \subseteq LazyNames(roots) /\ ~completing =>
       Imported(roots, argv, completing) =
         UNION {Imports(roots[i]) : i \in {j \in DOMAIN roots : ~Lazy(roots[j]) \/ roots[j].name \in FirstVerb(argv)}}

-----------------------------------------------------------------------------
(* The trees that programs build: ids name objects, so that none is that of a copy yet *)
(* to be made; a lazy node stands for a full one of its own name.                      *)

IsForest(roots) ==
  /\ \A x \in {Start(roots)} \union Places(roots) : x.node.children \in Seq(Range(x.node.children))
  /\ \A x \in Level(roots)[MaxDepth] : x.node.children = <<>>
  /\ \A x \in Places(roots) :
       /\ ~Lazy(x.node) /\ x.node.name = x.listed.name /\ x.node.name \in STRING
       /\ x.listed.id # Copied /\ (Lazy(x.listed) => x.node.id # x.listed.id)

\* Siblings of one name can be walked and composed, but not wired: argparse refuses them.
IsWirable(roots) ==
  \A x \in {Start(roots)} \union Places(roots) :
    \A i \in DOMAIN x.node.children : \A j \in DOMAIN x.node.children :
      x.node.children[i].name = x.node.children[j].name => i = j

=============================================================================
