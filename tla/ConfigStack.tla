---------------------------- MODULE ConfigStack -----------------------------
(***************************************************************************)
(* The merge engine of config_stack.py.  A value is a record with a kind: a *)
(* mapping has the function "of" from keys to values, a list the sequence   *)
(* "items", and "_inherit" is the sentinel, as a string or as an item.      *)
(***************************************************************************)
EXTENDS Integers, Sequences, SequencesExt

CONSTANT MaxNesting   \* bound: how deep mappings nest below the top of a layer

ASSUME MaxNestingAssumption == MaxNesting \in Nat \ {0}

Null == [kind |-> "null"]
Inherit == [kind |-> "inherit"]          \* the string "_inherit"
True == [kind |-> "true"]
Scalar(v) == [kind |-> "scalar", value |-> v]
List(items) == [kind |-> "list", items |-> items]
Dict(of) == [kind |-> "dict", of |-> of]

IsDict(v) == v.kind = "dict"
IsMapping(of) == of = [k \in DOMAIN of |-> of[k]]
IsList(v) == v.kind = "list"

Without(map, key) == [k \in DOMAIN map \ {key} |-> map[k]]

\* "_inherit: true" in a mapping.
Inherits(map) == "_inherit" \in DOMAIN map /\ map["_inherit"] = True
Cleaned(map) == IF Inherits(map) THEN Without(map, "_inherit") ELSE map

\* _merge_lists: the base in the place of every sentinel.
MergeLists(base, override) ==
  FoldLeft(LAMBDA items, item : items \o (IF item = Inherit THEN base ELSE <<item>>), <<>>, override)

\* The keys that a merged mapping has: a null deletes one, and there is nothing to
\* inherit where the base has nothing.
Remaining(base, override) ==
  LET Gone(k) == k \in DOMAIN override
                   /\ (override[k] = Null \/ (override[k] = Inherit /\ k \notin DOMAIN base))
  IN {k \in DOMAIN base \union DOMAIN override : ~Gone(k)}

\* Mutant: a mapping replaces a mapping, unless it says _inherit.
ShallowValue(bv, ov, below) ==
  CASE IsDict(ov) /\ IsDict(bv) /\ Inherits(ov.of) -> Dict(below[<<bv.of, Cleaned(ov.of)>>])
    [] IsList(ov) /\ IsList(bv) -> List(MergeLists(bv.items, ov.items))
    [] OTHER -> ov

\* What the loop of deep_merge makes of one key that both have; "below" has the
\* mappings it calls itself for.
MergeValue(bv, ov, below) ==
  CASE IsDict(ov) /\ IsDict(bv) -> Dict(below[<<bv.of, Cleaned(ov.of)>>])
    [] IsDict(ov) /\ ~IsDict(bv) -> Dict(Cleaned(ov.of))
    [] IsList(ov) /\ IsList(bv) -> List(MergeLists(bv.items, ov.items))
    [] OTHER -> ov
MergeLevel(base, override, below) ==
  [k \in Remaining(base, override) |->
     IF k \notin DOMAIN override \/ override[k] = Inherit THEN base[k]
     ELSE MergeValue(IF k \in DOMAIN base THEN base[k] ELSE Null, override[k], below)]

\* The pairs of mappings for which deep_merge calls itself.
Inner(pair) ==
  LET Both == {k \in DOMAIN pair[1] \intersect DOMAIN pair[2] : IsDict(pair[1][k]) /\ IsDict(pair[2][k])}
  IN {<<pair[1][k].of, Cleaned(pair[2][k].of)>> : k \in Both}

\* deep_merge, with its recursion unrolled from the innermost pairs outwards.
DeepMerge(base, override) ==
  LET pairs[n \in 0..MaxNesting] ==
        IF n = 0 THEN {<<base, override>>} ELSE UNION {Inner(p) : p \in pairs[n - 1]}
      merged[n \in 0..MaxNesting] ==
        [p \in pairs[MaxNesting - n] |-> MergeLevel(p[1], p[2], IF n = 0 THEN <<>> ELSE merged[n - 1])]
  IN merged[MaxNesting][<<base, override>>]

Nothing == [k \in {} |-> Null]

\* ConfigStack.resolve.
Resolve(stack) ==
  LET result[n \in 0..Len(stack)] ==
        IF n = 0 THEN Nothing ELSE DeepMerge(result[n - 1], stack[n])
  IN result[Len(stack)]

\* ConfigStack.resolve_section: {} for what is no mapping.
AsSection(map, key) == IF key \in DOMAIN map /\ IsDict(map[key]) THEN map[key].of ELSE Nothing
ResolveSection(stack, key) ==
  LET wrapper[n \in 0..Len(stack)] ==
        IF n = 0 THEN Nothing
        ELSE IF key \in DOMAIN stack[n]
        THEN DeepMerge(wrapper[n - 1], [k \in {key} |-> stack[n][key]]) ELSE wrapper[n - 1]
  IN AsSection(wrapper[Len(stack)], key)

-----------------------------------------------------------------------------
(* The reference: the last layer that speaks of a key has the word          *)

\* A layer has the section; it says something of a key of it, a value or Null; it
\* puts something else, or nothing, in the section's place.
Has(layer, section) == section \in DOMAIN layer /\ IsDict(layer[section])
Says(layer, section, key) ==
  /\ Has(layer, section)
  /\ key \in DOMAIN Cleaned(layer[section].of) /\ layer[section].of[key] # Inherit
Resets(layer, section) ==
  section \in DOMAIN layer /\ ~IsDict(layer[section]) /\ layer[section] # Inherit

\* A list with the sentinel is put around the list that the word before it was.
Spliced(before, word) ==
  IF IsList(word) /\ IsList(before) THEN List(MergeLists(before.items, word.items)) ELSE word

\* What the layers have said last of a key since the section was last put aside.
Word(stack, section, key) ==
  LET word[n \in 0..Len(stack)] ==
        IF n = 0 \/ Resets(stack[n], section) THEN Null
        ELSE IF Says(stack[n], section, key) THEN Spliced(word[n - 1], stack[n][section].of[key])
        ELSE word[n - 1]
  IN word[Len(stack)]
LastWord(stack, section) ==
  LET keys == UNION {DOMAIN stack[i][section].of : i \in {j \in DOMAIN stack : Has(stack[j], section)}}
  IN [key \in {k \in keys : Word(stack, section, k) # Null} |-> Word(stack, section, key)]

\* The layers above the last one that resets.
Standing(stack, section) ==
  {i \in DOMAIN stack : \A j \in i..Len(stack) : ~Resets(stack[j], section)}

\* The lowest layer of a section is taken as it is, its sentinels and nulls, too.
RawBottom(stack, section) ==
  \E i \in Standing(stack, section) :
    /\ Has(stack[i], section)
    /\ \A j \in Standing(stack, section) : j < i => ~Has(stack[j], section)
    /\ \E k \in DOMAIN stack[i][section].of : stack[i][section].of[k] \in {Null, Inherit}

\* No mapping is in the section.
Flat(stack, section) ==
  \A i \in DOMAIN stack : Has(stack[i], section) =>
    \A k \in DOMAIN stack[i][section].of : ~IsDict(stack[i][section].of[k])

HasSentinel(map) ==
  \E k \in DOMAIN map :
    \/ k = "_inherit" \/ map[k] = Inherit
    \/ IsList(map[k]) /\ Contains(map[k].items, Inherit)
    \/ IsDict(map[k]) /\ \E n \in DOMAIN map[k].of : map[k].of[n] = Inherit \/ n = "_inherit"

=============================================================================
