----------------------------- MODULE Hardening ------------------------------
(***************************************************************************)
(* hardening.py: harden_self() and then confine_filesystem(), called by one *)
(* thread of a process whose other threads start and end as they like.      *)
(*                                                                         *)
(* A Landlock domain is a record: the rights it handles, and the rights it  *)
(* grants on each path; Free is a thread without one.                       *)
(***************************************************************************)
EXTENDS Integers, Sequences, FiniteSets, Functions

CONSTANTS
  Threads,     \* threads the process may have
  Caller,      \* the one that calls
  Free,        \* no domain
  Kernels,     \* the kernels, with their libc
  GrantPaths,  \* the paths that may be granted
  Layouts,     \* what is at those paths
  Lanes        \* the grants that a caller may ask for

PathKinds == {"dir", "file", "missing", "barred"}

ASSUME CallerAssumption == Caller \in Threads /\ IsFiniteSet(Threads)
ASSUME KernelAssumption ==
  Kernels \subseteq [libc : BOOLEAN, abi : Nat, countsThreads : BOOLEAN, eCryptfs : BOOLEAN,
                     createsRuleset : BOOLEAN, restricts : BOOLEAN]
ASSUME LaneAssumption ==
  /\ Layouts \subseteq [GrantPaths -> PathKinds]
  /\ Lanes \subseteq [read : Seq(GrantPaths), write : Seq(GrantPaths)]

VARIABLES
  kernel,      \* what this kernel and libc can do
  paths,       \* what is at each path; a "barred" one cannot be granted
  lane,        \* the two sequences of grants asked for
  step,        \* the caller's next step
  domain,      \* live thread -> its domain
  noNewPrivs,  \* the process has no_new_privs
  ruleset,     \* the ruleset being built, or Free
  granted,     \* how many grants of the lane are in it
  report       \* "none", "confined", "partly", "unconfined"

vars == <<kernel, paths, lane, step, domain, noNewPrivs, ruleset, granted, report>>

Live == DOMAIN domain

\* _access_masks: REFER from ABI 2 on, TRUNCATE from ABI 3 on.
ReadAccess == {"execute", "readFile", "readDir"}
FileObjects == {"execute", "readFile", "writeFile", "truncate"}
WriteV1 == {"writeFile", "change"}
WriteAccess(abi) ==
  ReadAccess \union WriteV1 \union {"refer"} \union (IF abi >= 3 THEN {"truncate"} ELSE {})
Grants == [i \in 1..Len(lane.read) + Len(lane.write) |->
             IF i <= Len(lane.read) THEN [path |-> lane.read[i], access |-> ReadAccess]
             ELSE [path |-> lane.write[i - Len(lane.read)], access |-> WriteAccess(kernel.abi)]]

Goto(from, to) == step = from /\ step' = to
Returns(from, what) == Goto(from, "returned") /\ report' = what

\* harden_self: each floor on its own; the other three change no domain.
HardenSelf ==
  /\ Goto("harden", "probe")
  /\ noNewPrivs' = kernel.libc
  /\ UNCHANGED <<kernel, paths, lane, domain, ruleset, granted, report>>

\* No libc, no Landlock, or ABI 1.
Probe ==
  /\ IF ~kernel.libc \/ kernel.abi < 2 THEN Returns("probe", "unconfined")
     ELSE Goto("probe", "scope") /\ UNCHANGED report
  /\ UNCHANGED <<kernel, paths, lane, domain, noNewPrivs, ruleset, granted>>

\* _thread_scope_failure: below ABI 8, nobody else may be there.
ThreadScope ==
  /\ IF kernel.abi < 8 /\ (~kernel.countsThreads \/ Cardinality(Live) # 1)
     THEN Returns("scope", "unconfined") ELSE Goto("scope", "mounts") /\ UNCHANGED report
  /\ UNCHANGED <<kernel, paths, lane, domain, noNewPrivs, ruleset, granted>>

\* _unsupported_filesystem, and _create_ruleset.
CreateRuleset ==
  /\ IF kernel.eCryptfs \/ ~kernel.createsRuleset
     THEN Returns("mounts", "unconfined") /\ UNCHANGED ruleset
     ELSE Goto("mounts", "grant") /\ UNCHANGED report
          /\ ruleset' = [handled |-> WriteAccess(kernel.abi), rights |-> [p \in GrantPaths |-> {}]]
  /\ UNCHANGED <<kernel, paths, lane, domain, noNewPrivs, granted>>

\* _grant_beneath: a missing path is passed over, any other failure ends the call.
GrantBeneath ==
  /\ step = "grant" /\ granted < Len(Grants)
  /\ LET grant == Grants[granted + 1]
         rights == IF paths[grant.path] = "dir" THEN grant.access ELSE grant.access \intersect FileObjects
     IN \/ /\ paths[grant.path] = "missing" /\ granted' = granted + 1
           /\ UNCHANGED <<step, ruleset, report>>
        \/ /\ paths[grant.path] \in {"dir", "file"} /\ granted' = granted + 1
           /\ ruleset' = [ruleset EXCEPT !.rights[grant.path] = @ \union rights]
           /\ UNCHANGED <<step, report>>
        \/ /\ paths[grant.path] = "barred" /\ Returns("grant", "unconfined")
           /\ ruleset' = Free /\ UNCHANGED granted
  /\ UNCHANGED <<kernel, paths, lane, domain, noNewPrivs>>

\* Mutant: the calling thread alone.
OnlyCaller == {Caller}
\* restrict_self covers every thread with TSYNC, and the calling one without.
Covered == IF kernel.abi >= 8 THEN Live ELSE {Caller}

\* restrict_self needs no_new_privs, and may fail; then the ruleset is closed.
RestrictSelf ==
  /\ step = "grant" /\ granted = Len(Grants) /\ ruleset' = Free
  /\ \/ /\ ~noNewPrivs \/ ~kernel.restricts
        /\ Returns("grant", "unconfined") /\ UNCHANGED domain
     \/ /\ noNewPrivs /\ kernel.restricts
        /\ domain' = [t \in Live |-> IF t \in Covered THEN ruleset ELSE domain[t]]
        /\ Returns("grant", IF kernel.abi < 3 THEN "partly" ELSE "confined")
  /\ UNCHANGED <<kernel, paths, lane, noNewPrivs, granted>>

\* A thread is born into the domain of the one that starts it.
StartThread(t, u) ==
  /\ t \in Live /\ u \in Threads \ Live
  /\ t = Caller => step = "returned"
  /\ domain' = [v \in Live \union {u} |-> IF v = u THEN domain[t] ELSE domain[v]]
  /\ UNCHANGED <<kernel, paths, lane, step, noNewPrivs, ruleset, granted, report>>
EndThread(t) ==
  /\ t \in Live \ {Caller}
  /\ domain' = [v \in Live \ {t} |-> domain[v]]
  /\ UNCHANGED <<kernel, paths, lane, step, noNewPrivs, ruleset, granted, report>>

\* harden_self() comes first, or was left out.
HardeningInit ==
  /\ kernel \in Kernels /\ paths \in Layouts /\ lane \in Lanes
  /\ step \in {"harden", "probe"} /\ noNewPrivs = FALSE
  /\ domain \in {[t \in others \union {Caller} |-> Free] : others \in SUBSET (Threads \ {Caller})}
  /\ ruleset = Free /\ granted = 0 /\ report = "none"

Call == HardenSelf \/ Probe \/ ThreadScope \/ CreateRuleset \/ GrantBeneath \/ RestrictSelf
OtherThreads == (\E t, u \in Threads : StartThread(t, u)) \/ \E t \in Threads : EndThread(t)
HardeningNext == Call \/ OtherThreads
HardeningSpec == HardeningInit /\ [][HardeningNext]_vars

-----------------------------------------------------------------------------
(* Properties                                                              *)

\* What the docstring of confine_filesystem() grants: a directory the whole mask,
\* any other object the rights of a file, and a missing path nothing.
Lane(p, sequence, access) ==
  IF p \notin Range(sequence) \/ paths[p] = "missing" THEN {}
  ELSE IF paths[p] = "dir" THEN access ELSE access \intersect FileObjects
Policy ==
  [handled |-> WriteAccess(kernel.abi),
   rights |-> [p \in GrantPaths |->
      Lane(p, lane.read, ReadAccess) \union Lane(p, lane.write, WriteAccess(kernel.abi))]]

\* The report is true of every thread that lives now, whoever started it and when
\* (the docstring of LandlockReport): the whole policy, truncation included, or all
\* of it that ABI 2 has, or a process that is as it was.
ReportIsTrue ==
  /\ report \in {"confined", "partly"} =>
       noNewPrivs /\ \A t \in Live : domain[t] = Policy
  /\ report = "confined" => "truncate" \in Policy.handled
  /\ report \in {"none", "unconfined"} => \A t \in Live : domain[t] = Free
  /\ report # "none" => ruleset = Free

=============================================================================
