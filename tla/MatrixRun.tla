------------------------------ MODULE MatrixRun -----------------------------
(***************************************************************************)
(* matrix/cli.py: one run of terok-matrix, from the first report to the     *)
(* exit status.  The main thread builds every image, runs the slots one by  *)
(* one or on a thread pool, tears down and closes the report; a signal      *)
(* (Ctrl-C, or SIGTERM through its handler) raises KeyboardInterrupt in the  *)
(* main thread at any point, and calls may raise OSError, which main() turns *)
(* into an exit status, or another exception, which it lets through.        *)
(*                                                                         *)
(* podman, and the job server's slots, are external: a build or a slot ends *)
(* with some verdict, a wait for a job slot ends in admission or refusal    *)
(* (module Jobserver shows that it ends).                                   *)
(***************************************************************************)
EXTENDS MatrixReport

CONSTANTS
  Slots,         \* the requested names this package has
  Main,          \* the main thread; a pool thread is known by its slot's name
  MaxJobs,       \* bound on --jobs
  MaxMishaps     \* bound on the signals and exceptions of a run, together

ASSUME NamesAssumption ==
  /\ Slots \subseteq Names
  /\ IsFiniteSet(Names)
  /\ Main \notin Names /\ Nobody \notin Names /\ Main # Nobody
  /\ NoCode \notin ExitCodes
ASSUME BoundsAssumption ==
  /\ MaxJobs \in Nat /\ MaxMishaps \in Nat

VARIABLES
  args,          \* the command line, the host, and make's job server
  pc,            \* where the main thread is
  cur,           \* the slot the main thread builds or tests
  todo,          \* the names the current loop has still to visit
  buildFailed, runnable,
  worker,        \* where the pool thread of each slot is
  result,        \* result[n]: what run_slot returned for n
  collected,     \* the futures whose result the main thread has read
  closedJs,      \* jobserver.close() has been called
  raised,        \* the exception on its way out of _run_matrix
  code,          \* the local exit_code of _run_matrix
  status,        \* the exit status of the process, or NoCode
  signals,       \* the signals received so far
  failures,      \* the exceptions raised so far
  late,          \* history: a signal landed outside of the try's protection
  afterwards     \* history: a mishap struck after the report had been closed

mainVars == <<cur, todo, buildFailed, runnable, collected, closedJs, raised,
              code, status>>
mishapVars == <<signals, failures, late, afterwards>>
vars == <<reportVars, args, pc, worker, result, mishapVars, mainVars>>

Walk == {"unavailable", "build", "building", "plan", "serial", "running"}
Pool == {"submit", "collect"}
Shutdown == {"close", "shutdown", "join"}
Teardown == {"sweep", "prune", "external"}
\* After finish(): the lines printed last, then main()'s own finally and with block.
Afterwards == {"lastWords", "cleanup"}
PCs == {"start", "handle", "leavePool", "finish", "finishing", "exited"}
       \union Walk \union Pool \union Shutdown \union Teardown \union Afterwards

WorkerStates == {"none", "queued", "waiting", "report", "running", "done",
                 "raised", "cancelled"}

Args == [buildOnly : BOOLEAN, keepDangling : BOOLEAN, jobs : 0..MaxJobs,
         jobserver : BOOLEAN, skipped : SUBSET Slots]

\* _run_matrix: the report exists with every slot pending, exit_code is 2.
Init ==
  /\ ReportInit
  /\ args \in Args
  /\ pc = "start" /\ cur = Nobody /\ todo = Names \ Slots
  /\ buildFailed = {} /\ runnable = {} /\ collected = {}
  /\ worker = [n \in Slots |-> "none"]
  /\ result = [n \in Slots |-> "none"]
  /\ closedJs = FALSE /\ raised = "none"
  /\ code = 2 /\ status = NoCode
  /\ signals = 0 /\ failures = 0 /\ late = FALSE /\ afterwards = FALSE

Goto(from, to) == pc = from /\ pc' = to
\* The main thread is past its last report write.
Ready == writer # Main
Report(n, state) == BeginUpdate(Main, n, state)

-----------------------------------------------------------------------------
(* The walk                                                                *)

EnterTry ==
  /\ Goto("start", "unavailable")
  /\ UNCHANGED <<reportVars, args, worker, result, mishapVars, mainVars>>

SkipUnavailable ==
  /\ Ready /\ pc = "unavailable"
  /\ \/ \E n \in todo :
          Report(n, "skipped") /\ todo' = todo \ {n} /\ UNCHANGED pc
     \/ /\ todo = {} /\ pc' = "build" /\ todo' = Slots /\ UNCHANGED reportVars
  /\ UNCHANGED <<args, cur, buildFailed, runnable, worker, result, collected,
                 closedJs, raised, code, status, mishapVars>>

\* _build_images: one slot skipped, or its build started.
BuildNext ==
  /\ Ready /\ pc = "build"
  /\ \E n \in todo :
       IF n \in args.skipped
       THEN Report(n, "skipped") /\ todo' = todo \ {n} /\ UNCHANGED <<pc, cur>>
       ELSE Report(n, "building") /\ pc' = "building" /\ cur' = n /\ UNCHANGED todo
  /\ UNCHANGED <<args, buildFailed, runnable, worker, result, collected, closedJs, raised, code, status, mishapVars>>

BuildEnds ==
  /\ Ready /\ Goto("building", "build")
  /\ todo' = todo \ {cur}
  /\ cur' = Nobody
  /\ \/ Report(cur, "built") /\ UNCHANGED buildFailed
     \/ Report(cur, "build_failed") /\ buildFailed' = buildFailed \union {cur}
  /\ UNCHANGED <<args, runnable, worker, result, collected, closedJs,
                 raised, code, status, mishapVars>>

\* _walk_matrix returns after the builds, or goes on to the slots.
BuildsDone ==
  /\ Ready /\ pc = "build" /\ todo = {}
  /\ IF args.buildOnly
     THEN /\ pc' = "sweep"
          /\ code' = IF buildFailed # {} THEN 1 ELSE 0
          /\ UNCHANGED todo
     ELSE pc' = "plan" /\ todo' = Slots /\ UNCHANGED code
  /\ UNCHANGED <<reportVars, args, cur, buildFailed, runnable, worker, result,
                 collected, closedJs, raised, status, mishapVars>>

\* The slots that run: neither skipped (and reported so again) nor unbuilt.
PlanNext ==
  /\ Ready /\ pc = "plan"
  /\ \E n \in todo :
       /\ todo' = todo \ {n}
       /\ IF n \in args.skipped THEN Report(n, "skipped") ELSE UNCHANGED reportVars
       /\ runnable' = IF n \in args.skipped \union buildFailed THEN runnable
                      ELSE runnable \union {n}
  /\ UNCHANGED <<args, pc, cur, buildFailed, worker, result, collected, closedJs, raised, code, status, mishapVars>>

\* The job server is joined only when more than one slot runs; its tokens then
\* set the pace unless --jobs caps it.
UsesJobserver == args.jobserver /\ Cardinality(runnable) > 1
Jobs == IF args.jobs # 0 THEN args.jobs
        ELSE IF UsesJobserver THEN Cardinality(runnable) ELSE 1

PlanDone ==
  /\ Ready /\ pc = "plan" /\ todo = {}
  /\ todo' = runnable
  /\ pc' = IF Jobs > 1 /\ Cardinality(runnable) > 1 THEN "submit" ELSE "serial"
  /\ UNCHANGED <<reportVars, args, cur, buildFailed, runnable, worker, result,
                 collected, closedJs, raised, code, status, mishapVars>>

\* Mutant: only the slots that ran count, not the images that failed to build.
RunCode == IF \E n \in runnable : result[n] = "failed" THEN 1 ELSE 0

WalkCode ==
  IF buildFailed # {} \/ \E n \in runnable : result[n] = "failed" THEN 1 ELSE 0

SerialStart ==
  /\ Ready /\ Goto("serial", "running")
  /\ \E n \in todo :
       /\ Report(n, "testing")
       /\ cur' = n
  /\ UNCHANGED <<args, todo, buildFailed, runnable, worker, result, collected,
                 closedJs, raised, code, status, mishapVars>>

SerialEnds ==
  /\ Ready /\ Goto("running", "serial")
  /\ \E v \in {"passed", "failed"} :
       Report(cur, v) /\ result' = [result EXCEPT ![cur] = v]
  /\ todo' = todo \ {cur}
  /\ cur' = Nobody
  /\ UNCHANGED <<args, buildFailed, runnable, worker, collected, closedJs, raised,
                 code, status, mishapVars>>

SerialDone ==
  /\ Ready /\ Goto("serial", "sweep") /\ todo = {}
  /\ code' = WalkCode
  /\ UNCHANGED <<reportVars, args, cur, todo, buildFailed, runnable, worker, result,
                 collected, closedJs, raised, status, mishapVars>>

\* _run_slots_tagged: submit everything, then read the futures as they complete.
Submit ==
  /\ pc = "submit"
  /\ \/ \E n \in todo : /\ worker' = [worker EXCEPT ![n] = "queued"]
                        /\ todo' = todo \ {n}
                        /\ UNCHANGED pc
     \/ todo = {} /\ pc' = "collect" /\ UNCHANGED <<worker, todo>>
  /\ UNCHANGED <<reportVars, args, cur, buildFailed, runnable, result, collected,
                 closedJs, raised, code, status, mishapVars>>

Ended(n) == worker[n] \in {"done", "raised", "cancelled"} /\ writer # n

\* A future's exception comes out of future.result() in the main thread, of
\* whatever kind it is; only main() cares.
Collect ==
  /\ pc = "collect"
  /\ \E n \in runnable \ collected :
       /\ Ended(n)
       /\ collected' = collected \union {n}
       /\ IF worker[n] = "done" THEN UNCHANGED <<pc, raised>>
          ELSE pc' = "close" /\ raised' \in {"oserror", "other"}
  /\ UNCHANGED <<reportVars, args, cur, todo, buildFailed, runnable, worker, result,
                 closedJs, code, status, mishapVars>>

CollectDone ==
  /\ Goto("collect", "sweep") /\ collected = runnable
  /\ code' = WalkCode
  /\ UNCHANGED <<reportVars, args, cur, todo, buildFailed, runnable, worker, result,
                 collected, closedJs, raised, status, mishapVars>>

\* except BaseException: close the job server, cancel the queue, join the rest.
CloseJobserver ==
  /\ Goto("close", "shutdown")
  /\ closedJs' = UsesJobserver
  /\ UNCHANGED <<reportVars, args, cur, todo, buildFailed, runnable, worker, result,
                 collected, raised, code, status, mishapVars>>

\* Mutant: the queue is not cancelled (cancel_futures=False).
KeepQueued ==
  /\ Goto("shutdown", "join")
  /\ UNCHANGED <<reportVars, args, worker, result, mishapVars, mainVars>>

CancelQueued ==
  /\ Goto("shutdown", "join")
  /\ worker' = [n \in Slots |-> IF worker[n] = "queued" THEN "cancelled" ELSE worker[n]]
  /\ UNCHANGED <<reportVars, args, cur, todo, buildFailed, runnable, result,
                 collected, closedJs, raised, code, status, mishapVars>>

\* shutdown(wait=True) returns, in the except clause or in the pool's __exit__:
\* every submitted future has ended.
PoolIdle == \A n \in Slots : worker[n] = "none" \/ Ended(n)
\* Mutant: shutdown(wait=False).
JoinNobody ==
  /\ pc \in {"join", "leavePool"}
  /\ pc' = "handle"
  /\ UNCHANGED <<reportVars, args, worker, result, mishapVars, mainVars>>

Join ==
  /\ pc \in {"join", "leavePool"} /\ PoolIdle
  /\ pc' = "handle"
  /\ UNCHANGED <<reportVars, args, worker, result, mishapVars, mainVars>>

-----------------------------------------------------------------------------
(* The way out                                                             *)

\* except KeyboardInterrupt sets exit_code; except Exception keeps it at 2.
Handle ==
  /\ Goto("handle", "sweep")
  /\ code' = IF raised = "interrupt" THEN 130 ELSE code
  /\ UNCHANGED <<reportVars, args, cur, todo, buildFailed, runnable, worker, result,
                 collected, closedJs, raised, status, mishapVars>>

\* _teardown: containers first, for they pin the images; --keep-dangling skips it.
KeepDangling ==
  /\ Goto("sweep", "finish") /\ args.keepDangling
  /\ UNCHANGED <<reportVars, args, worker, result, mishapVars, mainVars>>
SweepContainers ==
  /\ Goto("sweep", "prune") /\ ~args.keepDangling
  /\ UNCHANGED <<reportVars, args, worker, result, mishapVars, mainVars>>
PruneDangling ==
  /\ Goto("prune", "external")
  /\ UNCHANGED <<reportVars, args, worker, result, mishapVars, mainVars>>
ExternalLeftovers ==
  /\ Goto("external", "finish")
  /\ UNCHANGED <<reportVars, args, worker, result, mishapVars, mainVars>>

Finish ==
  /\ Goto("finish", "finishing")
  /\ BeginFinish(Main, code)
  /\ UNCHANGED <<args, worker, result, mishapVars, mainVars>>

\* The main thread's report write succeeds; that of finish() closes the file.
MainPublishes ==
  /\ Publish(Main)
  /\ pc' = IF pc = "finishing" THEN "lastWords" ELSE pc
  /\ UNCHANGED <<args, worker, result, mishapVars, mainVars>>

\* The warning and the wall time are printed, and _run_matrix is over.
LastWords ==
  /\ Goto("lastWords", "cleanup")
  /\ UNCHANGED <<reportVars, args, worker, result, mishapVars, mainVars>>

\* What main() makes of what _run_matrix returned or raised: an exception it does
\* not know ends the process with a traceback.
StatusOf(exc) == CASE exc = "none" -> code [] exc = "interrupt" -> 130
                   [] exc = "oserror" -> 2 [] exc = "other" -> 1

\* main() restores SIGTERM's handler and removes its temporary directory.
Cleanup ==
  /\ Goto("cleanup", "exited")
  /\ status' = StatusOf(raised)
  /\ UNCHANGED <<reportVars, args, cur, todo, buildFailed, runnable, worker, result,
                 collected, closedJs, raised, code, mishapVars>>

\* Where an exception takes the main thread from each point.
Landing(place) ==
  CASE place \in Walk -> "handle"
    [] place \in Pool -> "close"
    [] place \in Shutdown -> "leavePool"
    [] place = "leavePool" -> "handle"
    [] place = "handle" -> "sweep"
    [] place \in Teardown -> "finish"
    [] place = "cleanup" -> "exited"
    [] OTHER -> "cleanup"

\* The exception goes on to that point, and drops the report's lock on its way.
Raise(exc, to) ==
  /\ IF writer = Main THEN AbandonWrite(Main) ELSE UNCHANGED reportVars
  /\ raised' = exc
  /\ pc' = to
  /\ status' = IF to = "exited" THEN StatusOf(exc) ELSE status
  /\ UNCHANGED <<args, cur, todo, buildFailed, runnable, worker, result, collected,
                 closedJs>>

\* Mutant: an exception in the teardown leaves exit_code as the walk set it.
UnwindKeepingCode(exc) ==
  /\ Raise(exc, Landing(pc))
  /\ UNCHANGED code

\* Mutant: an exception in the teardown skips the report's finish().
UnwindWithoutFinish(exc) ==
  /\ Raise(exc, IF pc \in Teardown THEN "cleanup" ELSE Landing(pc))
  /\ UNCHANGED code

\* An exception of kind exc reaches the main thread.  In the teardown the two kinds
\* that the code names set exit_code; any other leaves what the walk set.
Unwind(exc) ==
  /\ Raise(exc, Landing(pc))
  /\ code' = IF pc \notin Teardown THEN code
             ELSE CASE exc = "interrupt" -> 130 [] exc = "oserror" -> 2 [] OTHER -> code

\* KeyboardInterrupt, from Ctrl-C or from the SIGTERM handler.
Signal ==
  /\ signals + failures < MaxMishaps /\ pc # "exited"
  /\ signals' = signals + 1
  /\ late' = (late \/ pc \in {"start", "handle", "finish", "finishing"})
  /\ afterwards' = (afterwards \/ pc \in Afterwards)
  /\ Unwind("interrupt")
  /\ UNCHANGED failures

\* SIGTERM once main() has given its handler back: the process is killed.
Terminated == 143
SignalKills ==
  /\ signals + failures < MaxMishaps
  /\ Goto("cleanup", "exited")
  /\ signals' = signals + 1
  /\ afterwards' = TRUE
  /\ status' = Terminated
  /\ UNCHANGED <<reportVars, args, cur, todo, buildFailed, runnable, worker, result,
                 collected, closedJs, raised, code, failures, late>>

\* A podman call, a report write, a print or the removal of the scratch directory
\* raises in the main thread.  Text that is not UTF-8 raises what is not an OSError,
\* in a fragment that is read or in what podman prints; and an OSError past main()'s
\* except clause is like any other.
FailureKinds == IF writer = Main \/ pc = "lastWords" THEN {"oserror"}
                ELSE IF pc = "cleanup" THEN {"other"} ELSE {"oserror", "other"}

MainFails ==
  /\ signals + failures < MaxMishaps
  /\ pc \in {"building", "running"} \union Teardown \union Afterwards \/ writer = Main
  /\ failures' = failures + 1
  /\ afterwards' = (afterwards \/ pc \in Afterwards)
  /\ \E exc \in FailureKinds : Unwind(exc)
  /\ UNCHANGED <<signals, late>>

-----------------------------------------------------------------------------
(* The pool threads                                                        *)

Busy == {n \in Slots : worker[n] \in {"waiting", "report", "running"} \/ writer = n}

Worker(n, from, to) == worker[n] = from /\ worker' = [worker EXCEPT ![n] = to]

\* An idle pool thread takes a queued slot.
WorkerStart(n) ==
  /\ Cardinality(Busy) < Jobs
  /\ Worker(n, "queued", IF UsesJobserver THEN "waiting" ELSE "report")
  /\ UNCHANGED <<reportVars, args, pc, result, mishapVars, mainVars>>

\* The job server admits the slot, or refuses it once it is closed.
WorkerAdmitted(n) ==
  /\ \/ Worker(n, "waiting", "report")
     \/ closedJs /\ Worker(n, "waiting", "raised")
  /\ UNCHANGED <<reportVars, args, pc, result, mishapVars, mainVars>>

\* _run_reported_slot: "testing" is published, then podman runs.
WorkerTests(n) ==
  /\ Worker(n, "report", "running")
  /\ BeginUpdate(n, n, "testing")
  /\ UNCHANGED <<args, pc, result, mishapVars, mainVars>>

WorkerEnds(n) ==
  /\ writer # n
  /\ Worker(n, "running", "done")
  /\ \E v \in {"passed", "failed"} :
       BeginUpdate(n, n, v) /\ result' = [result EXCEPT ![n] = v]
  /\ UNCHANGED <<args, pc, mishapVars, mainVars>>

WorkerPublishes(n) ==
  /\ Publish(n)
  /\ UNCHANGED <<args, pc, worker, result, mishapVars, mainVars>>

\* run_slot or a report write raises: the future holds the exception.
WorkerFails(n) ==
  /\ signals + failures < MaxMishaps /\ failures' = failures + 1
  /\ \/ writer = n /\ AbandonWrite(n)
     \/ worker[n] = "running" /\ writer # n /\ UNCHANGED reportVars
  /\ worker' = [worker EXCEPT ![n] = "raised"]
  /\ UNCHANGED <<args, pc, result, signals, late, afterwards, mainVars>>

-----------------------------------------------------------------------------
MainStep ==
  \/ EnterTry \/ SkipUnavailable \/ BuildNext \/ BuildEnds \/ BuildsDone
  \/ PlanNext \/ PlanDone \/ SerialStart \/ SerialEnds \/ SerialDone
  \/ Submit \/ Collect \/ CollectDone \/ CloseJobserver \/ CancelQueued \/ Join
  \/ Handle \/ KeepDangling \/ SweepContainers \/ PruneDangling \/ ExternalLeftovers
  \/ Finish \/ MainPublishes \/ LastWords \/ Cleanup

WorkerStep(n) ==
  \/ WorkerStart(n) \/ WorkerAdmitted(n) \/ WorkerTests(n) \/ WorkerEnds(n)
  \/ WorkerPublishes(n)

Stopped == pc = "exited" /\ PoolIdle

Next ==
  \/ MainStep \/ Signal \/ SignalKills \/ MainFails
  \/ \E n \in Slots : WorkerStep(n) \/ WorkerFails(n)
  \/ Stopped /\ UNCHANGED vars

Spec == Init /\ [][Next]_vars

\* Both the run and its pool threads make progress: podman ends by itself, and
\* a wait for a job slot ends (Jobserver, EveryRunLeaves).  Nobody has to fail
\* or to send a signal.
FairSpec ==
  Spec /\ WF_vars(MainStep) /\ \A n \in Slots : WF_vars(WorkerStep(n))

-----------------------------------------------------------------------------
(* Properties                                                              *)

\* The snapshot's exit code is earned by its slots: 0 only when every one
\* passed, was skipped, or was to be built only; 1 only when one failed.  The
\* code comes from the futures and the build loop, the slots from update().
ExitCodeIsEarned ==
  /\ disk.code = 0 =>
       \A n \in Names : disk.slots[n] \in
         {"skipped", IF args.buildOnly THEN "built" ELSE "passed"}
  /\ disk.code = 1 => \E n \in Names : disk.slots[n] \in {"failed", "build_failed"}

\* test_matrix_report.py: "An unfinished slot is never presented as a passing
\* test".  A closed snapshot leaves no slot open, however its threads and the
\* signals interleave.
NothingLeftOpen ==
  disk.matrix # "running" =>
    \A n \in Names : disk.slots[n] \notin {"pending", "building", "testing"}

\* What the closed report says of the run is what the process's exit status says,
\* for the exceptions _run_matrix knows (OSError and KeyboardInterrupt), however many
\* come one after the other.  Not when a signal in the except clause or in finish()
\* sets the status alone, nor when something strikes once the report is closed.
StatusMatchesReport ==
  pc = "exited" /\ disk.matrix # "running" /\ ~late /\ ~afterwards /\ raised # "other"
    => disk.code = status

\* The teardown has the harness to itself: no slot of this run is under way, to start
\* another container, while containers are swept and images pruned.
TeardownAlone == pc \in Teardown => PoolIdle

\* cli.py l.337: interrupted, "queued slots never start", for a run with one mishap.
\* The queue is cancelled at the end of the except clause's shutdown() call, so a
\* pool thread that frees up before that may still take one; later none may.
InterruptCancelsQueue ==
  [][\A n \in Slots : worker[n] = "queued" /\ worker'[n] \in {"waiting", "report"}
       => pc \in Pool \union {"close", "shutdown"} \/ signals + failures > 1]_vars

\* The reported states climb SlotLifecycle's ladder, and a closed report is final.
Lifecycle == INSTANCE SlotLifecycle
LifecycleSpec == Lifecycle!Spec

\* "teardown guaranteed, interrupted runs included" (_run_matrix): every run
\* ends, its pool threads too, and its last snapshot is a closed one, unless finish()
\* itself failed or a signal landed before the try or in finish().
EndsWithAClosedReport ==
  <>[](Stopped /\ (disk.matrix # "running" \/ late \/ (failures > 0 /\ exitCode # NoCode)))

\* README l.77: "A build-only run leaves successful slots built, not passed".
BuildOnlyKeepsBuilt ==
  args.buildOnly /\ disk.code \in {0, 1} =>
    \A n \in Slots \ (args.skipped \union buildFailed) : disk.slots[n] = "built"

=============================================================================
