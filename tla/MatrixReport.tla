---------------------------- MODULE MatrixReport ----------------------------
(***************************************************************************)
(* matrix/report.py: the JSON snapshot of a matrix run.                     *)
(*                                                                         *)
(* update() and finish() hold one lock from the change of the in-memory     *)
(* report to the replacement of the file, so each is two steps here: the    *)
(* change, which takes the lock, and the write, which publishes it, fails,  *)
(* or is cut short by a signal, and drops the lock in every case.           *)
(***************************************************************************)
EXTENDS Integers, FiniteSets

CONSTANTS
  Names,       \* every slot the run was asked for
  Nobody,      \* the holder of the free lock
  NoCode       \* exit_code while the run is under way

VARIABLES
  slot,        \* SlotReport.state of each name
  matrix,      \* MatrixReport.state
  exitCode,    \* MatrixReport.exit_code
  writer,      \* the thread inside the lock, or Nobody
  disk         \* the snapshot a reader of the file sees

reportVars == <<slot, matrix, exitCode, writer, disk>>

\* Mutant: finish() forgets a slot whose tests are under way.
UnfinishedBeforeTests == {"pending", "building", "built"}

Unfinished == {"pending", "building", "built", "testing"}
SlotStates ==
  Unfinished \union {"passed", "failed", "build_failed", "skipped", "cancelled", "error"}
MatrixStates == {"running", "passed", "failed", "cancelled", "error"}
ExitCodes == {0, 1, 2, 130}

Snapshot == [matrix : MatrixStates, code : ExitCodes \union {NoCode},
             slots : [Names -> SlotStates]]

ReportInit ==
  /\ slot = [n \in Names |-> "pending"]
  /\ matrix = "running"
  /\ exitCode = NoCode
  /\ writer = Nobody
  /\ disk = [matrix |-> matrix, code |-> exitCode, slots |-> slot]

\* update(): thread t replaces the SlotReport of n.
BeginUpdate(t, n, state) ==
  /\ writer = Nobody
  /\ writer' = t
  /\ slot' = [slot EXCEPT ![n] = state]
  /\ UNCHANGED <<matrix, exitCode, disk>>

StateOf(code) ==
  CASE code = 0 -> "passed" [] code = 1 -> "failed" [] code = 130 -> "cancelled"
    [] OTHER -> "error"

\* Mutant: finish() closes the slots that have their verdict, too.
FinishOverVerdicts(t, code) ==
  /\ writer = Nobody
  /\ writer' = t
  /\ exitCode' = code
  /\ matrix' = StateOf(code)
  /\ slot' = [n \in Names |->
       IF code # 0 THEN IF code = 130 THEN "cancelled" ELSE "error" ELSE slot[n]]
  /\ UNCHANGED disk

\* finish(): the run's state, and an end for every slot without a verdict.
BeginFinish(t, code) ==
  /\ writer = Nobody
  /\ writer' = t
  /\ exitCode' = code
  /\ matrix' = StateOf(code)
  /\ slot' = [n \in Names |->
       IF slot[n] \in Unfinished /\ code # 0
       THEN IF code = 130 THEN "cancelled" ELSE "error"
       ELSE slot[n]]
  /\ UNCHANGED disk

\* _write(): the temporary sibling is renamed over the file in one step.
Publish(t) ==
  /\ writer = t
  /\ writer' = Nobody
  /\ disk' = [matrix |-> matrix, code |-> exitCode, slots |-> slot]
  /\ UNCHANGED <<slot, matrix, exitCode>>

\* _write() raises, or a signal lands in it: the file keeps its old snapshot.
AbandonWrite(t) ==
  /\ writer = t
  /\ writer' = Nobody
  /\ UNCHANGED <<slot, matrix, exitCode, disk>>

=============================================================================
