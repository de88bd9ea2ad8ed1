--------------------------- MODULE MatrixRunProofs --------------------------
(***************************************************************************)
(* Theorems about MatrixRun for every set of slots, every --jobs and every   *)
(* number of signals and exceptions, or of no more than two where it says    *)
(* so.                                                                     *)
(***************************************************************************)
EXTENDS MatrixRun, TLAPS

TypeInv ==
  /\ slot \in [Names -> SlotStates] /\ matrix \in MatrixStates
  /\ exitCode \in ExitCodes \union {NoCode}
  /\ writer \in Slots \union {Main, Nobody} /\ disk \in Snapshot
  /\ args \in Args /\ pc \in PCs /\ cur \in Slots \union {Nobody}
  /\ todo \subseteq Names /\ buildFailed \subseteq Slots /\ runnable \subseteq Slots
  /\ worker \in [Slots -> WorkerStates]
  /\ result \in [Slots -> {"none", "passed", "failed"}]
  /\ collected \subseteq Slots
  /\ raised \in {"none", "interrupt", "oserror", "other"}
  /\ code \in ExitCodes /\ status \in ExitCodes \union {NoCode, Terminated}
  /\ signals \in Nat /\ failures \in Nat /\ late \in BOOLEAN /\ afterwards \in BOOLEAN

\* Where the main thread may be inside the report's lock, and a pool thread.
WriterInv ==
  /\ writer = Main => pc \in Walk \union {"finishing"}
  /\ \A n \in Slots : writer = n => worker[n] \in {"running", "done"}

\* The loops of the walk: what is left to do, and who has been submitted.
LoopInv ==
  /\ pc \in Walk \union {"start"} =>
       collected = {} /\ \A n \in Slots : worker[n] = "none"
  /\ pc \in {"start", "unavailable"} => todo \subseteq Names \ Slots
  /\ pc \in {"build", "building", "plan"} => todo \subseteq Slots
  /\ pc \in {"serial", "running", "submit"} => todo \subseteq runnable
  /\ pc \in {"building", "running"} => cur \in todo
  /\ pc \in {"start", "unavailable", "build", "plan", "serial"} => cur = Nobody
  /\ pc = "submit" => collected = {} /\ \A n \in todo : worker[n] = "none"
  /\ pc = "collect" => \A n \in collected : worker[n] = "done" /\ writer # n
  /\ \A n \in Slots : worker[n] # "none" => n \in runnable
  /\ pc \in {"plan", "serial", "running"} \union Pool => ~args.buildOnly

\* How many mishaps it takes to get somewhere with the pool still at work.
Mishaps == signals + failures
Late == {"handle", "finish", "finishing", "exited"} \union Teardown \union Afterwards
MishapInv ==
  /\ Mishaps <= MaxMishaps
  /\ closedJs => Mishaps >= 1
  /\ \A n \in Slots : worker[n] \in {"raised", "cancelled"} => Mishaps >= 1
  /\ pc \in Shutdown => Mishaps >= 1
  /\ pc = "leavePool" => Mishaps >= 2
  /\ \A n \in Slots : worker[n] = "queued" =>
       pc \in Pool \union {"close", "shutdown"} \/ Mishaps >= 2
  /\ pc \in Late => PoolIdle \/ Mishaps >= 3

\* What the report says of each slot on the way.
Built(n) == IF n \in args.skipped THEN "skipped"
            ELSE IF n \in buildFailed THEN "build_failed" ELSE "built"
BuildInv ==
  /\ buildFailed \intersect args.skipped = {}
  /\ pc \in {"start", "unavailable"} =>
       /\ buildFailed = {} /\ runnable = {}
       /\ \A n \in Slots \union todo : slot[n] = "pending"
       /\ \A n \in Names \ (Slots \union todo) : slot[n] = "skipped"
  /\ pc \in (Walk \ {"unavailable"}) \union Pool =>
       \A n \in Names \ Slots : slot[n] = "skipped"
  /\ pc \in {"build", "building"} =>
       /\ buildFailed \intersect todo = {} /\ runnable = {}
       /\ cur \notin args.skipped
       /\ \A n \in Slots \ todo : slot[n] = Built(n)
       /\ \A n \in todo : slot[n] = IF n = cur THEN "building" ELSE "pending"
  /\ pc = "plan" =>
       /\ runnable = (Slots \ todo) \ (args.skipped \union buildFailed)
       /\ \A n \in Slots : slot[n] = Built(n)

TestInv ==
  /\ pc \in {"serial", "running"} \union Pool =>
       /\ runnable = Slots \ (args.skipped \union buildFailed)
       /\ \A n \in Slots \ runnable : slot[n] = Built(n)
  /\ pc \in {"serial", "running"} =>
       /\ \A n \in todo : slot[n] = IF n = cur THEN "testing" ELSE "built"
       /\ \A n \in runnable \ todo : slot[n] = result[n] /\ result[n] # "none"
  /\ pc = "submit" => \A n \in todo : slot[n] = "built"
  /\ \A n \in Slots : matrix = "running" =>
       /\ worker[n] \in {"queued", "waiting", "report"} => slot[n] = "built"
       /\ worker[n] = "running" => slot[n] = "testing"
  /\ \A n \in Slots : worker[n] = "done" => slot[n] = result[n] /\ result[n] # "none"

\* A code that the slots have earned is the last thing that happens to them.
Quiet == writer \notin Slots /\ \A n \in Slots : worker[n] \in {"none", "done"}
Earned(c) ==
  /\ c = 0 => \A n \in Names : slot[n] \in
                {"skipped", IF args.buildOnly THEN "built" ELSE "passed"}
  /\ c = 1 => \E n \in Names : slot[n] \in {"failed", "build_failed"}
CodeInv ==
  /\ pc \notin Teardown \union {"finish", "finishing", "lastWords", "cleanup", "exited"} => code = 2
  /\ code \in {0, 1} => Quiet /\ Earned(code)
  /\ exitCode = NoCode => matrix = "running" /\ disk.code = NoCode
  /\ exitCode # NoCode =>
       /\ exitCode = code /\ matrix = StateOf(code)
       /\ pc \in {"finishing", "lastWords", "cleanup", "exited"}
  /\ disk.code \in {exitCode, NoCode}
  /\ disk.code \in {0, 1} => disk.slots = slot

Inv == TypeInv /\ WriterInv /\ LoopInv /\ MishapInv /\ BuildInv /\ TestInv /\ CodeInv

\* The report and the exit status, as long as no slot runs on past the walk.
Open == {"pending", "building", "testing"}
Unmatched == late \/ afterwards \/ raised = "other"
EndInv ==
  /\ pc \in Walk \union Pool \union {"start"} => raised = "none"
  /\ pc \in Teardown \union {"finish", "finishing"} =>
       Unmatched \/ StatusOf(raised) = code
  /\ pc \in {"lastWords", "cleanup"} /\ disk.matrix # "running" =>
       Unmatched \/ StatusOf(raised) = code
  /\ pc \notin {"lastWords", "cleanup", "exited"} => disk.matrix = "running"
  /\ disk.matrix # "running" => exitCode # NoCode /\ disk.code = code
  /\ pc = "exited" /\ disk.matrix # "running" => Unmatched \/ disk.code = status
  /\ matrix # "running" => \A n \in Names : slot[n] \notin Open
  /\ disk.matrix # "running" => \A n \in Names : disk.slots[n] \notin Open

-----------------------------------------------------------------------------
(* Names                                                                   *)

\* The threads and the slots are told apart.
LEMMA Apart ==
  /\ Main \notin Slots /\ Nobody \notin Slots /\ Main # Nobody
  /\ Slots \subseteq Names /\ NoCode \notin ExitCodes
  /\ MaxMishaps \in Nat /\ MaxJobs \in Nat
  BY NamesAssumption, BoundsAssumption

-----------------------------------------------------------------------------
(* Steps: each action keeps each part of the invariant                     *)

LEMMA EnterTryStep ==
  ASSUME Inv, EnterTry
  PROVE  Inv'
  <1>1. TypeInv'
    BY DEF Inv, EnterTry, Goto, reportVars, mainVars, mishapVars, Walk, TypeInv, PCs
  <1>2. WriterInv'
    BY DEF Inv, EnterTry, Goto, reportVars, Walk, WriterInv
  <1>3. LoopInv'
    BY DEF Inv, EnterTry, Goto, mainVars, Pool, LoopInv
  <1>4. MishapInv'
    BY DEF Inv, EnterTry, Goto, mainVars, mishapVars, Pool, Shutdown, Teardown,
           MishapInv, Mishaps, Late, Afterwards
  <1>5. BuildInv'
    BY DEF Inv, EnterTry, Goto, reportVars, mainVars, Pool, BuildInv
  <1>6. TestInv'
    BY DEF Inv, EnterTry, Goto, reportVars, Pool, TestInv
  <1>7. CodeInv'
    BY DEF Inv, EnterTry, Goto, reportVars, mainVars, Teardown, CodeInv
  <1>8. QED
    BY <1>1, <1>2, <1>3, <1>4, <1>5, <1>6, <1>7 DEF Inv

LEMMA SkipUnavailableStep ==
  ASSUME Inv, SkipUnavailable
  PROVE  Inv'
  <1>1. TypeInv'
    BY Apart DEF Inv, SkipUnavailable, Report, BeginUpdate, reportVars, mishapVars,
                 Walk, TypeInv, PCs, SlotStates
  <1>2. WriterInv'
    BY Apart DEF Inv, SkipUnavailable, Report, BeginUpdate, reportVars, Walk, WriterInv
  <1>3. LoopInv'
    BY DEF Inv, SkipUnavailable, Walk, Pool, LoopInv
  <1>4. MishapInv'
    BY DEF Inv, SkipUnavailable, mishapVars, Pool, Shutdown, Teardown, MishapInv,
           Mishaps, Late, Afterwards
  <1>5. BuildInv'
    <2>1. CASE pc' = "build" /\ UNCHANGED reportVars
      BY <2>1, Apart DEF Inv, SkipUnavailable, reportVars, BuildInv, TypeInv, LoopInv,
                         Args, Walk, Pool
    <2>2. CASE UNCHANGED pc
      BY <2>2, Apart DEF Inv, SkipUnavailable, Report, BeginUpdate, BuildInv, TypeInv,
                         LoopInv, Walk, Pool
    <2>3. QED
      BY <2>1, <2>2 DEF SkipUnavailable
  <1>6. TestInv'
    BY DEF Inv, SkipUnavailable, Walk, Pool, TestInv, LoopInv
  <1>7. CodeInv'
    BY Apart DEF Inv, SkipUnavailable, Report, BeginUpdate, reportVars, Teardown,
                 CodeInv, ExitCodes
  <1>8. QED
    BY <1>1, <1>2, <1>3, <1>4, <1>5, <1>6, <1>7 DEF Inv

LEMMA BuildNextStep ==
  ASSUME Inv, BuildNext
  PROVE  Inv'
  <1>1. TypeInv'
    BY DEF Inv, BuildNext, Report, BeginUpdate, mishapVars, Walk, TypeInv, PCs,
           SlotStates, Unfinished, LoopInv
  <1>2. WriterInv'
    BY Apart DEF Inv, BuildNext, Report, BeginUpdate, Walk, WriterInv
  <1>3. LoopInv'
    BY DEF Inv, BuildNext, Walk, Pool, LoopInv
  <1>4. MishapInv'
    BY DEF Inv, BuildNext, mishapVars, Pool, Shutdown, Teardown, MishapInv, Mishaps,
           Late, Afterwards
  <1>5. BuildInv'
    BY Apart DEF Inv, BuildNext, Report, BeginUpdate, Walk, BuildInv, Built, TypeInv,
                 LoopInv
  <1>6. TestInv'
    BY DEF Inv, BuildNext, Walk, Pool, TestInv, LoopInv
  <1>7. CodeInv'
    BY Apart DEF Inv, BuildNext, Report, BeginUpdate, Teardown, CodeInv, ExitCodes
  <1>8. QED
    BY <1>1, <1>2, <1>3, <1>4, <1>5, <1>6, <1>7 DEF Inv

LEMMA BuildEndsStep ==
  ASSUME Inv, BuildEnds
  PROVE  Inv'
  <1>1. TypeInv'
    BY DEF Inv, BuildEnds, Goto, Report, BeginUpdate, mishapVars, Walk, TypeInv, PCs,
           SlotStates, Unfinished, LoopInv
  <1>2. WriterInv'
    BY Apart DEF Inv, BuildEnds, Goto, Report, BeginUpdate, Walk, WriterInv
  <1>3. LoopInv'
    BY DEF Inv, BuildEnds, Goto, Walk, Pool, LoopInv
  <1>4. MishapInv'
    BY DEF Inv, BuildEnds, Goto, mishapVars, Pool, Shutdown, Teardown, MishapInv,
           Mishaps, Late, Afterwards
  <1>5. BuildInv'
    <2>1. /\ pc = "building" /\ pc' = "build" /\ todo' = todo \ {cur} /\ cur' = Nobody
          /\ cur \in todo /\ cur \in Slots /\ todo \subseteq Slots
          /\ slot \in [Names -> SlotStates] /\ UNCHANGED <<args, runnable>>
          /\ cur \notin args.skipped /\ cur \notin buildFailed /\ runnable = {}
          /\ Nobody \notin args.skipped
      BY Apart DEF Inv, BuildEnds, Goto, TypeInv, LoopInv, BuildInv, Args
    <2>2. /\ \A n \in Names \ Slots : slot[n] = "skipped"
          /\ \A n \in Slots \ todo : slot[n] = Built(n)
          /\ \A n \in todo \ {cur} : slot[n] = "pending"
          /\ buildFailed \intersect args.skipped = {} /\ buildFailed \intersect todo = {}
      BY <2>1 DEF Inv, BuildInv, Walk
    <2>3. \/ slot' = [slot EXCEPT ![cur] = "built"] /\ buildFailed' = buildFailed
          \/ slot' = [slot EXCEPT ![cur] = "build_failed"] /\ buildFailed' = buildFailed \union {cur}
      BY DEF BuildEnds, Report, BeginUpdate
    <2>4. \A n \in Slots \ todo' : slot'[n] = Built(n)'
      BY <2>1, <2>2, <2>3, Apart DEF Built
    <2>5. \A n \in todo' : slot'[n] = "pending" /\ n # Nobody
      BY <2>1, <2>2, <2>3, Apart
    <2>6. \A n \in Names \ Slots : slot'[n] = "skipped"
      BY <2>1, <2>2, <2>3, Apart
    <2>7. QED
      BY <2>1, <2>2, <2>3, <2>4, <2>5, <2>6 DEF BuildInv, Walk, Pool
  <1>6. TestInv'
    BY DEF Inv, BuildEnds, Goto, Walk, Pool, TestInv, LoopInv
  <1>7. CodeInv'
    BY Apart DEF Inv, BuildEnds, Goto, Report, BeginUpdate, Teardown, CodeInv, ExitCodes
  <1>8. QED
    BY <1>1, <1>2, <1>3, <1>4, <1>5, <1>6, <1>7 DEF Inv

LEMMA BuildsDoneStep ==
  ASSUME Inv, BuildsDone
  PROVE  Inv'
  <1>1. TypeInv'
    BY Apart DEF Inv, BuildsDone, reportVars, mishapVars, Walk, Teardown, TypeInv, PCs,
                 ExitCodes
  <1>2. WriterInv'
    BY DEF Inv, BuildsDone, Ready, reportVars, WriterInv
  <1>3. LoopInv'
    BY DEF Inv, BuildsDone, Walk, Pool, LoopInv
  <1>4. MishapInv'
    BY DEF Inv, BuildsDone, mishapVars, Walk, Shutdown, MishapInv, Mishaps, PoolIdle,
           LoopInv
  <1>5. BuildInv'
    BY DEF Inv, BuildsDone, reportVars, Walk, BuildInv, Built
  <1>6. TestInv'
    BY DEF Inv, BuildsDone, reportVars, Pool, TestInv
  <1>7. CodeInv'
    BY Apart DEF Inv, BuildsDone, reportVars, Walk, Teardown, CodeInv, Quiet, Earned,
                 TypeInv, WriterInv, LoopInv, BuildInv, Built
  <1>8. QED
    BY <1>1, <1>2, <1>3, <1>4, <1>5, <1>6, <1>7 DEF Inv

LEMMA PlanNextStep ==
  ASSUME Inv, PlanNext
  PROVE  Inv'
  <1>1. TypeInv'
    BY DEF Inv, PlanNext, Report, BeginUpdate, reportVars, mishapVars, TypeInv,
           SlotStates, LoopInv
  <1>2. WriterInv'
    BY Apart DEF Inv, PlanNext, Report, BeginUpdate, reportVars, Walk, WriterInv
  <1>3. LoopInv'
    BY DEF Inv, PlanNext, LoopInv
  <1>4. MishapInv'
    BY DEF Inv, PlanNext, mishapVars, Teardown, MishapInv, Mishaps, Late, Afterwards
  <1>5. BuildInv'
    BY DEF Inv, PlanNext, Report, BeginUpdate, reportVars, BuildInv, Built, TypeInv,
           LoopInv
  <1>6. TestInv'
    BY DEF Inv, PlanNext, Walk, Pool, TestInv, LoopInv
  <1>7. CodeInv'
    BY DEF Inv, PlanNext, Report, BeginUpdate, reportVars, Walk, Teardown, CodeInv,
           TypeInv, BuildInv, Built
  <1>8. QED
    BY <1>1, <1>2, <1>3, <1>4, <1>5, <1>6, <1>7 DEF Inv

LEMMA PlanDoneStep ==
  ASSUME Inv, PlanDone
  PROVE  Inv'
  <1>1. TypeInv'
    BY Apart DEF Inv, PlanDone, reportVars, mishapVars, Walk, Pool, TypeInv, PCs
  <1>2. WriterInv'
    BY DEF Inv, PlanDone, Ready, reportVars, WriterInv
  <1>3. LoopInv'
    BY DEF Inv, PlanDone, Walk, LoopInv, BuildInv
  <1>4. MishapInv'
    BY DEF Inv, PlanDone, mishapVars, Pool, Shutdown, Teardown, MishapInv, Mishaps, Late, Afterwards
  <1>5. BuildInv'
    BY DEF Inv, PlanDone, reportVars, Walk, BuildInv
  <1>6. TestInv'
    BY DEF Inv, PlanDone, Ready, reportVars, Walk, TestInv, Built, TypeInv, LoopInv,
           BuildInv, WriterInv
  <1>7. CodeInv'
    BY DEF Inv, PlanDone, reportVars, Teardown, CodeInv
  <1>8. QED
    BY <1>1, <1>2, <1>3, <1>4, <1>5, <1>6, <1>7 DEF Inv

LEMMA SerialStartStep ==
  ASSUME Inv, SerialStart
  PROVE  Inv'
  <1>1. TypeInv'
    BY DEF Inv, SerialStart, Goto, Report, BeginUpdate, mishapVars, Walk, TypeInv, PCs,
           SlotStates, Unfinished, LoopInv
  <1>2. WriterInv'
    BY Apart DEF Inv, SerialStart, Goto, Report, BeginUpdate, Walk, WriterInv
  <1>3. LoopInv'
    BY DEF Inv, SerialStart, Goto, Walk, LoopInv
  <1>4. MishapInv'
    BY DEF Inv, SerialStart, Goto, mishapVars, Pool, Shutdown, Teardown, MishapInv,
           Mishaps, Late, Afterwards
  <1>5. BuildInv'
    BY DEF Inv, SerialStart, Goto, Report, BeginUpdate, Walk, BuildInv, TypeInv, LoopInv
  <1>6. TestInv'
    BY DEF Inv, SerialStart, Goto, Report, BeginUpdate, Walk, TestInv, Built, TypeInv,
           LoopInv, WriterInv
  <1>7. CodeInv'
    BY Apart DEF Inv, SerialStart, Goto, Report, BeginUpdate, Teardown, CodeInv,
                 ExitCodes
  <1>8. QED
    BY <1>1, <1>2, <1>3, <1>4, <1>5, <1>6, <1>7 DEF Inv

LEMMA SerialEndsStep ==
  ASSUME Inv, SerialEnds
  PROVE  Inv'
  <1>1. TypeInv'
    BY DEF Inv, SerialEnds, Goto, Report, BeginUpdate, mishapVars, Walk, TypeInv, PCs,
           SlotStates, LoopInv
  <1>2. WriterInv'
    BY Apart DEF Inv, SerialEnds, Goto, Report, BeginUpdate, Walk, WriterInv
  <1>3. LoopInv'
    BY DEF Inv, SerialEnds, Goto, Walk, LoopInv
  <1>4. MishapInv'
    BY DEF Inv, SerialEnds, Goto, mishapVars, Pool, Shutdown, Teardown, MishapInv,
           Mishaps, Late, Afterwards
  <1>5. BuildInv'
    BY DEF Inv, SerialEnds, Goto, Report, BeginUpdate, Walk, BuildInv, TypeInv, LoopInv
  <1>6. TestInv'
    BY DEF Inv, SerialEnds, Goto, Report, BeginUpdate, Walk, TestInv, Built, TypeInv,
           LoopInv, WriterInv
  <1>7. CodeInv'
    BY Apart DEF Inv, SerialEnds, Goto, Report, BeginUpdate, Teardown, CodeInv,
                 ExitCodes
  <1>8. QED
    BY <1>1, <1>2, <1>3, <1>4, <1>5, <1>6, <1>7 DEF Inv

LEMMA SerialDoneStep ==
  ASSUME Inv, SerialDone
  PROVE  Inv'
  <1>1. TypeInv'
    BY DEF Inv, SerialDone, Goto, WalkCode, reportVars, mishapVars, Teardown, TypeInv,
           PCs, ExitCodes
  <1>2. WriterInv'
    BY DEF Inv, SerialDone, Ready, reportVars, WriterInv
  <1>3. LoopInv'
    BY DEF Inv, SerialDone, Goto, Walk, LoopInv
  <1>4. MishapInv'
    BY DEF Inv, SerialDone, Goto, mishapVars, Walk, Shutdown, MishapInv, Mishaps,
           PoolIdle, LoopInv
  <1>5. BuildInv'
    BY DEF Inv, SerialDone, Goto, reportVars, Walk, BuildInv
  <1>6. TestInv'
    BY DEF Inv, SerialDone, Goto, reportVars, Pool, TestInv
  <1>7. CodeInv'
    <2>1. pc = "serial" /\ pc' = "sweep" /\ code' = WalkCode
      BY DEF SerialDone, Goto
    <2>2. UNCHANGED <<reportVars, args, worker, buildFailed, runnable, result>>
      BY DEF SerialDone
    <2>3. \A n \in Slots : worker[n] \in {"none", "done"} /\ writer # n
      BY DEF Inv, SerialDone, Goto, Ready, LoopInv, WriterInv, Walk, TypeInv
    <2>4. \A n \in runnable : slot[n] = result[n] /\ result[n] \in {"passed", "failed"}
      BY Apart DEF Inv, SerialDone, Goto, TestInv, LoopInv, TypeInv
    <2>5. /\ runnable = Slots \ (args.skipped \union buildFailed)
          /\ \A n \in Slots \ runnable : slot[n] = Built(n)
          /\ \A n \in Names \ Slots : slot[n] = "skipped"
          /\ buildFailed \subseteq Slots /\ buildFailed \intersect args.skipped = {}
          /\ ~args.buildOnly
      BY <2>1 DEF Inv, TestInv, BuildInv, LoopInv, TypeInv, Walk, Pool
    <2>6. Earned(WalkCode)
      <3>1. CASE WalkCode = 0
        BY <3>1, <2>4, <2>5 DEF WalkCode, Earned, Built
      <3>2. CASE WalkCode = 1
        BY <3>2, <2>4, <2>5, Apart DEF WalkCode, Earned, Built
      <3>3. QED
        BY <3>1, <3>2 DEF WalkCode
    <2>7. Earned(code)'
      BY <2>6, <2>1, <2>2 DEF Earned, reportVars
    <2>8. Quiet'
      BY <2>2, <2>3 DEF Quiet, reportVars
    <2>9. QED
      BY <2>1, <2>2, <2>7, <2>8, Apart DEF Inv, CodeInv, reportVars, Teardown, ExitCodes
  <1>8. QED
    BY <1>1, <1>2, <1>3, <1>4, <1>5, <1>6, <1>7 DEF Inv

LEMMA SubmitStep ==
  ASSUME Inv, Submit
  PROVE  Inv'
  <1>1. TypeInv'
    BY DEF Inv, Submit, reportVars, mishapVars, Pool, TypeInv, PCs, WorkerStates
  <1>2. WriterInv'
    BY DEF Inv, Submit, reportVars, Walk, WriterInv, TypeInv, LoopInv
  <1>3. LoopInv'
    BY DEF Inv, Submit, Walk, Pool, LoopInv, TypeInv
  <1>4. MishapInv'
    BY DEF Inv, Submit, mishapVars, Pool, Shutdown, Teardown, MishapInv, Mishaps, Late, Afterwards,
           TypeInv
  <1>5. BuildInv'
    BY DEF Inv, Submit, reportVars, Pool, BuildInv
  <1>6. TestInv'
    BY DEF Inv, Submit, reportVars, Pool, TestInv, Built, TypeInv
  <1>7. CodeInv'
    BY DEF Inv, Submit, reportVars, Teardown, CodeInv
  <1>8. QED
    BY <1>1, <1>2, <1>3, <1>4, <1>5, <1>6, <1>7 DEF Inv

LEMMA CollectStep ==
  ASSUME Inv, Collect
  PROVE  Inv'
  <1>1. TypeInv'
    BY DEF Inv, Collect, reportVars, mishapVars, Shutdown, TypeInv, PCs
  <1>2. WriterInv'
    BY DEF Inv, Collect, reportVars, Walk, WriterInv
  <1>3. LoopInv'
    BY DEF Inv, Collect, Ended, reportVars, Walk, Pool, LoopInv
  <1>4. MishapInv'
    BY DEF Inv, Collect, Ended, mishapVars, Teardown, MishapInv, Mishaps, Late, Afterwards, Ended,
           TypeInv
  <1>5. BuildInv'
    BY DEF Inv, Collect, reportVars, Pool, BuildInv
  <1>6. TestInv'
    BY DEF Inv, Collect, reportVars, Pool, TestInv, Built
  <1>7. CodeInv'
    BY DEF Inv, Collect, reportVars, Teardown, CodeInv
  <1>8. QED
    BY <1>1, <1>2, <1>3, <1>4, <1>5, <1>6, <1>7 DEF Inv

LEMMA CollectDoneStep ==
  ASSUME Inv, CollectDone
  PROVE  Inv'
  <1>1. TypeInv'
    BY DEF Inv, CollectDone, Goto, WalkCode, reportVars, mishapVars, Teardown, TypeInv,
           PCs, ExitCodes
  <1>2. WriterInv'
    BY DEF Inv, CollectDone, Goto, reportVars, Walk, WriterInv
  <1>3. LoopInv'
    BY DEF Inv, CollectDone, Goto, Walk, Pool, LoopInv
  <1>4. MishapInv'
    BY DEF Inv, CollectDone, Goto, reportVars, mishapVars, Shutdown, MishapInv, Mishaps,
           PoolIdle, Ended, LoopInv
  <1>5. BuildInv'
    BY DEF Inv, CollectDone, Goto, reportVars, Pool, BuildInv
  <1>6. TestInv'
    BY DEF Inv, CollectDone, Goto, reportVars, Pool, TestInv
  <1>7. CodeInv'
    <2>1. pc = "collect" /\ pc' = "sweep" /\ code' = WalkCode
      BY DEF CollectDone, Goto
    <2>2. UNCHANGED <<reportVars, args, worker, buildFailed, runnable, result>>
      BY DEF CollectDone
    <2>3. \A n \in Slots : worker[n] \in {"none", "done"} /\ writer # n
      BY DEF Inv, CollectDone, Goto, Ready, LoopInv, WriterInv, Walk, TypeInv
    <2>4. \A n \in runnable : slot[n] = result[n] /\ result[n] \in {"passed", "failed"}
      BY Apart DEF Inv, CollectDone, Goto, TestInv, LoopInv, TypeInv
    <2>5. /\ runnable = Slots \ (args.skipped \union buildFailed)
          /\ \A n \in Slots \ runnable : slot[n] = Built(n)
          /\ \A n \in Names \ Slots : slot[n] = "skipped"
          /\ buildFailed \subseteq Slots /\ buildFailed \intersect args.skipped = {}
          /\ ~args.buildOnly
      BY <2>1 DEF Inv, TestInv, BuildInv, LoopInv, TypeInv, Walk, Pool
    <2>6. Earned(WalkCode)
      <3>1. CASE WalkCode = 0
        BY <3>1, <2>4, <2>5 DEF WalkCode, Earned, Built
      <3>2. CASE WalkCode = 1
        BY <3>2, <2>4, <2>5, Apart DEF WalkCode, Earned, Built
      <3>3. QED
        BY <3>1, <3>2 DEF WalkCode
    <2>7. Earned(code)'
      BY <2>6, <2>1, <2>2 DEF Earned, reportVars
    <2>8. Quiet'
      BY <2>2, <2>3 DEF Quiet, reportVars
    <2>9. QED
      BY <2>1, <2>2, <2>7, <2>8, Apart DEF Inv, CodeInv, reportVars, Teardown, ExitCodes
  <1>8. QED
    BY <1>1, <1>2, <1>3, <1>4, <1>5, <1>6, <1>7 DEF Inv

LEMMA CloseJobserverStep ==
  ASSUME Inv, CloseJobserver
  PROVE  Inv'
  <1>1. TypeInv'
    BY DEF Inv, CloseJobserver, Goto, reportVars, mishapVars, Shutdown, TypeInv, PCs
  <1>2. WriterInv'
    BY DEF Inv, CloseJobserver, Goto, reportVars, Walk, WriterInv
  <1>3. LoopInv'
    BY DEF Inv, CloseJobserver, Goto, Walk, Pool, LoopInv
  <1>4. MishapInv'
    BY DEF Inv, CloseJobserver, Goto, mishapVars, Shutdown, Teardown, MishapInv,
           Mishaps, Late, Afterwards
  <1>5. BuildInv'
    BY DEF Inv, CloseJobserver, Goto, Walk, Pool, BuildInv
  <1>6. TestInv'
    BY DEF Inv, CloseJobserver, Goto, reportVars, Pool, TestInv
  <1>7. CodeInv'
    BY DEF Inv, CloseJobserver, Goto, reportVars, Teardown, CodeInv
  <1>8. QED
    BY <1>1, <1>2, <1>3, <1>4, <1>5, <1>6, <1>7 DEF Inv

LEMMA CancelQueuedStep ==
  ASSUME Inv, CancelQueued
  PROVE  Inv'
  <1>1. TypeInv'
    BY DEF Inv, CancelQueued, Goto, reportVars, mishapVars, Shutdown, TypeInv, PCs,
           WorkerStates
  <1>2. WriterInv'
    BY DEF Inv, CancelQueued, Goto, reportVars, Walk, WriterInv
  <1>3. LoopInv'
    BY DEF Inv, CancelQueued, Goto, Walk, Pool, LoopInv
  <1>4. MishapInv'
    BY DEF Inv, CancelQueued, Goto, mishapVars, Shutdown, Teardown, MishapInv, Mishaps,
           Late, Afterwards
  <1>5. BuildInv'
    BY DEF Inv, CancelQueued, Goto, Walk, Pool, BuildInv
  <1>6. TestInv'
    BY DEF Inv, CancelQueued, Goto, reportVars, Pool, TestInv
  <1>7. CodeInv'
    BY DEF Inv, CancelQueued, Goto, reportVars, Teardown, CodeInv
  <1>8. QED
    BY <1>1, <1>2, <1>3, <1>4, <1>5, <1>6, <1>7 DEF Inv

LEMMA JoinStep ==
  ASSUME Inv, Join
  PROVE  Inv'
  <1>1. TypeInv'
    BY DEF Inv, Join, reportVars, mainVars, mishapVars, TypeInv, PCs
  <1>2. WriterInv'
    BY DEF Inv, Join, reportVars, Walk, WriterInv
  <1>3. LoopInv'
    BY DEF Inv, Join, mainVars, Walk, Pool, LoopInv
  <1>4. MishapInv'
    BY DEF Inv, Join, reportVars, mainVars, mishapVars, Shutdown, MishapInv, Mishaps,
           PoolIdle, Ended
  <1>5. BuildInv'
    BY DEF Inv, Join, mainVars, Walk, Pool, BuildInv
  <1>6. TestInv'
    BY DEF Inv, Join, reportVars, Pool, TestInv
  <1>7. CodeInv'
    BY DEF Inv, Join, reportVars, mainVars, Teardown, CodeInv
  <1>8. QED
    BY <1>1, <1>2, <1>3, <1>4, <1>5, <1>6, <1>7 DEF Inv

LEMMA HandleStep ==
  ASSUME Inv, Handle
  PROVE  Inv'
  <1>1. TypeInv'
    BY DEF Inv, Handle, Goto, reportVars, mishapVars, Teardown, TypeInv, PCs, ExitCodes
  <1>2. WriterInv'
    BY DEF Inv, Handle, Goto, reportVars, Walk, WriterInv
  <1>3. LoopInv'
    BY DEF Inv, Handle, Goto, Walk, Pool, LoopInv
  <1>4. MishapInv'
    BY DEF Inv, Handle, Goto, reportVars, mishapVars, Pool, Shutdown, MishapInv,
           Mishaps, Late, Afterwards, PoolIdle, Ended
  <1>5. BuildInv'
    BY DEF Inv, Handle, Goto, Walk, Pool, BuildInv
  <1>6. TestInv'
    BY DEF Inv, Handle, Goto, reportVars, Pool, TestInv
  <1>7. CodeInv'
    BY DEF Inv, Handle, Goto, reportVars, Teardown, CodeInv
  <1>8. QED
    BY <1>1, <1>2, <1>3, <1>4, <1>5, <1>6, <1>7 DEF Inv

LEMMA KeepDanglingStep ==
  ASSUME Inv, KeepDangling
  PROVE  Inv'
  <1>1. TypeInv'
    BY DEF Inv, KeepDangling, Goto, reportVars, mainVars, mishapVars, TypeInv, PCs
  <1>2. WriterInv'
    BY DEF Inv, KeepDangling, Goto, reportVars, Walk, WriterInv
  <1>3. LoopInv'
    BY DEF Inv, KeepDangling, Goto, mainVars, Walk, Pool, LoopInv
  <1>4. MishapInv'
    BY DEF Inv, KeepDangling, Goto, reportVars, mainVars, mishapVars, Pool, Shutdown,
           Teardown, MishapInv, Mishaps, Late, Afterwards, PoolIdle, Ended
  <1>5. BuildInv'
    BY DEF Inv, KeepDangling, Goto, mainVars, Walk, Pool, BuildInv
  <1>6. TestInv'
    BY DEF Inv, KeepDangling, Goto, reportVars, Pool, TestInv
  <1>7. CodeInv'
    BY DEF Inv, KeepDangling, Goto, reportVars, mainVars, CodeInv, Quiet, Earned
  <1>8. QED
    BY <1>1, <1>2, <1>3, <1>4, <1>5, <1>6, <1>7 DEF Inv

LEMMA SweepContainersStep ==
  ASSUME Inv, SweepContainers
  PROVE  Inv'
  <1>1. TypeInv'
    BY DEF Inv, SweepContainers, Goto, reportVars, mainVars, mishapVars, Teardown,
           TypeInv, PCs
  <1>2. WriterInv'
    BY DEF Inv, SweepContainers, Goto, reportVars, Walk, WriterInv
  <1>3. LoopInv'
    BY DEF Inv, SweepContainers, Goto, mainVars, Walk, Pool, LoopInv
  <1>4. MishapInv'
    BY DEF Inv, SweepContainers, Goto, reportVars, mainVars, mishapVars, Pool, Shutdown,
           Teardown, MishapInv, Mishaps, Late, Afterwards, PoolIdle, Ended
  <1>5. BuildInv'
    BY DEF Inv, SweepContainers, Goto, mainVars, Walk, Pool, BuildInv
  <1>6. TestInv'
    BY DEF Inv, SweepContainers, Goto, reportVars, Pool, TestInv
  <1>7. CodeInv'
    BY DEF Inv, SweepContainers, Goto, reportVars, mainVars, Teardown, CodeInv, Quiet,
           Earned
  <1>8. QED
    BY <1>1, <1>2, <1>3, <1>4, <1>5, <1>6, <1>7 DEF Inv

LEMMA PruneDanglingStep ==
  ASSUME Inv, PruneDangling
  PROVE  Inv'
  <1>1. TypeInv'
    BY DEF Inv, PruneDangling, Goto, reportVars, mainVars, mishapVars, Teardown,
           TypeInv, PCs
  <1>2. WriterInv'
    BY DEF Inv, PruneDangling, Goto, reportVars, Walk, WriterInv
  <1>3. LoopInv'
    BY DEF Inv, PruneDangling, Goto, mainVars, Walk, Pool, LoopInv
  <1>4. MishapInv'
    BY DEF Inv, PruneDangling, Goto, reportVars, mainVars, mishapVars, Pool, Shutdown,
           Teardown, MishapInv, Mishaps, Late, Afterwards, PoolIdle, Ended
  <1>5. BuildInv'
    BY DEF Inv, PruneDangling, Goto, mainVars, Walk, Pool, BuildInv
  <1>6. TestInv'
    BY DEF Inv, PruneDangling, Goto, reportVars, Pool, TestInv
  <1>7. CodeInv'
    BY DEF Inv, PruneDangling, Goto, reportVars, mainVars, Teardown, CodeInv, Quiet,
           Earned
  <1>8. QED
    BY <1>1, <1>2, <1>3, <1>4, <1>5, <1>6, <1>7 DEF Inv

LEMMA ExternalLeftoversStep ==
  ASSUME Inv, ExternalLeftovers
  PROVE  Inv'
  <1>1. TypeInv'
    BY DEF Inv, ExternalLeftovers, Goto, reportVars, mainVars, mishapVars, TypeInv, PCs
  <1>2. WriterInv'
    BY DEF Inv, ExternalLeftovers, Goto, reportVars, Walk, WriterInv
  <1>3. LoopInv'
    BY DEF Inv, ExternalLeftovers, Goto, mainVars, Walk, Pool, LoopInv
  <1>4. MishapInv'
    BY DEF Inv, ExternalLeftovers, Goto, reportVars, mainVars, mishapVars, Pool,
           Shutdown, Teardown, MishapInv, Mishaps, Late, Afterwards, PoolIdle, Ended
  <1>5. BuildInv'
    BY DEF Inv, ExternalLeftovers, Goto, mainVars, Walk, Pool, BuildInv
  <1>6. TestInv'
    BY DEF Inv, ExternalLeftovers, Goto, reportVars, Pool, TestInv
  <1>7. CodeInv'
    BY DEF Inv, ExternalLeftovers, Goto, reportVars, mainVars, CodeInv, Quiet, Earned
  <1>8. QED
    BY <1>1, <1>2, <1>3, <1>4, <1>5, <1>6, <1>7 DEF Inv

LEMMA FinishStep ==
  ASSUME Inv, Finish
  PROVE  Inv'
  <1>1. TypeInv'
    BY DEF Inv, Finish, Goto, BeginFinish, mainVars, mishapVars, TypeInv, PCs,
           SlotStates, MatrixStates, StateOf
  <1>2. WriterInv'
    BY Apart DEF Inv, Finish, Goto, BeginFinish, WriterInv
  <1>3. LoopInv'
    BY DEF Inv, Finish, Goto, mainVars, Walk, Pool, LoopInv
  <1>4. MishapInv'
    BY Apart DEF Inv, Finish, Goto, BeginFinish, mainVars, mishapVars, Pool, Shutdown,
                 MishapInv, Mishaps, Late, Afterwards, PoolIdle, Ended
  <1>5. BuildInv'
    BY DEF Inv, Finish, Goto, mainVars, Walk, Pool, BuildInv
  <1>6. TestInv'
    BY Apart DEF Inv, Finish, Goto, BeginFinish, Pool, TestInv, TypeInv, Unfinished,
                 StateOf
  <1>7. CodeInv'
    BY Apart DEF Inv, Finish, Goto, BeginFinish, mainVars, CodeInv, Quiet, Earned,
                 TypeInv, Unfinished, ExitCodes
  <1>8. QED
    BY <1>1, <1>2, <1>3, <1>4, <1>5, <1>6, <1>7 DEF Inv

LEMMA MainPublishesStep ==
  ASSUME Inv, MainPublishes
  PROVE  Inv'
  <1>1. TypeInv'
    BY DEF Inv, MainPublishes, Publish, mainVars, mishapVars, TypeInv, PCs, ExitCodes, Snapshot,
           LoopInv, Afterwards
  <1>2. WriterInv'
    BY Apart DEF Inv, MainPublishes, Publish, WriterInv
  <1>3. LoopInv'
    BY DEF Inv, MainPublishes, Publish, mainVars, Walk, Pool, LoopInv, WriterInv
  <1>4. MishapInv'
    BY Apart DEF Inv, MainPublishes, Publish, mainVars, mishapVars, Pool, Shutdown, MishapInv,
                 Mishaps, Late, Afterwards, PoolIdle, Ended
  <1>5. BuildInv'
    BY DEF Inv, MainPublishes, Publish, mainVars, Walk, Pool, BuildInv, Built
  <1>6. TestInv'
    BY DEF Inv, MainPublishes, Publish, mainVars, Pool, TestInv, Built
  <1>7. CodeInv'
    BY Apart DEF Inv, MainPublishes, Publish, mainVars, CodeInv, Quiet, Earned
  <1>8. QED
    BY <1>1, <1>2, <1>3, <1>4, <1>5, <1>6, <1>7 DEF Inv

LEMMA LastWordsStep ==
  ASSUME Inv, LastWords
  PROVE  Inv'
  <1>1. TypeInv'
    BY DEF Inv, LastWords, Goto, reportVars, mainVars, mishapVars, Afterwards, TypeInv,
           PCs
  <1>2. WriterInv'
    BY DEF Inv, LastWords, Goto, reportVars, Walk, WriterInv
  <1>3. LoopInv'
    BY DEF Inv, LastWords, Goto, mainVars, Walk, Pool, LoopInv
  <1>4. MishapInv'
    BY DEF Inv, LastWords, Goto, reportVars, mainVars, mishapVars, Pool, Shutdown,
           Afterwards, MishapInv, Mishaps, Late, Afterwards, PoolIdle, Ended
  <1>5. BuildInv'
    BY DEF Inv, LastWords, Goto, mainVars, Walk, Pool, BuildInv
  <1>6. TestInv'
    BY DEF Inv, LastWords, Goto, reportVars, Pool, TestInv
  <1>7. CodeInv'
    BY DEF Inv, LastWords, Goto, reportVars, mainVars, CodeInv, Quiet, Earned
  <1>8. QED
    BY <1>1, <1>2, <1>3, <1>4, <1>5, <1>6, <1>7 DEF Inv

LEMMA CleanupStep ==
  ASSUME Inv, Cleanup
  PROVE  Inv'
  <1>1. TypeInv'
    BY DEF Inv, Cleanup, Goto, reportVars, mishapVars, TypeInv, PCs, ExitCodes, StatusOf
  <1>2. WriterInv'
    BY DEF Inv, Cleanup, Goto, reportVars, Walk, WriterInv
  <1>3. LoopInv'
    BY DEF Inv, Cleanup, Goto, Walk, Pool, LoopInv
  <1>4. MishapInv'
    BY DEF Inv, Cleanup, Goto, reportVars, mishapVars, Pool, Shutdown, Afterwards,
           MishapInv, Mishaps, Late, Afterwards, PoolIdle, Ended
  <1>5. BuildInv'
    BY DEF Inv, Cleanup, Goto, Walk, Pool, BuildInv
  <1>6. TestInv'
    BY DEF Inv, Cleanup, Goto, reportVars, Pool, TestInv
  <1>7. CodeInv'
    BY DEF Inv, Cleanup, Goto, reportVars, CodeInv, Quiet, Earned
  <1>8. QED
    BY <1>1, <1>2, <1>3, <1>4, <1>5, <1>6, <1>7 DEF Inv

LEMMA WorkerStartStep ==
  ASSUME Inv, NEW t \in Slots, WorkerStart(t)
  PROVE  Inv'
  <1>1. TypeInv'
    BY DEF Inv, WorkerStart, Worker, reportVars, mainVars, mishapVars, TypeInv,
           WorkerStates
  <1>2. WriterInv'
    BY DEF Inv, WorkerStart, Worker, reportVars, WriterInv
  <1>3. LoopInv'
    BY DEF Inv, WorkerStart, Worker, reportVars, mainVars, LoopInv
  <1>4. MishapInv'
    BY DEF Inv, WorkerStart, Worker, mainVars, mishapVars, MishapInv, Mishaps, PoolIdle,
           Ended
  <1>5. BuildInv'
    BY DEF Inv, WorkerStart, reportVars, mainVars, BuildInv, Built
  <1>6. TestInv'
    BY DEF Inv, WorkerStart, Worker, reportVars, mainVars, TestInv, Built
  <1>7. CodeInv'
    BY DEF Inv, WorkerStart, Worker, reportVars, mainVars, CodeInv, Quiet
  <1>8. QED
    BY <1>1, <1>2, <1>3, <1>4, <1>5, <1>6, <1>7 DEF Inv

LEMMA WorkerAdmittedStep ==
  ASSUME Inv, NEW t \in Slots, WorkerAdmitted(t)
  PROVE  Inv'
  <1>1. TypeInv'
    BY DEF Inv, WorkerAdmitted, Worker, reportVars, mainVars, mishapVars, TypeInv,
           WorkerStates
  <1>2. WriterInv'
    BY DEF Inv, WorkerAdmitted, Worker, reportVars, WriterInv, TypeInv
  <1>3. LoopInv'
    BY DEF Inv, WorkerAdmitted, Worker, reportVars, mainVars, LoopInv, TypeInv
  <1>4. MishapInv'
    BY DEF Inv, WorkerAdmitted, Worker, mainVars, mishapVars, MishapInv, Mishaps,
           PoolIdle, Ended, TypeInv
  <1>5. BuildInv'
    BY DEF Inv, WorkerAdmitted, reportVars, mainVars, BuildInv, Built
  <1>6. TestInv'
    BY DEF Inv, WorkerAdmitted, Worker, reportVars, mainVars, TestInv, Built, TypeInv
  <1>7. CodeInv'
    BY DEF Inv, WorkerAdmitted, Worker, reportVars, mainVars, CodeInv, Quiet
  <1>8. QED
    BY <1>1, <1>2, <1>3, <1>4, <1>5, <1>6, <1>7 DEF Inv

LEMMA WorkerTestsStep ==
  ASSUME Inv, NEW t \in Slots, WorkerTests(t)
  PROVE  Inv'
  <1>1. TypeInv'
    BY Apart DEF Inv, WorkerTests, Worker, BeginUpdate, mainVars, mishapVars, TypeInv,
                 WorkerStates, SlotStates, Unfinished
  <1>2. WriterInv'
    BY Apart DEF Inv, WorkerTests, Worker, BeginUpdate, WriterInv, TypeInv
  <1>3. LoopInv'
    BY DEF Inv, WorkerTests, Worker, BeginUpdate, mainVars, LoopInv
  <1>4. MishapInv'
    BY DEF Inv, WorkerTests, Worker, mainVars, mishapVars, MishapInv, Mishaps, PoolIdle,
           Ended
  <1>5. BuildInv'
    BY DEF Inv, WorkerTests, Worker, BeginUpdate, mainVars, Walk, BuildInv, LoopInv
  <1>6. TestInv'
    BY Apart DEF Inv, WorkerTests, Worker, BeginUpdate, mainVars, Walk, TestInv, Built,
                 TypeInv, LoopInv
  <1>7. CodeInv'
    BY Apart DEF Inv, WorkerTests, Worker, BeginUpdate, mainVars, CodeInv, Quiet,
                 ExitCodes
  <1>8. QED
    BY <1>1, <1>2, <1>3, <1>4, <1>5, <1>6, <1>7 DEF Inv

LEMMA WorkerEndsStep ==
  ASSUME Inv, NEW t \in Slots, WorkerEnds(t)
  PROVE  Inv'
  <1>1. TypeInv'
    BY Apart DEF Inv, WorkerEnds, Worker, BeginUpdate, mainVars, mishapVars, TypeInv,
                 WorkerStates, SlotStates
  <1>2. WriterInv'
    BY Apart DEF Inv, WorkerEnds, Worker, BeginUpdate, WriterInv
  <1>3. LoopInv'
    BY DEF Inv, WorkerEnds, Worker, BeginUpdate, mainVars, LoopInv
  <1>4. MishapInv'
    BY DEF Inv, WorkerEnds, Worker, mainVars, mishapVars, MishapInv, Mishaps, PoolIdle,
           Ended
  <1>5. BuildInv'
    BY DEF Inv, WorkerEnds, Worker, BeginUpdate, mainVars, Walk, BuildInv, LoopInv
  <1>6. TestInv'
    BY Apart DEF Inv, WorkerEnds, Worker, BeginUpdate, mainVars, Walk, TestInv, Built,
                 TypeInv, LoopInv
  <1>7. CodeInv'
    BY Apart DEF Inv, WorkerEnds, Worker, BeginUpdate, mainVars, CodeInv, Quiet,
                 ExitCodes
  <1>8. QED
    BY <1>1, <1>2, <1>3, <1>4, <1>5, <1>6, <1>7 DEF Inv

LEMMA WorkerPublishesStep ==
  ASSUME Inv, NEW t \in Slots, WorkerPublishes(t)
  PROVE  Inv'
  <1>1. TypeInv'
    BY DEF Inv, WorkerPublishes, Publish, mainVars, mishapVars, TypeInv, Snapshot
  <1>2. WriterInv'
    BY Apart DEF Inv, WorkerPublishes, Publish, WriterInv
  <1>3. LoopInv'
    BY Apart DEF Inv, WorkerPublishes, Publish, mainVars, LoopInv, TypeInv
  <1>4. MishapInv'
    BY DEF Inv, WorkerPublishes, Publish, mainVars, mishapVars, MishapInv, Mishaps,
           PoolIdle, Ended, WriterInv
  <1>5. BuildInv'
    BY DEF Inv, WorkerPublishes, Publish, mainVars, BuildInv, Built
  <1>6. TestInv'
    BY DEF Inv, WorkerPublishes, Publish, mainVars, TestInv, Built
  <1>7. CodeInv'
    BY DEF Inv, WorkerPublishes, Publish, mainVars, CodeInv, Quiet
  <1>8. QED
    BY <1>1, <1>2, <1>3, <1>4, <1>5, <1>6, <1>7 DEF Inv

LEMMA WorkerFailsStep ==
  ASSUME Inv, NEW t \in Slots, WorkerFails(t)
  PROVE  Inv'
  <1>1. TypeInv'
    BY DEF Inv, WorkerFails, AbandonWrite, reportVars, mainVars, TypeInv, WorkerStates
  <1>2. WriterInv'
    BY Apart DEF Inv, WorkerFails, AbandonWrite, reportVars, WriterInv
  <1>3. LoopInv'
    BY Apart DEF Inv, WorkerFails, AbandonWrite, reportVars, mainVars, LoopInv,
                 WriterInv, TypeInv
  <1>4. MishapInv'
    BY Apart DEF Inv, WorkerFails, AbandonWrite, MishapInv, Mishaps, PoolIdle, Ended,
                 TypeInv
  <1>5. BuildInv'
    BY DEF Inv, WorkerFails, AbandonWrite, reportVars, mainVars, BuildInv, Built
  <1>6. TestInv'
    BY DEF Inv, WorkerFails, AbandonWrite, reportVars, mainVars, TestInv, Built
  <1>7. CodeInv'
    BY DEF Inv, WorkerFails, AbandonWrite, reportVars, mainVars, CodeInv, Quiet
  <1>8. QED
    BY <1>1, <1>2, <1>3, <1>4, <1>5, <1>6, <1>7 DEF Inv

LEMMA SignalStep ==
  ASSUME Inv, Signal
  PROVE  Inv'
  <1>1. TypeInv'
    BY DEF Inv, Signal, Unwind, Raise, AbandonWrite, Landing, reportVars, Shutdown,
           Teardown, Afterwards, TypeInv, PCs, ExitCodes, StatusOf
  <1>2. WriterInv'
    BY Apart DEF Inv, Signal, Unwind, Raise, AbandonWrite, reportVars, WriterInv
  <1>3. LoopInv'
    BY DEF Inv, Signal, Unwind, Raise, Landing, Walk, Pool, LoopInv
  <1>4. MishapInv'
    BY Apart DEF Inv, Signal, Unwind, Raise, AbandonWrite, Landing, reportVars,
                 Teardown, MishapInv, Mishaps, Late, Afterwards, PoolIdle, Ended, LoopInv, TypeInv,
                 PCs
  <1>5. BuildInv'
    BY DEF Inv, Signal, Unwind, Raise, Landing, Walk, Pool, BuildInv
  <1>6. TestInv'
    BY DEF Inv, Signal, Unwind, Raise, AbandonWrite, Landing, reportVars, Pool, TestInv
  <1>7. CodeInv'
    BY Apart DEF Inv, Signal, Unwind, Raise, AbandonWrite, Landing, reportVars, Walk,
                 Pool, Shutdown, Teardown, CodeInv, Quiet, Earned
  <1>8. QED
    BY <1>1, <1>2, <1>3, <1>4, <1>5, <1>6, <1>7 DEF Inv

LEMMA SignalKillsStep ==
  ASSUME Inv, SignalKills
  PROVE  Inv'
  <1>1. TypeInv'
    BY DEF Inv, SignalKills, Goto, reportVars, TypeInv, PCs
  <1>2. WriterInv'
    BY DEF Inv, SignalKills, Goto, reportVars, Walk, WriterInv
  <1>3. LoopInv'
    BY DEF Inv, SignalKills, Goto, Walk, Pool, LoopInv
  <1>4. MishapInv'
    BY Apart DEF Inv, SignalKills, Goto, reportVars, Pool, Shutdown, Afterwards,
                 MishapInv, Mishaps, Late, Afterwards, PoolIdle, Ended, TypeInv
  <1>5. BuildInv'
    BY DEF Inv, SignalKills, Goto, Walk, Pool, BuildInv
  <1>6. TestInv'
    BY DEF Inv, SignalKills, Goto, reportVars, Pool, TestInv
  <1>7. CodeInv'
    BY DEF Inv, SignalKills, Goto, reportVars, CodeInv, Quiet, Earned
  <1>8. QED
    BY <1>1, <1>2, <1>3, <1>4, <1>5, <1>6, <1>7 DEF Inv

LEMMA MainFailsStep ==
  ASSUME Inv, MainFails
  PROVE  Inv'
  <1>1. TypeInv'
    BY DEF Inv, MainFails, FailureKinds, Unwind, Raise, AbandonWrite, Landing, reportVars, Shutdown,
           Teardown, Afterwards, TypeInv, PCs, ExitCodes, StatusOf
  <1>2. WriterInv'
    BY Apart DEF Inv, MainFails, FailureKinds, Unwind, Raise, AbandonWrite, reportVars, WriterInv
  <1>3. LoopInv'
    BY DEF Inv, MainFails, FailureKinds, Unwind, Raise, Landing, Walk, Pool, LoopInv
  <1>4. MishapInv'
    BY Apart DEF Inv, MainFails, FailureKinds, Unwind, Raise, AbandonWrite, Landing, reportVars,
                 Teardown, MishapInv, Mishaps, Late, Afterwards, PoolIdle, Ended, LoopInv, TypeInv,
                 PCs
  <1>5. BuildInv'
    BY DEF Inv, MainFails, FailureKinds, Unwind, Raise, Landing, Walk, Pool, BuildInv
  <1>6. TestInv'
    BY DEF Inv, MainFails, FailureKinds, Unwind, Raise, AbandonWrite, Landing, reportVars, Pool,
           TestInv
  <1>7. CodeInv'
    BY Apart DEF Inv, MainFails, FailureKinds, Unwind, Raise, AbandonWrite, Landing, reportVars, Walk,
                 Pool, Shutdown, Teardown, CodeInv, Quiet, Earned
  <1>8. QED
    BY <1>1, <1>2, <1>3, <1>4, <1>5, <1>6, <1>7 DEF Inv

LEMMA InvInit == Init => Inv
  <1> SUFFICES ASSUME Init PROVE Inv
    OBVIOUS
  <1>1. TypeInv
    BY Apart DEF Init, ReportInit, TypeInv, PCs, WorkerStates, SlotStates, Unfinished,
                 MatrixStates, ExitCodes, Snapshot
  <1>2. WriterInv
    BY Apart DEF Init, ReportInit, WriterInv
  <1>3. LoopInv
    BY Apart DEF Init, LoopInv, Walk, Pool
  <1>4. MishapInv
    BY Apart DEF Init, MishapInv, Mishaps, Late, Afterwards, Shutdown, Teardown
  <1>5. BuildInv
    BY Apart DEF Init, ReportInit, BuildInv, Walk, Pool
  <1>6. TestInv
    BY Apart DEF Init, TestInv, Pool
  <1>7. CodeInv
    BY Apart DEF Init, ReportInit, CodeInv
  <1>8. QED
    BY <1>1, <1>2, <1>3, <1>4, <1>5, <1>6, <1>7 DEF Inv

LEMMA InvStep == Inv /\ [Next]_vars => Inv'
  <1> SUFFICES ASSUME Inv, [Next]_vars PROVE Inv'
    OBVIOUS
  <1>1. CASE UNCHANGED vars
    BY <1>1 DEF vars, reportVars, mainVars, mishapVars, Inv, TypeInv, WriterInv,
                LoopInv, MishapInv, Mishaps, PoolIdle, Ended, BuildInv, Built, TestInv,
                CodeInv, Quiet, Earned
  <1>2. CASE MainStep
    <2>1. CASE EnterTry \/ SkipUnavailable \/ BuildNext \/ BuildEnds \/ BuildsDone \/ PlanNext
      BY <2>1, EnterTryStep, SkipUnavailableStep, BuildNextStep, BuildEndsStep,
         BuildsDoneStep, PlanNextStep
    <2>2. CASE PlanDone \/ SerialStart \/ SerialEnds \/ SerialDone \/ Submit \/ Collect
      BY <2>2, PlanDoneStep, SerialStartStep, SerialEndsStep, SerialDoneStep,
         SubmitStep, CollectStep
    <2>3. CASE CollectDone \/ CloseJobserver \/ CancelQueued \/ Join \/ Handle \/ KeepDangling
      BY <2>3, CollectDoneStep, CloseJobserverStep, CancelQueuedStep, JoinStep,
         HandleStep, KeepDanglingStep
    <2>4. CASE SweepContainers \/ PruneDangling \/ ExternalLeftovers \/ Finish \/ MainPublishes
      BY <2>4, SweepContainersStep, PruneDanglingStep, ExternalLeftoversStep,
         FinishStep, MainPublishesStep
    <2>5. CASE LastWords \/ Cleanup
      BY <2>5, LastWordsStep, CleanupStep
    <2>6. QED
      BY <1>2, <2>1, <2>2, <2>3, <2>4, <2>5 DEF MainStep
  <1>3. CASE Signal \/ SignalKills
    BY <1>3, SignalStep, SignalKillsStep
  <1>4. CASE MainFails
    BY <1>4, MainFailsStep
  <1>5. ASSUME NEW t \in Slots, WorkerStep(t) \/ WorkerFails(t) PROVE Inv'
    BY <1>5, WorkerStartStep, WorkerAdmittedStep, WorkerTestsStep, WorkerEndsStep,
       WorkerPublishesStep, WorkerFailsStep
       DEF WorkerStep
  <1>6. QED
    BY <1>1, <1>2, <1>3, <1>4, <1>5 DEF Next

LEMMA Invariance == Spec => []Inv
  BY InvInit, InvStep, PTL DEF Spec

-----------------------------------------------------------------------------
(* No more than two mishaps                                                *)

\* It takes a third to get past the walk while a slot is still at work.
LEMMA LateIsIdle ==
  ASSUME Inv, MaxMishaps <= 2, pc \in Late
  PROVE  PoolIdle
  BY Apart DEF Inv, MishapInv, Mishaps, TypeInv

LEMMA EndInit == Init => EndInv
  BY Apart DEF Init, ReportInit, EndInv, Teardown

LEMMA EnterTryEnd ==
  ASSUME Inv, EndInv, MaxMishaps <= 2, EnterTry
  PROVE  EndInv'
  BY DEF Inv, EndInv, Unmatched, EnterTry, Goto, reportVars, mainVars, Teardown

LEMMA SkipUnavailableEnd ==
  ASSUME Inv, EndInv, MaxMishaps <= 2, SkipUnavailable
  PROVE  EndInv'
  BY DEF Inv, EndInv, Unmatched, SkipUnavailable, Report, BeginUpdate, reportVars, Walk, Teardown,
         CodeInv

LEMMA BuildNextEnd ==
  ASSUME Inv, EndInv, MaxMishaps <= 2, BuildNext
  PROVE  EndInv'
  BY DEF Inv, EndInv, Unmatched, BuildNext, Report, BeginUpdate, Walk, Teardown, CodeInv

LEMMA BuildEndsEnd ==
  ASSUME Inv, EndInv, MaxMishaps <= 2, BuildEnds
  PROVE  EndInv'
  BY DEF Inv, EndInv, Unmatched, BuildEnds, Goto, Report, BeginUpdate, Walk, Teardown, CodeInv

LEMMA BuildsDoneEnd ==
  ASSUME Inv, EndInv, MaxMishaps <= 2, BuildsDone
  PROVE  EndInv'
  BY DEF Inv, EndInv, Unmatched, BuildsDone, reportVars, Walk, StatusOf

LEMMA PlanNextEnd ==
  ASSUME Inv, EndInv, MaxMishaps <= 2, PlanNext
  PROVE  EndInv'
  BY DEF Inv, EndInv, Unmatched, PlanNext, Report, BeginUpdate, reportVars, Teardown, CodeInv

LEMMA PlanDoneEnd ==
  ASSUME Inv, EndInv, MaxMishaps <= 2, PlanDone
  PROVE  EndInv'
  BY DEF Inv, EndInv, Unmatched, PlanDone, reportVars, Walk, Teardown

LEMMA SerialStartEnd ==
  ASSUME Inv, EndInv, MaxMishaps <= 2, SerialStart
  PROVE  EndInv'
  BY DEF Inv, EndInv, Unmatched, SerialStart, Goto, Report, BeginUpdate, Walk, Teardown, CodeInv

LEMMA SerialEndsEnd ==
  ASSUME Inv, EndInv, MaxMishaps <= 2, SerialEnds
  PROVE  EndInv'
  BY DEF Inv, EndInv, Unmatched, SerialEnds, Goto, Report, BeginUpdate, Walk, Teardown, Open

LEMMA SerialDoneEnd ==
  ASSUME Inv, EndInv, MaxMishaps <= 2, SerialDone
  PROVE  EndInv'
  BY DEF Inv, EndInv, Unmatched, SerialDone, Goto, reportVars, Walk, StatusOf

LEMMA SubmitEnd ==
  ASSUME Inv, EndInv, MaxMishaps <= 2, Submit
  PROVE  EndInv'
  BY DEF Inv, EndInv, Unmatched, Submit, reportVars, Pool, Teardown

LEMMA CollectEnd ==
  ASSUME Inv, EndInv, MaxMishaps <= 2, Collect
  PROVE  EndInv'
  BY DEF Inv, EndInv, Unmatched, Collect, reportVars, Walk, Pool, Teardown

LEMMA CollectDoneEnd ==
  ASSUME Inv, EndInv, MaxMishaps <= 2, CollectDone
  PROVE  EndInv'
  BY DEF Inv, EndInv, Unmatched, CollectDone, Goto, reportVars, Pool, StatusOf

LEMMA CloseJobserverEnd ==
  ASSUME Inv, EndInv, MaxMishaps <= 2, CloseJobserver
  PROVE  EndInv'
  BY DEF Inv, EndInv, Unmatched, CloseJobserver, Goto, reportVars, Walk, Pool, Teardown

LEMMA CancelQueuedEnd ==
  ASSUME Inv, EndInv, MaxMishaps <= 2, CancelQueued
  PROVE  EndInv'
  BY DEF Inv, EndInv, Unmatched, CancelQueued, Goto, reportVars, Walk, Pool, Teardown

LEMMA JoinEnd ==
  ASSUME Inv, EndInv, MaxMishaps <= 2, Join
  PROVE  EndInv'
  BY DEF Inv, EndInv, Unmatched, Join, reportVars, Walk, Pool, Teardown

LEMMA HandleEnd ==
  ASSUME Inv, EndInv, MaxMishaps <= 2, Handle
  PROVE  EndInv'
  BY DEF Inv, EndInv, Unmatched, Handle, Goto, reportVars, mishapVars, Walk, Pool, StatusOf,
         TypeInv, CodeInv

LEMMA KeepDanglingEnd ==
  ASSUME Inv, EndInv, MaxMishaps <= 2, KeepDangling
  PROVE  EndInv'
  BY DEF Inv, EndInv, Unmatched, KeepDangling, Goto, reportVars, mainVars, mishapVars, Walk, Pool,
         Teardown, StatusOf

LEMMA SweepContainersEnd ==
  ASSUME Inv, EndInv, MaxMishaps <= 2, SweepContainers
  PROVE  EndInv'
  BY DEF Inv, EndInv, Unmatched, SweepContainers, Goto, reportVars, mainVars, mishapVars, Walk,
         Pool, Teardown, StatusOf

LEMMA PruneDanglingEnd ==
  ASSUME Inv, EndInv, MaxMishaps <= 2, PruneDangling
  PROVE  EndInv'
  BY DEF Inv, EndInv, Unmatched, PruneDangling, Goto, reportVars, mainVars, mishapVars, Walk, Pool,
         Teardown, StatusOf

LEMMA ExternalLeftoversEnd ==
  ASSUME Inv, EndInv, MaxMishaps <= 2, ExternalLeftovers
  PROVE  EndInv'
  BY DEF Inv, EndInv, Unmatched, ExternalLeftovers, Goto, reportVars, mainVars, mishapVars, Walk,
         Pool, Teardown, StatusOf

LEMMA FinishEnd ==
  ASSUME Inv, EndInv, MaxMishaps <= 2, Finish
  PROVE  EndInv'
  BY DEF Inv, EndInv, Unmatched, Finish, Goto, BeginFinish, mainVars, mishapVars, Walk, Pool,
         StatusOf, Open, CodeInv, Unfinished, Earned

LEMMA MainPublishesEnd ==
  ASSUME Inv, EndInv, MaxMishaps <= 2, MainPublishes
  PROVE  EndInv'
  BY DEF Inv, EndInv, Unmatched, MainPublishes, Publish, mainVars, mishapVars,
         Walk, Pool, Teardown, CodeInv, WriterInv, StatusOf

LEMMA LastWordsEnd ==
  ASSUME Inv, EndInv, MaxMishaps <= 2, LastWords
  PROVE  EndInv'
  BY DEF Inv, EndInv, Unmatched, LastWords, Goto, reportVars, mainVars, mishapVars,
         Walk, Pool, Teardown, StatusOf

LEMMA CleanupEnd ==
  ASSUME Inv, EndInv, MaxMishaps <= 2, Cleanup
  PROVE  EndInv'
  BY DEF Inv, EndInv, Unmatched, Cleanup, Goto, reportVars, mishapVars, Walk, Pool,
         Teardown

LEMMA WorkerStartEnd ==
  ASSUME Inv, EndInv, MaxMishaps <= 2, NEW t \in Slots, WorkerStart(t)
  PROVE  EndInv'
  BY DEF Inv, EndInv, Unmatched, WorkerStart, reportVars, mainVars, mishapVars, StatusOf

LEMMA WorkerAdmittedEnd ==
  ASSUME Inv, EndInv, MaxMishaps <= 2, NEW t \in Slots, WorkerAdmitted(t)
  PROVE  EndInv'
  BY DEF Inv, EndInv, Unmatched, WorkerAdmitted, reportVars, mainVars, mishapVars, StatusOf

LEMMA WorkerTestsEnd ==
  ASSUME Inv, EndInv, MaxMishaps <= 2, NEW t \in Slots, WorkerTests(t)
  PROVE  EndInv'
  BY LateIsIdle DEF Inv, EndInv, Unmatched, WorkerTests, Worker, BeginUpdate,
                    mainVars, CodeInv, PoolIdle, Ended, Late, Afterwards

LEMMA WorkerEndsEnd ==
  ASSUME Inv, EndInv, MaxMishaps <= 2, NEW t \in Slots, WorkerEnds(t)
  PROVE  EndInv'
  BY DEF Inv, EndInv, Unmatched, WorkerEnds, BeginUpdate, mainVars, mishapVars, StatusOf, Open,
         TypeInv

LEMMA WorkerPublishesEnd ==
  ASSUME Inv, EndInv, MaxMishaps <= 2, NEW t \in Slots, WorkerPublishes(t)
  PROVE  EndInv'
  BY LateIsIdle DEF Inv, EndInv, Unmatched, WorkerPublishes, Publish,
                    mainVars, CodeInv, WriterInv, PoolIdle, Ended, Late, Afterwards

LEMMA WorkerFailsEnd ==
  ASSUME Inv, EndInv, MaxMishaps <= 2, NEW t \in Slots, WorkerFails(t)
  PROVE  EndInv'
  BY DEF Inv, EndInv, Unmatched, WorkerFails, AbandonWrite, reportVars, mainVars, StatusOf

LEMMA SignalEnd ==
  ASSUME Inv, EndInv, MaxMishaps <= 2, Signal
  PROVE  EndInv'
  BY Apart DEF Inv, EndInv, Unmatched, Signal, Unwind, Raise, AbandonWrite, Landing,
               reportVars, Walk, Pool, Teardown, Afterwards, Shutdown, StatusOf, CodeInv, PCs, TypeInv

LEMMA SignalKillsEnd ==
  ASSUME Inv, EndInv, MaxMishaps <= 2, SignalKills
  PROVE  EndInv'
  BY DEF Inv, EndInv, Unmatched, SignalKills, Goto, reportVars, Walk, Pool, Teardown

LEMMA MainFailsEnd ==
  ASSUME Inv, EndInv, MaxMishaps <= 2, MainFails
  PROVE  EndInv'
  <1>1. PICK exc \in FailureKinds : Unwind(exc)
    BY DEF MainFails
  <1>2. /\ pc \in Walk \union {"finishing"} \union Teardown \union Afterwards
        /\ exc \in {"oserror", "other"} /\ raised' = exc /\ late' = late
        /\ afterwards' = (afterwards \/ pc \in Afterwards)
        /\ UNCHANGED <<slot, matrix, disk, exitCode>>
    BY <1>1 DEF Inv, WriterInv, MainFails, FailureKinds, Unwind, Raise, AbandonWrite,
                reportVars, Walk
  <1>3. CASE pc \in Walk
    BY <1>1, <1>2, <1>3 DEF EndInv, Unwind, Raise, Landing, Walk, Pool, Teardown
  <1>4. CASE pc \in Teardown
    BY <1>1, <1>2, <1>4 DEF EndInv, Unmatched, Unwind, Raise, Landing, StatusOf, Walk,
                            Pool, Shutdown, Teardown
  <1>5. CASE pc \in {"finishing"} \union Afterwards
    <2>1. pc' \in {"cleanup", "exited"} /\ code' = code
      BY <1>1, <1>5 DEF Unwind, Raise, Landing, Walk, Pool, Shutdown, Teardown,
                        Afterwards
    <2>2. disk.matrix' # "running" => Unmatched'
      BY <1>2, <1>5 DEF EndInv, Unmatched, Afterwards
    <2>3. QED
      BY <1>2, <2>1, <2>2 DEF EndInv, Unmatched, Walk, Pool, Teardown
  <1>6. QED
    BY <1>2, <1>3, <1>4, <1>5

LEMMA EndStep == Inv /\ EndInv /\ MaxMishaps <= 2 /\ [Next]_vars => EndInv'
  <1> SUFFICES ASSUME Inv, EndInv, MaxMishaps <= 2, [Next]_vars PROVE EndInv'
    OBVIOUS
  <1>1. CASE UNCHANGED vars
    BY <1>1 DEF vars, reportVars, mainVars, mishapVars, EndInv, Unmatched, StatusOf
  <1>2. CASE MainStep
    <2>1. CASE EnterTry \/ SkipUnavailable \/ BuildNext \/ BuildEnds \/ BuildsDone \/ PlanNext
      BY <2>1, EnterTryEnd, SkipUnavailableEnd, BuildNextEnd, BuildEndsEnd,
         BuildsDoneEnd, PlanNextEnd
    <2>2. CASE PlanDone \/ SerialStart \/ SerialEnds \/ SerialDone \/ Submit \/ Collect
      BY <2>2, PlanDoneEnd, SerialStartEnd, SerialEndsEnd, SerialDoneEnd, SubmitEnd,
         CollectEnd
    <2>3. CASE CollectDone \/ CloseJobserver \/ CancelQueued \/ Join \/ Handle \/ KeepDangling
      BY <2>3, CollectDoneEnd, CloseJobserverEnd, CancelQueuedEnd, JoinEnd, HandleEnd,
         KeepDanglingEnd
    <2>4. CASE SweepContainers \/ PruneDangling \/ ExternalLeftovers \/ Finish \/ MainPublishes
      BY <2>4, SweepContainersEnd, PruneDanglingEnd, ExternalLeftoversEnd, FinishEnd,
         MainPublishesEnd
    <2>5. CASE LastWords \/ Cleanup
      BY <2>5, LastWordsEnd, CleanupEnd
    <2>6. QED
      BY <1>2, <2>1, <2>2, <2>3, <2>4, <2>5 DEF MainStep
  <1>3. CASE Signal \/ SignalKills
    BY <1>3, SignalEnd, SignalKillsEnd
  <1>4. CASE MainFails
    BY <1>4, MainFailsEnd
  <1>5. ASSUME NEW t \in Slots, WorkerStep(t) \/ WorkerFails(t) PROVE EndInv'
    BY <1>5, WorkerStartEnd, WorkerAdmittedEnd, WorkerTestsEnd, WorkerEndsEnd,
       WorkerPublishesEnd, WorkerFailsEnd
       DEF WorkerStep
  <1>6. QED
    BY <1>1, <1>2, <1>3, <1>4, <1>5 DEF Next

-----------------------------------------------------------------------------
(* The ladder                                                              *)

\* A change of one slot is a rung of the ladder, or no change.
LEMMA Rung ==
  ASSUME Inv, NEW n \in Names, NEW s \in Unfinished \union {"passed", "failed", "build_failed", "skipped"},
         matrix = "running", UNCHANGED matrix, slot' = [slot EXCEPT ![n] = s],
         slot[n] = s \/ <<slot[n], s>> \in Lifecycle!Ladder
  PROVE  [Lifecycle!Next]_<<slot, matrix>>
  <1>1. CASE slot[n] = s
    BY <1>1 DEF Inv, TypeInv
  <1>2. CASE <<slot[n], s>> \in Lifecycle!Ladder
    BY <1>2 DEF Lifecycle!Next, Lifecycle!Climb, Lifecycle!Unfinished,
                Lifecycle!Verdicts, Unfinished
  <1>3. QED
    BY <1>1, <1>2

LEMMA LadderStep ==
  ASSUME Inv, MaxMishaps <= 2, [Next]_vars
  PROVE  [Lifecycle!Next]_<<slot, matrix>>
  <1> DEFINE Same == UNCHANGED <<slot, matrix>>
             Rises == \E n \in Names, s \in Unfinished \union {"passed", "failed", "build_failed", "skipped"} :
                        /\ matrix = "running" /\ UNCHANGED matrix /\ slot' = [slot EXCEPT ![n] = s]
                        /\ slot[n] = s \/ <<slot[n], s>> \in Lifecycle!Ladder
  <1>0. pc \notin {"finishing", "lastWords", "cleanup", "exited"} => matrix = "running"
    BY Apart DEF Inv, CodeInv
  <1>1. Rises => [Lifecycle!Next]_<<slot, matrix>>
    BY Rung
  <1>2. CASE UNCHANGED vars
    BY <1>2 DEF vars, reportVars
  <1>3. CASE SkipUnavailable
    <2>1. pc = "unavailable" /\ todo \subseteq Names
      BY <1>3 DEF SkipUnavailable, Inv, TypeInv
    <2>2. \A n \in todo : slot[n] = "pending"
      BY <2>1 DEF Inv, BuildInv
    <2>3. Same \/ Rises
      BY <1>3, <1>0, <2>1, <2>2 DEF SkipUnavailable, Report, BeginUpdate, reportVars,
                                    Lifecycle!Ladder
    <2>4. QED
      BY <1>1, <2>3
  <1>4. CASE BuildNext
    <2>1. pc = "build" /\ todo \subseteq Names
      BY <1>4 DEF BuildNext, Inv, TypeInv
    <2>2. \A n \in todo : slot[n] = "pending"
      BY <2>1, Apart DEF Inv, BuildInv, LoopInv
    <2>3. Rises
      BY <1>4, <1>0, <2>1, <2>2 DEF BuildNext, Report, BeginUpdate, Lifecycle!Ladder,
                                    Unfinished
    <2>4. QED
      BY <1>1, <2>3
  <1>5. CASE BuildEnds
    <2>1. pc = "building" /\ cur \in Names /\ slot[cur] = "building"
      BY <1>5, Apart DEF BuildEnds, Goto, Inv, TypeInv, LoopInv, BuildInv
    <2>2. Rises
      BY <1>5, <1>0, <2>1 DEF BuildEnds, Report, BeginUpdate, Lifecycle!Ladder,
                              Unfinished
    <2>3. QED
      BY <1>1, <2>2
  <1>6. CASE PlanNext
    <2>1. pc = "plan" /\ todo \subseteq Slots /\ Slots \subseteq Names
      BY <1>6, Apart DEF PlanNext, Inv, LoopInv
    <2>2. \A n \in todo : n \in args.skipped => slot[n] = "skipped"
      BY <2>1 DEF Inv, BuildInv, Built
    <2>3. Same \/ Rises
      BY <1>6, <1>0, <2>1, <2>2 DEF PlanNext, Report, BeginUpdate, reportVars
    <2>4. QED
      BY <1>1, <2>3
  <1>7. CASE SerialStart
    <2>1. pc = "serial" /\ todo \subseteq Names /\ \A n \in todo : slot[n] = "built"
      BY <1>7, Apart DEF SerialStart, Goto, Inv, LoopInv, TypeInv, TestInv
    <2>2. Rises
      BY <1>7, <1>0, <2>1 DEF SerialStart, Report, BeginUpdate, Lifecycle!Ladder,
                              Unfinished
    <2>3. QED
      BY <1>1, <2>2
  <1>8. CASE SerialEnds
    <2>1. pc = "running" /\ cur \in Names /\ slot[cur] = "testing"
      BY <1>8 DEF SerialEnds, Goto, Inv, LoopInv, TypeInv, TestInv
    <2>2. Rises
      BY <1>8, <1>0, <2>1 DEF SerialEnds, Report, BeginUpdate, Lifecycle!Ladder
    <2>3. QED
      BY <1>1, <2>2
  <1>9. CASE Finish
    <2>1. matrix = "running" /\ matrix' = StateOf(code)
          /\ code \in ExitCodes /\ StateOf(code) \in Lifecycle!Closed
      BY <1>9, <1>0 DEF Finish, Goto, BeginFinish, Inv, TypeInv, ExitCodes, StateOf,
                        Lifecycle!Closed
    <2>2. code = 0 => \A n \in Names : slot[n] \in {"built", "passed", "skipped"}
      BY DEF Inv, CodeInv, Earned
    <2>3. /\ StateOf(code) = "passed" <=> code = 0
          /\ StateOf(code) = "cancelled" <=> code = 130
      BY <2>1 DEF ExitCodes, StateOf
    <2>4. slot' = [n \in Names |->
            IF slot[n] \in Lifecycle!Unfinished /\ StateOf(code) # "passed"
            THEN IF StateOf(code) = "cancelled" THEN "cancelled" ELSE "error" ELSE slot[n]]
      BY <1>9, <2>3 DEF Finish, BeginFinish, Unfinished, Lifecycle!Unfinished
    <2>5. Lifecycle!Close(StateOf(code))
      BY <2>1, <2>2, <2>3, <2>4 DEF Lifecycle!Close
    <2>6. QED
      BY <2>1, <2>5 DEF Lifecycle!Next
  <1>10. ASSUME NEW t \in Slots, WorkerTests(t) \/ WorkerEnds(t) PROVE [Lifecycle!Next]_<<slot, matrix>>
    <2>1. pc \notin {"finishing", "lastWords", "cleanup", "exited"}
      BY <1>10, LateIsIdle DEF WorkerTests, WorkerEnds, Worker, PoolIdle, Ended, Late,
                               Afterwards
    <2>2. /\ t \in Names
          /\ worker[t] = "report" => slot[t] = "built"
          /\ worker[t] = "running" => slot[t] = "testing"
      BY <2>1, <1>0, Apart DEF Inv, TestInv
    <2>3. Rises
      BY <1>10, <1>0, <2>1, <2>2 DEF WorkerTests, WorkerEnds, Worker, BeginUpdate,
                                     Lifecycle!Ladder, Unfinished
    <2>4. QED
      BY <1>1, <2>3
  <1>11. CASE Signal \/ SignalKills \/ MainFails
    BY <1>11 DEF Signal, SignalKills, MainFails, Unwind, Raise, AbandonWrite, reportVars
  <1>12. CASE MainPublishes \/ \E t \in Slots : WorkerPublishes(t) \/ WorkerFails(t)
    BY <1>12 DEF MainPublishes, WorkerPublishes, WorkerFails, Publish, AbandonWrite,
                 reportVars
  <1>13. CASE \E t \in Slots : WorkerStart(t) \/ WorkerAdmitted(t)
    BY <1>13 DEF WorkerStart, WorkerAdmitted, reportVars
  <1>14. CASE EnterTry \/ BuildsDone \/ PlanDone \/ SerialDone \/ Submit \/ Collect \/ CollectDone
    BY <1>14 DEF EnterTry, BuildsDone, PlanDone, SerialDone, Submit, Collect,
                 CollectDone, reportVars
  <1>15. CASE CloseJobserver \/ CancelQueued \/ Join \/ Handle \/ KeepDangling \/ SweepContainers
              \/ PruneDangling \/ ExternalLeftovers \/ LastWords \/ Cleanup
    BY <1>15 DEF LastWords, Cleanup, CloseJobserver, CancelQueued, Join, Handle, KeepDangling,
                 SweepContainers, PruneDangling, ExternalLeftovers, reportVars
  <1>16. QED
    BY <1>2, <1>3, <1>4, <1>5, <1>6, <1>7, <1>8, <1>9, <1>10, <1>11, <1>12, <1>13,
       <1>14, <1>15
       DEF Next, MainStep, WorkerStep

-----------------------------------------------------------------------------
(* Theorems                                                                *)

\* Every variable has its type, for every set of slots and any number of mishaps.
THEOREM TypeCorrect == Spec => []TypeInv
  BY Invariance, PTL DEF Inv

\* ExitCodeIsEarned: a closed report has exit code 0 only if every slot passed, was
\* skipped, or was to be built only, and 1 only if one failed (_walk_matrix() and
\* finish()), whatever signals and exceptions strike on the way.
THEOREM CodeIsEarned == Spec => []ExitCodeIsEarned
  <1>1. Inv => ExitCodeIsEarned
    <2> SUFFICES ASSUME Inv PROVE ExitCodeIsEarned
      OBVIOUS
    <2>1. disk.code \in {0, 1} => disk.slots = slot /\ Earned(disk.code)
      BY Apart DEF Inv, CodeInv, ExitCodes
    <2>2. QED
      BY <2>1 DEF Earned, ExitCodeIsEarned
  <1>2. QED
    BY Invariance, <1>1, PTL

\* InterruptCancelsQueue: after one mishap, no queued slot starts once the except
\* clause of _run_slots_tagged() has shut the pool down.
THEOREM QueueIsCancelled == Spec => InterruptCancelsQueue
  <1> DEFINE Cancels == \A n \in Slots : worker[n] = "queued" /\ worker'[n] \in {"waiting", "report"}
                          => pc \in Pool \union {"close", "shutdown"} \/ signals + failures > 1
  <1>1. Inv => Cancels
    BY DEF Inv, MishapInv, Mishaps, TypeInv
  <1>2. QED
    BY Invariance, <1>1, PTL DEF InterruptCancelsQueue

\* TeardownAlone: with no more than two mishaps, _teardown() runs when no slot does.
THEOREM TeardownIsAlone ==
  ASSUME MaxMishaps <= 2
  PROVE  Spec => []TeardownAlone
  <1>1. Inv => TeardownAlone
    BY LateIsIdle DEF TeardownAlone, Late
  <1>2. QED
    BY Invariance, <1>1, PTL

LEMMA EndInvariance ==
  ASSUME MaxMishaps <= 2
  PROVE  Spec => [](Inv /\ EndInv)
  <1>1. Inv /\ EndInv /\ [Next]_vars => (Inv /\ EndInv)'
    BY InvStep, EndStep
  <1>2. QED
    BY <1>1, InvInit, EndInit, PTL DEF Spec

\* NothingLeftOpen: with no more than two mishaps, a closed report leaves no slot
\* pending, building or testing (finish(), against the pool's late updates).
THEOREM NothingIsLeftOpen ==
  ASSUME MaxMishaps <= 2
  PROVE  Spec => []NothingLeftOpen
  <1>1. EndInv => NothingLeftOpen
    BY DEF EndInv, NothingLeftOpen, Open
  <1>2. QED
    BY EndInvariance, <1>1, PTL

\* StatusMatchesReport: with no more than two mishaps, the exit status of the process
\* is the exit code of its closed report (main() and _run_matrix()), unless a signal
\* was late, something struck after finish(), or what ended the run was neither an
\* OSError nor an interrupt.
THEOREM StatusIsReported ==
  ASSUME MaxMishaps <= 2
  PROVE  Spec => []StatusMatchesReport
  <1>1. EndInv => StatusMatchesReport
    BY DEF EndInv, Unmatched, StatusMatchesReport
  <1>2. QED
    BY EndInvariance, <1>1, PTL

\* LifecycleSpec: with no more than two mishaps, every step of the run is a rung of
\* SlotLifecycle's ladder, its closing step, or a stutter.
THEOREM ClimbsTheLadder ==
  ASSUME MaxMishaps <= 2
  PROVE  Spec => LifecycleSpec
  <1>1. Init => Lifecycle!Init
    BY DEF Init, ReportInit, Lifecycle!Init
  <1>2. Inv /\ [Next]_vars => [Lifecycle!Next]_<<slot, matrix>>
    BY LadderStep
  <1>3. QED
    BY Invariance, <1>1, <1>2, PTL DEF Spec, LifecycleSpec, Lifecycle!Spec,
                                       Lifecycle!vars

=============================================================================
