--------------------------- MODULE SlotLifecycle ----------------------------
(***************************************************************************)
(* What a consumer of matrix/report.py's snapshot may rely on: each slot    *)
(* climbs one ladder of states, a verdict is final, and once the matrix has *)
(* a state other than "running" nothing moves any more.                     *)
(***************************************************************************)
CONSTANT Names          \* every slot the run was asked for

VARIABLES slot,         \* slot[n]: the reported state of a slot
          matrix        \* the reported state of the whole run

vars == <<slot, matrix>>

Unfinished == {"pending", "building", "built", "testing"}
Verdicts   == {"passed", "failed", "build_failed", "skipped"}
Closed     == {"passed", "failed", "cancelled", "error"}

Init ==
  /\ slot = [n \in Names |-> "pending"]
  /\ matrix = "running"

Ladder ==
  {<<"pending", "skipped">>, <<"pending", "building">>,
   <<"building", "built">>, <<"building", "build_failed">>,
   <<"built", "testing">>, <<"testing", "passed">>, <<"testing", "failed">>}

Climb(n) ==
  /\ matrix = "running"
  /\ \E s \in Unfinished \union Verdicts :
       /\ <<slot[n], s>> \in Ladder
       /\ slot' = [slot EXCEPT ![n] = s]
  /\ UNCHANGED matrix

\* The run ends; whatever has no verdict is closed with it, if it did not pass.
Close(state) ==
  /\ matrix = "running"
  /\ matrix' = state
  /\ slot' = [n \in Names |->
       IF slot[n] \in Unfinished /\ state # "passed"
       THEN IF state = "cancelled" THEN "cancelled" ELSE "error"
       ELSE slot[n]]
  /\ state = "passed" =>
       \A n \in Names : slot[n] \in {"built", "passed", "skipped"}

Next == (\E n \in Names : Climb(n)) \/ (\E s \in Closed : Close(s))

Spec == Init /\ [][Next]_vars

=============================================================================
