------------------------------ MODULE SlotPool ------------------------------
(***************************************************************************)
(* What a job server client promises: a run works only while it holds one  *)
(* slot of a fixed pool, a slot has one holder, and a run that leaves has  *)
(* given its slot back.  How a run waits, and how it learns that a slot    *)
(* came free, is no part of the promise: module Jobserver refines this one. *)
(***************************************************************************)

CONSTANTS
  Runs,      \* the runs of this process that ask for a slot, once each
  Slots,     \* every slot a run may hold, the implicit one included
  Others,    \* stands for every client outside this process
  Nobody,    \* the holder of a free slot
  Lost       \* the holder of a slot whose process was killed

VARIABLES
  holder,    \* holder[s] is who has slot s
  phase      \* phase[r] \in {"outside", "working", "left", "killed"}

vars == <<holder, phase>>

Holders == Runs \union {Others, Nobody, Lost}

TypeOK ==
  /\ holder \in [Slots -> Holders]
  /\ phase \in [Runs -> {"outside", "working", "left", "killed"}]

Init ==
  /\ holder \in [Slots -> {Others, Nobody}]
  /\ phase = [r \in Runs |-> "outside"]

Admit(r, s) ==
  /\ phase[r] = "outside"
  /\ holder[s] = Nobody
  /\ holder' = [holder EXCEPT ![s] = r]
  /\ phase' = [phase EXCEPT ![r] = "working"]

Leave(r, s) ==
  /\ phase[r] = "working"
  /\ holder[s] = r
  /\ holder' = [holder EXCEPT ![s] = Nobody]
  /\ phase' = [phase EXCEPT ![r] = "left"]

Refuse(r) ==
  /\ phase[r] = "outside"
  /\ phase' = [phase EXCEPT ![r] = "left"]
  /\ UNCHANGED holder

OthersTake(s) ==
  /\ holder[s] = Nobody
  /\ holder' = [holder EXCEPT ![s] = Others]
  /\ UNCHANGED phase

OthersGive(s) ==
  /\ holder[s] = Others
  /\ holder' = [holder EXCEPT ![s] = Nobody]
  /\ UNCHANGED phase

\* The process dies: whatever its runs held is nobody's any more.
Die ==
  /\ holder' = [s \in Slots |-> IF holder[s] \in Runs THEN Lost ELSE holder[s]]
  /\ phase' = [r \in Runs |-> IF phase[r] = "left" THEN "left" ELSE "killed"]

Next ==
  \/ \E r \in Runs, s \in Slots : Admit(r, s) \/ Leave(r, s)
  \/ \E r \in Runs : Refuse(r)
  \/ \E s \in Slots : OthersTake(s) \/ OthersGive(s)
  \/ Die

Spec == Init /\ [][Next]_vars

=============================================================================
