------------------------------ MODULE MCSetup -------------------------------
(***************************************************************************)
(* Small instances of SetupLock and SetupReceipt, the two halves of         *)
(* setup.py, for TLC.  All the receipts know of the lock is what SetupLock  *)
(* promises: one holder, and none once its process has ended.  The halves   *)
(* share no other state, so a behaviour is about one of them and leaves the *)
(* other as it began.                                                      *)
(***************************************************************************)
EXTENDS SetupLock, SetupReceipt, TLC

CONSTANTS p1, p2, p3, t1, t2, f1, f2, f3, f4,
          old, new, mixed, parent, child, i, j

VARIABLE about    \* the half: "lock" or "receipts"

-----------------------------------------------------------------------------
(* The lock: two strangers, one of which may fork                          *)

ThreeProcs == {p1, p2, p3}
TwoFirst   == {p1, p2}
TwoThreads == {t1, t2}
FourFiles  == {f1, f2, f3, f4}

FileSymmetry == Permutations(FourFiles)

-----------------------------------------------------------------------------
(* The receipts: an old installation, a new one, and one with a newer parent *)
(* and changed inputs                                                      *)

MCPrograms == {old, new, mixed}
MCOwners   == {parent, child}
MCReceipts == [version : {1, 2}, inputs : {i, j}]

At(v, in) == [version |-> v, inputs |-> in]
MCClosure ==
  [p \in MCPrograms |-> [o \in MCOwners |->
     CASE p = old -> At(1, i)
       [] p = new -> At(2, i)
       [] OTHER   -> IF o = parent THEN At(2, j) ELSE At(1, i)]]

-----------------------------------------------------------------------------
SetupStarts ==
  /\ about \in {"lock", "receipts"}
  /\ Init
  /\ ReceiptInit
  /\ about = "lock" => \A o \in MCOwners : receipt[o] = None

SetupMoves ==
  \/ /\ about = "lock"
     /\ Next
     /\ UNCHANGED <<about, receiptVars>>
  \/ /\ about = "receipts"
     /\ ReceiptNext
     /\ UNCHANGED <<about, vars>>

SetupSpec == SetupStarts /\ [][SetupMoves]_<<about, vars, receiptVars>>

=============================================================================
