--------------------------- MODULE MCFilePublish ----------------------------
(* Two calls of any two operations, next to a task. *)
EXTENDS FilePublish, TLC

CONSTANTS p1, p2

TwoCalls == {p1, p2}
CallSymmetry == Permutations(TwoCalls)

=============================================================================
