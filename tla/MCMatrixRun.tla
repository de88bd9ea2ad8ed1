---------------------------- MODULE MCMatrixRun -----------------------------
(* A small instance of MatrixRun for TLC. *)
EXTENDS MatrixRun

CONSTANTS a, b, x

\* Two slots this package has, and x, which it has not.
TwoSlots   == {a, b}
TwoNames   == {a, b, x}

=============================================================================
