---------------------------- MODULE MCJobserver -----------------------------
(* Small instances of Jobserver for TLC. *)
EXTENDS Jobserver, TLC

CONSTANTS r1, r2, r3, r4, t1, t2

\* Two ordinary runs or three, and a launcher.
ThreeRuns == {r1, r2, r4}
FourRuns  == {r1, r2, r3, r4}
Launcher  == {r4}
TwoTokens == {t1, t2}

TokenSymmetry == Permutations(TwoTokens)

=============================================================================
