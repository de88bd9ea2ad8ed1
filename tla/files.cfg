\* Two calls of every pair of operations; the task does MaxMoves things.
SPECIFICATION Spec
CONSTANTS
  p1 = p1
  p2 = p2
  Nothing = Nothing
  Procs <- TwoCalls
  MaxMoves = 2
SYMMETRY CallSymmetry
INVARIANTS
  PublishedIsWhole
  NothingLeftBehind
  ConfigHasItsWriters
PROPERTIES
  OnlyOwnInodesChange
\* Every call ends.
CHECK_DEADLOCK FALSE
