SPECIFICATION Spec
CONSTANTS
  r1 = r1
  r2 = r2
  r3 = r3
  r4 = r4
  t1 = t1
  t2 = t2
  NoRun = NoRun
  NoToken = NoToken
  Runs <- ThreeRuns
  Launchers <- Launcher
  Cancellable = {r2}
  Tokens <- TwoTokens
  CanBeKilled = TRUE
SYMMETRY TokenSymmetry
INVARIANTS HoldsOneSlot TokensConserved WorkerCap
PROPERTY SlotPoolSpec
\* A killed process stops for good.
CHECK_DEADLOCK FALSE
