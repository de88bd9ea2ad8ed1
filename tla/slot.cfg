\* Eight slots of every shape; each pytest invocation skips at most MaxSkips tests.
SPECIFICATION FairSpec
CONSTANTS
  Cases <- SlotCases
  MaxSkips = 1
INVARIANTS
  PassedIsEarned
  GroundIsLaid
  EverySuiteRuns
  SkipsAreCounted
PROPERTIES
  EverySlotEnds
