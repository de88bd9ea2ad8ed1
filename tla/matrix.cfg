SPECIFICATION FairSpec
CONSTANTS
  a = a
  b = b
  x = x
  Main = Main
  Nobody = Nobody
  NoCode = NoCode
  Names <- TwoNames
  Slots <- TwoSlots
  MaxJobs = 2
  MaxMishaps = 2
INVARIANTS ExitCodeIsEarned StatusMatchesReport TeardownAlone NothingLeftOpen
PROPERTIES LifecycleSpec InterruptCancelsQueue EndsWithAClosedReport
