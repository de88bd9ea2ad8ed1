SPECIFICATION FairSpec
CONSTANTS
  r1 = r1
  r2 = r2
  r3 = r3
  r4 = r4
  t1 = t1
  t2 = t2
  NoRun = NoRun
  NoToken = NoToken
  Runs <- FourRuns
  Launchers <- Launcher
  Cancellable = {r3, r4}
  Tokens = {t1}
  CanBeKilled = FALSE
INVARIANT NoMissedWake
PROPERTIES EveryRunLeaves AllBackAfterClose CancelledWaitEnds
