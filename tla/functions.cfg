SPECIFICATION Spec
CONSTANTS
  Threads = {main, t1, t2}
  Caller = main
  Free = Free
  Kernels <- SmallKernels
  GrantPaths <- TwoPaths
  Layouts <- AllLayouts
  Lanes <- SomeLanes
  UidMax = 1000
  MaxNesting = 1
  Merges <- ThreeLayers
  Uids <- SomeUids
  Homes <- SomeHomes
  Facts <- SomeFacts
  Matrices <- SomeMatrices
  Registry <- Modules
  MaxDepth = 4
  Overlays <- SomeOverlays
  Extensions <- SomeExtensions
  Invocations <- SomeInvocations
INVARIANTS
  LastWordWins
  NestedProcessesAgree
  CommandsReachTheirHandlers
  CompositionIsExact
  NothingQuietlyDropped
  ReportIsTrue
CHECK_DEADLOCK FALSE
