SPECIFICATION Spec
CONSTANTS
  Threads = {main}
  Caller = main
  Free = Free
  Kernels <- SmallKernels
  GrantPaths <- TwoPaths
  Layouts <- AllLayouts
  Lanes <- SomeLanes
  UidMax = 1000
  MaxNesting = 1
  Merges <- ThreeLayers
  Uids <- SomeUids
  Homes <- SomeHomes
  Facts <- SomeFacts
  Matrices <- SomeMatrices
  Registry <- Modules
  MaxDepth = 4
  Overlays <- SomeOverlays
  Extensions <- SomeExtensions
  Invocations <- SomeInvocations
INVARIANT SentinelsNeverLeak
CHECK_DEADLOCK FALSE
