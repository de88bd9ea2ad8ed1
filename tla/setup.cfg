SPECIFICATION SetupSpec
CONSTANTS
  p1 = p1
  p2 = p2
  p3 = p3
  t1 = t1
  t2 = t2
  f1 = f1
  f2 = f2
  f3 = f3
  f4 = f4
  Procs <- ThreeProcs
  First <- TwoFirst
  Threads <- TwoThreads
  Files <- FourFiles
  MaxNested = 1
  NoThread = NoThread
  NoFile = NoFile
  old = old
  new = new
  mixed = mixed
  parent = parent
  child = child
  i = i
  j = j
  Programs <- MCPrograms
  Owners <- MCOwners
  Closure <- MCClosure
  Receipts <- MCReceipts
  None = None
  Unreadable = Unreadable
  Partial = Partial
SYMMETRY FileSymmetry
INVARIANTS
  MutualExclusion
  OwnerKeepsLock
  OnlyRacesRetain
  IdleMeansFree
  ReceiptCertifies
  NewerIsKept
PROPERTY NeverTorn
\* Every process may have died.
CHECK_DEADLOCK FALSE
