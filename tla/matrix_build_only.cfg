SPECIFICATION Spec
CONSTANTS
  a = a
  b = b
  x = x
  Main = Main
  Nobody = Nobody
  NoCode = NoCode
  Names <- TwoSlots
  Slots <- TwoSlots
  MaxJobs = 1
  MaxMishaps = 0
INVARIANT BuildOnlyKeepsBuilt
