\* A pipe of two bytes, which three prints fill; one failure of the sink or the
\* terminal.
SPECIFICATION FairSpec
CONSTANTS
  Room = 2
  MaxPrints = 3
  MaxChild = 1
  MaxFaults = 1
INVARIANTS
  SinkIsFaithful
  NothingIsLost
PROPERTIES
  BlockIsLeft
\* The block is left, or waits for ever for a child or behind a dead pump.
CHECK_DEADLOCK FALSE
