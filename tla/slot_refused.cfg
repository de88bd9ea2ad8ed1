\* The slots of slot.cfg.
SPECIFICATION Spec
CONSTANTS
  Cases <- SlotCases
  MaxSkips = 1
INVARIANT OnlyCommandsStopSuites
