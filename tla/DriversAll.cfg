SPECIFICATION Spec
CONSTANTS
  MaxLoads = 3
  MaxFaults = 1
  MaxErrors = 1
  Readings <- MCReadings
INVARIANTS TypeOK OpenIsLive NothingLeftMapped KernelSurvives ReadingNear
CHECK_DEADLOCK FALSE
