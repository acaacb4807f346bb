SPECIFICATION FairSpec
CONSTANTS
  m1 = m1
  m2 = m2
  Songs <- MCSongs
INVARIANTS TypeOK SilentAtRest
PROPERTIES StopReturns AlarmSounds
CHECK_DEADLOCK FALSE
