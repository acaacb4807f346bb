SPECIFICATION FairSpec
CONSTANTS
  r1 = r1
  r2 = r2
  Readers <- OneReader
  Versions = 1
  Starts = 2
  AbortAt <- AfterCreation
  SignalAt <- InTheLoop
PROPERTY ReaderServed
PROPERTY PublishGoesOn
CHECK_DEADLOCK FALSE
