SPECIFICATION Spec
CONSTANTS
  r1 = r1
  r2 = r2
  Readers <- TwoReaders
  Versions = 1
  Starts = 2
  AbortAt <- Anywhere
  SignalAt <- Anywhere
SYMMETRY ReaderSymmetry
INVARIANT TypeOK
INVARIANT SemConserved
INVARIANT SnapshotRead
CHECK_DEADLOCK FALSE
