SPECIFICATION FairSpec
CONSTANTS
  Polls = 3
  Starts = 2
INVARIANTS TypeOK QuietAnswer DigitsTogether ConversionFresh
PROPERTY FillEnds
CHECK_DEADLOCK FALSE
