SPECIFICATION Spec
CONSTANTS
  Limits <- NoLimits
  Boot <- ResetControl
  LedForms <- OnOff
  SegForms <- AllPatterns
INVARIANTS TypeOK NothingUnasked HighestShown
