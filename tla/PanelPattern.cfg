SPECIFICATION Spec
CONSTANTS
  Limits <- NoLimits
  Boot <- ResetControl
  LedForms <- OnOff
  SegForms <- AllPatterns
INVARIANT EveryAskedShown
