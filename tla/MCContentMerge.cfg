SPECIFICATION MergeSpec
CONSTANTS
  Syntax = syntax
  Unit = {syntax, note1, note2}
  Value = {v1, v2}
  Missing = missing
INVARIANTS
  NoEditIsDropped
  PreferenceDecidesOnlyOverlap
  SidesAreInterchangeable
  ResendIsHarmless
  RevertClearsConflict
  InFlightEditKeepsMerging
CHECK_DEADLOCK FALSE
