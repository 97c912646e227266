SPECIFICATION Spec
CONSTANTS
  Missing = missing
  Unit = {syntax, a}
  Value = {v1, v2}
  Syntax = syntax
  Editable = {a}
  MaxEdits = 1
  MaxWrites = 1
  MaxLoads = 1
  None = None
  CacheSuspends = TRUE
CHECK_DEADLOCK FALSE
INVARIANTS BaseIsKnown
PROPERTIES PendingEditsAreKept SynchronizationEnds
