SPECIFICATION Spec
CONSTANTS
  Missing = missing
  Unit = {syntax, a, b}
  Value = {v1, v2}
  Syntax = syntax
  Editable = {a, b}
  MaxEdits = 2
  MaxWrites = 2
  MaxLoads = 0
  None = None
  CacheSuspends = FALSE
SYMMETRY Symmetric
CHECK_DEADLOCK FALSE
INVARIANTS TypeOK ConflictIsWhole ConflictIsVisible OnlyUserEditsAreSent
