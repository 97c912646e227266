SPECIFICATION Spec
CONSTANTS
  Edit = {e1, e2}
  Write = {w1}
  MaxFaults = 0
  None = None
CHECK_DEADLOCK FALSE
PROPERTIES NothingIsDeleted
