SPECIFICATION Spec
CONSTANTS
  Edit = {e1, e2}
  Write = {w1}
  MaxFaults = 1
  None = None
CHECK_DEADLOCK FALSE
INVARIANTS TypeOK EditsStayVisible SavedMeansSent
PROPERTIES EditsArrive SessionConverges
