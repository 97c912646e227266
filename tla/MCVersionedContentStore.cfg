SPECIFICATION Spec
CONSTANTS
  Proc = {p1, p2}
  Contents = {c1, c2}
  QueueLimit = 1
  Free = free
  NoOperation = noOperation
  NoSnapshot = noSnapshot
INVARIANTS TypeOK OneWriter
PROPERTIES ImplementsCasStore OperationsSettle
