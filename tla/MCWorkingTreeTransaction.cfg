SPECIFICATION Spec
CONSTANTS
  Path = {a, b}
  Value = {v1, v2, v3}
  MaxCommits = 2
  MaxEdits = 1
  MaxFaults = 1
  None = None
SYMMETRY Symmetric
INVARIANTS TypeOK AllOrNothing RefusesOnlyDamage
