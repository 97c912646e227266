SPECIFICATION Spec
CONSTANTS
  Path = {a, b}
  Value = {v1, v2}
  MaxCommits = 1
  MaxEdits = 0
  MaxFaults = 0
  None = None
SYMMETRY Symmetric
INVARIANT KilledWriterRecovers
