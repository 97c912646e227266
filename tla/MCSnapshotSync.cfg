SPECIFICATION Spec
CONSTANTS
  Syntax = syntax
  Unit = {syntax, note1, note2}
  Value = {v1, v2}
  Missing = missing
  Request = {r1}
SYMMETRY Symmetric
INVARIANT TypeOK
PROPERTIES ExhaustionMeansContention CommitAppliesExactlyTheEdit AppliedEditIsAccepted
