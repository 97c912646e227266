CONSTANTS
  Request = {r1, r2}
  Root = {home, away, afar}
  FirstRoot = home
  MaxWrites = 2
  MaxUpdates = 1
  MaxFaults = 2
  MaxCrashes = 1
  None = None
SPECIFICATION Spec
INVARIANTS TypeOK WritesAreKept MigrationIsAlone
PROPERTIES ServiceReturns
