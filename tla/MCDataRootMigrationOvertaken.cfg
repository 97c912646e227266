CONSTANTS
  Request = {r1, r2}
  Root = {home, away}
  FirstRoot = home
  MaxWrites = 1
  MaxUpdates = 1
  MaxFaults = 0
  MaxCrashes = 0
  None = None
SPECIFICATION Spec
PROPERTIES UncommittedFailureKeepsSource
