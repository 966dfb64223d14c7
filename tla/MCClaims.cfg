CONSTANTS
  p1 = p1 w1 = w1 w2 = w2
  Positions <- MCPositions
  Workers <- MCWorkers
  NoPosition = NoPosition
  Nobody = Nobody
  ClaimTTL = 2
  Beat = 1
  MaxLost = 1
  MaxStops = 1
  MaxRaces = 2
SPECIFICATION FairSpec
INVARIANTS ClaimHeld CleanExit
PROPERTIES LocksSearches ClaimsFreed
