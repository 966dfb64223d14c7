CONSTANTS
  early = early last = last w1 = w1 w2 = w2
  Rows <- MCRows
  Discs <- MCDiscs
  Workers <- MCWorkers
  Nobody = Nobody
  NoRow = NoRow
  NoStats = NoStats
  Batch = 1
  InitialLevels <- MCLevels
  MaxFails = 1
SPECIFICATION FairSpec
INVARIANTS FloorIsLowerBound
PROPERTY EveryRowLearned
