CONSTANTS
  w1 = w1 w2 = w2
  Workers <- MCWorkers
  Nobody = Nobody
  NoRow = NoRow
  NoEval = NoEval
  DiscCounts <- MCDiscCounts
  StoredLevels <- MCStoredLevels
  MaxErrors = 1
  MaxExpiries = 2
SPECIFICATION Spec
INVARIANTS AckedIsStored NotFoundOnlyAfterFaults LeftoversOnlyByFaults
PROPERTY RowNeverRegresses
