CONSTANTS
  p1 = p1 p2 = p2 e1 = e1 e2 = e2 e3 = e3
  EdaxPositions <- MCPositions
  Levels <- MCLevels
  Processes <- MCProcesses
  NoProcess = NoProcess
  Failed = Failed
  MaxFaults = 3
  SearchesEnd = TRUE
SPECIFICATION FairEdaxSpec
INVARIANTS AnswerIsForJob RunningIsManaged
PROPERTIES ShutdownEnds FailuresEnd
CHECK_DEADLOCK FALSE
