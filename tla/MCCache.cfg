CONSTANTS
  root = root a = a b = b bPassed = bPassed stray = stray leaf1 = leaf1 leaf2 = leaf2
  leaf2Passed = leaf2Passed over = over overPassed = overPassed deeper = deeper h1 = h1 h2 = h2
  Positions <- MCPositions
  Root = root
  Discs <- MCDiscs
  Moves <- MCMoves
  Passed <- MCPassed
  FinalScore <- MCFinalScore
  Undetermined = Undetermined
  Submissions <- MCSubmissions
  Handlers <- MCHandlers
  MaxErrors = 1
  MaxRestarts = 1
SPECIFICATION Spec
INVARIANTS CacheIsBestPlay StaleOnlyByFaults
