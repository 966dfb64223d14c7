SPECIFICATION Spec
CONSTANTS
  N_W = 11
  Words <- MCWords
  Files <- MCFiles
  Requests <- MCRequests
  MaxCalls = 6
  MaxMoves = 2
INVARIANTS
  FeaturesFollowBoard
  EvaluatesAsTrained
  FlipVariantsAgree
  SearchesAsTheServer
