SPECIFICATION FairPoolSpec
CONSTANTS
  r = r
  a = a
  b = b
  c = c
  Boards <- MCBoards
  Start = r
  Children <- MCMoves
  EmptySquares <- MCEmpties
  OnBook <- MCOnBook
  Lines <- MCLines
  NumWorkers = 2
  MaxEvents = 2
  Fragile = {a}
INVARIANTS SlotsAreLiveChains NothingForgotten NoIdleWorker
PROPERTIES VisibleFirst Settles
CHECK_DEADLOCK FALSE
