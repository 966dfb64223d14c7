SPECIFICATION Spec
CONSTANTS
  r = r  a = a  b = b  c = c  d = d  d2 = d2  e = e  g = g  h = h  q = q  t = t  u = u  p5 = p5
  NoPosition = NoPosition
  Positions <- MCPositions
  Moves <- MCMoves
  Passed <- MCPassed
  Empties <- MCEmpties
  Slot <- MCSlot
  Threshold <- MCThreshold
  MaxScore = 2
  MaxDepth = 9
  Solves <- MCSolves
CHECK_DEADLOCK FALSE
INVARIANTS
  TableIsProven
  ResearchRaisesAlpha
  ResultIsProven
