SPECIFICATION FairSpec
CONSTANTS
  p1 = p1
  p2 = p2
  c1 = c1
  c2 = c2
  w1 = w1
  w2 = w2
  Positions <- MCOnePosition
  Clients <- MCClients
  Workers <- MCOneWorker
  NoEntry = NoEntry
  MaxQueue = 2
  MaxDrops = 1
  MaxRestarts = 1
  MaxCancels = 1
INVARIANTS StuckOnlyByFaults ClosedConnectionsDiscarded
PROPERTY DropsHeal
CHECK_DEADLOCK FALSE
