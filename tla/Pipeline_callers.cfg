SPECIFICATION FairSpec
CONSTANTS
  c1 = c1
  c2 = c2
  w1 = w1
  w2 = w2
  h1 = h1
  h2 = h2
  None = None
  Callers <- MCCallers
  Workers <- MCWorkers
  Sockets <- MCSockets
  MaxToggles = 3
  MaxEvents = 2
INVARIANTS TypeOK OneWorker ClosedOnce
PROPERTIES StopJoins StopReturns
CHECK_DEADLOCK FALSE
