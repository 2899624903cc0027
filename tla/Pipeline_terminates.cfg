SPECIFICATION Spec
CONSTANTS
  c1 = c1
  c2 = c2
  w1 = w1
  w2 = w2
  h1 = h1
  h2 = h2
  None = None
  Callers <- MCCallers
  Workers <- MCWorkers
  Sockets <- MCSockets
  MaxToggles = 4
  MaxEvents = 2
INVARIANT NeverTerminates
CHECK_DEADLOCK FALSE
