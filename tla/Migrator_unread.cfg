SPECIFICATION Spec
CONSTANTS
  r1 = r1
  r2 = r2
  t1 = t1
  t2 = t2
  f1 = f1
  w1 = w1
  Runs <- MCRuns
  Targets <- MCTargets
  Files <- MCFiles
  Writes <- MCWrites
  OneAtATime = TRUE
  Unreadable = TRUE
SYMMETRY Symmetry
INVARIANT VerifyCatchesDropped
