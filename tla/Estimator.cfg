SPECIFICATION Spec
CONSTANTS
  largeVariance <- MCLarge
  RInit <- MCRInit
  QInit <- MCQInit
  Starts <- MCStarts
  Accelerations <- MCAccelerations
  Phases = {0, 1, 5, 10}
  Ticks = 2
INVARIANTS
  LeastSquares
  DoubtExcused
CHECK_DEADLOCK FALSE
