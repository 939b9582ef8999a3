SPECIFICATION Spec
CONSTANTS
  NTHREADS = 2
  gridSize = 3
  numIters = 1
  Calls = 2
  MaxSpurious = 0
INVARIANT
  EveryRowComputed
