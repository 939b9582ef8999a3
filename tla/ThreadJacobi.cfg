SPECIFICATION Spec
CONSTANTS
  NTHREADS = 3
  gridSize = 6
  numIters = 2
  Calls = 4
  MaxSpurious = 1
INVARIANTS
  JacobiInv
  BarrierInv
  NoOvertaking
  NoDataRace
PROPERTY
  PrintsLastSweeps
