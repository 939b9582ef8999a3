SPECIFICATION Spec
CONSTANTS
  NITEMS = 10
  NTHREADS = 4
  Calls = 2
  MaxSpurious = 2
INVARIANTS
  PrefixInv
  NoDataRace
  IndicesInBounds
PROPERTIES
  NothingAddedTwice
  ImplementsPhaseBarrier
  ReportsMatch
