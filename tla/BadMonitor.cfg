SPECIFICATION Spec
CONSTANTS
  NITEMS = 9
  NTHREADS = 4
  MaxSpurious = 2
INVARIANTS
  MonitorInv
  CorrectUnlessSpurious
  LastArrivalStays
  OneSpuriousWakeupEach
PROPERTY
  Termination
