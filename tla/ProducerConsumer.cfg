SPECIFICATION ProdConsSpec
CONSTANTS
  MaxIters = 6
  INT_MAX = 15
INVARIANTS
  ProdConsInv
  FetchesNeverGoBack
  ReportedSums
PROPERTIES
  ImplementsOneSlotBuffer
  ProdConsTermination
