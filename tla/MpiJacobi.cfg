SPECIFICATION Spec
CONSTANTS
  ARR_SIZE = 6
  NPs = {1, 2, 3, 4, 6}
  Inputs <- BothInputs
  ACCEPTABLE = 4
  MAX_ITER = 2
INVARIANTS
  ExchangeInv
  LeaveTogether
  PrintsSequentialResult
PROPERTY
  Termination
