SPECIFICATION Spec
CONSTANTS
  ARR_SIZE = 6
  NPs = {2, 3}
  Inputs <- ShippedInput
  ACCEPTABLE = 8
  MAX_ITER = 12
INVARIANT
  ConvergedWhenPrinted
