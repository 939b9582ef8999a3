SPECIFICATION Spec
CONSTANTS
  P = 3
  N = 3
INVARIANTS
  CounterInv
  BoundedLoss
PROPERTY
  Termination
