SPECIFICATION Spec
CONSTANT
  NTHREADS = 4
INVARIANTS
  OwnArguments
  LateReads
PROPERTY
  GoodbyeAfterAll
