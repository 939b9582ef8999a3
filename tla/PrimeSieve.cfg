SPECIFICATION SieveSpec
CONSTANT
  N = 14
INVARIANTS
  PipelineInv
  NoCandidateLost
PROPERTIES
  ListsPrimes
  SieveTermination
