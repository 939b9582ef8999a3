SPECIFICATION SieveSpec
CONSTANT
  N = 2
INVARIANT
  OnlyPrimesPrinted
