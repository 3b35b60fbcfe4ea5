CONSTANTS
  N = 3
  Largest = 10
  Block <- MCBlock
  LoweredFn <- MCLoweredFn
SPECIFICATION FairSpec
INVARIANTS
  ReachedExact
  PostDominatorsExact
  DominatorsExact
  RepetitionsAreCycles
  PolaritiesAgree
PROPERTIES
  Finishes
CHECK_DEADLOCK FALSE
