CONSTANTS
  NoValue = NoValue
  NoCall = NoCall
  HopLimit = 8
  Families = {"callers", "rows", "literals"}
  Value <- MCValue
  Fn <- MCFn
  Call <- MCCall
  Column = {"c"}
  Program <- MCProgram
SPECIFICATION FairSpec
INVARIANTS
  WitnessesReachASeed
  NothingLeftToCarry
  KeptChainIsBest
PROPERTIES
  KeepsEvidence
  Terminates
CHECK_DEADLOCK FALSE
