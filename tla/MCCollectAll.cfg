CONSTANTS
  NoValue = NoValue
  NoCall = NoCall
  HopLimit = 8
  PathLimit = 8
  RootHops = 8
  RootDepth = 3
  MadeByHops = 8
  Families = {"routes", "callers", "receivers", "facts"}
  Value <- MCValue
  Fn <- MCFn
  Call <- MCCall
  Column = {"c"}
  Program <- MCProgram
SPECIFICATION CollectSpec
INVARIANTS
  UntouchedRouteIsReported
  UnownedAccessIsAnswered
  KnowingLessDropsNothing
CHECK_DEADLOCK FALSE
