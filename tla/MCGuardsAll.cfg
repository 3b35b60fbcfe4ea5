CONSTANTS
  Families = {"refused", "omits", "discards", "late", "forwards"}
  Shapes = {"diamond", "returns", "loop", "guarded", "finally"}
  MaxTrace = 7
  NoValue = NoValue
  Value <- MCValue
  Block <- MCBlock
  LoweredFn <- MCLoweredFn
SPECIFICATION GdSpec
INVARIANTS
  RefusedWorkRuns
  LeftUndoneIsReported
  ForwardCarriesCredentials
CHECK_DEADLOCK FALSE
