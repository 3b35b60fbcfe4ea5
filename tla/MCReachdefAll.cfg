CONSTANTS
  Shapes = {"straight", "diamond", "returns", "loop", "try"}
  Spread = FALSE
  NoBlock = NoBlock
  Value <- MCValue
  Block <- MCBlock
  LoweredFn <- MCLoweredFn
SPECIFICATION RdSpec
INVARIANT
  OnlyDeadDefinitionsDropped
CHECK_DEADLOCK FALSE
