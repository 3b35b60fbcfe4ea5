CONSTANTS
  Families = {"placements", "questions", "patterns", "selectors", "pages"}
  Hops = 16
  Rounds = 8
  NoBlock = NoBlock
  Path <- MCPath
  Value <- MCValue
  Block <- MCBlock
  LoweredFn <- MCLoweredFn
SPECIFICATION AdSpec
INVARIANTS
  CreditedValueWasMatched
  SilencedBodyIsNotMarkup
CHECK_DEADLOCK FALSE
