CONSTANTS
  Families = {"peers", "limiter"}
  MaxTrace = 5
  NoValue = NoValue
  Value <- MCValue
  Fact = {"query", "body"}
  Content = {"x", "y"}
  Block <- MCBlock
  LoweredFn <- MCLoweredFn
SPECIFICATION AcSpec
INVARIANT
  OmittedElsewhereIsReported
CHECK_DEADLOCK FALSE
