CONSTANTS
  Families = {"keys", "containers", "accessors", "callbacks"}
  ChosenContainers = {"body", "data", "payload", "json", "form"}
  MaxTrace = 5
  Value <- MCValue
  Block <- MCBlock
  LoweredFn <- MCLoweredFn
SPECIFICATION ScSpec
INVARIANTS
  KeysAreExact
  UnownedRecordIsReported
CHECK_DEADLOCK FALSE
