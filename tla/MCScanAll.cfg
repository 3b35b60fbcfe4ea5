SPECIFICATION Spec
CONSTANTS
  Rule = {"exposure", "listing"}
  Entry = {"GET /a", "GET /b"}
  File = {"app", "helper"}
  Line = {1, 2}
  Fn = {"send", "other"}
  Symbol = {"status(503).json", "status(404).json", "exec"}
  Operation <- MCOperation
  Source = {"error"}
  Detail = {"body", "header"}
  ValuePath = {"whole"}
  Tree <- MCTree
  Job <- MCJob
  MaxEdits = 1
  MaxFindings = 2
  Families = {"branches", "functions", "contexts", "shapes", "gaps", "pages", "channels"}
  Jobs = {"record", "update", "compare", "review", "any", "never"}
INVARIANTS
  RecordedCodeIsQuiet
  VerdictIsEarned
  FlowSitesKept
  ConfidenceKept
PROPERTIES
  KeepsThePromise
