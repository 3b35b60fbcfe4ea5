CONSTANTS
  ApplicationFamilies = {"population", "enumeration"}
  Applications <- MCApplications
  MaxEntries = 6
  SiteFamilies = {"pages", "tree", "innerloop", "helpers", "contexts", "overwritten"}
  Sites <- MCSites
  MappingHops = 3
  MaxWalk = 30
  MaxDepth = 9
  MaxScans = 1
  HandlerFamilies = {"handed", "own"}
  Handlers <- MCHandlers
  SecretNames <- MCSecretNames
  IntakeFamilies = {"routes", "graphs", "views", "stores"}
  Intakes <- MCIntakes
  Inside <- MCInside
  Folded <- MCFolded
SPECIFICATION InSpec
INVARIANTS
  NothingGoesQuiet
  WritesArriveAsSinks
  TheSecretsLookupIsKnown
  SourcesAreEarned
PROPERTIES
  DoubtIsNotOutgrown
  JoinEnds
CHECK_DEADLOCK FALSE
