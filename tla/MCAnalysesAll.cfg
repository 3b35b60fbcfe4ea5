CONSTANTS
  ProgramFamilies = {"keys", "excuses", "routes", "ways", "literals"}
  MaxRun = 12
  Value <- MCValue
  Programs <- MCPrograms
  PatternFamilies = {"excludes", "shapes"}
  MaxWord = 4
  Profiles <- MCProfiles
  SourceFamilies = {"siblings", "alias", "twoquestions", "permission", "route", "candidates", "key", "twins",
                    "defaultkey", "reset", "listeners", "returning", "answers", "unnamed"}
  Sources <- MCSources
  Vocabulary <- MCVocabulary
  HeaderNames <- MCHeaderNames
  ApplicationFamilies = {"empty", "methods"}
  Applications <- MCApplications
  Local <- MCLocal
SPECIFICATION AnSpec
INVARIANTS
  ExcusesHold
  VerdictsHoldOfTheWords
  AccusationsAreTrue
  DeclaredSelectionIsJudged
CHECK_DEADLOCK FALSE
