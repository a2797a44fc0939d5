SPECIFICATION ProjectSpec
CONSTANTS
  Loader = {"project", "other"}
  Path = {"p.ll", "q.msgpack"}
  Content <- MCContent
  Outcome <- MCOutcome
  Available <- MCAvailable
  Extension <- MCExtension
  IsLarge <- MCIsLarge
  MaxEdits = 1
  Inputs <- MCInputs
  Project = "project"
  OtherLoads <- MCOtherLoads
  MaxRuns = 2
INVARIANTS LoadedIsCurrent AutoFailsOnlyAtLast BuiltWhole
CHECK_DEADLOCK FALSE
