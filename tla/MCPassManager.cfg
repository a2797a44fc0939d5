CONSTANTS
  Name = {"collect", "enrich", "report", "audit", "refine", "ghost"}
  Decl <- MCDecl
  MaxPasses = 4
  Key = {"module", "facts", "summary", "srt"}
  SrtKey = "srt"
  Effect <- MCEffect
  Inputs = {"module"}
  Registrations <- MCRegistrations
  Modes = {TRUE, FALSE}
  CacheAttached = TRUE
  MaxVersion = 1
  MaxRuns = 2
SPECIFICATION FairManager
INVARIANTS
  DependentsFollow
  ResultsAreCurrent ModesAgree
PROPERTIES RunReturns
CHECK_DEADLOCK FALSE
