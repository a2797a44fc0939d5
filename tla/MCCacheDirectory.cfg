CONSTANTS
  EntryKey <- MCEntryKey
  Length = {1}
  MaxCacheSize = 1
  Ttl = 1
  MaxTime = 2
  MaxTotal = 1
  PassName = {p1, p2, p3}
  FunctionName = {f1, f2}
  MaxEdges = 4
SPECIFICATION MCSpec
INVARIANTS SavedIsLoadable ExactlyAffected
PROPERTIES ImplementsLossyStore EntriesBounded
