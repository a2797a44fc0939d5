SPECIFICATION ModuleSpec
CONSTANTS
  Symbol <- MCSymbol
  Trait <- MCTrait
  Spelling <- MCSpelling
  Globals <- MCGlobals
  Literals <- MCLiterals
  PointerTypes <- MCPointerTypes
  ArgumentNames <- MCArgumentNames
  Sources <- MCSources
INVARIANTS
  ReadersAgree
  SliceIsTwoHops
  BoundariesNested
  ReleasesReported
  UncheckedReturnsExact
  OrderingsAreBest
  LeaksExact
CHECK_DEADLOCK FALSE
