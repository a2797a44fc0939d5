SPECIFICATION Spec
CONSTANTS
  Id = {i1, i2, i3}
  Caller = {f}
  Arg = {a}
  NoId = NoId
  MaxEdges = 4
INVARIANTS AliasesShareChain
  ReclaimEndsOwnership
SYMMETRY Interchangeable
CHECK_DEADLOCK FALSE
