CONSTANTS
  Element = {e1, e2, e3, e4}
  NoRoot = NoRoot
SPECIFICATION UFSpec
INVARIANTS RepresentsSets TreesAreShallow
PROPERTY ImplementsPartition
