CONSTANTS
  Name = {"a", "b", "c", "ghost"}
  Decl <- SmallDecl
  MaxPasses = 3
SPECIFICATION Spec
INVARIANTS InstalledOrderIsTopological
PROPERTY ScheduleSpec
