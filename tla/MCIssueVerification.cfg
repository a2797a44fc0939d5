\* Lists of two candidates of any kind and of up to four of a few kinds.
\* The pass ends.
CONSTANTS
  Lists <- MCLists
  CompatibleRelease <- MCCompatibleRelease
  Leakable <- MCLeakable
SPECIFICATION Spec
INVARIANTS
  FaultReachesGate
  ReportsNotRedundant
  LeakSurvivesDedup
CHECK_DEADLOCK FALSE
