SPECIFICATION Spec
CONSTANTS
  Family <- MCFamily
  UnknownFamily = "UNKNOWN"
  HeapFamily = {"C_HEAP", "CPP_NEW_SCALAR", "CPP_NEW_ARRAY", "MIMALLOC", "RUST_RAW_OWNERSHIP", "RUST_GLOBAL"}
  CompatiblePair <- MCCompatiblePair
  Language <- MCLanguage
  Registry <- MCRegistry
  FfiDb <- MCFfiDb
  Summary <- MCSummary
  NoFamily = "none"
  NonAllocator = {"malloc_create_zone"}
  CallbackApi = {"set_callback"}
  FreeCall = {"free", "_ZdlPv"}
  GuardFree = {"free", "_ZdlPv"}
  Indirect = "indirect"
  Gep = "gep"
  Modules <- MCModules
  Thunk = {"std"}
  PureDeallocator = {"free", "_ZdlPv"}
  Shim = {"closer"}
  StdLibrary = {"std"}
  RustFamily = {"RUST_RAW_OWNERSHIP", "RUST_GLOBAL"}
  OnlyAborts = {"fatal"}
  MayAbort = {"fatal", "checked"}
  ReturnsPointer = {"factory"}
  Returnable = {"malloc", "_Znwm", "_Znam"}
  RuntimeManaged = {"PyObject_New"}
  NewArray = {"_Znam"}
  Library = {"std"}
  SummaryOf <- MCSummaryOf
  Id <- MCId
  Caller = {"f", "g", "fatal", "checked", "factory", "closer", "opener", "std", ""}
  Arg = {0}
  NoId = NoId
  MaxEdges = 100
  DropLike = {"_ZdlPv"}
INVARIANTS ConsumedInOrder InstancesAgree LateUsesReported PairedAcrossOnce
  DefiniteLeaksHaveNoRelease KnownProgramsExact
CHECK_DEADLOCK FALSE
