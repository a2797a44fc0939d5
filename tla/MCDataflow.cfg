SPECIFICATION DataflowSpec
CONSTANTS
  Kind <- MCKind
  EdgeChoice <- MCEdgeChoice
  EntryChoice <- MCEntryChoice
  ExitChoice <- MCExitChoice
  MaxNodes = 3
  MaxEdges = 3
  Value <- MCValue
  Bottom = "bottom"
  Top = "top"
  Initial = "one"
  Join <- MCJoin
  Meet <- MCMeet
  Transfer <- MCTransfer
  TransferBackward <- MCTransfer
INVARIANT QueriesMatchEdges
INVARIANT FinishedIsLeast
PROPERTY RunsEnd
CHECK_DEADLOCK FALSE
