SPECIFICATION FairSpec
CONSTANTS
  Received <- EveryKind
  MaxReports = 2
  Callers = {"dsu"}
  Called = {"ir_dots", "controller_data"}
INVARIANT TypeOK
INVARIANT DecodedAsNamed
INVARIANT GyroFromItsFrame
INVARIANT Snapshot
INVARIANT AccFromOneReport
INVARIANT AccNotLeftBehind
PROPERTY ReportHandled
CHECK_DEADLOCK FALSE
