SPECIFICATION Spec
CONSTANTS
  Received <- Requested
  MaxReports = 3
  Callers = {"dsu"}
  Called = {"motionplus"}
INVARIANT MotionPlusSnapshot
CHECK_DEADLOCK FALSE
