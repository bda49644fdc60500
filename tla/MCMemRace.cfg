SPECIFICATION Spec
CONSTANTS
  Plugs = {"NUNCHUK", "CLASSIC"}
  MotionPlusIds = {}
  Checksums = {"good"}
  MaxPlugs = 0
  AnswersDuringInit = TRUE
  WritesMayFail = TRUE
  AnswersBeforeFlag = TRUE
INVARIANT ControlHandover
INVARIANT IInv
INVARIANT OneOutstanding
PROPERTY ImplementsStopAndWait
CHECK_DEADLOCK FALSE
