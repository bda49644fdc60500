SPECIFICATION Spec
CONSTANTS
  Plugs = {"NUNCHUK"}
  MotionPlusIds = {}
  Checksums = {"good"}
  MaxPlugs = 0
  AnswersDuringInit = TRUE
  WritesMayFail = FALSE
  AnswersBeforeFlag = FALSE
INVARIANT ReadRequestsExclusive
CHECK_DEADLOCK FALSE
