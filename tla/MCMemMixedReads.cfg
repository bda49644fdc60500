SPECIFICATION FairSpec
CONSTANTS
  Plugs = {"NUNCHUK"}
  MotionPlusIds = {}
  Checksums = {"good"}
  MaxPlugs = 0
  AnswersDuringInit = TRUE
  WritesMayFail = FALSE
  AnswersBeforeFlag = FALSE
PROPERTY UnlockedInReadThread
CHECK_DEADLOCK FALSE
