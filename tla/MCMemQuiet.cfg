SPECIFICATION FairSpec
CONSTANTS
  Plugs = {"NUNCHUK", "CLASSIC"}
  MotionPlusIds = {"INACTIVE_MPLS"}
  Checksums = {"good", "bad"}
  MaxPlugs = 2
  AnswersDuringInit = FALSE
  WritesMayFail = FALSE
  AnswersBeforeFlag = FALSE
INVARIANT ReadReplyPending
INVARIANT ReadsTracked
INVARIANT WriteAckPending
INVARIANT NeverAsleep
PROPERTY AllServed
PROPERTY DetectsExtension
