SPECIFICATION MainFairSpec
CONSTANTS
  Others = {"reader"}
  UnusedBits = {FALSE, TRUE}
  MaxQueue = 1
  IndexValues = 8
  MaxDown = 1
  MaxUp = 3
  MaxPressed = 2
INVARIANT MainTypeOK
INVARIANT LedsFollow
INVARIANT SettledInv
INVARIANT RumbleSettled
PROPERTY RumbleReaches
PROPERTY PressReaches
PROPERTY GoesRound
CHECK_DEADLOCK FALSE
