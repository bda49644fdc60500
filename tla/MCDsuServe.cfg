SPECIFICATION FairSpec
CONSTANTS
  c1 = c1
  c2 = c2
  Ids = {c1, c2}
  Askers = {c2}
  Types = {"short", "CONTROLLER_STATUS"}
  Handlers = {"status", "data"}
  MaxSlots = 2
  PacketNumbers = 3
  MaxDatagrams = 2
  MayStop = TRUE
INVARIANT TypeOK
INVARIANT NumbersConsecutive
INVARIANT AtMostOneMore
PROPERTY DatagramsServed
PROPERTY Streams
PROPERTY StopEndsSendLoop
PROPERTY NextDatagramEnds
CHECK_DEADLOCK FALSE
