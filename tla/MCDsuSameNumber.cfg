SPECIFICATION Spec
CONSTANTS
  c1 = c1
  c2 = c2
  Ids = {c1, c2}
  Askers = {c1}
  Types = {}
  Handlers = {"status", "data"}
  MaxSlots = 0
  PacketNumbers = 3
  MaxDatagrams = 2
  MayStop = FALSE
INVARIANT NumbersDistinct
CHECK_DEADLOCK FALSE
