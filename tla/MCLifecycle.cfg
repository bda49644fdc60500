SPECIFICATION FairSpec
CONSTANTS
  MaxObjects = 3
  InitReads = 2
INVARIANT TypeOK
INVARIANT OneUser
INVARIANT ReadsCarriedOver
PROPERTY Served
PROPERTY MoveEnds
CHECK_DEADLOCK FALSE
