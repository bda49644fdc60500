SPECIFICATION FairSpec
CONSTANTS
  MaxObjects = 1
  InitReads = 1
PROPERTY DestructorCloses
CHECK_DEADLOCK FALSE
