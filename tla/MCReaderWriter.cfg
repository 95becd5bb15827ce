SPECIFICATION FairTest
CONSTANTS
  Clients = {r, w1, w2}
  Writers = {w1, w2}
  Nobody = nobody
  MaxEntries = 2
INVARIANTS
  HolderIsInside
  NoLostWakeup
  CountersAgree
  EveryWriteCounts
PROPERTIES
  
  TestEnds
CHECK_DEADLOCK FALSE
