SPECIFICATION FairSpec
CONSTANTS
  ReadCount = 4
  ThreadCounts = {1, 2, 3}
  Half = 65536
INVARIANTS
  ResultsInPlace
  OneAtATimeInOrder
PROPERTIES
  Finishes
CHECK_DEADLOCK FALSE
