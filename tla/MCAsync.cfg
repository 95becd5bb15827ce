SPECIFICATION FairSpec
CONSTANTS
  Slots = 4
INVARIANTS
  FlagMeansResult
  CompletedInOrder
  CrashNeedsRace
PROPERTIES
  NeverFull
  Finishes
CHECK_DEADLOCK FALSE
