SPECIFICATION FairSpec
CONSTANTS
  Procs = {p1, p2}
  BootProc = p1
  Base = main
  Workers = {w1, w2}
  NoThread = null
  Detached = detached
  Yielders = {}
  MaxYields = 1
  Loopers = {main}
  Joiners = {main}
  Detachers = {main, w1}
  Rejoin = FALSE
INVARIANTS
  OneProcessorPerThread
  ReapedOnce
  NoSpinCycle
  DetachedNotUsedAfterFree
PROPERTIES
  JoinReturns
  ReadyRuns
  DetachedIsFreed
CHECK_DEADLOCK FALSE
