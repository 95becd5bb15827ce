SPECIFICATION Spec
CONSTANTS
  Procs = {p1, p2}
  BootProc = p1
  Base = main
  Workers = {w1, w2}
  NoThread = null
  Detached = detached
  Yielders = {w1, w2}
  MaxYields = 1
  Loopers = {}
  Joiners = {main}
  Detachers = {}
  Rejoin = FALSE
INVARIANT ReapedOnce
CHECK_DEADLOCK FALSE
