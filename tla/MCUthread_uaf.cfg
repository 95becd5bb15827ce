SPECIFICATION Spec
CONSTANTS
  Procs = {p1, p2}
  BootProc = p1
  Base = main
  Workers = {w1}
  NoThread = null
  Detached = detached
  Yielders = {}
  MaxYields = 0
  Loopers = {}
  Joiners = {main}
  Detachers = {}
  Rejoin = FALSE
INVARIANT NoUseAfterFree
CHECK_DEADLOCK FALSE
