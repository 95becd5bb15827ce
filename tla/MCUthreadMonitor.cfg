SPECIFICATION MonitorSpec
CONSTANTS
  Procs = {p1, p2}
  BootProc = p1
  Base = main
  Workers = {w1, w2}
  NoThread = null
  Detached = detached
  Yielders = {}
  MaxYields = 0
  Loopers = {main}
  Joiners = {}
  Detachers = {}
  Rejoin = FALSE
  MaxEntries = 2
INVARIANT
  OneProcessorPerThread
PROPERTIES
  ImplementsMonitor
  EveryEnterReturns
CHECK_DEADLOCK FALSE
