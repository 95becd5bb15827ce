SPECIFICATION Spec
CONSTANTS
  Procs = {p1}
  BootProc = p1
  Base = main
  Workers = {w1, w2}
  NoThread = null
  Detached = detached
  Yielders = {main, w1, w2}
  MaxYields = 1
  Loopers = {}
  Joiners = {main, w1, w2}
  Detachers = {main, w1, w2}
  Rejoin = TRUE
SYMMETRY WorkerSymmetry
INVARIANTS
  TypeOK
  QueuedOnce
  StopFindsThread
  NoUseAfterFree
  JoinSeesResult
  NoLostJoin
PROPERTY
  JoinerKept
