SPECIFICATION FairSpec
CONSTANTS
  Clients = {p1, p2}
  Locks = {ready, waiters}
  Threads = {t1, t2}
  Null = null
INVARIANTS
  LockWord
  ListsAreLinked
PROPERTIES
  
  ImplementsFifo
  SomebodyGetsIn
