SPECIFICATION Spec
CONSTANTS
  QUEUE_SIZE = 16
  NUM_ITERATIONS = 64
  NUM_THREAD_PAIRS = 2
INVARIANTS
  EmptyMeansEmpty
CHECK_DEADLOCK FALSE
