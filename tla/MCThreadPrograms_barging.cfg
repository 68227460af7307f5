\* Does main release one thread at a time in test-zem.c?
CONSTANTS
  NUM_THREADS = 3
  NUM_ITER = 1
  zem <- ThreeZems
  NUM_PRINTERS = 2
  N = 1
  NUM_CALLERS = 0
  MAX_CALLS = 0
  SpuriousWakeups = FALSE
SPECIFICATION Spec
INVARIANT OneAtATime
CHECK_DEADLOCK FALSE
