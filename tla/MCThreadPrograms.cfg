\* Three threads in turn, three printers, three rounds of three turns, and all
\* programs in which three threads make up to three calls on one zemaphore;
\* spurious wakeups.
CONSTANTS
  NUM_THREADS = 3
  NUM_ITER = 3
  zem <- ThreeZems
  NUM_PRINTERS = 3
  N = 3
  NUM_CALLERS = 3
  MAX_CALLS = 3
  SpuriousWakeups = TRUE
SPECIFICATION FairSpec
INVARIANTS ZemInv PrintsInTurn ReportsAreTrue
PROPERTY AllThreadsReturn
\* A program stops when its threads have returned, or are asleep for want of
\* a zem_up in it.
CHECK_DEADLOCK FALSE
