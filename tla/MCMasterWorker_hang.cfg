\* Do all threads return when there are two workers?
CONSTANTS
  Masters = {m1}
  Workers = {w1, w2}
  total_items = 2
  max_buf_size = 2
  SpuriousWakeups = FALSE
SPECIFICATION FairSpec
PROPERTY AllThreadsJoined
CHECK_DEADLOCK FALSE
