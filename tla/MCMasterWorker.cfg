\* More masters than slots, fewer slots than items, spurious wakeups.
CONSTANTS
  Masters = {m1, m2, m3}
  Workers = {w1, w2}
  total_items = 4
  max_buf_size = 2
  SpuriousWakeups = TRUE
SPECIFICATION FairSpec
INVARIANTS PoolInv WorkersLeaveLast OverproductionBound NoLostWakeup
PROPERTIES RefinesWorkPool AllItemsConsumed
\* The program may stop: see MCMasterWorker_hang.cfg.
CHECK_DEADLOCK FALSE
