\* Both implementations under threads that may call again for ever, with
\* spurious wakeups.
CONSTANTS
  Readers = {r1, r2, r3}
  Writers = {w1, w2}
  Reenter = TRUE
  SpuriousWakeups = TRUE
SPECIFICATION FairSpec
INVARIANTS LockInv NoLostWakeup
PROPERTIES WriterPreference RefinesReadersWriters EveryCallReturns WritersProgress
