\* Two slots; two runs of the producer with four turns each; three runs of
\* the consumer.
CONSTANTS
  TOTAL_SLOTS = 2
  Iterations = 4
  Producers = 2
  Consumers = 3
SPECIFICATION FairSpec
INVARIANT SlotsInv
PROPERTIES RefinesBoundedChannel EverythingArrives
\* Both programs may be over, or the consumer read for ever.
CHECK_DEADLOCK FALSE
