\* Pages of three chunks of two bytes, two pages in ealloc.h; every size and
\* every pointer.
CONSTANTS
  PAGESIZE = 6
  MINALLOC = 2
  MAXPAGES = 2
  Addresses <- SomeAddresses
SPECIFICATION Spec
INVARIANT AllocInv
PROPERTIES RoomIsUsed RefinesHeap
