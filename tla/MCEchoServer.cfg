\* Both servers with three clients, two of which fit in the backlog; four
\* descriptors, two of which fit in one call of epoll_wait.
CONSTANTS
  Clients = {c1, c2, c3}
  Backlog = 2
  MAX_EVENTS = 2
SPECIFICATION FairSpec
INVARIANTS EchoInv EdgesKept ExitsOnlyOnDeparture
PROPERTIES ClientsAnswered DepartureEndsService
\* The server may be gone, or wait for clients that send nothing.
CHECK_DEADLOCK FALSE
