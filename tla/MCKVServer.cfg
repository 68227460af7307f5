\* Two clients, a store that can be full, as many connections as clients: one
\* that is still to be hung up delays the next.
CONSTANTS
  k1 = k1
  k2 = k2
  k3 = k3
  v1 = v1
  Key <- ThreeKeys
  Value <- TwoValues
  Commands <- SomeCommands
  MAX_PAIRS = 2
  Pointers = {p1, p2}
  Clients = {c1, c2}
  Connections = {s1, s2}
  Backlog = 1
  None = None
SPECIFICATION FairSpec
INVARIANTS StoreInv OneCommandAtATime SessionIsolated
PROPERTIES RefinesKVMap CommandsAnswered NobodyForgotten
