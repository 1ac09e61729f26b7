SPECIFICATION BothSpec
CONSTANTS
  Apps = {a1, a2}
  Ports = {1, 2}
  Hosts = {1, 2}
  Conns = {c1, c2}
  Routes <- OneOrTwo
  MaxProxies = 3
  MaxRequests = 3
  MaxOutages = 1
  Backends = {1, 2, 3}
  TargetSets <- Splits
  Requests = {r1, r2}
  MaxPicks = 6
  MaxSwaps = 2
SYMMETRY Same
CHECK_DEADLOCK FALSE
INVARIANT FileFollowsRouting
INVARIANT RestartKeepsRoutes
INVARIANT ListenersAccounted
INVARIANT SharesKept
