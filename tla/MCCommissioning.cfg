SPECIFICATION Spec
CONSTANTS
  MaxIndex = 2
  SupportedFabrics = 2
  FabricIds = {a, b}
  NoRoot = NoRoot
  PaseSessions = {p1}
  Watchers = {w1}
  Host = host
  Lengths = {1}
  CumMax = 1
  MaxNoc = 2
  MaxOpens = 1
  Restarts = 0
  Initial = {1}
INVARIANTS TypeOK AbandonedRolledBack CommittedKept OnePending
CONSTRAINT NoneLost
SYMMETRY Symmetry
