SPECIFICATION Spec
CONSTANTS
  MaxIndex = 2
  SupportedFabrics = 2
  FabricIds = {a, b}
  NoRoot = NoRoot
  PaseSessions = {p1}
  Watchers = {w1}
  Host = host
  Lengths = {1}
  CumMax = 2
  MaxNoc = 2
  MaxOpens = 1
  Restarts = 0
  Initial = {1}
INVARIANT RolledBackDespiteOverlap
SYMMETRY Symmetry
