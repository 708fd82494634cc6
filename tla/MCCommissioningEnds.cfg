SPECIFICATION FairSpec
CONSTANTS
  MaxIndex = 1
  SupportedFabrics = 1
  FabricIds = {a}
  NoRoot = NoRoot
  PaseSessions = {}
  Watchers = {w1}
  Host = host
  Lengths = {1}
  CumMax = 2
  MaxNoc = 1
  MaxOpens = 1
  Restarts = 1
  Initial = {1}
PROPERTY FailSafeEnds
