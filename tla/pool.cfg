SPECIFICATION PoolSpec
SYMMETRY NodeSymmetry
CONSTANTS
  n1 = n1
  n2 = n2
  none = none
  NoNode = none
  Nodes = {n1, n2}
  CIDRs <- TestCIDRs
  Depth = 2
  MinLevel = 2
  MaxLevel = 0
  Requests = {2, 3}
  Quarantines = {0, 1}
  MaxNow = 2
INVARIANTS
  PoolDisjoint
  DemandExact
  DemandFailsOnlyWhenShort
PROPERTIES
  QuarantineReachesEveryCIDR
