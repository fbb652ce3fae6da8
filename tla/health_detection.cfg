SPECIFICATION FairSpec
CONSTANTS
  Nodes = {1, 2, 3}
  Threshold = 2
  faulty = 3
  Faults <- NodeFaults
  MayStop = {3}
INVARIANTS
  TypeOK
  OnlyTheFaultyIsBlamed
PROPERTIES
  BrokenNodeIsFound
  BrokenLinkIsFound
  PathsHeal
