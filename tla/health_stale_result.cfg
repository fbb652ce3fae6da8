SPECIFICATION FairSpec
CONSTANTS
  Nodes = {1, 2, 3}
  Threshold = 2
  faulty = 3
  Faults <- NodeFaults
  MayStop = {2}
PROPERTIES
  PathsHeal
