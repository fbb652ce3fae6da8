SPECIFICATION Spec
SYMMETRY NodeSymmetry
CONSTANTS
  n1 = n1
  n2 = n2
  n3 = n3
  none = none
  NoNode = none
  Nodes = {n1, n2}
INVARIANTS
  DrainingIsOutOfConfig
