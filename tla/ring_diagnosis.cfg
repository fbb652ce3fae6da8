SPECIFICATION FairSpec
CONSTANTS
  Nodes = {1, 2, 3}
  Threshold = 2
  MaxRestarts = 2
  EscalateAfter = 2
  Limits <- Mixes
INVARIANTS
  TypeOK
  EvictedHadRestarts
  IsolatedForCause
PROPERTIES
  
  PersistentFaultIsContained
