SPECIFICATION FairSpec
CONSTANTS
  Nodes = {1, 2}
  InKubeSystem = TRUE
  Pods = {1, 2, 3}
  Workloads = {1, 2}
  Replicas = {1, 2}
  WorkloadOf <- OwnerOf
  Bare = {3}
  EvictionCooldown = 3
  DNSCooldown = 1
  FelixCooldown = 2
  Limits <- Mixes
INVARIANT
  TypeOK
PROPERTIES
  BadAgentsAreRestarted
  PodsGetAddresses
  DNSIsRestored
  StatusSettles
