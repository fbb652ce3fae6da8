SPECIFICATION FairSpec
CONSTANTS
  n1 = n1
  moved = moved
  stuck = stuck
  bare = bare
  s1 = s1
  Nodes = {n1}
  Pods = {moved, stuck, bare}
  Slices = {s1}
  HostOf <- OneHost
  SlicesOf <- AllListed
  Gated = {moved, stuck}
  WithBackup = {moved, bare}
  AutoFailover = TRUE
  AutoRecover = TRUE
PROPERTY
  BackupPathIsUsed
