SPECIFICATION FairSpec
CONSTANTS
  Sandboxes = {1, 2}
  Failures = 1
  Crashes = 3
INVARIANTS
  OnlyStaleReportsMislead
PROPERTIES
  ReleaseResolves
  RestComesBack
