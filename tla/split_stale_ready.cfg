SPECIFICATION Spec
CONSTANTS
  Sandboxes = {1, 2}
  Failures = 1
  Crashes = 3
INVARIANTS
  SplitHalfIsUnused
