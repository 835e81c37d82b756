SPECIFICATION Spec
CONSTANTS
  MaxWrites = 1
  MaxResets = 1
  Failing = {}
  Overlap = TRUE
INVARIANT HomeKept
