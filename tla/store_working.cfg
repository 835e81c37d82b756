SPECIFICATION Spec
CONSTANTS
  MaxWrites = 1
  MaxResets = 1
  Failing = {}
  Overlap = FALSE
INVARIANT WorkingUsable
