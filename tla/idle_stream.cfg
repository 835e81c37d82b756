SPECIFICATION IdleSpec
CONSTANTS
  Clock = Clock
  Tasks = {A, Clock}
  Window = 2
  Poll = 1
  MaxTime = 5
  MaxUses = 3
  MaxFailures = 0
INVARIANT WatchedIsTracked
CHECK_DEADLOCK FALSE
