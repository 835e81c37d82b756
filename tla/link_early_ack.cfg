SPECIFICATION Spec
CONSTANTS
  Nothing = Nothing
  MaxConns = 3
  MaxSessions = 2
  MaxMessages <- BothBound
  MaxFaults = 1
INVARIANT OnlyHelloBeforeAnswer
CHECK_DEADLOCK FALSE
