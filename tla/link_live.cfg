SPECIFICATION FairSpec
CONSTANTS
  Nothing = Nothing
  MaxConns = 4
  MaxSessions = 3
  MaxMessages <- BothBound
  MaxFaults = 1
PROPERTY EventuallyConfirmed
CHECK_DEADLOCK FALSE
