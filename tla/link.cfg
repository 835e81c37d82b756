SPECIFICATION Spec
CONSTANTS
  Nothing = Nothing
  MaxConns = 3
  MaxSessions = 2
  MaxMessages <- DownBound
  MaxFaults = 1
INVARIANTS TypeOK ExactlyOnce ScopedOnItsConnection BacklogOfSession WelcomeAccepted NothingLost EndedFirst IInv InStep
PROPERTY Delivers
CHECK_DEADLOCK FALSE
