SPECIFICATION FairIdleSpec
CONSTANTS
  Clock = Clock
  Tasks = {A, B, Clock}
  Window = 2
  Poll = 1
  MaxTime = 5
  MaxUses = 2
  MaxFailures = 1
INVARIANTS IdleTypeOK ReservedAlone ReservedSeenAlone ReleasedAlone UsedIsTracked
PROPERTIES RetiresOnlyIdle EventuallyReleased EventuallyAdmitted
CHECK_DEADLOCK FALSE
