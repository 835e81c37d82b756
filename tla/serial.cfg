SPECIFICATION FairSpec
CONSTANTS
  Callers = {A, B, C}
  Keys = {K, L}
  Semaphores = {S1, S2, S3}
  NoSemaphore = NoSemaphore
INVARIANT OneHolder
PROPERTY EventuallyHolds
