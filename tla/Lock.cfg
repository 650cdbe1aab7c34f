SPECIFICATION FairSpec
CONSTANTS
  Threads = {t1, t2}
  Locks = {l1, l2}
  Timed = {l1}
  Sentinel = TRUE
  MaxCalls = 3
  None = None
INVARIANTS HoldersHaveKey OwnerCanRelease
PROPERTIES  AcquireReturns TimedLockComesFree
CHECK_DEADLOCK FALSE
