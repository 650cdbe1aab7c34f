SPECIFICATION FairSpec
CONSTANTS
  Tasks = {t1}
  Observers = {o1, o2}
  BusyPolls = 5
INVARIANTS NoLostWakeup
PROPERTIES CallbackSeesDone AwaiterResumes AcceptedCallbackFires
CHECK_DEADLOCK FALSE
