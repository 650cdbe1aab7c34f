SPECIFICATION FairSpec
CONSTANTS
  Tasks = {t1, t2}
  Observers = {}
  BusyPolls = 5
PROPERTIES AwaiterResumes
CHECK_DEADLOCK FALSE
