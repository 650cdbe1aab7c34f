SPECIFICATION Spec
CONSTANTS
  Tasks = {t1, t2}
  Observers = {o1}
  BusyPolls = 5
INVARIANTS TypeOK AnswersAgreeWithOp CallbackModeInv
PROPERTIES ImplementsFuture
CHECK_DEADLOCK FALSE
