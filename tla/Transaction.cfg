SPECIFICATION FairSpec
CONSTANTS
  Workers = {w1, w2}
  MaxCalls = 3
  MaxBare = 1
  NoRead = NoRead
INVARIANTS ReadIsProtected AppliedAtMostOnce
PROPERTIES AppliedToWhatWasRead ImplementsUpdate TransactionEnds
CHECK_DEADLOCK FALSE
