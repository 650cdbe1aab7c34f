SPECIFICATION FairSpec
CONSTANTS
  Slots = {s1, s2}
  MaxCalls = 3
  MaxBare = 1
  NoRead = NoRead
  None = None
INVARIANTS ReadIsProtected ConnectionReleased
PROPERTIES AppliedToWhatWasRead ImplementsUpdate AtransactionEnds
CHECK_DEADLOCK FALSE
