SPECIFICATION Spec
CONSTANTS
  Methods <- MCMethods
INVARIANTS ClosedIsQuiet VariantsAgree RequestIsFaithful
CHECK_DEADLOCK FALSE
