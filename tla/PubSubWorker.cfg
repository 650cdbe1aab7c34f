SPECIFICATION FairSpec
CONSTANTS
  Channels = {c1}
  Patterns = {p1}
  Handled = {c1}
  Callers = {u1}
  Readers = {r1}
  Attempts = 2
  MaxCalls = 1
  MaxMessages = 1
  MaxDrops = 1
  Nobody = Nobody
CHECK_DEADLOCK FALSE
INVARIANTS WorkerHasHandlers
