SPECIFICATION FairSpec
CONSTANTS
  Channels = {c1}
  Patterns = {p1}
  Handled = {}
  Callers = {u1, u2}
  Readers = {r1}
  Attempts = 2
  MaxCalls = 1
  MaxMessages = 1
  MaxDrops = 1
  Nobody = Nobody
INVARIANTS TypeOK RecordAgreesWithServer ConfirmedFirst CallerIsQueued
PROPERTIES CallsReturn ListenEnds Resubscribed
CHECK_DEADLOCK FALSE
