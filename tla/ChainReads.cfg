SPECIFICATION MCSpec
CONSTANTS
  Readers = {r1, r2, r3}
  Closer = closer
  Nobody = nobody
  MaxDepth = 2
  None = None
CHECK_DEADLOCK FALSE
INVARIANTS OneAtATime
PROPERTIES ImplementsLease  RequestsEnd
