SPECIFICATION Spec
CONSTANTS
  MaxBlock = 4
  InitialHead = 2
  BatchSize = 2
  NotConfigured = NotConfigured
  BlockFrom = NotConfigured
  MaxRpcFailures = 2
  MaxRestarts = 1
CHECK_DEADLOCK FALSE
INVARIANTS GapOnlyIfOvertaken BufferIsOwned
