SPECIFICATION Spec
CONSTANTS
  MaxBlock = 3
  InitialHead = 2
  BatchSize = 1
  NotConfigured = NotConfigured
  BlockFrom = 1
  MaxRpcFailures = 1
  MaxRestarts = 0
CHECK_DEADLOCK FALSE
INVARIANT NothingMissedByCatchUp
