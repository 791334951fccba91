SPECIFICATION MCSpec
CONSTANTS
  MaxBlock = 3
  InitialHead = 2
  BatchSize = 1
  NotConfigured = NotConfigured
  BlockFrom = 2
  MaxRpcFailures = 1
  MaxRestarts = 1
CHECK_DEADLOCK FALSE
INVARIANT ReadyIsHonest
PROPERTIES EventuallyReady BlocksAreHandled ShutdownCompletes EventsAreTold
