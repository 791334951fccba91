SPECIFICATION Spec
CONSTANTS
  Identities = {i1, i2}
  NoOne = NoOne
  OldEvents = {1, 2}
  EventBlocks = {3, 5}
  OldBlock = 2
  MaxBlock = 5
  MaxFaults = 2
INVARIANT InitialCheckpointIsSaved
CHECK_DEADLOCK FALSE
