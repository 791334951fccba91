SPECIFICATION MCSpec
CONSTANTS
  Identities = {i1, i2}
  NoOne = NoOne
  OldEvents = {1, 2}
  EventBlocks = {3, 5}
  OldBlock = 2
  MaxBlock = 5
  MaxFaults = 2
  EndBlock = 3
  BatchSize = 2
  Interval = 2
  MaxLag = 1
  MaxFailures = 1
  MaxTime = 6
 
PROPERTIES OneRuntimeOwnsTheFile  ReplayIsFaithful StopEndsReplay
CHECK_DEADLOCK FALSE
