SPECIFICATION MCSpec
CONSTANTS
  exits = exits
  withdrawals = withdrawals
  e1 = e1
  e2 = e2
  e3 = e3
  e4 = e4
  e5 = e5
  direct = direct
  digest = digest
  Direct = direct
  Digest = digest
  Keys <- MCKeys
  Events <- MCEvents
  BlockOf <- MCBlockOf
  RouteOf <- MCRouteOf
  WindowBlocks <- MCWindowBlocks
  MaxBlock = 3
  MaxDay = 1
  MaxRestarts = 1
  MaxReconnects = 1
  Groups = {g}
  Operators = {o1, o2}
  Shares = {1, 2}
  Names = {n1, n2}
  MaxGroupEvents = 3
  FigureBlocks = 2
  MaxFigure = 2
  MaxFigureEvents = 3
  MaxCrashes = 1
CHECK_DEADLOCK FALSE
INVARIANTS
  NothingForgotten
  
  
  
  OneDigestPerDueTime
  GroupsAreTold
 
