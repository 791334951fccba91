SPECIFICATION MCSpec
CONSTANTS
  aUser = aUser
  aGroup = aGroup
  aSuper = aSuper
  member = member
  Users = {}
  Groups = {aGroup}
  Supers = {aSuper}
  Upgrade <- MCUpgrade
  Operators = {o1, o2}
  Unknown = unknown
  Talks <- GroupTalks
  None = None
  MenuOperators = 5
  PageSize = 2
  Readers = {r1, r2}
  Names = {n1, n2}
  MaxOperators = 3
  MaxEvents = 3
  MaxReplays = 1
INVARIANTS IndexAgrees OldChatForgotten ChangesAreWritten 
PROPERTIES  MenuShowsOptions
