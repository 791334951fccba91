SPECIFICATION MCSpec
CONSTANTS
  o1 = o1
  o2 = o2
  c1 = c1
  c2 = c2
  Recipients = {d1, d2, d3}
  everyone = everyone
  MaxChanges = 2
  Operators = {o1, o2}
  Chats = {c1, c2}
  Followers <- MCFollowers
  MaxPreviews = 2
  MaxPrompts = 2
  MaxCrashes = 1
SYMMETRY DeliveryChats
INVARIANTS AtMostOnce GoesWhereItWasShown BackCancels ChatsGetTheirOwn
