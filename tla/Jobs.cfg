SPECIFICATION MCSpec
CONSTANTS
  Admins = {a1, a2}
  MaxHead = 3
  MaxLag = 1
  MaxFailures = 1
INVARIANT ToldOncePerStall
PROPERTIES NoFalseAlert LastStallIsTold SecretsSettle
CHECK_DEADLOCK FALSE
