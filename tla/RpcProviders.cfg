SPECIFICATION MCSpec
CONSTANTS
  Endpoints = {0, 1}
  Cooldown = 1
  Tasks = {t1, t2}
  Role = "request"
  None = None
 
PROPERTIES  PoolIsFair
