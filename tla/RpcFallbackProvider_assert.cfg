SPECIFICATION Spec
CONSTANTS
  Endpoints = {0, 1}
  Cooldown = 1
  Tasks = {t1, t2}
  Role = "subscription"
  None = None
INVARIANTS EndpointAfterConnect
