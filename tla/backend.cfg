SPECIFICATION Spec
CONSTANTS
  None = None
  Hash = {h1, h2}
  Capacity = 3
  MaxAlerts = 2
INVARIANTS
  SessionOwned
  StatusIsCurrent
