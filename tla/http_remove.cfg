SPECIFICATION PageSpec
CONSTANTS
  None = None
  Conn = {c1, c2}
  Requests = None
  Capacity = 2
  MaxClients = 2
  MaxBody = 1
  FirstRead = 3
CHECK_DEADLOCK FALSE
PROPERTY RemovesWhatWasShown
