SPECIFICATION LiveSpec
CONSTANTS
  c1 = c1
  c2 = c2
  c3 = c3
  None = None
  Conn <- ThreeConns
  Requests <- Mixed
  Capacity = 2
  MaxClients = 2
  MaxBody = 2
  FirstRead = 3
CHECK_DEADLOCK FALSE
INVARIANTS
  SlotsOwned
  DescriptorsOwned
PROPERTIES
  BodiesAreWhole
  AddsAllOrNothing
  
