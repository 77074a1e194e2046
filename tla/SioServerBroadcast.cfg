CONSTANTS
  e1 = e1
  e2 = e2
  n1 = n1
  n2 = n2
  r1 = r1
  None = None
  Esids <- MCEsids
  Nsps <- MCNsps
  Registered <- MCNsps
  RoomNames <- MCRoomNames
  MaxSeq = 2
  MaxOpens = 1
  MaxPackets = 1
  MaxCalls = 2
SPECIFICATION Spec
SYMMETRY MCSymmetry
INVARIANTS
  NoCrossNamespaceDelivery
CHECK_DEADLOCK FALSE
