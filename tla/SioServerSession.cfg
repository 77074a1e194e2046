CONSTANTS
  e1 = e1
  e2 = e2
  n1 = n1
  n2 = n2
  r1 = r1
  None = None
  Esids <- MCEsids
  Nsps <- MCNsps
  Registered = {n1}
  RoomNames <- MCRoomNames
  MaxSeq = 3
  MaxOpens = 2
  MaxPackets = 2
  MaxCalls = 1
SPECIFICATION Spec
SYMMETRY MCSymmetry
INVARIANTS
  TypeOK
  OneSidPerEsid
  HandshakeAtMostOnce
CHECK_DEADLOCK FALSE
