CONSTANTS
  MaxRemaining   = 6
  HvnSize        = 1
  Packets        <- ClientPackets
  MaxPackets     = 2
  MaxConnections = 2
SPECIFICATION Spec
PROPERTY OnlyDisconnects
