CONSTANTS
  MaxRemaining   = 6
  HvnSize        = 1
  Packets        <- ClientPackets
  MaxPackets     = 2
  MaxConnections = 2
SPECIFICATION Spec
INVARIANTS LinkInv CommandsAsSent Resyncs AlwaysFindable ReplyFits
PROPERTIES StopsOnlyInARace ImplementsService
