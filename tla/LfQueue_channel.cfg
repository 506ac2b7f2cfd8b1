SPECIFICATION FairSpec
CONSTANTS
  Packets = {p1, p2, p3}
  Size = 3
  NoPacket = NoPacket
INVARIANTS NoExit NoOverrun 
PROPERTIES ImplementsChannel Delivery
