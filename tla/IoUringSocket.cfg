\* One send buffer that is used three times and two groups of one receive buffer:
\* three packets exhaust both groups and use a buffer again.
SPECIFICATION FairSpec
CONSTANTS
  SendQueue = 1
  Groups = 2
  GroupSize = 1
  MaxPackets = 3
  MaxSends = 3
INVARIANTS TypeOK ReadBuffersOwned SendBuffersOwned RingHasRoom CycleBounded
PROPERTIES ImplementsUdpSocket ArrivedAreRead GroupsReturn
