\* Three slots and seven packets sent: the queue fills
\* twice, and packets wait beside it.
SPECIFICATION FairSpec
CONSTANTS
  Queue = 3
  MaxPackets = 2
  MaxSends = 7
INVARIANTS TypeOK OrderKept
PROPERTIES ImplementsUdpSocket QueuedLeave
