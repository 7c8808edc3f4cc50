SPECIFICATION FairPipeSpec
CONSTANTS
  n1 = n1
  n2 = n2
  Packet <- MCPackets
  PacketSize = 3
  ReceiveSize = 1
  MaxStreams = 3
INVARIANTS
  HandleFindsFrame
PROPERTIES
  SettledOnce
  
CHECK_DEADLOCK FALSE
