SPECIFICATION FairUdpSpec
CONSTANTS
  None = None
  Client = {a1, a2}
  BackendConn = {b1, b2}
  MaxDatagrams = 2
INVARIANTS
  CachedIffServed

  
CHECK_DEADLOCK FALSE
