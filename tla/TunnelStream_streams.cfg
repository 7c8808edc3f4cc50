SPECIFICATION FairStreamSpec
CONSTANTS
  Agent = {"a", "b"}
  Gateway = {}
  Session = {s1, s2}
  Kinds = {"discovery", "udp", "cni", "sctp"}
  DailRetryTime = 2
INVARIANTS
  NamesLeadToPeers
PROPERTIES
  IsRemoteDial
  HandshakesEnd
  DiscoveryIsMutual
CHECK_DEADLOCK FALSE
