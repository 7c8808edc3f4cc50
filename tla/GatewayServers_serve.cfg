SPECIFICATION FairGatewaySpec
CONSTANTS
  g1 = g1
  g2 = g2
  ip1 = ip1
  ip2 = ip2
  ip3 = ip3
  Nil = Nil
  All = All
  OldPod = OldPod
  IP = {ip1, ip2, ip3}
  interfaces <- MCInterfaces
  CardIPs <- MCCardIPs
  Segment = {"seg12", "seg3", "bad"}
  Members <- MCMembers
  NICs <- MCNICs
  Lists <- MCLists
  NIC <- MCNIC
  IncludeIP = All
  ExcludeIP = {"seg3"}
  Gateway = {g1, g2}
  Specs <- MCSpecs
  BadAddr <- MCBadAddr
  MaxChanges = 1
INVARIANTS
  ListenersOwned
  ListensOnWanted
PROPERTIES
  NoNeedlessExit
  GatewaysServed
CHECK_DEADLOCK FALSE
