SPECIFICATION FairRelaySpec
CONSTANTS
  Self = "me"
  Peer = {"r1", "r2"}
  NoName = ""
  Configs <- MCConfigs
  Truncated = Truncated
  PeerAddrs <- MCAddrs
  Modes = {"ServerClient", "Client"}
  Mounts = {TRUE, FALSE}
  MaxCandidates = 3
  MinCandidates = 0
  MaxPolls = 2
  EditWhileStarting = FALSE
  RetryTime = 2
  MaxEdits = 2
  MaxDrops = 1
INVARIANTS
  
  RoleFollowsConfig
  
PROPERTIES
  RelaysConnected
CHECK_DEADLOCK FALSE
