SPECIFICATION FairLifeSpec
CONSTANTS
  Configs <- MCConfigs
  IPs <- MCIPs
  NoPort = NoPort
  Absent = Absent
  Caches <- MCCaches
  Clusters <- MCClusters
  NoCIDR = NoCIDR
  MaxSyncs = 1
  MaxFaults = 3
INVARIANTS
  FindsNodeReady
  RoutesForeign
  CorefileForwards
  
PROPERTIES
  SignalEnds
  ComesUp
CHECK_DEADLOCK FALSE
