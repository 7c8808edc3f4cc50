SPECIFICATION FairConnSpec
CONSTANTS
  v1 = v1
  sec = sec
  web = web
  shop = shop
  gone = gone
  gw = gw
  None = None
  VsName = {v1}
  VsVersions <- MCVersions
  Secret = sec
  Certificate = Certificate
  NoCertificate = NoCertificate
  GwName = gw
  Options <- MCOptions
  Requests <- MCRequests
  Services <- MCKnown
  MaxEdits = 2
INVARIANTS
  
  ConnOwned

  
  
CHECK_DEADLOCK FALSE
