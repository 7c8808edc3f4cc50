SPECIFICATION FairSyncSpec
CONSTANTS
  Names = {n1}
  Ports = {p1}
  Endpoints = {e1}
  Clients = {}
  Rules = {}
  Ttls = {1}
  DefaultTtl = 1
  Nil = Nil
  ServiceSpecs <- MCServiceSpecs
  MaxVersion = 2
INVARIANTS
  InOrderConverged
PROPERTIES
  IsBalancer
  ChangesTaken
CHECK_DEADLOCK FALSE
