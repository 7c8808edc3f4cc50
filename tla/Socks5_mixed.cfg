SPECIFICATION SocksSpec
CONSTANTS
  c1 = c1
  c2 = c2
  c3 = c3
  c4 = c4
  c5 = c5
  n1 = n1
  n2 = n2
  self = self
  Nil = Nil
  Conn = {c1, c2, c3, c4, c5}
  Node = {n1, n2, self}
  wants <- MCWants
  localNode = self
  MaxInFlight = 2
  ShortReads = FALSE
INVARIANTS
  ForwardedToTarget
CHECK_DEADLOCK FALSE
