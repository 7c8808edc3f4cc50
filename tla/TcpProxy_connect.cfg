CONSTANTS
    Conn = {c1, c2}
    Port = {web, db}
    Hashed = {web}
    MaxAttempts = 3
    Nil = Nil
SPECIFICATION FairTcpSpec
INVARIANTS OutConnsOwned 
 
CHECK_DEADLOCK FALSE
