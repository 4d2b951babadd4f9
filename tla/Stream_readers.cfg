CONSTANTS
    Clients = {c1, c2}
    MaxEvents = 3
    BufSize = 1
    FromSeqs = {0, 1}
    Disconnects = TRUE
    LogPrunes = TRUE
    Restarts = TRUE
CHECK_DEADLOCK FALSE
SPECIFICATION FairSpec
INVARIANTS TypeOK 
PROPERTY SubscribersReleased
