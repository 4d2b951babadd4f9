CONSTANTS
    Clients = {c1}
    MaxEvents = 2
    BufSize = 1
    FromSeqs = {0}
    Disconnects = FALSE
    LogPrunes = FALSE
    Restarts = FALSE
CHECK_DEADLOCK FALSE
SPECIFICATION FairSpec
PROPERTY StreamTerminates
