CONSTANTS
    StoredRuns = {k1, k2, k3}
    MaxRunsInStore = 2
    MaxAccesses = 5
CHECK_DEADLOCK FALSE
SPECIFICATION RunStoreSpec
INVARIANT EvictedRunsStayOnDisk
