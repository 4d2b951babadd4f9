CONSTANTS
    j1 = j1
    j2 = j2
    j3 = j3
    Jobs = {j1, j2, j3}
    NoJob = NoJob
    Workers = {w1, w2}
    Kind <- MixedKinds
    MaxJobAttempts = 2
    MaxJobs = 2
    StoredRuns = {k1, k2, k3}
    MaxRunsInStore = 2
    MaxAccesses = 5
    Handlers = {h1, h2}
    Configs = {c1, c2}
    NoConfig = NoConfig
    MaxSnapshots = 2
    MaxWrites = 3
    agentRec = agentRec
    runRec = runRec
    orphanRun = orphanRun
    memoryRec = memoryRec
    kvRec = kvRec
    eventRec = eventRec
    Records = {agentRec, runRec, orphanRun, memoryRec, kvRec, eventRec}
    Store <- RecordStores
    Discovered = {agentRec, runRec}
    MaxMigrations = 2
CHECK_DEADLOCK FALSE
SPECIFICATION Spec
INVARIANTS PersistenceInBounds RunsAreKept CurrentConfigIsKept MigrationIsExact
PROPERTIES QueueKeepsContract JobsSettle
