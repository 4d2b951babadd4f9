CONSTANTS
    ag1 = ag1
    ag2 = ag2
    GovAgents = {ag1, ag2}
    Suspects = {ag2}
    GovCalls = {c1, c2}
    Tier <- MCTier
    AllowedActions <- MCAllowed
    DeniedActions <- MCDenied
    HourLimit <- MCHourLimit
    DayLimit = 2
    MaxAttemptsPerTarget = 1
    LoopWindow = 1
    GovHour = 1
    GovDay = 1
    ConsecutiveFailures = 1
    MaxRateBuckets = 2
    MaxLoopBuckets = 1
    MaxGovTime = 1
    MaxGovCalls = 3
    Chats = {q1, q2}
    McpChats = {q1}
    ChatSlots = 1
    Intents = {"general", "reasoning", "action"}
    IntentDefs <- MCIntentDefs
    DefaultThinking = "off"
    Setups <- MCSetups
    ChanCap = 1
    MaxLines = 4
    u1 = u1
    u2 = u2
    MeteredTenants = {u1, u2}
    Invokes = {i1, i2}
    ModelIds = {"m1", "m2"}
    Registered = {"m1"}
    HasDefault = TRUE
    Policy <- MCPolicy
    TokenCounts = {0, 1}
    SweepEvery = 2
    HourlyTTL = 1
    DailyTTL = 1
    MaxHourlyBuckets = 3
    MaxDailyBuckets = 2
    MaxMeteredTenants = 1
    HoursPerDay = 2
    MaxHour = 3
    MaxRecords = 4
    Principals = {p1, p2}
    ApiKeys = {key}
    Callers = {h1, h2}
    GivenRoles = {"admin"}
    KeyLifetime = 0
    MaxAccessTime = 1
    t1 = t1
    w1 = w1
    w2 = w2
    w3 = w3
    TenantIds = {t1}
    RowIds = {w1, w2, w3}
    TableOf <- MCTableOf
    OwnerOf <- MCOwnerOf
    TenantTables <- MCTables
    PurgeTables <- MCTables
    Batch = 1
    Retention <- MCRetention
    MaxDay = 2
    Exports = {e1, e2}
    MaxExports = 1
    ConvRuns = {r1, r2}
    MaxMessages = 4
    MaxMemTokens = 3
    Cost <- MCCost
    k1 = k1
    k2 = k2
    k3 = k3
    KvKeys = {k1, k2, k3}
    MemKeys = {k1, k2, k3}
    KvValues = {"v1"}
    KvWriters = {p1, p2}
    MaxKeys = 1
    MemQuota = 2
    Sizes = {1, 2}
    TtlOf <- MCTtl
    MaxMemTime = 2
    Execs = {e1}
    ExitCodes = {0, 1}
    Frames <- MCFrames
    MaxFrames = 3
    Fetches = {f1}
    Clients = {"fetch_url", "ping_url", "http_fetch", "webhook"}
    Hosts = {"h1", "h2"}
    Allowlist = {}
    Blocklist = {"h2"}
    MaxHops <- MCHops
    MaxBody = 1
    Chars = {"0", "2", "+", "-", "*", "/", "%", "(", ")", "g", ",", " "}
    Openings <- MCOpenings
    MaxChars = 3
    RepoFiles = {p1, p2}
    Contents <- MCContents
    Searches <- MCSearches
    Texts <- MCTexts
    MaxBlocks = 2
    Requests = {p1, p2}
    Lookups = {o1}
    WantedTiers = {2, 5}
    MaxDecisions = 3
    Loggers = {p1, p2}
    MaxAudit = 2
    MaxLogged = 3
    ReadLimit = 1
SYMMETRY Symmetry
CHECK_DEADLOCK FALSE
SPECIFICATION Spec
INVARIANTS
    ServicesInBounds   StreamsAreFaithful
    MeteringIsSound AuthorityIsAccountedFor  AgentDataIsSound
    ContainersAreAccountedFor  ToolsComputeRightly
PROPERTIES RemovalsAreRight
