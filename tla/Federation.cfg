CONSTANTS
    Forwards = {f1, f2}
    Keyed = {f1}
    MaxForwardAttempts = 2
    MaxForwardEntries = 1
    EntryTTL = 2
    MaxForwardTime = 5
    MaxForwardRestarts = 1
    a = a
    b = b
    d = d
    a0 = a0
    a1 = a1
    a2 = a2
    a3 = a3
    b1 = b1
    d1 = d1
    FedRuns = {a, b, d}
    FedEvents = {a0, a1, a2, a3, b1, d1}
    RunOf <- MCRunOf
    SequenceOf <- MCSequenceOf
    MaxStoredRuns = 2
    MaxSeen = 2
    Readers = {c1}
    MaxStored = 3
    MaxGot = 3
    Peers = {p1, p2}
    Endpoints = {u1, u2}
    NoEndpoint = NoEndpoint
    NoPeer = NoPeer
    MaxChanges = 4
    s1 = s1
    s2 = s2
    l2 = l2
    l3 = l3
    LogRuns = {l1, l2, l3}
    Followed = {l1}
    Subscriptions = {s1, s2}
    MaxSubscriptions = 2
    SubChanCap = 1
    MaxEmitted <- MCEmitted
CHECK_DEADLOCK FALSE
SPECIFICATION Spec
INVARIANTS FederationInBounds ForwardsAreKept RemoteEventsInOrder
PROPERTY HealthConverges
