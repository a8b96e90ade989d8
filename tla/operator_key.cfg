SPECIFICATION Spec
CONSTANTS
    w1 = w1
    w2 = w2
    api = api
    Workers = {w1, w2}
    Servers = {api}
    resume = resume
    settle = settle
    Signers = {w1, w2, api}
    HostOf <- OneEach
    Nobody = Nobody
    PoolSize = 2
    FloorTtl = 2
    Grace = 2
    Lag = 1
    MaxHold = 1
    MaxBumps = 1
    MaxCalls = 2
    MaxLeases = 2
    MaxUpsets = 1
INVARIANTS
    EveryBroadcastIsOnRecord
    CallMinedOnce
    SlotsAreNotShared
    VerdictsAreTrue
SYMMETRY WorkersAlike
CHECK_DEADLOCK FALSE
