SPECIFICATION LiveSpec
CONSTANTS
    w1 = w1
    w2 = w2
    api = api
    Workers = {w1}
    Servers = {api}
    resume = resume
    settle = settle
    Signers = {resume, settle, api}
    HostOf <- TwoInWorker
    Nobody = Nobody
    PoolSize = 2
    FloorTtl = 1
    Grace = 1
    Lag = 1
    MaxHold = 0
    MaxBumps = 1
    MaxCalls = 2
    MaxLeases = 2
    MaxUpsets = 1
PROPERTIES
 BroadcastsEnd
 RowsResolve
CHECK_DEADLOCK FALSE
