SPECIFICATION LiveSpec
CONSTANTS
    w1 = w1
    w2 = w2
    d1 = d1
    d2 = d2
    x = x
    y = y
    Writers = {w1, w2}
    Dispatchers = {d1, d2}
    Endpoints = {x}
    Retries = 1
    BatchSize = 1
    MaxEvents = 2
    MaxUpsets = 2
CHECK_DEADLOCK FALSE
INVARIANTS
    NothingSkipped
PROPERTIES
    EventsResolve
