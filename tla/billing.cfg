SPECIFICATION LiveSpec
CONSTANTS
    old = old
    young = young
    Subs = {old, young}
    Age <- TwoAges
    TickBatch = 1
    AtOnce = {old}
    Mailable = {young}
    Paused = {old}
    Ticks = {t1, t2}
    MaxTime = 1
    MaxActs = 2
    MaxUpsets = 1
INVARIANTS
    NumbersAreGapless
PROPERTIES
    ScheduleHolds
    DueIsBilled
CHECK_DEADLOCK FALSE
