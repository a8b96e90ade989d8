SPECIFICATION IndexerLiveSpec
CONSTANTS
    ours = ours
    theirs = theirs
    payers = payers
    Txs = {ours, theirs, payers}
    Depth = 2
    Window = 1
    MaxHeight = 3
    MaxReorgs = 1
    Settlements = {ours, theirs, payers}
    Strangers = {theirs}
    Submitted = {ours}
    ReceiptLimit = 1
    ScanRange = 2
    SettlementPage = 3
    MaxFailures = 1
INVARIANTS
    CompletedFromChain
PROPERTIES
    SettlementsComplete
CHECK_DEADLOCK FALSE
