SPECIFICATION LiveSpec
CONSTANTS
    usdc = usdc
    eth = eth
    d1 = d1
    d2 = d2
    Txs = {d1, d2}
    Depth = 3
    Window = 1
    MaxHeight = 5
    MaxReorgs = 2
    Assets = {usdc}
    Deposits = {d1, d2}
    AssetOf <- AllUsdc
    Hidden = {d2}
    Balanced = {usdc}
    Required = 1
    BlockRange = 1
    Page = 3
    Prompt = TRUE
    MaxErrors = 1
INVARIANTS
    FundedFromChain
    CountedOncePerRoute
PROPERTIES
    FundsArrive
CHECK_DEADLOCK FALSE
