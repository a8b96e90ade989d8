SPECIFICATION LiveSpec
CONSTANTS
    a = a
    b = b
    c = c
    r1 = r1
    r2 = r2
    s1 = s1
    Payments = {a}
    Payable = {}
    Cross = {a}
    Requests = {r1}
    Passes = {s1}
    Nobody = Nobody
    MaxAsks = 2
    MaxQuotes = 1
    MaxTx = 7
    MaxUpsets = 1
INVARIANTS
    CreditedFromChain
PROPERTIES
    ChangeIsReturned
CHECK_DEADLOCK FALSE
