SPECIFICATION LiveSpec
CONSTANTS
    a = a
    b = b
    c = c
    r1 = r1
    r2 = r2
    s1 = s1
    Payments = {b, c}
    Payable = {b, c}
    Cross = {}
    Requests = {r1, r2}
    Passes = {s1}
    Nobody = Nobody
    MaxAsks = 2
    MaxQuotes = 2
    MaxTx = 4
    MaxUpsets = 1
INVARIANTS
    OnePayerPerQuote
PROPERTIES
    RecordedIsNotFailed
    PaymentsEnd
CHECK_DEADLOCK FALSE
