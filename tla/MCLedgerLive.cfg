SPECIFICATION FairSpec
CONSTANTS
    c1 = c1
    c2 = c2
    r1 = r1
    r2 = r2
    Calls <- MCCalls
    Requests = {r1}
    Amounts = {1}
    InitialBalance = 1
    HoldTTL = 0
    KeyGrace = 1
    MaxTime = 1
    MaxCredit = 1
    MaxBilled = 1
    Faults = TRUE
PROPERTIES
    HoldKeptUntilSettled
    CallsReturn
