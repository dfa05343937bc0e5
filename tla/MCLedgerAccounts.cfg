SPECIFICATION Spec
CONSTANTS
    c1 = c1
    c2 = c2
    r1 = r1
    r2 = r2
    Calls <- MCCalls
    Requests <- MCRequests
    Amounts = {1}
    InitialBalance = 1
    HoldTTL = 1
    KeyGrace = 1
    MaxTime = 0
    MaxCredit = 2
    MaxBilled = 2
    Faults = TRUE
INVARIANTS
    BalanceAccounted
    ExposureBounded
PROPERTY AccountKept
SYMMETRY Symmetry
