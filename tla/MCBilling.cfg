SPECIFICATION ScenesSpec
CONSTANTS
    r1 = r1
    r2 = r2
    t1 = t1
    t2 = t2
    day = day
    Requests = {r1, r2}
    Traces = {t1, t2}
    Key <- OneKey
    Periods = {day}
    Limit <- DayOnly
    InitialBalance = 3
    HoldCost = 1
    StreamCost = 2
    UpperBound = 2
    Costs = {0, 4}
    Strict = {FALSE, TRUE}
    Subscribed = TRUE
    MaxTries = 1
    Deposits = {1}
    MaxDeposit = 1
    Expiry = TRUE
    Silence = TRUE
    Panics = TRUE
    Faults = TRUE
INVARIANTS
    LogsBacked
    ChargedOnce
    OutputPaid
    HoldsHaveOwner
    DebtorsWait
PROPERTIES HoldsEnd RefusedForThisPeriod
CHECK_DEADLOCK FALSE
