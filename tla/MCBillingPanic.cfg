SPECIFICATION ScenesSpec
CONSTANTS
    r1 = r1
    r2 = r2
    t1 = t1
    t2 = t2
    day = day
    Requests = {r1, r2}
    Traces = {t1, t2}
    Key <- OneKey
    Periods = {day}
    Limit <- DayOnly
    InitialBalance = 4
    HoldCost = 1
    StreamCost = 2
    UpperBound = 2
    Costs = {0, 3}
    Strict = {FALSE}
    Subscribed = FALSE
    MaxTries = 1
    Deposits = {1}
    MaxDeposit = 0
    Expiry = FALSE
    Silence = FALSE
    Panics = TRUE
    Faults = FALSE
INVARIANTS
    OverIsFreed
CHECK_DEADLOCK FALSE
