SPECIFICATION PagesSpec
CONSTANTS
    Scenes = {"tickets", "purchases", "lists", "keys", "redeem", "access"}
    StatusOptions = {"open", "closed"}
    MaxRequests = 2
    Tabs = {"left", "right"}
    Price = 1
    Funds = 2
    MaxBought = 2
    Consoles <- MCConsoles
    KeyIds = {1}
    KeyGroups = {"g"}
    MaxCalls = 2
    Redeemers = {"u", "v"}
    Attempts = {1, 2, 3}
    MaxCodes = 2
    MaxRestarts = 1
    c1 = c1
    c2 = c2
    Callers <- MCCallers
    Clerks = {"h"}
    PriceGroups = {"vip"}
    KeyTTL = 1
    AuthLag = 0
    MaxTicks = 2
    MaxWrites = 1
SYMMETRY MCSymmetry
INVARIANTS
    OwnChangeShown MoneyAccounted RowsMatchControls  UndisturbedUse
    CachesAgeOnly
PROPERTIES
    DraftKept
CHECK_DEADLOCK FALSE
