SPECIFICATION WaitingSpec
CONSTANTS
    Scenes = {"oauth", "session", "payments"}
    OAuthStarts = 1
    OAuthLoops = 2
    OAuthProviders <- MCProviders
    Accounts = {"ada", "bob"}
    Admins = {"ada"}
    MaxLogins = 2
    Channels = {"alipay"}
    BalancePolls = 2
    MaxPaid = 1
INVARIANTS
    TokenAndUserTogether PaidToldOnce
PROPERTIES
    PollingEnds ProfileSettles PaidIsNoticed
CHECK_DEADLOCK FALSE
