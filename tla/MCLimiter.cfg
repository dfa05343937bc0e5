SPECIFICATION Spec
CONSTANTS
    g1 = g1
    g2 = g2
    u1 = u1
    u2 = u2
    Calls <- TwoCalls
    Identities <- TwoUsers
    Limits <- TwoLimits
    Tokens = {1, 2}
    MaxReq = 2
    MaxTok = 3
    GlobalReq = 3
    GlobalTok = 4
    Window = 3
    ConcTTL = 2
    Lag = 1
    MaxTime = 3
    Faults = TRUE
SYMMETRY Symmetry
INVARIANTS RequestsBounded TokensBounded DenialsEnd
