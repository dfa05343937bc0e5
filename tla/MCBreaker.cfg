SPECIFICATION FairSpec
CONSTANTS
    p1 = p1
    p2 = p2
    Procs <- TwoProcs
    MinSamples = 2
    RateNum = 1
    RateDen = 2
    Cooldown = 2
    Window = 2
    MaxTotal = 4
    Faults = TRUE
INVARIANTS
    CountersAgree
PROPERTY Recovers
