CONSTANTS
    k1 = k1
    k2 = k2
    tick = tick
    bidask = bidask
    Sessions = {s1}
    Policy = policy
    Keys = {k1, k2}
    Kinds = {tick, bidask}
    Tick = tick
    Unknown = {k2}
    Targets <- MCTargets
    Watched <- MCWatched
    Limit = 2
    PerSession = 2
    MaxFaults = 1
SPECIFICATION Spec
CHECK_DEADLOCK FALSE
INVARIANTS WithinBudget OwnersAgree
PROPERTY Recovers
