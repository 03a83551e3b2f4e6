CONSTANTS
    s1 = s1
    s2 = s2
    k1 = k1
    k2 = k2
    Schedulers = {s1, s2}
    Step = 1
    CatchUp = 2
    Never = Never
    NoOne = NoOne
    MaxTime = 3
    MaxDisturbances = 1
    Keys = {k1, k2}
    Endpoint <- MCEndpoint
    ChainOf <- MCChainOf
    ReplayAllowed = {"bsc"}
    Supported = {"bsc"}
    Limit = 2
    ReplayLimit = 1
    Window = 2
    SweepInterval = 1
    KeyTtl = 2
    MaxKeys = 1
    MaxInside = 1
    ApiHorizon = 4
SPECIFICATION MCSpec
INVARIANTS PipelineReachable
CHECK_DEADLOCK FALSE
