CONSTANTS
    c1 = c1
    c2 = c2
    c3 = c3
    u1 = u1
    u2 = u2
    r1 = r1
    r2 = r2
    Callers = {c1, c2, c3}
    Urls = {u1, u2}
    Endpoints = {"tokens", "search"}
    EndpointOf <- MCEndpointOf
    NoCaller = NoCaller
    FailureThreshold = 1
    RecoveryTime = 1
    HalfOpenMax = 2
    BackoffBase = 1
    BackoffMax = 1
    RetryAttempts = 2
    MaxTime = 3
    Takers = {c1, c2, c3}
    TokenCost = 3
    RefillRate = 2
    BucketCapacity = 2
    BucketHorizon = 6
    Processes = {"api"}
    Readers = {r1, r2}
    ProcessOf <- MCProcessOf
    Pages = {u1, u2}
    CacheTtl = 1
    TicksPerSecond = 1
    MaxEntries = 1
    RedisTimeout = 1
    MaxUnderWay = 2
    CacheHorizon = 3
SPECIFICATION MCSpec
INVARIANTS TypeOK RateHeld StalenessBounded OneFlightPerUrl FollowersAreAwaited SlotsAccounted
PROPERTIES CallsReturn
