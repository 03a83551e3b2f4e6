CONSTANTS
    c1 = c1
    c2 = c2
    c3 = c3
    u1 = u1
    u2 = u2
    Callers = {c1, c2, c3}
    Urls = {u1, u2}
    Endpoints = {"tokens", "search"}
    EndpointOf <- MCEndpointOf
    NoCaller = NoCaller
    FailureThreshold = 1
    RecoveryTime = 1
    HalfOpenMax = 2
    BackoffBase = 1
    BackoffMax = 1
    RetryAttempts = 2
    MaxTime = 3
SPECIFICATION Spec
PROPERTIES FollowersShareResult
