CONSTANTS
    c1 = c1
    c2 = c2
    c3 = c3
    Callers = {c1, c2, c3}
    FailureThreshold = 2
    RecoveryTime = 2
    HalfOpenMax = 2
    BackoffBase = 1
    BackoffMax = 2
    RetryAttempts = 2
    MaxTime = 5
SPECIFICATION FairSpec
INVARIANTS TypeOK SlotsAccounted TripsOnStreak GuardCoversTrip OpenAdmitsNobody
PROPERTIES CallsReturn HalfOpenResolves
CHECK_DEADLOCK TRUE
