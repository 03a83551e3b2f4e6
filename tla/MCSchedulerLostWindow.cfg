CONSTANTS
    s1 = s1
    s2 = s2
    Schedulers = {s1}
    Step = 1
    CatchUp = 2
    Never = Never
    NoOne = NoOne
    MaxTime = 3
    MaxDisturbances = 1
SPECIFICATION Spec
PROPERTY RecentWindowsMadeUp
CHECK_DEADLOCK FALSE
