CONSTANTS
    r1 = r1
    r2 = r2
    r3 = r3
    w1 = w1
    w2 = w2
    Runs = {r1}
    Windows = {w1, w2}
    NoRun = NoRun
    ReplayLimit = 1
    MaxCrashes = 1
SPECIFICATION Spec
PROPERTY SettledIsFinal
CHECK_DEADLOCK FALSE
