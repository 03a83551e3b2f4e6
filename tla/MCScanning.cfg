SPECIFICATION MCSpec
CONSTANTS
    NumChains = 2
    Addresses = {a1, a2}
    MaxListed = 2
    Scores = {0, 55, 65}
    ScoreHigh = 75
    ScoreMedium = 65
    ScoreLow = 55
    CooldownOf <- MCCooldownOf
    MaxCooldown = 2
    HourInterval = 2
    MaxHits = 1
    Entries <- MCEntries
    Reports <- MCReports
    MinLiquidity = 50000
    MaxRugRisk = 80
    MaxBundlerRat = 70
    HighScore = 75
    MediumScore = 65
    LowScore = 55
INVARIANTS
    TypeOK
    NoRepeatInCooldown
    SuppressionHasCause
    FirstScanIsSilent
    HighMeansProgress
PROPERTIES
    EveryChainScanned
    HourlyScanned
