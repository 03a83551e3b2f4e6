SPECIFICATION Spec
CONSTANTS
    NumChains = 1
    Addresses = {a1}
    MaxListed = 1
    Scores = {0, 80}
    ScoreHigh = 75
    ScoreMedium = 65
    ScoreLow = 55
    CooldownOf <- MCCooldownOf
    MaxCooldown = 2
    HourInterval = 2
    MaxHits = 3
INVARIANT
    MessageShowsDecayedScore
