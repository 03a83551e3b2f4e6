CONSTANTS
    r1 = r1
    r2 = r2
    w1 = w1
    w2 = w2
    Runs = {r1, r2}
    Windows = {w1, w2}
    NoRun = NoRun
    ReplayLimit = 1
    MaxCrashes = 1
    a = a
    b = b
    x = x
    Symbols = {a, b}
    Strangers = {x}
    AddressOrder <- MCOrder
    ChunkSize = 2
    Payloads <- MCPayloads
    Blacklist = {}
    DefaultRatio = 60
    MinAgeOverride <- MCNone
    MaxTurnoverOverride <- MCNone
    Configurations <- MCConfigurations
    t1 = t1
    t2 = t2
    Tokens = {t1, t2}
    Trading <- MCTrading
    MinLiquidity = 3
    MinVolume = 6
    MinTx = 15
    TierA = 85
    TierB = 70
    api = api
    worker = worker
    g1 = g1
    g2 = g2
    Processes = {api, worker}
    Readers = {g1, g2}
    Home <- MCHome
    Ttl = 2
    QueryTime = 1
    Nothing = Nothing
    MaxVersion = 1
    CacheHorizon = 5
    q1 = q1
    q2 = q2
    Requests = {q1, q2}
    Minutes = {1, 2, 3, 4}
    Duties <- MCDuties
    Markets <- MCMarkets
SPECIFICATION MCSpec
INVARIANTS TypeOK OneClaimPerWindow StatusMatchesData ReturnedIsDurable ReplayLimitHeld
INVARIANTS RequiredFromAddress OnlyCancellationEscapes SymbolsFromFirstSource
INVARIANTS ScoresFit CandidatesWereCurrent ReportedRunsAreStored
PROPERTIES RunsSettle ImplementsLedger
CHECK_DEADLOCK FALSE
