SPECIFICATION FairSpec
CONSTANTS
    m1 = m1
    m2 = m2
    m3 = m3
    w1 = w1
    w2 = w2
    Matches <- TwoMatches
    LocalWorkers <- OneWorker
    ExternalWorkers <- TwoWorkers
    Generators = {"oot-randomizer", "oot-settings-randomizer-api", "unknown"}
    Patience = 2
    MaxErrors = 1
INVARIANTS
    TypeOK
    SpoilerLogStaysLocked
    SentIsPlayable
    HandledOnce
PROPERTIES
    SeedgenEnds
CHECK_DEADLOCK FALSE
