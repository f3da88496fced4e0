SPECIFICATION FairSpec
CONSTANTS
    p1 = p1
    p2 = p2
    p3 = p3
    p4 = p4
    r1 = r1
    r2 = r2
    s1 = s1
    Players <- FourPlayers
    Sessions <- OneSession
    Races <- TwoRaces
    SessionOf <- OfOneSession
    RacersOf <- ApartPairs
    StartDate <- OneDate
    Week = 2
    Prompt = TRUE
    MaxTime = 3
    MaxFailures = 1
    MaxStops = 1
    MaxReranks = 1
INVARIANTS
    TypeOK
    CountedInItsWeek
PROPERTIES
    RerankIsComplete
    EndedIsRanked
    AnnouncedIsRanked
