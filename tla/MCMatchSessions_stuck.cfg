SPECIFICATION FairSpec
CONSTANTS
    p1 = p1
    p2 = p2
    p3 = p3
    p4 = p4
    s1 = s1
    s2 = s2
    Players <- Players2
    Sessions <- OneSession
    LeagueOf <- OneLeague
    StartDate <- OneStartDate
    JoinableAfterOffset = 3
    PreparationOffset = 2
    CountdownLead = 1
    Prompt = TRUE
    MaxTime = 5
    MaxFailures = 0
    MaxStops = 0
PROPERTIES
    OverIsClosed
