SPECIFICATION FairSpec
CONSTANTS
    p1 = p1
    p2 = p2
    p3 = p3
    p4 = p4
    s1 = s1
    s2 = s2
    Players <- Players3
    Sessions <- OneSession
    LeagueOf <- OneLeague
    StartDate <- OneStartDate
    JoinableAfterOffset = 3
    PreparationOffset = 2
    CountdownLead = 1
    Prompt = FALSE
    MaxTime = 5
    MaxFailures = 1
    MaxStops = 1
PROPERTIES
    EndedSessionIsClosed
    RegisteredPlayerIsServed
    MatchIsStarted
