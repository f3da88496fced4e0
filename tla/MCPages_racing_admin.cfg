SPECIFICATION PagesSpec
CONSTANTS
    p1 = p1
    p2 = p2
    s1 = s1
    visitor = visitor
    Players <- TwoPlayers
    Visitors <- OneVisitor
    Admins <- OneAdmin
    Sessions <- OneSession
    LeagueOf <- OneLeague
    StartDate <- OneStartDate
    JoinableAfterOffset = 3
    PreparationOffset = 2
    CountdownLead = 1
    Prompt = TRUE
    MaxTime = 5
    MaxFailures = 0
    MaxStops = 0
INVARIANTS
    RacersSeeNoSpoilers
