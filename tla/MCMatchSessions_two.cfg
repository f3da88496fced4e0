SPECIFICATION Spec
CONSTANTS
    p1 = p1
    p2 = p2
    p3 = p3
    p4 = p4
    s1 = s1
    s2 = s2
    Players <- Players2
    Sessions <- TwoSessions
    LeagueOf <- TwoLeagues
    StartDate <- TwoStartDates
    JoinableAfterOffset = 3
    PreparationOffset = 2
    CountdownLead = 1
    Prompt = FALSE
    MaxTime = 6
    MaxFailures = 0
    MaxStops = 1
SYMMETRY Symmetry2
INVARIANTS
    OneActiveRace
PROPERTIES
    ImplementsDuel
