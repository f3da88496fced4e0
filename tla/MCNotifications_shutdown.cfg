SPECIFICATION FairSpec
CONSTANTS
    s1 = s1
    p1 = p1
    p2 = p2
    p3 = p3
    chan = chan
    NoRecipient = NoRecipient
    Sessions <- OneSession
    Players <- ThreePlayers
    Entrants <- JustTwo
    Channel <- AnnounceChannel
    StartDate <- SameDate
    JoinableAt = 2
    PreparationAt = 1
    StartLead = 1
    Countdowns <- SomeCountdowns
    Capacity = 1
    MaxAttempts = 2
    Prompt = TRUE
    Signals = TRUE
    Commanders <- FirstPlayer
    MaxSeeds = 0
    MaxTime = 3
    Incidents = {}
    MaxIncidents = 0
PROPERTIES
    DatabaseIsReleased
    ShutdownEnds
CHECK_DEADLOCK FALSE
