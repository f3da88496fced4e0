SPECIFICATION FairSpec
CONSTANTS
    s1 = s1
    p1 = p1
    p2 = p2
    p3 = p3
    chan = chan
    NoRecipient = NoRecipient
    Sessions <- OneSession
    Players <- ThreePlayers
    Entrants <- OneOrThree
    Channel <- AnnounceChannel
    StartDate <- SameDate
    JoinableAt = 2
    PreparationAt = 1
    StartLead = 1
    Countdowns = {}
    Capacity = 1
    MaxAttempts = 2
    Prompt = TRUE
    Signals = FALSE
    Commanders <- BothPlayers
    MaxSeeds = 1
    MaxTime = 3
    Incidents = {"failure", "ask", "post"}
    MaxIncidents = 1
INVARIANTS
    TypeOK
    LastWordIsOutcome
    EndedIsTold
    RecapsAreDue
    CommittedIsAnnounced
CHECK_DEADLOCK FALSE
