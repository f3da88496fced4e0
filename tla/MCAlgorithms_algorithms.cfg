SPECIFICATION Spec
CONSTANTS
    p1 = p1
    p2 = p2
    p3 = p3
    p4 = p4
    Players <- FourPlayers
    Ratings <- SomeRatings
    Deviations <- SomeDeviations
    SmallSize = 2
    MediumSize = 4
    HoursPerDay = 4
    DaysPerWeek = 3
    ZoneOffset <- Zones
    Leagues <- SomeLeagues
    HoursOpen = 1
    MaxHour = 26
    Names <- SettingNames
    Undecided = "undecided"
    Possible <- ShuffledSettings
    BridgeOf <- BridgeKinds
    BridgeValue <- ValuesOfBridge
    Zero = "0"
    Open <- OpenBridges
    costMax = 12
    maxIterations = 3
    TolerancePeriod = 1
INVARIANTS
    PairingIsPerfect
    RangesAreExhausted
    ScheduleIsHeld
    SettingsAreCompatible
CHECK_DEADLOCK FALSE
