CONSTANTS
    a = a
    b = b
    Stations = {a, b}
    UseCaseConfig <- MCUseCaseConfig
    Parked = {b}
    Speeds = {0, 4}
    Neighbours = {n}
    Directed = {b}
    Reach <- MCReach
    f = f
    Foreign = {f}
    ForeignActions = {1}
    ForeignValidities = {1}
    ForeignCauses = {"DangerousEndOfQueue"}
    Unset = Unset
    DefaultValidity = 3
    SequenceModulus = 2
    nonUrbanEnvironment = TRUE
    sampleDuration <- MCSampleDuration
    sampleInterval <- MCSampleInterval
    targetVelocity = 2
    initialVelocity = 4
    instantDecel = 1
    averageWindow = 3
    stationaryWindow = 2
    minWindow = 1
    JamQuorum = 1
    validityDuration <- MCValidity
    UpdateInterval = 1
    StepLength = 1
    MaxTime = 2
    AirLimit = 2
    Modulus = 16
    Timebase = 16
SPECIFICATION Spec
CHECK_DEADLOCK FALSE
INVARIANTS
    NewestWarningKept
PROPERTIES
    WarningsGrounded
    ExchangeSettles
