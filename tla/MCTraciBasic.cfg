SPECIFICATION BasicSpec
CONSTANTS
    Vehicles = {car1, car2}
    VehicleVars = {position, signals}
    NodeVars = {position}
    NoValue = NoValue
    Absent = Absent
    NoSink = NoSink
    DestroyOnCrash = TRUE
    StartTime = 2
    DeltaT = 2
    SelfStopping = TRUE
    ExpectedVersion = 20
    ClientVersion = 20
    ServerVersions = {17, 20, 21}
    MaxTime = 8
    Never = Never
SYMMETRY Symmetry
INVARIANTS
    SubscriptionsComplete
    CachesFresh
    SinksOwned
    BasicNothingLeftBehind
PROPERTIES
    BasicMirrorsTraffic
