SPECIFICATION FairSpec
CONSTANTS
    Vehicles = {car1, car2}
    VehicleVars = {position, signals}
    NodeVars = {position}
    NoValue = NoValue
    Absent = Absent
    NoSink = NoSink
    DestroyOnCrash = FALSE
    Delays = {0, 1, 2, 3}
    StartTime = 0
    DeltaT = 2
    SelfStopping = TRUE
    ExpectedVersion <- AnyVersion
    ClientVersion = 20
    ServerVersions = {17, 20, 21}
    MaxTime = 6
    Never = Never
INVARIANTS
    SinksCurrent
    InsertionArmed
PROPERTIES
    MirrorsTraffic
    QueueDrains
