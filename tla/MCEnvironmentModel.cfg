CONSTANTS
    Vehicles = {a, b, c}
    Equipped = {a, b}
    StepLength = 2
    RadarValidity = 2
    CamValidity = 3
    MaxNodes = 4
    MaxTime = 6
    NoObject = NoObject
SPECIFICATION Spec
CHECK_DEADLOCK FALSE
SYMMETRY Symmetric
INVARIANTS
    TypeOK
    RefreshConsistent
    DisplaySafe
    GhostsShortLived
PROPERTY
    TrackingKept
