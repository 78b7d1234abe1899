CONSTANTS
    Senders = {s}
    Receivers = {r}
    Dynamics = {zero, other}
    NoDynamics = zero
    Channels = {cch}
    CCH = cch
    WithDccRestriction = TRUE
    FixedRate = FALSE
    MinInterval = 1
    MaxInterval = 3
    DefaultInterval = 3
    LowFrequencyInterval = 3
    LowDynamicsLimit = 3
    DccDelays = {0, 9}
    UpdateInterval = 2
    Lifetime = 3
    MaxAge = 12
    MaxTime = 18
    QueueLimit = 2
    Modulus = 16
    Timebase = 28
    NoEntry = NoEntry
SPECIFICATION Spec
CHECK_DEADLOCK FALSE
INVARIANTS
    NeverSilent
    ContainerRegular
    MapTruthful
    NewestKept
