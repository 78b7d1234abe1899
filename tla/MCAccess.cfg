CONSTANTS
    RateControls = {TRUE, FALSE}
    Interval <- MCInterval
    MaxInterval = 2
    QueueLength = 1
    Categories = {1, 2}
    BeaconCategory = 1
    ShbCategory = 1
    GbcCategory = 2
    Lifetime = 1
    BeaconInterval = 3
    BeaconJitter = 1
    Repetitions <- MCRepetitions
    MaxRepeated = 2
    Step = 3
SPECIFICATION Spec
INVARIANTS
    CallbacksInTime
    PacketsServed
    RepetitionsFit
PROPERTIES
    UpdatesEnd
