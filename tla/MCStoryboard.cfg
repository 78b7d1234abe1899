CONSTANTS
    s1 = s1
    s2 = s2
    s3 = s3
    Cars = {a, b}
    Addresses = {x}
    Stories <- ThreeStories
    SpeedEffects <- DoubleEffects
    OriginalSpeed = 50
    DebugLogging = TRUE
    MaxChanges = 3
    Nothing = Nothing
SPECIFICATION Spec
INVARIANTS
    StoriesMatchConditions
    StoriesInOrder
