CONSTANTS
    s1 = s1
    s2 = s2
    s3 = s3
    Cars = {a}
    Addresses = {x}
    Stories <- TwoStories
    SpeedEffects <- SingleEffects
    OriginalSpeed = 50
    DebugLogging = FALSE
    MaxChanges = 2
    Nothing = Nothing
SPECIFICATION Spec
INVARIANT RestoredWhenDone
