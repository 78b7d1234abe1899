SPECIFICATION FairSpec
CONSTANTS
    Layers = {twin1, twin2}
    NoLayer = NoLayer
    ConnectTimeout = 2
    OpenGpsd = FALSE
    Gaps = {0, 1, 2}
    MaxPackets = 3
    MaxLag = 2
INVARIANTS
    NoSleepOnPackets
PROPERTIES
    LinkKept
    OnTimeWithTwin
    SimulationProceeds
    PacketsTaken
