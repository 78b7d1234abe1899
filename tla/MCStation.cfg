CONSTANTS
    n1 = n1
    n2 = n2
    n3 = n3
    r = r
    i1 = i1
    i2 = i2
    i3 = i3
    i4 = i4
    r1 = r1
    r2 = r2
    Vehicles = {n1, n2, n3}
    RSUs = {r}
    TraciName <- MCTraciName
    Interfaces = {i1, i2, i3, i4, r1, r2}
    Host <- MCHost
    RadioChannel <- MCRadioChannel
    ServiceConfig <- MCServiceConfig
    PolicyConfig <- MCPolicyConfig
    ItsAids = {"wide", "part", "other"}
    Ports = {1, 2}
    MaxFrames = 1
SPECIFICATION Spec
CHECK_DEADLOCK FALSE
INVARIANTS
    ListenersServed
    ChannelsServed
    RegistryTrue
