SPECIFICATION MCSpec
CONSTANTS
    None = None
    Daemons = {d1, d2}
    NoDaemon = NoDaemon
    Names <- MCNames
    MacOf <- MCMacOf
    Ipv4Of <- MCIpv4Of
    Payload <- MCPayload
    Ring = 1
    PeerTimeout = 1
    MaxSeq = 1
    MaxStops = 2
    MaxForeign = 1
    Hosts = {"pc1", "pc2"}
    Driven = {"pc1"}
    ConfigName <- MCConfigName
    MaxPeers = 0
    MaxConfigs = 1
INVARIANTS
    PeersAreAnnounced
    RunningIsServed
PROPERTIES
    StopEndsTasks
