SPECIFICATION MCSpec
CONSTANTS
    None = None
    Nil = Nil
    DeviceNames = {"host", "booth"}
    HostName = "host"
    Guests = {"g1", "g2"}
    Folders = {1, 2, 3}
    MaxStarts = 2
    MaxChanges = 2
    MaxFailures = 1
    OurName = "me"
    OurHost = "me"
    OurAddr = "a0"
    Services <- MCServices
    Beacons <- MCBeacons
    Probe <- MCProbe
    TrueKind <- MCTrueKind
    ListModes = {"Everyone", "AppleDevices", "AndroidDevices", "AirTags"}
    MaxSources = 4
INVARIANTS
    CertificateFitsKey
    GuestsKeepTheirFolder
    RowsAreStable
    ReachableRowsStayReachable
    NoPeerIsLost
PROPERTIES
    RestartKeepsSettings
    OrderIsTheDjs
CHECK_DEADLOCK FALSE
