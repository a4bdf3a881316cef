SPECIFICATION MCSpec
CONSTANTS
    Keys = {k1, k2}
    NoKey = NoKey
    Machines = {m1, m2}
    MaxActivations = 1
    SendLimit = 1
    QrLimit = 1
    Calendar <- MCCalendar
    Sends = {s1, s2}
    Devices = {near, portless, ble}
    Located = {near, portless}
    Reachable = {near}
    NoDevice = NoDevice
    MaxTransfers = 3
    Conns = {c1, c2}
    Guests = {g1, g2}
    Folders = {f1, f2}
    NoFolder = NoFolder
    Names = {n1}
    LastSuffix = 1
    MaxFiles = 3
    MaxParts = 2
INVARIANTS
    KeyMatchesPrints
    NothingLeftBehind
    OverrunIsBounded
    FilesFollowTheirGuest
    QrOverrunIsBounded
PROPERTIES
    FilesAreKept
SYMMETRY DemoSymmetry
