SPECIFICATION FairSpec
CONSTANTS
    Conns = {c1, c2}
    MaxRequests <- MCRequests
    c1 = c1
    c2 = c2
    n1 = n1
    Names = {n1}
    Archives <- MCArchives
    LastSuffix = 1
    Clicks = {k1}
    Capacity = 2
INVARIANTS
    AnnouncedIsWhole
    NothingLostWithinCapacity
PROPERTIES
    ReplacedOnlyByRace
    RequestsFinish
    NewestIsShown
CHECK_DEADLOCK FALSE
