SPECIFICATION Spec
CONSTANTS
    None = None
    OurName = "me"
    OurHost = "me"
    OurAddr = "a0"
    Names = {"mac"}
    Addrs = {"a1", "a2"}
    AdOf <- MCAdOf
    Beacons = {"b1"}
    AdvOf <- MCAdvOf
    Readings <- MCReadings
    AgeLimit = 1
    Budgets <- MCBudgets
    MaxFetches = 2
    NameAt <- MCNameAt
    Mode = "Everyone"
PROPERTIES
    GhostsLeave
    ArrivalsStay
