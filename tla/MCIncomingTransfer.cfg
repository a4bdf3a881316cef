SPECIFICATION FairSpec
CONSTANTS
    Asks = {a1, a2}
    Pollers = {p1, p2}
    Clicks = {k1, k2}
    NoAsk = NoAsk
INVARIANTS
    NoOrphanPrompt
    AnswerReachesItsAsk
PROPERTIES
    EveryAskReturns
    DialogClears
    ImplementsGate
CHECK_DEADLOCK FALSE
