SPECIFICATION FairSpec
CONSTANTS
    Sources = 2
    Files = {2}
    Values <- MCValues
    Invalid = Invalid
    Requests = {q1, q2}
    ClientTimeout = 3
    ShutdownTimeout = 4
INVARIANTS
    TypeOK
    QuiescentIsCurrent
    ServesValid
PROPERTIES
    DrainSparesExchanges
    HangupHandled
