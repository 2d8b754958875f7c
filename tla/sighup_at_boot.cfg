SPECIFICATION Spec
CONSTANTS
    Sources = 2
    Files = {1, 2}
    Values <- MCValues
    Invalid = Invalid
    Requests = {q1}
    ClientTimeout = 3
    ShutdownTimeout = 4
INVARIANTS
    HangupNeverKills
