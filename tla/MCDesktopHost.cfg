SPECIFICATION FairSpec
CONSTANTS
    NoTurn = NoTurn
    NoRequest = NoRequest
    ProgressCap = 2
    MaxTurns = 3
    MaxRequests = 2
INVARIANTS
    DecisionsHonoured
    StateIsHonest
PROPERTIES
    TurnsReported
    ShutdownCompletes
CHECK_DEADLOCK FALSE
