SPECIFICATION FairSpec
CONSTANTS
    Sessions = {s1, s2}
    NoSession = NoSession
    Slots = 2
    Closer = Closer
    Free = Free
    MaxEpoch = 2
    MaxCommands = 3
    Places = 1
INVARIANTS
    OneHost
PROPERTIES
    RepliesAreCurrent
    CommandsAnswered
    ShutdownsEnd
CHECK_DEADLOCK FALSE
