SPECIFICATION FairSpec
CONSTANTS
    c1 = c1
    t1 = t1
    ToolIds = {t1}
    Script <- ToolTurn
    Capacity = 2
    WireCap = 1
    BufferCap = 3
    MaxSeq = 7
INVARIANTS
    
    CaughtUpAfterTurn

    
CHECK_DEADLOCK FALSE
