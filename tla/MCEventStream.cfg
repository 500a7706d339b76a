SPECIFICATION FairSpec
CONSTANTS
    Capacity = 2
    Calls = {c1, c2}
    MaxSeq = 5
    MaxControls = 3
    MaxVersion = 2
INVARIANTS
    QueueKeepsOrder
    LossIsVisible
PROPERTIES
    
    QuietCloseEndsStream
CHECK_DEADLOCK FALSE
