SPECIFICATION FairSpec
CONSTANTS
    Configurations <- MCConfigurations
    LogPlaces = 2
    ProgressPlaces = 2
    MaxFaults = 1
INVARIANTS
    FlushMeansDone
    LossesAreTold
PROPERTIES
    WorkersFinish
CHECK_DEADLOCK FALSE
