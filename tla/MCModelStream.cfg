SPECIFICATION FairSpec
CONSTANTS
    Setups <- MCSetups
    Tools = {1, 2}
    Places = 1
  
PROPERTIES CallEnds
CHECK_DEADLOCK FALSE
