SPECIFICATION Spec
CONSTANTS
  CallIds = {"c1", "c2"}
  ToolNames = {"read", "bash", "gone"}
  None = None
  Permission <- MCPermission
  Rounds <- TwoCalls
  MaxSteps = 1
  MaxRetries = 1
  MaxTurns = 2
  MaxFailures = 1
  MaxCrashes = 1
INVARIANTS LogWellFormed ResultsTellTheTruth OnlyAuthorisedCallsStart TurnNumbersNeverReused
PROPERTIES ImplementsToolRounds NoSecondExecution 
