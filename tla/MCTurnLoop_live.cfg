SPECIFICATION FairLoop
CONSTANTS
  CallIds = {"c1", "c2"}
  ToolNames = {"read", "bash", "gone"}
  None = None
  Permission <- MCPermission
  Rounds <- MixedRounds
  MaxSteps = 2
  MaxRetries = 1
  MaxTurns = 1
  MaxFailures = 1
  MaxCrashes = 0
PROPERTIES CancelEndsTurn TurnEndsIfAnswered
