SPECIFICATION Spec
CONSTANTS
  CallIds = {"c1", "c2"}
  ToolNames = {"read", "bash"}
  None = None
  MaxLength = 5
INVARIANTS AgreesWithDefinition EveryToolUseAnsweredOnWire PagesPartitionLog
