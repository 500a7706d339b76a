SPECIFICATION Spec
CONSTANTS
  Files <- MCFiles
  EditInputs <- MCEditInputs
  WriteInputs <- MCWriteInputs
  BashInputs <- MCBashInputs
  ReadPaths = {"a", "out"}
  InitialFiles <- MCInitialFiles
  MaxOutput = 2
  MaxCalls = 3
  MaxFaults = 1
INVARIANTS
    EditsAreSimultaneous
    CutsCanBeTold
PROPERTIES
    AnswersAreHonest
\* The behaviours stop when the bounded number of calls has been made.
CHECK_DEADLOCK FALSE
