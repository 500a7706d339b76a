SPECIFICATION Spec
CONSTANTS
  SessionIds = {s1, s2}
  s1 = s1
  s2 = s2
  Payloads = {p, q}
  p = p
  q = q
  Bad = Bad
  Garbage = Garbage
  NoFile = NoFile
  Closed = Closed
  NoParent = NoParent
  Faults <- AllFaults
  MaxItems = 3
  MaxTurn = 1
  MaxFaults = 2
INVARIANTS
    OwnerNumbersItems
    LoadNeverLosesAckedItems
    ForkKeepsPrefix
PROPERTIES
    ImplementsDurableLog
