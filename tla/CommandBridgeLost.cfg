SPECIFICATION Spec
CONSTANTS
  Keys = {k}
  NoKey = NoKey
  Torn = Torn
  Absent = Absent
  Window = 3
  ResultsKept = 3
  MaxCommands = 2
  MaxFaults = 0
INVARIANTS
  PendingIsInFile
CHECK_DEADLOCK FALSE
