SPECIFICATION FairSpec
CONSTANTS
  Keys = {k}
  NoKey = NoKey
  Torn = Torn
  Absent = Absent
  Window = 1
  ResultsKept = 1
  MaxCommands = 4
  MaxFaults = 1
INVARIANTS
  TypeOK
  CompletedIsAnswered
  KeyLeadsToLast
PROPERTIES
  ExecutedInOrder
  PendingIsServed
CHECK_DEADLOCK FALSE
