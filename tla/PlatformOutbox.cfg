SPECIFICATION Spec
CONSTANTS
  Aggregates = {person}
  Values = {"on", "off"}
  KeyedByValue = {person}
  Workers = {w1, w2}
  Nobody = Nobody
  ClaimLimit = 1
  MaxAttempts = 2
  MaxDelay = 3
  Lease = 1
  DayLength = 3
  RetentionDays = 1
  MaxTime = 6
  MaxChanges = 2
  MaxCrashes = 1
INVARIANTS
  TypeOK
  OneLiveClaim
PROPERTIES
  SettledByOwner
  NeverEarly
  ImplementsLeasedQueue
