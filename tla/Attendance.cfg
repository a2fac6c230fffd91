SPECIFICATION MCSpec
CONSTANTS
  People = {ada}
  Threads = {"ops", "main"}
  Never = Never
  DayLength = 2
  Timeout = 1
  LockWait = 1
  MaxTime = 2
  MaxCorrections = 1
INVARIANTS
  TypeOK
  IntervalOnItsDay
PROPERTIES
  FirstClockInKept
  ClosedStaysClosed
  NotStretched
  AbsentIsClosed
CHECK_DEADLOCK FALSE
