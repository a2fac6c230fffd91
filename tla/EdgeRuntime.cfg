SPECIFICATION MCSpec
CONSTANTS
  MaxEntities = 2
  CloseAfter = 1
  Never = Never
  Seconds = Seconds
  MaxTime = 2
  MaxFrames = 4
  MaxAge = 0
  RegularSize = 1
  CriticalSize = 1
  DayLength = 2
INVARIANTS
  TypeOK
  OneOpenSession
  NeverSeenLater
  AtMostOneLeftBehind
  CleanExitClosesAll
PROPERTIES
  SessionsMoveForward
  ShutdownDrains
  WorksDown
  ImplementsPresenceLog
CHECK_DEADLOCK FALSE
