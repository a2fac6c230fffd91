SPECIFICATION Spec
CONSTANTS
  Events = {e1, e2, e3}
  BatchSize = 2
  MaxFaults = 2
INVARIANTS
  TypeOK
  ReceivedIsLogPrefix
  AcknowledgedIsReceived
  CheckpointNotAhead
PROPERTIES
  InactiveIsBlocked
  ImplementsOrderedDelivery
