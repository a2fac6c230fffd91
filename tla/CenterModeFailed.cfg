SPECIFICATION Spec
CONSTANTS
    Names = {ann, bob}
    Nil = nil
    Blocked = blocked
    MaxEntities = 1
    MaxRows = 3
    MaxAttempts = 3
PROPERTY
    FailedNeverClocksIn
