SPECIFICATION Spec
CONSTANTS
    m1 = m1
    m2 = m2
    r1 = r1
    r2 = r2
    Messages = {m1, m2}
    Reports <- Attached
    Refused = {r2}
    Raising = {m2}
    DeleteAfter = 1
    RestartOnStart = TRUE
    SlowCycles = TRUE
    MaxTime = 1
    MaxValidity = 1
    MaxFaults = 1
INVARIANTS
    TypeOK
    DeletedWasStored
    SuccessWasStored
    RepeatsAreCaused
PROPERTIES
    ArrivedIsStored
    RecordedIsDeleted
CHECK_DEADLOCK FALSE
