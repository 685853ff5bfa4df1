CONSTANTS
    Node = {n1, n2, n3}
    MaxRetries = 2
    RetryCap = 1
    TimeoutAt = 1
    MaxWord = 6001
    MaxTime = 2
SPECIFICATION WfFairSpec
CHECK_DEADLOCK FALSE
INVARIANTS
    WfTypeOK
    CountersExact
    DependencyOrder
    StatusSound
PROPERTIES
    MeasureDecreases
    DagTerminates
