CONSTANTS
    Node = {n1, n2}
    MaxRetries = 0
    RetryCap = 65535
    TimeoutAt = 100000
    MaxWord = 100000
    MaxTime = 0
SPECIFICATION WfSpec
CHECK_DEADLOCK FALSE
PROPERTIES
    MeasureAlwaysDecreases
