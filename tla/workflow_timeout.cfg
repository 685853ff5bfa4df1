CONSTANTS
    Node = {n1, n2}
    MaxRetries = 0
    RetryCap = 65535
    TimeoutAt = 0
    MaxWord = 100000
    MaxTime = 0
SPECIFICATION WfSpec
CHECK_DEADLOCK FALSE
PROPERTIES
    TerminalIsFinal
