CONSTANTS
    s1 = s1
    s2 = s2
    s3 = s3
    NULL = NULL
    Starts <- MCTwoStarts
    NodeCounts <- MCNodeCounts
    Grace = TRUE
    Serial = TRUE
    StopWhileStarting = TRUE
SPECIFICATION Spec
PROPERTY StopHonoured
CHECK_DEADLOCK FALSE
