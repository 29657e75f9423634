CONSTANTS
    s1 = s1
    s2 = s2
    s3 = s3
    NULL = NULL
    Starts <- MCTwoStarts
    NodeCounts <- MCNodeCounts
    Grace = FALSE
    Serial = FALSE
    StopWhileStarting = FALSE
SPECIFICATION Spec
PROPERTY StopHonoured
CHECK_DEADLOCK FALSE
