CONSTANTS
    s1 = s1
    s2 = s2
    s3 = s3
    NULL = NULL
    Starts <- MCThreeStarts
    NodeCounts <- MCNodeCounts
    Grace = TRUE
    Serial = TRUE
    StopWhileStarting = FALSE
SPECIFICATION Spec
INVARIANT ServerHandleSafety
PROPERTY StopReachesIdle
PROPERTY AbstractSpec
CHECK_DEADLOCK FALSE
