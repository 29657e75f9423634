CONSTANTS
    s1 = s1
    s2 = s2
    s3 = s3
    NULL = NULL
    Starts <- MCOneStart
    NodeCounts <- MCNodeCounts
    Grace = TRUE
    Serial = TRUE
    StopWhileStarting = TRUE
SPECIFICATION Spec
INVARIANT PublishUsesLiveServer
CHECK_DEADLOCK FALSE
