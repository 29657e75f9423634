CONSTANTS
    BUFFER_SIZE <- MCBufferSize
    Allocated <- MCAllocated
    Lines <- MCLines
    MaxLines = 2
    NonNumeric = NonNumeric
    Unresolved = Unresolved
    AddResults <- MCAddResults
SPECIFICATION Spec
INVARIANT BindingsMatchSpec
CHECK_DEADLOCK FALSE
