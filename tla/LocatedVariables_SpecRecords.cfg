CONSTANTS
    BUFFER_SIZE <- MCBufferSize
    Allocated <- MCAllocated
    Lines <- MCLines
    MaxLines = 2
    NonNumeric = NonNumeric
    Unresolved = Unresolved
    AddResults <- MCAddGood
SPECIFICATION Spec
INVARIANT SpecRecordsExposed
CHECK_DEADLOCK FALSE
