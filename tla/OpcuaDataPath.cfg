CONSTANTS
    v1 = v1
    v2 = v2
    v3 = v3
    Scan = Scan
    Opc = Opc
    NoOwner = NoOwner
    NoWrite = NoWrite
    NodeList <- MCNodeList
    Unregistered <- MCUnregistered
    ProgramWritten <- MCProgramWritten
    Values <- MCValues
    ServiceMutex = FALSE
SPECIFICATION FairSpec
INVARIANT TypeOK
INVARIANT LockOrder
PROPERTY CoherentOnceClientsStop
