CONSTANTS
    v1 = v1
    v2 = v2
    v3 = v3
    Scan = Scan
    Opc = Opc
    NoOwner = NoOwner
    NoWrite = NoWrite
    NodeList <- MCNodeList
    Unregistered <- MCNoUnregistered
    ProgramWritten <- MCProgramWritten
    Values <- MCValues
    ServiceMutex = FALSE
SPECIFICATION Spec
INVARIANT NoImageDataRace
