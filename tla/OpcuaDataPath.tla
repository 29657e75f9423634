--------------------------- MODULE OpcuaDataPath ---------------------------
(***************************************************************************)
(* The value path of the OpenPLC OPC UA bridge (webserver/core/opcua.cpp) *)
(* while the server is running.                                           *)
(*                                                                         *)
(* Two threads touch the PLC process image and the OPC UA nodes:          *)
(*  - Scan: the PLC scan loop.  Each cycle it runs the program under      *)
(*    bufferLock, releases it and calls opcuaUpdateNodeValues(), which    *)
(*    reads every bound variable *without* bufferLock and stores it into  *)
(*    its node with UA_Server_writeValue().                               *)
(*  - Opc: the OPC UA thread, which serves client Write requests inside  *)
(*    UA_Server_run_iterate().                                            *)
(* Every store into a node value, whether from a client or from           *)
(* UA_Server_writeValue(), makes the stack call the node's onWrite        *)
(* callback onVariableValueWrite(), which copies the value into PLC       *)
(* memory under bufferLock.  Client reads return the node value (no       *)
(* onRead callback is installed), so `node` is what a client reads.       *)
(*                                                                         *)
(* Unregistered nodes were added to the address space, but the malloc of *)
(* their OpcNodeInfo failed: they have no node context, no onWrite        *)
(* callback and no entry in g_node_list.                                  *)
(*                                                                         *)
(* ServiceMutex says whether the stack serialises service calls           *)
(* (open62541 built with UA_MULTITHREADING >= 100: the store and its      *)
(* onWrite callback run under the server's service mutex).               *)
(***************************************************************************)
EXTENDS Naturals, Sequences, Functions

CONSTANTS
    NodeList,        \* g_node_list: the bound variables, in list order
    Unregistered,    \* nodes whose OpcNodeInfo allocation failed
    ProgramWritten,  \* variables the PLC program assigns in every scan
    Values,          \* the values a variable can hold (0 is the zero)
    ServiceMutex,    \* does the stack serialise store + onWrite?
    Scan, Opc,       \* the scan thread and the OPC UA thread
    NoOwner,         \* owner of a free mutex
    NoWrite          \* no client write acknowledged yet

Bound == Range(NodeList)
Vars == Bound \cup Unregistered
Threads == {Scan, Opc}

ASSUME /\ Len(NodeList) > 0 /\ IsInjective(NodeList)
       /\ Bound \cap Unregistered = {}
       /\ ProgramWritten \subseteq Bound
       /\ 0 \in Values
       /\ ServiceMutex \in BOOLEAN
       /\ NoOwner \notin Threads

VARIABLES
    image,        \* *variablePtr of each binding: the PLC process image
    node,         \* the value attribute of each node: what reads return
    bufferLock,   \* owner of the runtime's bufferLock
    serviceLock,  \* owner of the stack's service mutex
    bridgeLock,   \* owner of opcua_mutex (guards g_node_list)
    pc,           \* control point of each thread
    cbVar,        \* the variable a thread is storing into its node
    cbVal,        \* the value it is storing
    pubIdx,       \* position of opcuaUpdateNodeValues() in g_node_list
    acked,        \* history: value of the last completed client write
    raced         \* history: an unlocked read met a locked store

vars == <<image, node, bufferLock, serviceLock, bridgeLock, pc, cbVar, cbVal, pubIdx,
          acked, raced>>

ScanPcs == {"program", "lock", "read", "write", "cbLock", "cbStore", "sleep"}
OpcPcs  == {"idle", "cbLock", "cbStore"}

TypeOK ==
    /\ image \in [Vars -> Values]
    /\ node \in [Vars -> Values]
    /\ bufferLock \in Threads \cup {NoOwner}
    /\ serviceLock \in Threads \cup {NoOwner}
    /\ bridgeLock \in Threads \cup {NoOwner}
    /\ pc[Scan] \in ScanPcs /\ pc[Opc] \in OpcPcs
    /\ cbVar \in [Threads -> Vars]
    /\ cbVal \in [Threads -> Values]
    /\ pubIdx \in 1 .. Len(NodeList)
    /\ acked \in [Vars -> Values \cup {NoWrite}]
    /\ raced \in BOOLEAN

(***************************************************************************)
(* The server has just started: addVariableNode() gave every node the     *)
(* zero of its type, while the PLC memory holds whatever the program has  *)
(* computed so far.  The scan thread is at the top of a cycle.            *)
(***************************************************************************)
Init ==
    /\ image \in [Vars -> Values]
    /\ node = [v \in Vars |-> 0]
    /\ bufferLock = NoOwner
    /\ serviceLock = NoOwner
    /\ bridgeLock = NoOwner
    /\ pc = [t \in Threads |-> IF t = Scan THEN "program" ELSE "idle"]
    /\ cbVar = [t \in Threads |-> NodeList[1]]
    /\ cbVal = [t \in Threads |-> 0]
    /\ pubIdx = 1
    /\ acked = [v \in Vars |-> NoWrite]
    /\ raced = FALSE

Goto(t, l) == pc' = [pc EXCEPT ![t] = l]

(***************************************************************************)
(* Stack side of a value write (UA_Server_writeValue for Scan, the Write  *)
(* service for a client on Opc): store the node value, then enter the     *)
(* node's onWrite callback.  With ServiceMutex the service mutex is taken *)
(* first and held until the callback returns.                             *)
(***************************************************************************)
StackWrite(t, v, val) ==
    /\ ServiceMutex => serviceLock = NoOwner
    /\ serviceLock' = IF ServiceMutex THEN t ELSE serviceLock
    /\ node' = [node EXCEPT ![v] = val]
    /\ cbVar' = [cbVar EXCEPT ![t] = v]
    /\ cbVal' = [cbVal EXCEPT ![t] = val]
    /\ Goto(t, "cbLock")

(***************************************************************************)
(* onVariableValueWrite(): its early returns (no context, no value, not a *)
(* scalar, type differs from the binding) never fire for a value the      *)
(* stack has already accepted for the node, so it locks bufferLock ...    *)
(***************************************************************************)
OnWriteLock(t) ==
    /\ pc[t] = "cbLock"
    /\ bufferLock = NoOwner
    /\ bufferLock' = t
    /\ Goto(t, "cbStore")
    /\ UNCHANGED <<image, node, serviceLock, bridgeLock, cbVar, cbVal, pubIdx, acked, raced>>

(***************************************************************************)
(* ... stores the value into PLC memory and unlocks; the stack then       *)
(* returns to the writer (releasing its service mutex).  The scan thread  *)
(* moves its cursor to `idx` and, after the `last` node, unlocks          *)
(* opcua_mutex and ends the cycle; a client write is acknowledged.        *)
(***************************************************************************)
StoreAndReturn(t, last, idx) ==
    LET v == cbVar[t] IN
    /\ pc[t] = "cbStore"
    /\ image' = [image EXCEPT ![v] = cbVal[t]]
    /\ bufferLock' = NoOwner
    /\ serviceLock' = IF ServiceMutex THEN NoOwner ELSE serviceLock
    /\ IF t = Scan
         THEN /\ Goto(t, IF last THEN "sleep" ELSE "read")
              /\ pubIdx' = idx
              /\ bridgeLock' = IF last THEN NoOwner ELSE bridgeLock
              /\ UNCHANGED acked
         ELSE /\ Goto(t, "idle")
              /\ acked' = [acked EXCEPT ![v] = cbVal[t]]
              /\ UNCHANGED <<pubIdx, bridgeLock>>
    /\ UNCHANGED <<node, cbVar, cbVal, raced>>

(* Mutant: the update loop stops one node before the tail of g_node_list. *)
OnWriteStoreStopEarly(t) ==
    StoreAndReturn(t, pubIdx >= Len(NodeList) - 1, pubIdx + 1)

(* Mutant: the list cursor is advanced past the tail. *)
OnWriteStorePastEnd(t) ==
    StoreAndReturn(t, pubIdx = Len(NodeList), pubIdx + 1)

(* The loop of opcuaUpdateNodeValues() walks g_node_list to its tail. *)
OnWriteStore(t) ==
    LET last == pubIdx = Len(NodeList) IN
    StoreAndReturn(t, last, IF last THEN pubIdx ELSE pubIdx + 1)

(* Mutant: the engine calls opcuaUpdateNodeValues() before unlocking     *)
(* bufferLock.                                                            *)
ScanProgramPublishLocked ==
    /\ pc[Scan] = "program"
    /\ bufferLock = NoOwner
    /\ \E new \in [ProgramWritten -> Values] :
          image' = [v \in Vars |-> IF v \in ProgramWritten THEN new[v]
                                                          ELSE image[v]]
    /\ bufferLock' = Scan
    /\ Goto(Scan, "lock")
    /\ UNCHANGED <<node, serviceLock, bridgeLock, cbVar, cbVal, pubIdx, acked, raced>>

(***************************************************************************)
(* One PLC scan (main loop, outside this repository): under bufferLock    *)
(* the program assigns the variables it writes; bufferLock is released    *)
(* and opcuaUpdateNodeValues() is called.                                 *)
(***************************************************************************)
ScanProgram ==
    /\ pc[Scan] = "program"
    /\ bufferLock = NoOwner
    /\ \E new \in [ProgramWritten -> Values] :
          image' = [v \in Vars |-> IF v \in ProgramWritten THEN new[v]
                                                          ELSE image[v]]
    /\ Goto(Scan, "lock")
    /\ UNCHANGED <<node, bufferLock, serviceLock, bridgeLock, cbVar, cbVal, pubIdx,
                   acked, raced>>

(* opcuaUpdateNodeValues() locks opcua_mutex and starts at the head of    *)
(* g_node_list; it holds the mutex until the loop is done.                *)
PubLock ==
    /\ pc[Scan] = "lock"
    /\ bridgeLock = NoOwner
    /\ bridgeLock' = Scan
    /\ pubIdx' = 1
    /\ Goto(Scan, "read")
    /\ UNCHANGED <<image, node, bufferLock, serviceLock, cbVar, cbVal, acked, raced>>

(***************************************************************************)
(* opcuaUpdateNodeValues() reads *variablePtr of the current node without *)
(* bufferLock.  The read races a client store that holds bufferLock for   *)
(* the same variable.                                                     *)
(***************************************************************************)
PubRead ==
    LET v == NodeList[pubIdx] IN
    /\ pc[Scan] = "read"
    /\ cbVar' = [cbVar EXCEPT ![Scan] = v]
    /\ cbVal' = [cbVal EXCEPT ![Scan] = image[v]]
    /\ raced' = (raced \/ (bufferLock = Opc /\ cbVar[Opc] = v))
    /\ Goto(Scan, "write")
    /\ UNCHANGED <<image, node, bufferLock, serviceLock, bridgeLock, pubIdx, acked>>

(* ... and writes the value it read into the node. *)
PubWrite ==
    /\ pc[Scan] = "write"
    /\ StackWrite(Scan, cbVar[Scan], cbVal[Scan])
    /\ UNCHANGED <<image, bufferLock, bridgeLock, pubIdx, acked, raced>>

(* The scan thread sleeps until the next cycle (sleep_until). *)
ScanSleep ==
    /\ pc[Scan] = "sleep"
    /\ Goto(Scan, "program")
    /\ UNCHANGED <<image, node, bufferLock, serviceLock, bridgeLock, cbVar, cbVal, pubIdx,
                   acked, raced>>

(* A client writes val into the node of v; the stack accepts it. *)
ClientWrite(v, val) ==
    /\ pc[Opc] = "idle"
    /\ StackWrite(Opc, v, val)
    /\ UNCHANGED <<image, bufferLock, bridgeLock, pubIdx, acked, raced>>

(***************************************************************************)
(* A client writes a node whose OpcNodeInfo allocation failed in          *)
(* addVariableNode(): the stack stores the value and, with no onWrite     *)
(* callback installed, acknowledges the write at once.                    *)
(***************************************************************************)
ClientWriteUnbound(v, val) ==
    /\ pc[Opc] = "idle"
    /\ ServiceMutex => serviceLock = NoOwner
    /\ node' = [node EXCEPT ![v] = val]
    /\ acked' = [acked EXCEPT ![v] = val]
    /\ UNCHANGED <<image, bufferLock, serviceLock, bridgeLock, pc, cbVar, cbVal, pubIdx, raced>>

Next ==
    \/ ScanProgram
    \/ PubLock
    \/ PubRead
    \/ PubWrite
    \/ ScanSleep
    \/ \E v \in Bound, val \in Values : ClientWrite(v, val)
    \/ \E v \in Unregistered, val \in Values : ClientWriteUnbound(v, val)
    \/ \E t \in Threads : OnWriteLock(t) \/ OnWriteStore(t)

Spec == Init /\ [][Next]_vars

(***************************************************************************)
(* The scan loop runs forever, and a callback that holds bufferLock       *)
(* returns: each thread's own steps are weakly fair.  Client writes are   *)
(* not: a client may stop writing at any time.                            *)
(***************************************************************************)
ScanSteps ==
    ScanProgram \/ PubLock \/ PubRead \/ PubWrite \/ ScanSleep
    \/ OnWriteLock(Scan) \/ OnWriteStore(Scan)

FairSpec ==
    /\ Spec
    /\ WF_vars(ScanSteps)
    /\ WF_vars(OnWriteLock(Opc) \/ OnWriteStore(Opc))

-----------------------------------------------------------------------------
(***************************************************************************)
(* Properties                                                              *)
(***************************************************************************)

(* A client write to v is between its node store and its PLC store. *)
ClientWriting(v) == pc[Opc] \in {"cbLock", "cbStore"} /\ cbVar[Opc] = v

(***************************************************************************)
(* Once clients stop writing, reads become coherent again, and are so     *)
(* again and again: every later cycle of opcuaUpdateNodeValues() copies   *)
(* each bound variable of PLC memory into its node, so a node left        *)
(* stale by a client store split by a publish, or by a publish that read  *)
(* before a client's store, is repaired.  Breaks if the update loop skips *)
(* a node of g_node_list.                                                 *)
(***************************************************************************)
CoherentOnceClientsStop ==
    <>[](pc[Opc] = "idle") => []<>(\A v \in Bound : node[v] = image[v])

(***************************************************************************)
(* A completed client write to a variable that the PLC program never      *)
(* assigns is what clients read back, and what PLC memory holds, until    *)
(* the next client write to it (spec: reads reflect the last publish or a *)
(* later write, whichever is later).                                      *)
(***************************************************************************)
NoLostClientWrite ==
    \A v \in Vars \ ProgramWritten :
        (acked[v] # NoWrite /\ ~ClientWriting(v)) =>
            /\ node[v] = acked[v]
            /\ image[v] = acked[v]

(***************************************************************************)
(* opcuaUpdateNodeValues() never reads a variable of the process image    *)
(* while onVariableValueWrite() on the OPC UA thread holds bufferLock to  *)
(* store into it (spec 4.G: the publisher copies under the scan lock).    *)
(***************************************************************************)
NoImageDataRace == ~raced

(* The mutexes a thread holds, and the one its next step waits for. *)
Holds(t) ==
    {l \in {"bridge", "service", "buffer"} :
        \/ l = "bridge" /\ bridgeLock = t
        \/ l = "service" /\ serviceLock = t
        \/ l = "buffer" /\ bufferLock = t}

WaitsFor(t) ==
    CASE pc[t] \in {"program", "cbLock"} -> {"buffer"}
      [] pc[t] = "lock" -> {"bridge"}
      [] pc[t] = "write" /\ ServiceMutex -> {"service"}
      [] OTHER -> {}

Rank == [bridge |-> 1, service |-> 2, buffer |-> 3]

(***************************************************************************)
(* Lock order: the three mutexes are taken in the order opcua_mutex,    *)
(* the stack's service mutex, bufferLock, and no thread waits for a mutex *)
(* while it holds one of the same or a later rank.  The publisher holds   *)
(* opcua_mutex across UA_Server_writeValue() (which spec 5 forbids for    *)
(* bridge_lock) and its onWrite takes bufferLock, so this order is what   *)
(* keeps the scan thread and the OPC UA thread from deadlocking.  It      *)
(* breaks if the scan engine calls the publisher under bufferLock (spec   *)
(* 5: never hold scan_lock while calling into the stack).                 *)
(***************************************************************************)
LockOrder ==
    \A t \in Threads : \A h \in Holds(t), w \in WaitsFor(t) : Rank[h] < Rank[w]


=============================================================================
