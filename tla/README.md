# TLA+ models of the OpenPLC OPC UA bridge

This directory holds TLA+ models of `src/webserver/core/opcua.cpp`, the OPC UA
server embedded in the OpenPLC v3 runtime (built on open62541), and the TLC
configurations that check them. The rest of `src/` is installers, start scripts
and documentation. `spec.md` is the natural-language design that several
properties are checked against.

## 1. The system

| Part | Code | What it does |
|---|---|---|
| Location parser / type resolver | `resolvePointerFromLocation` (724–891) | Maps `%<area><width><index>[.<bit>]` to a cell of the process image (`bool_input`, `int_memory`, ...) and an OPC UA scalar type. |
| Located-variable discovery | `createNodesFromLocatedVariables` (896–977) | Reads `LOCATED_VARIABLES.h`, decomposes each `__LOCATED_VAR(...)` record, composes a location, resolves it and adds a node with id 4000000+. |
| Address-space builder | `registerNamespace`, `createFolderStructure`, `createProgramVariablesFolder`, `addVariableNode` (376–720) | Creates the namespace, fixed folders and variable nodes. Each node gets a zero initial value, is prepended to `g_node_list` under `opcua_mutex`, and has `onVariableValueWrite` installed as its onWrite callback (no onRead). |
| Write callback | `onVariableValueWrite` (98–141) | Runs after the stack stored a value into a node. It copies the value into PLC memory under the runtime's `bufferLock`. |
| Scan-tick publisher | `opcuaUpdateNodeValues` (481–564) | Called by the scan engine after each cycle. It checks `g_opcua_server`/`g_opcua_running`, then for every binding reads `*variablePtr` **without** `bufferLock` and stores it with `UA_Server_writeValue`. |
| Lifecycle | `opcuaStartServer` (1021–1127), `stopOpcua` (997–1016) | Start runs on its own thread: guard, clean-up, new, configure, create nodes, `running=true`, startup, then the iterate loop until `running` is cleared, then delete. Stop clears `running`, sleeps 100 ms and force-deletes a server that is still set. |
| Dead code | `readVariableValue`, `writeVariableValue` (206–371) | Never installed; not modelled. |
| Scripts | `installer/*.bat`, `install_opcua.sh`, `unnamed/part_00*` | Sequential install/launch scripts; not modelled. |

How the parts interact:
- Three threads share the globals `g_opcua_server`, `g_opcua_running` and `g_node_list`, with no common lock:
  - the **scan thread** runs the PLC program under `bufferLock` and then calls the publisher;
  - the **OPC UA thread** runs `opcuaStartServer` and then serves clients inside `UA_Server_run_iterate`;
  - a **control thread** calls `stopOpcua`.
- Every store into a node value, whether from a client or from the publisher's own `UA_Server_writeValue`, makes the stack call `onVariableValueWrite`. That callback writes into PLC memory.

## 2. Modules

| Module | Models | State | Actions |
|---|---|---|---|
| `OpcuaDataPath` | Write callback, publisher loop, scan engine call site | `image` (PLC memory), `node` (node values), `bufferLock`, `serviceLock` (stack's service mutex), `bridgeLock` (`opcua_mutex`), per-thread `pc`, publish cursor `pubIdx`; history `acked`, `raced` | `ScanProgram`, `PubLock` (lock `opcua_mutex`, line 493), `PubRead`, `PubWrite`, `ScanSleep`, `ClientWrite`, `StackWrite` (store + enter callback), `OnWriteLock`, `OnWriteStore` |
| `LocatedVariables` | Resolver (as the operator `ResolvePointerFromLocation`) and the discovery loop | `manifest`, `next` line, counters `seen`, `added`, `nextId`, `bindings` (the entries of `g_node_list`), `nodes` (the ids in the address space) | `SkipNoMarker`, `SkipMalformed`, `SkipUnresolved`, `AddNode` (which applies `AddVariableNode` with one of the outcomes `AddResults`) |
| `ServerLifecycle` | Spec 4.H: the abstract lifecycle the server promises | `state` ∈ IDLE / STARTING / RUNNING / STOPPING | `Start`, `StartFailed`, `Started`, `Stop`, `Stopped`, with weak fairness on leaving STARTING and STOPPING |
| `OpcuaLifecycle` | `opcuaStartServer` step by step, `stopOpcua`, and the publisher's check/use of the server | `server` (NULL or the instance of a start thread), `running`, `freed` instances, `nodeList` (the bindings in `g_node_list`, each with its instance and node id), `nextId` (the static id counter, line 965), `spc` per start thread, `stopPc`, `pubPc`; history `badUse`, `badPub`, `stopAsked` (a stop was called since the last start) | one action per statement group of the code: `StartGuard`, `CleanCheck`/`CleanFree`/`CleanNull`, `NewServer`, `Configure`, `CreateNodes` (`AddNodes` with the next ids), `SetRunning`, `RunStartup`, `LoopCheck`, `Iterate`, `FreeServer`, `CfgNull`, `NullServer`, `StopCall`, `StopWait`, `StopForce*`, `PubCheck`, `PubUse` |

Each `MC*.tla` module gives the constants small values:
- `MCOpcuaDataPath`: two bound variables; `v1` is written by the program every scan and `v2` only by clients; values 0..2. In the passing run, a third node `v3` is `Unregistered`: its `OpcNodeInfo` malloc failed (line 444), so it has no callback and no `g_node_list` entry (`ClientWriteUnbound`).
- `MCLocatedVariables`: BUFFER_SIZE 2; index 0 of every directory and index 1 of the bit and word directories are allocated, and the cells one before and one past each directory and bit 8 of each row hold non-NULL pointers (the neighbouring memory a read outside the bounds would find), so only the range tests keep them out; manifests of up to 2 lines over records with 4–6 fields, areas I/M and an invalid one, widths X/B/W/R, indices −1..2 and bits 1 and 8. Every outcome of `addVariableNode()` may occur: `Good` (node added and registered), `NoInfo` (node added, `OpcNodeInfo` malloc failed at line 443, no binding), `Failed` (the stack refused the add, lines 467–473). The records run allows only `Good`, so its counterexample stays the field-count check.
- `MCOpcuaLifecycle`: two start requests, or three in the main run (a start and two restarts). Each start resolves one or two manifest records: a program reload between starts may change the count.

Abstractions:
- Values are small integers. A location is a record of area, width and indices. The snprintf/atoi round trip (`Location`) carries numeric fields unchanged, and `Atoi` turns the non-numeric field `NonNumeric` into 0.
- The folder nodes, logging and names are left out.
- The ordering between a store and its callback inside the stack (open62541, not in this repository) is a constant: `ServiceMutex` says whether the stack serialises a write with its onWrite. Every run sets it FALSE: `install_opcua.sh` builds open62541 with default options, and open62541 calls a value callback after the node store, outside its service mutex.
- Two facts about the caller are also constants:
  - `Serial`: the runtime issues one start or stop at a time and joins the previous OPC UA thread;
  - `Grace`: `stopOpcua`'s 100 ms pause outlasts the loop thread;
  - `StopWhileStarting`: whether the runtime may call `stopOpcua` while a start is still setting up (between the guard and the iterate loop).
- The code enforces none of `Grace`, `Serial` and `StopWhileStarting`. The violation runs show what happens without them.

## 3. Runs

| Run (cfg) | Expect | What it shows |
|---|---|---|
| `OpcuaDataPath.cfg` | pass | `LockOrder`: no thread waits for a mutex while holding one of the same or a later rank, in the order `opcua_mutex` < service mutex < `bufferLock`. The publisher holds `opcua_mutex` across `UA_Server_writeValue` (spec 5 forbids holding `bridge_lock` across a stack call), and onWrite takes `bufferLock`, so this order is what rules out a deadlock. `CoherentOnceClientsStop` (under `FairSpec`): once clients stop writing, every bound node equals PLC memory again and again; the split and stale writes below are repaired by the next publish cycles (≈2.1 M states, 45 s). |
| `DataPath_NoLostClientWrite.cfg` | violation | `NoLostClientWrite`: the stack stores a client's value into node `v2`; before the write's onWrite stores it into PLC memory, a publish reads the old PLC value and writes it into the node. The client then gets GOOD, PLC memory holds its value, and the node shows the old one (spec 4.F: image and shadow are updated under one lock acquisition). The same invariant also fails if a publish reads before a client write and writes after it completes (line 551). |
| `DataPath_NoImageDataRace.cfg` | violation | The publisher reads a variable while onWrite holds `bufferLock` storing into it. |
| `LocatedVariables.cfg` | pass | `BindingsMatchSpec`: every created node has the type the spec's Type Resolver gives its location, whatever `addVariableNode()` returns for each add (≈284 k states, all 1- and 2-line manifests). Cells outside the directories hold non-NULL pointers, so the range tests at lines 741 and 752–886 decide. |
| `LocatedVariables_SpecRecords.cfg` | violation | `%IB0`, a 5-field record, gets no node: `if (n < 6) continue;` (line 940). |
| `OpcuaLifecycle.cfg` | pass | With `Serial` and `Grace`, and no stop while a start is setting up, a start and two restarts with startup failures (≈10 k states): no step uses or deletes a dead server (`ServerHandleSafety`); after a stop clears the flag the server is eventually gone (`StopReachesIdle`); and the code implements `ServerLifecycle` (`AbstractSpec`, see below). |
| `Lifecycle_AnyCaller.cfg` | pass | `StopHonoured` with overlapping starts and no grace, only no stop while a start sets up (two starts, ≈77 k states): a stop is always honoured, even when the forced delete races the loop thread; unless a new start follows, every OPC UA thread ends and no server is left. This run fires every lifecycle action. |
| `Lifecycle_ForcedDelete.cfg` | violation | Without `Grace`, stop arrives after `running=true`; its forced delete frees the server before `UA_Server_run_startup` uses it. |
| `Lifecycle_OverlappingStart.cfg` | violation | Without `Serial`, two starts pass the guard, and the second deletes the server the first is configuring. |
| `Lifecycle_PublishCheck.cfg` | violation | Startup fails and deletes the server while `server`/`running` are still set. The publisher's check passes, and it writes through the freed server. |
| `Lifecycle_Restart.cfg` | violation | After a failed first start and a second start, `g_node_list` still holds the first instance's bindings. |
| `Lifecycle_StopIgnored.cfg` | violation | `StopHonoured`: a stop called while a start is before line 1092 finds `running` false and does nothing. The start then sets `running` and the server iterates forever. |

Each property of a passing run has a mutant in `PROJECT.json`: an operator beside the definition it replaces, modelling a plausible slip in that code. Each mutant makes TLC report the property violated:
- the publish loop stopping one node early, or running past the tail;
- the M area accepting the byte width, or the range test reading `index1 <= BUFFER_SIZE`;
- the forced cleanup without its NULL test;
- the loop not re-reading `running`;
- the scan engine calling the publisher before unlocking `bufferLock`;

The loop mutant breaks `StopReachesIdle`, `StopHonoured` and `AbstractSpec`: the server never leaves STOPPING. The early-stopping loop mutant breaks `CoherentOnceClientsStop`, the past-the-tail one `TypeOK`.

### Refinement

`OpcuaLifecycle` defines `LifeState`, the abstract state seen through the code's variables:
- IDLE when no start thread is between its guard and its end;
- otherwise it is read from that thread's control point and `running`:
  - in the iterate loop: RUNNING while `running` is set, else STOPPING;
  - in `UA_Server_run_startup` or its failure clean-up: STARTING while `running` is set, else STOPPING;
  - anywhere earlier: STARTING.

`Abstract == INSTANCE ServerLifecycle WITH state <- LifeState`, and the run checks `Abstract!Spec` as a property, fairness included.

With `StopWhileStarting = TRUE`, the refinement fails. A stop between line 1092 and the end of startup takes the server from STARTING to STOPPING, and spec 4.H defines stop only from RUNNING (spec 8.4 requires the history to be a prefix of `(IDLE STARTING RUNNING STOPPING)*`). The passing run therefore assumes the runtime never stops a server that is still starting. `Lifecycle_StopIgnored` shows the other side: before line 1092 such a stop is lost.

## 4. Fairness

`OpcuaDataPath`'s `FairSpec` makes the scan thread's steps and the OPC UA thread's callback steps weakly fair: the scan loop runs every cycle, and a callback that holds `bufferLock` returns. Client writes are not fair; `CoherentOnceClientsStop` assumes only that they eventually stop. `OpcuaLifecycle` states `StopReachesIdle`, `StopHonoured`, and the fairness inside `AbstractSpec`. `ServerLifecycle` asks for weak fairness on leaving STARTING and STOPPING: a start thread ends its setup and its loop exit without outside help. Each start thread, the stop path once entered, and the publisher are weakly fair: they are ordinary threads that the OS keeps scheduling, and none of their steps blocks forever. Issuing a start or a stop is the runtime's choice, so neither is assumed to happen.

## 5. Bounds

- Two variables are enough for the data path. One variable is written by the program and one only by clients, so a lost client write is distinguishable from a program overwrite. The list order matters for the cursor mutants.
- Two start requests cover a restart and an overlapping start. Three in the main run cover a restart after a restart and the refinement over two full cycles. The any-caller run keeps two starts: with three, the unconstrained interleavings do not finish in 15 minutes.
- Manifests of 2 lines cover every branch of the loop and the `nextId` numbering.
- The resolver's ranges are exercised at −1, 0, BUFFER_SIZE−1 and BUFFER_SIZE, and at bit 1 and bit 8, with non-NULL pointers in every out-of-range cell, so an off-by-one in a range test binds a node.

## 6. Not modelled, and further work

Not modelled:
- The dead read/write callbacks, logging, and the folder nodes' contents.
- The uninitialised `debug_msg` logged at line 506: it changes no modelled state.
- `g_namespace_index` (reset at line 1045, set by `registerNamespace`). Every instance registers the same namespace and gets the same index. Only overlapping starts, which already break `ServerHandleSafety`, could interleave on it.
- Node creation taking `opcua_mutex` (line 448) while the publisher holds it. Node creation runs while `running` is false, so the publisher has already returned at line 485.

Modelled, but not checked by a kept run:
- `added` counts every record handed to `addVariableNode()`, failed adds included (line 968), so the "%d added" log and the "No located variables found" branch (line 970) overstate what exists after failures; only logging reads it.
- Non-numeric index fields (`NonNumeric`, the records `MCLinesNonNumeric`). `atoi` maps them to 0, so `BindingsMatchSpec` fails: the record binds to index 0, where spec 4.B rejects it.
- Allocation failure of `OpcNodeInfo` (`Unregistered` in `OpcuaDataPath`, the `NoInfo` outcome in `LocatedVariables`). With `Unregistered <- MCUnregisteredV2` and `NodeList <- MCOutputOnly`, `NoLostClientWrite` fails at once: the client's GOOD write never reaches PLC memory.
- `ServiceMutex = TRUE` (a stack that holds one mutex across a store and its onWrite, which the repository's build does not give).

Further work:
1. Composing the data path with the lifecycle, so the publisher's check and the value path run against the same server.
2. Fairness of `bufferLock` against client traffic: the scan thread's onWrite and a client's onWrite contend for it, and pthread mutexes are not fair, so the scan cycle's progress under endless client writes is not stated.
