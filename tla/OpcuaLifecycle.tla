--------------------------- MODULE OpcuaLifecycle ---------------------------
(***************************************************************************)
(* Lifecycle of the OPC UA server instance (webserver/core/opcua.cpp):    *)
(* opcuaStartServer() on a thread of its own (it runs the iterate loop    *)
(* until g_opcua_running is cleared and then deletes the server),         *)
(* stopOpcua() from the runtime's control thread, and the guard of        *)
(* opcuaUpdateNodeValues() on the scan thread.  The globals               *)
(* g_opcua_server, g_opcua_running and g_node_list are shared without a   *)
(* lock.  Each start that gets as far as UA_Server_new() creates one     *)
(* instance, named after its start thread.                               *)
(*                                                                         *)
(* Grace says whether the 100 ms pause of stopOpcua() outlasts the start  *)
(* thread: with Grace the forced cleanup runs only after that thread has  *)
(* returned.  Nothing in the code enforces it: the loop thread can need   *)
(* one blocking iterate (up to 50 ms) plus its 50 ms sleep.               *)
(***************************************************************************)
EXTENDS Naturals, FiniteSets

CONSTANTS
    Starts,      \* start requests, one thread each
    Grace,       \* does stopOpcua()'s pause outlast the start thread?
    Serial,      \* does the runtime issue one command at a time?
    StopWhileStarting, \* may a stop arrive before the loop is entered?
    NodeCounts,  \* how many manifest records resolve, per start
    NULL

ASSUME /\ NULL \notin Starts
       /\ NodeCounts \subseteq Nat
       /\ Grace \in BOOLEAN /\ Serial \in BOOLEAN /\ StopWhileStarting \in BOOLEAN

VARIABLES
    server,      \* g_opcua_server
    running,     \* g_opcua_running
    freed,       \* instances UA_Server_delete() has been called on
    nodeList,    \* g_node_list: [inst, id] of each binding
    nextId,      \* static nextId, counted from 4000000
    spc,         \* control point of each start thread
    stopPc,      \* control point of stopOpcua()
    pubPc,       \* control point of opcuaUpdateNodeValues()
    badUse,      \* history: a start/loop/stop step used a dead handle
    badPub,      \* history: the publisher used a dead handle
    stopAsked    \* history: stopOpcua() called since the last start

vars == <<server, running, freed, nodeList, nextId, spc, stopPc, pubPc, badUse, badPub,
          stopAsked>>

StartPcs == {"init", "guard", "cleanCheck", "cleanFree", "cleanNull", "new",
             "config", "nodes", "setRunning", "startup", "loopCheck",
             "iterate", "cfgFree", "cfgNull", "freeServer", "nullServer",
             "done"}

(* From the start guard up to the first test of the loop condition. *)
SetupPcs == StartPcs \ {"init", "loopCheck", "iterate", "done"}

TypeOK ==
    /\ server \in Starts \cup {NULL}
    /\ running \in BOOLEAN
    /\ freed \subseteq Starts
    /\ nodeList \subseteq [inst : Starts, id : Nat]
    /\ nextId \in Nat
    /\ spc \in [Starts -> StartPcs]
    /\ stopPc \in {"idle", "wait", "forceCheck", "forceFree", "forceNull"}
    /\ pubPc \in {"idle", "use"}
    /\ badUse \in BOOLEAN /\ badPub \in BOOLEAN /\ stopAsked \in BOOLEAN

Init ==
    /\ server = NULL
    /\ running = FALSE
    /\ freed = {}
    /\ nodeList = {}
    /\ nextId = 0
    /\ spc = [s \in Starts |-> "init"]
    /\ stopPc = "idle"
    /\ pubPc = "idle"
    /\ badUse = FALSE /\ badPub = FALSE
    /\ stopAsked = FALSE

(* The handle in g_opcua_server is a live instance. *)
Live == server \in Starts \ freed

Go(s, l) == spc' = [spc EXCEPT ![s] = l]

(* A lifecycle step passes g_opcua_server to the stack. *)
UseServer == badUse' = (badUse \/ ~Live)

(* UA_Server_delete(g_opcua_server): NULL or an already deleted instance *)
(* is a fault.                                                           *)
DeleteServer ==
    /\ badUse' = (badUse \/ ~Live)
    /\ freed' = IF Live THEN freed \cup {server} ELSE freed

(***************************************************************************)
(* The runtime starts an OPC UA thread running opcuaStartServer().  With  *)
(* Serial it does so only after stopOpcua() has returned and the previous *)
(* OPC UA thread has ended (the caller joins it).                          *)
(***************************************************************************)
Issue(s) ==
    /\ spc[s] = "init"
    /\ Serial => /\ stopPc = "idle"
                 /\ \A o \in Starts \ {s} : spc[o] \in {"init", "done"}
    /\ Go(s, "guard")
    /\ stopAsked' = FALSE
    /\ UNCHANGED <<server, running, freed, nodeList, nextId, stopPc, pubPc, badUse, badPub>>

(* Prevent double-start: ignored while g_opcua_running is set. *)
StartGuard(s) ==
    /\ spc[s] = "guard"
    /\ Go(s, IF running THEN "done" ELSE "cleanCheck")
    /\ UNCHANGED <<server, running, freed, nodeList, nextId, stopPc, pubPc, badUse, badPub, stopAsked>>

(* Clean up any existing server instance first. *)
CleanCheck(s) ==
    /\ spc[s] = "cleanCheck"
    /\ Go(s, IF server # NULL THEN "cleanFree" ELSE "new")
    /\ UNCHANGED <<server, running, freed, nodeList, nextId, stopPc, pubPc, badUse, badPub, stopAsked>>

CleanFree(s) ==
    /\ spc[s] = "cleanFree"
    /\ DeleteServer
    /\ Go(s, "cleanNull")
    /\ UNCHANGED <<server, running, nodeList, nextId, stopPc, pubPc, badPub, stopAsked>>

(* g_opcua_server = NULL *)
CleanNull(s) ==
    /\ spc[s] = "cleanNull"
    /\ server' = NULL
    /\ Go(s, "new")
    /\ UNCHANGED <<running, freed, nodeList, nextId, stopPc, pubPc, badUse, badPub, stopAsked>>

(* Reset state (running = false) and UA_Server_new(), which may fail. *)
NewServer(s) ==
    /\ spc[s] = "new"
    /\ running' = FALSE
    /\ \/ server' = s /\ Go(s, "config")
       \/ server' = NULL /\ Go(s, "done")
    /\ UNCHANGED <<freed, nodeList, nextId, stopPc, pubPc, badUse, badPub, stopAsked>>

(* getConfig + setMinimal; on failure the server is deleted. *)
Configure(s) ==
    /\ spc[s] = "config"
    /\ UseServer
    /\ \/ Go(s, "nodes")
       \/ Go(s, "cfgFree")
    /\ UNCHANGED <<server, running, freed, nodeList, nextId, stopPc, pubPc, badPub, stopAsked>>

(***************************************************************************)
(* registerNamespace(), createFolderStructure() and the discovery loop.   *)
(* Each of the n records that resolves takes the next id of the static    *)
(* counter nextId, and its binding is prepended to g_node_list (which is  *)
(* never emptied); the node ids are those of the current instance.        *)
(***************************************************************************)
AddNodes(s, first) ==
    /\ spc[s] = "nodes"
    /\ UseServer
    /\ \E n \in NodeCounts :
          /\ nodeList' = nodeList \cup
                 (IF server = NULL THEN {}
                  ELSE {[inst |-> server, id |-> first + i] : i \in 0 .. n - 1})
          /\ nextId' = first + n
    /\ Go(s, "setRunning")
    /\ UNCHANGED <<server, running, freed, stopPc, pubPc, badPub, stopAsked>>

CreateNodes(s) ==
    AddNodes(s, nextId)

SetRunning(s) ==
    /\ spc[s] = "setRunning"
    /\ running' = TRUE
    /\ Go(s, "startup")
    /\ UNCHANGED <<server, freed, nodeList, nextId, stopPc, pubPc, badUse, badPub, stopAsked>>

(* UA_Server_run_startup(); on failure delete, NULL, running = false. *)
RunStartup(s) ==
    /\ spc[s] = "startup"
    /\ UseServer
    /\ \/ Go(s, "loopCheck")
       \/ Go(s, "freeServer")
    /\ UNCHANGED <<server, running, freed, nodeList, nextId, stopPc, pubPc, badPub, stopAsked>>

(* Mutant: the loop condition is not re-read (while (true)). *)
LoopCheckForever(s) ==
    /\ spc[s] = "loopCheck"
    /\ Go(s, "iterate")
    /\ UNCHANGED <<server, running, freed, nodeList, nextId, stopPc, pubPc, badUse, badPub, stopAsked>>

(* while (g_opcua_running) ... *)
LoopCheck(s) ==
    /\ spc[s] = "loopCheck"
    /\ Go(s, IF running THEN "iterate" ELSE "freeServer")
    /\ UNCHANGED <<server, running, freed, nodeList, nextId, stopPc, pubPc, badUse, badPub, stopAsked>>

(* UA_Server_run_iterate(g_opcua_server, true); usleep(50000) *)
Iterate(s) ==
    /\ spc[s] = "iterate"
    /\ UseServer
    /\ Go(s, "loopCheck")
    /\ UNCHANGED <<server, running, freed, nodeList, nextId, stopPc, pubPc, badPub, stopAsked>>

(* UA_Server_delete(g_opcua_server) on a failure path or after the loop *)
FreeServer(s) ==
    /\ spc[s] \in {"cfgFree", "freeServer"}
    /\ DeleteServer
    /\ Go(s, IF spc[s] = "cfgFree" THEN "cfgNull" ELSE "nullServer")
    /\ UNCHANGED <<server, running, nodeList, nextId, stopPc, pubPc, badPub, stopAsked>>

(* g_opcua_server = NULL after a failed configuration; return. *)
CfgNull(s) ==
    /\ spc[s] = "cfgNull"
    /\ server' = NULL
    /\ Go(s, "done")
    /\ UNCHANGED <<running, freed, nodeList, nextId, stopPc, pubPc, badUse, badPub, stopAsked>>

(* g_opcua_server = NULL; g_opcua_running = false after a failed         *)
(* startup or after the loop.                                            *)
NullServer(s) ==
    /\ spc[s] = "nullServer"
    /\ server' = NULL
    /\ running' = FALSE
    /\ Go(s, "done")
    /\ UNCHANGED <<freed, nodeList, nextId, stopPc, pubPc, badUse, badPub, stopAsked>>

(***************************************************************************)
(* stopOpcua(): if running, clear the flag and pause 100 ms; otherwise    *)
(* return at once.  Without StopWhileStarting the runtime calls it only    *)
(* when no start thread is setting up.                                     *)
(***************************************************************************)
StopCall ==
    /\ stopPc = "idle"
    /\ ~StopWhileStarting => \A s \in Starts : spc[s] \notin SetupPcs
    /\ stopAsked' = TRUE
    /\ IF running
         THEN running' = FALSE /\ stopPc' = "wait"
         ELSE UNCHANGED <<running, stopPc>>
    /\ UNCHANGED <<server, freed, nodeList, nextId, spc, pubPc, badUse, badPub>>

StopWait ==
    /\ stopPc = "wait"
    /\ Grace => \A s \in Starts : spc[s] \in {"init", "done"}
    /\ stopPc' = "forceCheck"
    /\ UNCHANGED <<server, running, freed, nodeList, nextId, spc, pubPc, badUse, badPub, stopAsked>>

(* Mutant: the forced cleanup without its NULL check. *)
StopForceAlways ==
    /\ stopPc = "forceCheck"
    /\ stopPc' = "forceFree"
    /\ UNCHANGED <<server, running, freed, nodeList, nextId, spc, pubPc, badUse, badPub, stopAsked>>

(* Force cleanup if the server still exists. *)
StopForceCheck ==
    /\ stopPc = "forceCheck"
    /\ stopPc' = IF server # NULL THEN "forceFree" ELSE "idle"
    /\ UNCHANGED <<server, running, freed, nodeList, nextId, spc, pubPc, badUse, badPub, stopAsked>>

StopForceFree ==
    /\ stopPc = "forceFree"
    /\ DeleteServer
    /\ stopPc' = "forceNull"
    /\ UNCHANGED <<server, running, nodeList, nextId, spc, pubPc, badPub, stopAsked>>

StopForceNull ==
    /\ stopPc = "forceNull"
    /\ server' = NULL
    /\ stopPc' = "idle"
    /\ UNCHANGED <<running, freed, nodeList, nextId, spc, pubPc, badUse, badPub, stopAsked>>

(* opcuaUpdateNodeValues(): returns unless server and running are set ... *)
PubCheck ==
    /\ pubPc = "idle"
    /\ server # NULL /\ running
    /\ pubPc' = "use"
    /\ UNCHANGED <<server, running, freed, nodeList, nextId, spc, stopPc, badUse, badPub, stopAsked>>

(* ... then writes every node of g_node_list through g_opcua_server. *)
PubUse ==
    /\ pubPc = "use"
    /\ badPub' = (badPub \/ ~Live)
    /\ pubPc' = "idle"
    /\ UNCHANGED <<server, running, freed, nodeList, nextId, spc, stopPc, badUse, stopAsked>>

StartStep(s) ==
    \/ Issue(s) \/ StartGuard(s) \/ CleanCheck(s) \/ CleanFree(s)
    \/ CleanNull(s) \/ NewServer(s) \/ Configure(s) \/ CreateNodes(s)
    \/ SetRunning(s) \/ RunStartup(s) \/ LoopCheck(s) \/ Iterate(s)
    \/ FreeServer(s) \/ CfgNull(s) \/ NullServer(s)

StopStep ==
    StopCall \/ StopWait \/ StopForceCheck \/ StopForceFree \/ StopForceNull

PubStep == PubCheck \/ PubUse

Next == (\E s \in Starts : StartStep(s)) \/ StopStep \/ PubStep

(* The OS schedules every thread; issuing a start or a stop is up to the *)
(* runtime and is not assumed to happen.                                 *)
Fairness ==
    /\ \A s \in Starts : WF_vars(StartStep(s) /\ spc[s] # "init")
    /\ WF_vars(StopStep /\ stopPc # "idle")
    /\ WF_vars(PubStep)

Spec == Init /\ [][Next]_vars /\ Fairness

-----------------------------------------------------------------------------
(***************************************************************************)
(* Properties                                                              *)
(***************************************************************************)

(***************************************************************************)
(* The start, iterate-loop and stop paths never hand the stack a deleted  *)
(* or NULL server and never delete an instance twice.                     *)
(***************************************************************************)
ServerHandleSafety == ~badUse

(***************************************************************************)
(* opcuaUpdateNodeValues() only writes node values through a live server. *)
(***************************************************************************)
PublishUsesLiveServer == ~badPub

(***************************************************************************)
(* While the server runs, g_node_list holds only nodes of the running     *)
(* instance (spec 8, scenario 6: no orphaned bindings after a restart).   *)
(***************************************************************************)
NoOrphanBindings ==
    running /\ server # NULL => \A b \in nodeList : b.inst = server

(***************************************************************************)
(* Once stopOpcua() has cleared g_opcua_running, the loop thread exits    *)
(* and the server is deleted: eventually no start thread is active and   *)
(* g_opcua_server is NULL.                                                *)
(***************************************************************************)
Quiet == server = NULL /\ \A s \in Starts : spc[s] \in {"init", "done"}

StopReachesIdle == (stopPc = "wait") ~> Quiet

(***************************************************************************)
(* A call of stopOpcua() is honoured: unless a new start is issued after  *)
(* it, eventually no OPC UA thread runs and no server exists.  Breaks if  *)
(* the call finds g_opcua_running still false while a start is setting up *)
(* and returns without effect.                                            *)
(***************************************************************************)
StopHonoured == stopAsked ~> (Quiet \/ ~stopAsked)

-----------------------------------------------------------------------------
(***************************************************************************)
(* Refinement of the lifecycle of spec 4.H (module ServerLifecycle).  The *)
(* state is read off the active start thread and g_opcua_running: before  *)
(* the loop it is STARTING (a failed startup still holds running until it *)
(* returns), in the loop RUNNING, and once running is cleared under a      *)
(* thread past its setting, STOPPING.  With no active thread it is IDLE.  *)
(***************************************************************************)
Active == {s \in Starts : spc[s] \notin {"init", "done"}}

LifeState ==
    IF Active = {} THEN "IDLE"
    ELSE LET pc == spc[CHOOSE s \in Active : TRUE] IN
         CASE pc \in {"loopCheck", "iterate"} ->
                  IF running THEN "RUNNING" ELSE "STOPPING"
           [] pc \in {"startup", "freeServer", "nullServer"} ->
                  IF running THEN "STARTING" ELSE "STOPPING"
           [] OTHER -> "STARTING"

Abstract == INSTANCE ServerLifecycle WITH state <- LifeState

(***************************************************************************)
(* opcuaStartServer()/stopOpcua() implement the spec's state machine: the *)
(* states follow IDLE STARTING RUNNING STOPPING (with startup failures    *)
(* back to IDLE), and a start or stop in progress completes.              *)
(***************************************************************************)
AbstractSpec == Abstract!Spec

=============================================================================
