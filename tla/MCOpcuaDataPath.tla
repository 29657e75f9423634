------------------------- MODULE MCOpcuaDataPath -------------------------
(* Model-checking instance of OpcuaDataPath: two bound variables, one    *)
(* written by the PLC program every scan (an output) and one that only   *)
(* clients write (a %M memory word), and three values.                   *)
EXTENDS OpcuaDataPath

CONSTANTS v1, v2, v3

MCNodeList == <<v1, v2>>
MCProgramWritten == {v1}
MCValues == 0 .. 2

(* No allocation failed, or the node v3 was added without its OpcNodeInfo. *)
MCNoUnregistered == {}
MCUnregistered == {v3}

(* g_node_list holds only the program output v1; v2 lost its OpcNodeInfo. *)
MCOutputOnly == <<v1>>
MCUnregisteredV2 == {v2}
=============================================================================
