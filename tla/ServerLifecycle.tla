-------------------------- MODULE ServerLifecycle --------------------------
(***************************************************************************)
(* What the OPC UA bridge promises about its server's lifecycle (spec     *)
(* 4.H): IDLE -> STARTING -> RUNNING -> STOPPING -> IDLE.  A start from    *)
(* IDLE may fail back to IDLE; a stop acts only on a RUNNING server.  A    *)
(* start in progress eventually ends, and so does a stop.                  *)
(***************************************************************************)
VARIABLE state

States == {"IDLE", "STARTING", "RUNNING", "STOPPING"}

TypeOK == state \in States

Init == state = "IDLE"

Start       == state = "IDLE"     /\ state' = "STARTING"
StartFailed == state = "STARTING" /\ state' = "IDLE"
Started     == state = "STARTING" /\ state' = "RUNNING"
Stop        == state = "RUNNING"  /\ state' = "STOPPING"
Stopped     == state = "STOPPING" /\ state' = "IDLE"

Next == Start \/ StartFailed \/ Started \/ Stop \/ Stopped

Spec ==
    /\ Init /\ [][Next]_state
    /\ WF_state(StartFailed \/ Started)
    /\ WF_state(Stopped)

=============================================================================
