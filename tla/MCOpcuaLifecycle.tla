-------------------------- MODULE MCOpcuaLifecycle --------------------------
EXTENDS OpcuaLifecycle

CONSTANTS s1, s2, s3

(* One start request: a single server lifetime, with stop racing it. *)
MCOneStart == {s1}

(* A start, and a restart after or during it. *)
MCTwoStarts == {s1, s2}

(* A start and two restarts. *)
MCThreeStarts == {s1, s2, s3}

(* The manifest resolves one or two records; a program reload between    *)
(* starts may change how many.                                            *)
MCNodeCounts == {1, 2}

=============================================================================
