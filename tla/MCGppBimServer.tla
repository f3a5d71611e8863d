---------------------------- MODULE MCGppBimServer ----------------------------
(* TLC instances of GppBimServer, a building with a ramp and another with a stair, and   *)
(* of the topomap server without it.                                                     *)
EXTENDS GppBimServer

MCFiles == {"a", "b"}
MCEdgesOf == [f \in MCFiles |-> IF f = "a" THEN {1, 3} ELSE {2}]
MCStairs == {2}
MCRamps == {3}

\* The server alone, with its own clean-up; the buildings share ids.
MCSharedEdges == [f \in MCFiles |-> IF f = "a" THEN {1, 2} ELSE {2, 3}]
ServerAlone == GppInit /\ [][Next /\ UNCHANGED gppVars]_vars

=============================================================================
