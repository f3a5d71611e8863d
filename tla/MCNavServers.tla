---------------------------- MODULE MCNavServers ----------------------------
(* TLC instance of NavServers. *)
EXTENDS NavServers

CONSTANTS g1, g2

\* follow_gps_waypoints does what follow_waypoints does when every pose is converted, and
\* backup takes the steps of drive_on_heading.
MCServers == AllServers \ {"follow_waypoints", "backup"}
\* The two goals ask for the same tree or for different ones.
MCTreesOf == {[g \in {g1, g2} |-> IF g = g1 THEN "t1" ELSE t] : t \in {"t1", "t2"}}
MCTrees == {"t1", "t2"}
=============================================================================
