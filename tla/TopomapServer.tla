---------------------------- MODULE TopomapServer -----------------------------
(***************************************************************************)
(* The TopomapServer node: the topological map in memory, the JSON files   *)
(* on disk, and the lifecycle callbacks and services that move data        *)
(* between them.  Every callback runs under graph_mutex_ or on the node's  *)
(* only executor thread, so each is one step.                              *)
(*                                                                         *)
(* A map is a record: the building it describes and, for each transition   *)
(* edge, the planned cost (-1 is "unplanned") and the stored path (none, a *)
(* single pose, or longer).  File f is the one generated for building f.   *)
(***************************************************************************)
EXTENDS Integers, FiniteSets

CONSTANTS
  Files,           \* map files; a building is named by its file
  EdgesOf,         \* the transition edges of each building, by node ids
  Stairs, Ramps,   \* edges of subtype stair and of subtype ramp
  TopomapFile,     \* parameter topomap_file
  SaveAtShutdown,  \* parameter save_at_shutdown
  MaxFaults,       \* bound on failing writes and on crashes
  NoFile, Empty, Unreadable

EdgeIds == UNION {EdgesOf[f] : f \in Files}
Unplanned == [cost |-> "unplanned", path |-> "none"]
Plans == [cost : {"unplanned", "zero", "positive"}, path : {"none", "point", "path"}]
Maps == UNION {[building : {f}, plan : [EdgesOf[f] -> Plans]] : f \in Files}
\* What a JSON link can hold: a cost of 0 is not written.
JsonPlans == [cost : {"unplanned", "absent", "positive"}, path : {"none", "point", "path"}]
JsonMaps == UNION {[building : {f}, plan : [EdgesOf[f] -> JsonPlans]] : f \in Files}

ASSUME ServerAssumption ==
  /\ EdgesOf \in [Files -> SUBSET EdgeIds]
  /\ TopomapFile \in Files \cup {NoFile} /\ NoFile \notin Files
  /\ SaveAtShutdown \in BOOLEAN /\ MaxFaults \in Nat
  /\ Empty \notin Maps \cup JsonMaps /\ Unreadable \notin JsonMaps /\ Empty # Unreadable

VARIABLES
  lifecycle,     \* lifecycle state of the node
  declared,      \* the parameters have been declared in this process
  graph,         \* graph_
  topomap_file,  \* topomap_file_
  disk,          \* contents of the files
  faults         \* bounded counter

serverVars == <<lifecycle, declared, graph, topomap_file, disk, faults>>

-----------------------------------------------------------------------------
(* TopologicalMapLoader *)

toJson(m) ==
  IF m = Empty THEN Empty
  ELSE [m EXCEPT !.plan = [e \in DOMAIN m.plan |->
          [m.plan[e] EXCEPT !.cost = IF @ = "zero" THEN "absent" ELSE @]]]

\* A missing planned_cost keeps the default of EdgeProperties.
loadFromJson(j) ==
  IF j = Empty THEN Empty
  ELSE [j EXCEPT !.plan = [e \in DOMAIN j.plan |->
          [j.plan[e] EXCEPT !.cost = IF @ = "absent" THEN "unplanned" ELSE @]]]

\* saveToFile: the file is truncated before it is written, so a failure while
\* writing leaves it unreadable; a file that cannot be opened keeps its contents.
saveToFile(f, ok) ==
  \/ /\ ok = TRUE
     /\ disk' = [disk EXCEPT ![f] = toJson(graph)]
     /\ UNCHANGED faults
  \/ /\ ok = FALSE /\ faults < MaxFaults
     /\ faults' = faults + 1
     /\ disk' \in {disk, [disk EXCEPT ![f] = Unreadable]}

SaveIfEnabled ==
  IF SaveAtShutdown /\ topomap_file # NoFile
  THEN \E ok \in BOOLEAN : saveToFile(topomap_file, ok)
  ELSE UNCHANGED <<disk, faults>>

\* loadFromFile builds a new graph first and replaces graph_ only on success.
loadFromFile(f) ==
  IF disk[f] = Unreadable
  THEN UNCHANGED graph
  ELSE graph' = loadFromJson(disk[f])

-----------------------------------------------------------------------------
(* Lifecycle *)

\* declare_parameter throws when the parameter exists, and on_configure fails.
on_configure ==
  /\ lifecycle = "unconfigured"
  /\ IF declared
     THEN UNCHANGED <<lifecycle, declared, graph, topomap_file>>
     ELSE /\ declared' = TRUE
          /\ lifecycle' = "inactive"
          /\ topomap_file' = TopomapFile
          /\ IF TopomapFile # NoFile THEN loadFromFile(TopomapFile) ELSE UNCHANGED graph
  /\ UNCHANGED <<disk, faults>>

on_activate ==
  /\ lifecycle = "inactive"
  /\ lifecycle' = "active"
  /\ UNCHANGED <<declared, graph, topomap_file, disk, faults>>

on_deactivate ==
  /\ lifecycle = "active"
  /\ lifecycle' = "inactive"
  /\ UNCHANGED <<declared, graph, topomap_file, disk, faults>>

on_cleanup ==
  /\ lifecycle = "inactive"
  /\ SaveIfEnabled
  /\ graph' = Empty
  /\ lifecycle' = "unconfigured"
  /\ UNCHANGED <<declared, topomap_file>>

on_shutdown ==
  /\ lifecycle \in {"unconfigured", "inactive", "active"}
  /\ SaveIfEnabled
  /\ lifecycle' = "finalized"
  /\ UNCHANGED <<declared, graph, topomap_file>>

\* The process dies or has ended, and is started again.
Restart ==
  /\ IF lifecycle = "finalized" THEN UNCHANGED faults
     ELSE faults < MaxFaults /\ faults' = faults + 1
  /\ lifecycle' = "unconfigured"
  /\ declared' = FALSE
  /\ graph' = Empty
  /\ topomap_file' = NoFile
  /\ UNCHANGED disk

-----------------------------------------------------------------------------
(* Services: they exist from on_configure to on_cleanup *)

Serving == lifecycle \in {"inactive", "active"}

\* Mistake: the file name is taken over before the load.
loadTopomapEarly(f) ==
  /\ Serving
  /\ loadFromFile(f)
  /\ topomap_file' = f
  /\ UNCHANGED <<lifecycle, declared, disk, faults>>

loadTopomap(f) ==
  /\ Serving
  /\ loadFromFile(f)
  /\ topomap_file' = IF disk[f] = Unreadable THEN topomap_file ELSE f
  /\ UNCHANGED <<lifecycle, declared, disk, faults>>

\* An update for an edge the graph does not have is refused.
Accepted(e) == graph # Empty /\ e \in DOMAIN graph.plan

\* Mistake: only the path is stored.
WithPathOnly(e, p) == [graph EXCEPT !.plan[e].path = p.path]

\* The effect of updateEdgeData on graph_; defer_save is not looked at.
WithPlan(e, p) == [graph EXCEPT !.plan[e] = p]

updateEdgeData(e, p) ==
  /\ Serving
  /\ graph' = IF Accepted(e) THEN WithPlan(e, p) ELSE graph
  /\ UNCHANGED <<lifecycle, declared, topomap_file, disk, faults>>

saveTopologicalMap(ok) ==
  /\ Serving
  /\ IF topomap_file = NoFile
     THEN ok = FALSE /\ UNCHANGED <<disk, faults>>
     ELSE saveToFile(topomap_file, ok)
  /\ UNCHANGED <<lifecycle, declared, graph, topomap_file>>

\* Stair edges keep their path; every other transition edge loses it.
clearTopologicalMapPaths ==
  /\ Serving
  /\ graph' = IF graph = Empty THEN Empty
              ELSE [graph EXCEPT !.plan = [e \in DOMAIN graph.plan |->
                      IF e \in Stairs THEN graph.plan[e] ELSE Unplanned]]
  /\ UNCHANGED <<lifecycle, declared, topomap_file, disk, faults>>

-----------------------------------------------------------------------------
\* What the room planner can return: a path with a cost, or a single pose at no
\* cost.
PlannerResults == {[cost |-> "positive", path |-> "path"], [cost |-> "zero", path |-> "point"]}

\* The generator writes a path on stair and ramp edges only.
GeneratedPlan(e) ==
  IF e \in Stairs \cup Ramps THEN [cost |-> "positive", path |-> "path"] ELSE Unplanned

Generated(f) == [building |-> f, plan |-> [e \in EdgesOf[f] |-> GeneratedPlan(e)]]

Init ==
  /\ lifecycle = "unconfigured"
  /\ declared = FALSE
  /\ graph = Empty
  /\ topomap_file = NoFile
  /\ \E readable \in SUBSET Files :
       disk = [f \in Files |-> IF f \in readable THEN Generated(f) ELSE Unreadable]
  /\ faults = 0

LifecycleNext ==
  on_configure \/ on_activate \/ on_deactivate \/ on_cleanup \/ on_shutdown \/ Restart

ServiceNext ==
  \/ \E f \in Files : loadTopomap(f)
  \/ \E e \in EdgeIds, p \in PlannerResults : updateEdgeData(e, p)
  \/ \E ok \in BOOLEAN : saveTopologicalMap(ok)
  \/ clearTopologicalMapPaths

Next == LifecycleNext \/ ServiceNext

Spec == Init /\ [][Next]_serverVars

-----------------------------------------------------------------------------
(* Properties *)

\* Type correctness; a JSON link without planned_cost never leaves one in memory.
TypeOK ==
  /\ lifecycle \in {"unconfigured", "inactive", "active", "finalized"}
  /\ declared \in BOOLEAN
  /\ graph \in Maps \cup {Empty}
  /\ topomap_file \in Files \cup {NoFile}
  /\ disk \in [Files -> JsonMaps \cup {Empty, Unreadable}]
  /\ faults \in 0..MaxFaults

\* A file only ever holds the map of its own building: whichever loads succeed or
\* fail and whenever the map is saved, no map is written over another building's.
FilesNotMixed ==
  \A f \in Files : disk[f] \in JsonMaps => disk[f].building = f

\* The map in memory is the one of the file it would be saved to.
GraphMatchesFile == graph # Empty => topomap_file # NoFile /\ graph.building = topomap_file

\* A path the planner may reuse (two poses or more) has a cost, in memory and after
\* any number of saves and loads: only then is its stored cost a cost and not the
\* "not planned" mark -1.
ReusableHasCost ==
  /\ graph # Empty => \A e \in DOMAIN graph.plan :
       graph.plan[e].path = "path" => graph.plan[e].cost # "unplanned"
  /\ \A f \in Files : disk[f] \in JsonMaps => \A e \in DOMAIN disk[f].plan :
       disk[f].plan[e].path = "path" => disk[f].plan[e].cost = "positive"

\* The map survives: with no failing write, a file that holds a map holds one for
\* ever ("Whether to write the map back to disk on shutdown").
MapSurvives ==
  [][\A f \in Files : disk[f] \in JsonMaps /\ faults' = faults => disk'[f] \in JsonMaps]_serverVars

=============================================================================
