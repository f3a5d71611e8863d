------------------------- MODULE GppBimServerProofs --------------------------
(***************************************************************************)
(* Proofs about the topomap server, and about the GPP-BIM node and the     *)
(* topomap server together, for any buildings, edges and settings.         *)
(*                                                                         *)
(* That no file gets the map of another building is not inductive: it      *)
(* needs that the map in memory belongs to the file it would be saved to,  *)
(* which in turn needs that a node without a file has no map.              *)
(*                                                                         *)
(* As long as nobody else changes the server's map, the node's copy and    *)
(* the edges its pre-plan thread has still to plan are edges of that map:  *)
(* only then is an update never refused, which is what a reported success  *)
(* and a stored path rest on.                                              *)
(***************************************************************************)
EXTENDS GppBimServer, TLAPS

-----------------------------------------------------------------------------
(* The topomap server *)

\* A path of two poses or more has a positive cost in plan pl.
Priced(pl) == \A e \in DOMAIN pl : pl[e].path = "path" => pl[e].cost = "positive"

AllPriced ==
  /\ graph # Empty => Priced(graph.plan)
  /\ \A f \in Files : disk[f] \in JsonMaps => Priced(disk[f].plan)

\* A node that has not been configured, or has been cleaned up, has no map.
NoMapYet == lifecycle = "unconfigured" => graph = Empty

IInv == TypeOK /\ FilesNotMixed /\ GraphMatchesFile /\ NoMapYet /\ AllPriced

\* A map is a record of the building's name and a plan for each of its edges.
LEMMA MapFields ==
  ASSUME NEW m \in Maps
  PROVE  /\ m.building \in Files
         /\ m.plan \in [EdgesOf[m.building] -> Plans]
         /\ m = [building |-> m.building, plan |-> m.plan]
         /\ m # Empty
BY ServerAssumption DEF Maps

\* The same for what a JSON file holds.
LEMMA JsonMapFields ==
  ASSUME NEW j \in JsonMaps
  PROVE  /\ j.building \in Files
         /\ j.plan \in [EdgesOf[j.building] -> JsonPlans]
         /\ j = [building |-> j.building, plan |-> j.plan]
         /\ j # Empty /\ j # Unreadable
BY ServerAssumption DEF JsonMaps

\* A record with a new plan for the same edges is a map of the same building.
LEMMA NewPlan ==
  ASSUME NEW m \in Maps, NEW pl \in [EdgesOf[m.building] -> Plans]
  PROVE  [m EXCEPT !.plan = pl] \in Maps /\ [m EXCEPT !.plan = pl].building = m.building
         /\ [m EXCEPT !.plan = pl].plan = pl
<1>1. [m EXCEPT !.plan = pl] = [building |-> m.building, plan |-> pl]
  BY MapFields
<1>2. m.building \in Files BY MapFields
<1> QED BY <1>1, <1>2 DEF Maps

\* Writing a map keeps its building and, where there is a path, its cost.
LEMMA ToJsonType ==
  ASSUME NEW m \in Maps, Priced(m.plan)
  PROVE  /\ toJson(m) \in JsonMaps /\ toJson(m).building = m.building
         /\ Priced(toJson(m).plan)
<1> DEFINE pl == [e \in DOMAIN m.plan |->
                    [m.plan[e] EXCEPT !.cost = IF @ = "zero" THEN "absent" ELSE @]]
<1>1. m.building \in Files /\ m.plan \in [EdgesOf[m.building] -> Plans] /\ m # Empty
      /\ m = [building |-> m.building, plan |-> m.plan]
  BY MapFields
<1>2. ASSUME NEW p \in Plans
      PROVE  /\ [p EXCEPT !.cost = IF @ = "zero" THEN "absent" ELSE @] \in JsonPlans
             /\ [p EXCEPT !.cost = IF @ = "zero" THEN "absent" ELSE @].path = p.path
             /\ p.cost = "positive" =>
                  [p EXCEPT !.cost = IF @ = "zero" THEN "absent" ELSE @].cost = "positive"
  BY <1>2 DEF Plans, JsonPlans
<1>3. pl \in [EdgesOf[m.building] -> JsonPlans]
  BY <1>1, <1>2
<1>4. Priced(pl)
  BY <1>1, <1>2 DEF Priced
<1>5. toJson(m) = [building |-> m.building, plan |-> pl]
  BY <1>1 DEF toJson
<1> HIDE DEF pl
<1> QED BY <1>1, <1>3, <1>4, <1>5 DEF JsonMaps

\* Reading one gives a map of the same building whose paths have costs.
LEMMA LoadFromJsonType ==
  ASSUME NEW j \in JsonMaps, Priced(j.plan)
  PROVE  /\ loadFromJson(j) \in Maps /\ loadFromJson(j).building = j.building
         /\ Priced(loadFromJson(j).plan)
<1> DEFINE pl == [e \in DOMAIN j.plan |->
                    [j.plan[e] EXCEPT !.cost = IF @ = "absent" THEN "unplanned" ELSE @]]
<1>1. j.building \in Files /\ j.plan \in [EdgesOf[j.building] -> JsonPlans] /\ j # Empty
      /\ j = [building |-> j.building, plan |-> j.plan]
  BY JsonMapFields
<1>2. ASSUME NEW p \in JsonPlans
      PROVE  /\ [p EXCEPT !.cost = IF @ = "absent" THEN "unplanned" ELSE @] \in Plans
             /\ [p EXCEPT !.cost = IF @ = "absent" THEN "unplanned" ELSE @].path = p.path
             /\ p.cost = "positive" =>
                  [p EXCEPT !.cost = IF @ = "absent" THEN "unplanned" ELSE @].cost = "positive"
  BY <1>2 DEF Plans, JsonPlans
<1>3. pl \in [EdgesOf[j.building] -> Plans]
  BY <1>1, <1>2
<1>4. Priced(pl)
  BY <1>1, <1>2 DEF Priced
<1>5. loadFromJson(j) = [building |-> j.building, plan |-> pl]
  BY <1>1 DEF loadFromJson
<1> HIDE DEF pl
<1> QED BY <1>1, <1>3, <1>4, <1>5 DEF Maps

\* What the map generator writes is a map of its building.
LEMMA GeneratedType ==
  ASSUME NEW f \in Files
  PROVE  /\ Generated(f) \in JsonMaps /\ Generated(f).building = f
         /\ Priced(Generated(f).plan)
<1>1. \A e : GeneratedPlan(e) \in JsonPlans
             /\ (GeneratedPlan(e).path = "path" => GeneratedPlan(e).cost = "positive")
  BY DEF GeneratedPlan, JsonPlans, Unplanned
<1>2. [e \in EdgesOf[f] |-> GeneratedPlan(e)] \in [EdgesOf[f] -> JsonPlans]
  BY <1>1
<1>3. Priced([e \in EdgesOf[f] |-> GeneratedPlan(e)])
  BY <1>1 DEF Priced
<1> QED BY <1>2, <1>3 DEF Generated, JsonMaps

\* The invariant holds when the node starts.
LEMMA InitIInv == Init => IInv
<1> SUFFICES ASSUME Init PROVE IInv
  OBVIOUS
<1>1. PICK readable \in SUBSET Files :
        disk = [f \in Files |-> IF f \in readable THEN Generated(f) ELSE Unreadable]
  BY DEF Init
<1>2. \A f \in Files : disk[f] = Generated(f) \/ disk[f] = Unreadable
  BY <1>1
<1>3. disk \in [Files -> JsonMaps \cup {Empty, Unreadable}]
  BY <1>1, GeneratedType
<1>4. TypeOK
  <2>1. faults \in 0..MaxFaults
    BY ServerAssumption DEF Init
  <2>2. declared \in BOOLEAN
    BY Zenon DEF Init
  <2> QED BY <1>3, <2>1, <2>2, Zenon DEF Init, TypeOK
<1>5. FilesNotMixed /\ AllPriced
  BY <1>2, GeneratedType, ServerAssumption DEF FilesNotMixed, AllPriced, Init
<1> QED BY <1>4, <1>5 DEF IInv, Init, GraphMatchesFile, NoMapYet

-----------------------------------------------------------------------------
\* What the invariant says of the files, and of the map in memory.
DiskOK ==
  /\ disk \in [Files -> JsonMaps \cup {Empty, Unreadable}]
  /\ \A f \in Files : disk[f] \in JsonMaps => disk[f].building = f /\ Priced(disk[f].plan)
  /\ faults \in 0..MaxFaults

MapOK(m, f) == m = Empty \/ (m \in Maps /\ f # NoFile /\ m.building = f /\ Priced(m.plan))

\* The invariant in these terms.
LEMMA IInvParts ==
  IInv <=> /\ lifecycle \in {"unconfigured", "inactive", "active", "finalized"}
           /\ declared \in BOOLEAN
           /\ topomap_file \in Files \cup {NoFile}
           /\ DiskOK /\ MapOK(graph, topomap_file) /\ NoMapYet
BY ServerAssumption
   DEF IInv, TypeOK, FilesNotMixed, GraphMatchesFile, AllPriced, DiskOK, MapOK

\* Saving the map to the file it belongs to, with or without success, keeps the files
\* in order.
LEMMA SaveToFileDiskOK ==
  ASSUME DiskOK, topomap_file \in Files, MapOK(graph, topomap_file),
         NEW ok \in BOOLEAN, saveToFile(topomap_file, ok)
  PROVE  DiskOK'
<1>1. CASE ok = TRUE
  <2>1. disk' = [disk EXCEPT ![topomap_file] = toJson(graph)] /\ faults' = faults
    BY <1>1 DEF saveToFile
  <2>2. CASE graph = Empty
    BY <2>1, <2>2, ServerAssumption DEF DiskOK, toJson
  <2>3. CASE graph # Empty
    <3>1. /\ toJson(graph) \in JsonMaps /\ toJson(graph).building = topomap_file
          /\ Priced(toJson(graph).plan)
      BY <2>3, ToJsonType DEF MapOK
    <3> QED BY <2>1, <3>1 DEF DiskOK
  <2> QED BY <2>2, <2>3
<1>2. CASE ok = FALSE
  <2>1. faults' \in 0..MaxFaults
    BY <1>2, ServerAssumption DEF saveToFile, DiskOK
  <2>2. disk' = disk \/ disk' = [disk EXCEPT ![topomap_file] = Unreadable]
    BY <1>2 DEF saveToFile
  <2> QED BY <2>1, <2>2, ServerAssumption DEF DiskOK
<1> QED BY <1>1, <1>2, Zenon

\* So does saving it, if enabled, on clean-up and shutdown.
LEMMA SaveIfEnabledDiskOK ==
  ASSUME DiskOK, topomap_file \in Files \cup {NoFile}, MapOK(graph, topomap_file), SaveIfEnabled
  PROVE  DiskOK'
<1>1. CASE SaveAtShutdown /\ topomap_file # NoFile
  BY <1>1, SaveToFileDiskOK DEF SaveIfEnabled
<1>2. CASE ~(SaveAtShutdown /\ topomap_file # NoFile)
  BY <1>2 DEF SaveIfEnabled, DiskOK
<1> QED BY <1>1, <1>2

\* A load that succeeds brings the map of the file; one that fails keeps the map.
LEMMA LoadFromFileMapOK ==
  ASSUME DiskOK, NEW f \in Files, loadFromFile(f)
  PROVE  IF disk[f] = Unreadable THEN graph' = graph ELSE MapOK(graph', f)
<1>1. CASE disk[f] = Unreadable
  BY <1>1 DEF loadFromFile
<1>2. CASE disk[f] = Empty
  BY <1>2, ServerAssumption DEF loadFromFile, loadFromJson, MapOK
<1>3. CASE disk[f] \in JsonMaps
  <2>1. graph' = loadFromJson(disk[f]) /\ disk[f] # Unreadable
    BY <1>3, ServerAssumption DEF loadFromFile
  <2>2. /\ loadFromJson(disk[f]) \in Maps /\ loadFromJson(disk[f]).building = f
        /\ Priced(loadFromJson(disk[f]).plan)
    BY <1>3, LoadFromJsonType DEF DiskOK
  <2> QED BY <2>1, <2>2, ServerAssumption DEF MapOK
<1> QED BY <1>1, <1>2, <1>3 DEF DiskOK

\* An accepted update stores a result of the room planner, with its cost.
LEMMA WithPlanMapOK ==
  ASSUME MapOK(graph, topomap_file), NEW e, Accepted(e), NEW p \in PlannerResults
  PROVE  MapOK(WithPlan(e, p), topomap_file)
<1> DEFINE pl == [graph.plan EXCEPT ![e] = p]
<1>1. graph \in Maps /\ graph.building = topomap_file /\ topomap_file # NoFile
      /\ Priced(graph.plan) /\ e \in DOMAIN graph.plan
  BY DEF MapOK, Accepted
<1>2. graph.plan \in [EdgesOf[graph.building] -> Plans]
  BY <1>1, MapFields
<1>3. p \in Plans /\ (p.path = "path" => p.cost = "positive")
  BY DEF PlannerResults, Plans
<1>4. pl \in [EdgesOf[graph.building] -> Plans] /\ Priced(pl)
  BY <1>1, <1>2, <1>3 DEF Priced
<1>5. WithPlan(e, p) = [graph EXCEPT !.plan = pl]
  BY <1>1, MapFields DEF WithPlan
<1> HIDE DEF pl
<1> QED BY <1>1, <1>4, <1>5, NewPlan DEF MapOK

\* Every callback of the node keeps the invariant.
LEMMA NextIInv == IInv /\ [Next]_serverVars => IInv'
<1> SUFFICES ASSUME IInv, [Next]_serverVars PROVE IInv'
  OBVIOUS
<1>0. /\ lifecycle \in {"unconfigured", "inactive", "active", "finalized"}
      /\ declared \in BOOLEAN /\ topomap_file \in Files \cup {NoFile}
      /\ DiskOK /\ MapOK(graph, topomap_file) /\ NoMapYet
  BY IInvParts
<1> DEFINE Kept == /\ lifecycle' \in {"unconfigured", "inactive", "active", "finalized"}
                   /\ declared' \in BOOLEAN
                   /\ topomap_file' \in Files \cup {NoFile}
                   /\ DiskOK' /\ MapOK(graph, topomap_file)' /\ NoMapYet'
<1> SUFFICES Kept
  BY ServerAssumption
     DEF IInv, TypeOK, FilesNotMixed, GraphMatchesFile, AllPriced, DiskOK, MapOK
<1>a. UNCHANGED <<disk, faults>> => DiskOK'
  BY <1>0 DEF DiskOK
<1>b. UNCHANGED <<graph, topomap_file>> => MapOK(graph, topomap_file)'
  BY <1>0
<1>c. MapOK(Empty, NoFile) /\ \A f : MapOK(Empty, f)
  BY DEF MapOK
<1>1. CASE on_configure
  <2>1. CASE declared
    BY <1>0, <1>1, <1>a, <1>b, <2>1 DEF on_configure, NoMapYet
  <2>2. CASE ~declared
    <3>1. graph = Empty
      BY <1>0, <1>1 DEF on_configure, NoMapYet
    <3>2. MapOK(graph', topomap_file')
      BY <1>0, <1>1, <1>c, <2>2, <3>1, LoadFromFileMapOK, ServerAssumption DEF on_configure
    <3> QED BY <1>0, <1>1, <1>a, <2>2, <3>2, ServerAssumption DEF on_configure, NoMapYet
  <2> QED BY <2>1, <2>2
<1>2. CASE on_activate \/ on_deactivate
  BY <1>0, <1>2, <1>a, <1>b DEF on_activate, on_deactivate, NoMapYet
<1>3. CASE on_cleanup
  BY <1>0, <1>3, <1>c, SaveIfEnabledDiskOK DEF on_cleanup, NoMapYet
<1>4. CASE on_shutdown
  BY <1>0, <1>4, <1>b, SaveIfEnabledDiskOK DEF on_shutdown, NoMapYet
<1>5. CASE Restart
  <2>1. DiskOK'
    BY <1>0, <1>5, ServerAssumption DEF Restart, DiskOK
  <2> QED BY <1>5, <1>c, <2>1, Zenon DEF Restart, NoMapYet
<1>6. ASSUME NEW f \in Files, loadTopomap(f) PROVE Kept
  <2>1. MapOK(graph', topomap_file')
    BY <1>0, <1>6, LoadFromFileMapOK DEF loadTopomap
  <2> QED BY <1>0, <1>6, <1>a, <2>1 DEF loadTopomap, Serving, NoMapYet
<1>7. ASSUME NEW e \in EdgeIds, NEW p \in PlannerResults, updateEdgeData(e, p) PROVE Kept
  <2>1. MapOK(graph', topomap_file')
    BY <1>0, <1>7, WithPlanMapOK DEF updateEdgeData
  <2> QED BY <1>0, <1>7, <1>a, <2>1 DEF updateEdgeData, Serving, NoMapYet
<1>8. ASSUME NEW ok \in BOOLEAN, saveTopologicalMap(ok) PROVE Kept
  <2>1. CASE topomap_file = NoFile
    BY <1>0, <1>8, <1>a, <1>b, <2>1 DEF saveTopologicalMap, NoMapYet
  <2>2. CASE topomap_file # NoFile
    BY <1>0, <1>8, <1>b, <2>2, SaveToFileDiskOK DEF saveTopologicalMap, NoMapYet
  <2> QED BY <2>1, <2>2
<1>9. CASE clearTopologicalMapPaths
  <2>1. MapOK(graph', topomap_file')
    <3>1. CASE graph = Empty
      BY <1>9, <1>c, <3>1 DEF clearTopologicalMapPaths
    <3>2. CASE graph # Empty
      <4> DEFINE pl == [e \in DOMAIN graph.plan |->
                          IF e \in Stairs THEN graph.plan[e] ELSE Unplanned]
      <4>1. graph \in Maps /\ graph.plan \in [EdgesOf[graph.building] -> Plans]
            /\ Priced(graph.plan)
        BY <1>0, <3>2, MapFields DEF MapOK
      <4>2. Unplanned \in Plans /\ Unplanned.path # "path"
        BY DEF Unplanned, Plans
      <4>3. pl \in [EdgesOf[graph.building] -> Plans]
        BY <4>1, <4>2
      <4>4. Priced(pl)
        BY <4>1, <4>2 DEF Priced
      <4>5. graph' = [graph EXCEPT !.plan = pl] /\ topomap_file' = topomap_file
        BY <1>9, <3>2 DEF clearTopologicalMapPaths
      <4> HIDE DEF pl
      <4> QED BY <1>0, <3>2, <4>1, <4>3, <4>4, <4>5, NewPlan DEF MapOK
    <3> QED BY <3>1, <3>2
  <2> QED BY <1>0, <1>9, <1>a, <2>1 DEF clearTopologicalMapPaths, Serving, NoMapYet
<1>10. CASE UNCHANGED serverVars
  BY <1>0, <1>10, <1>a, <1>b DEF serverVars, NoMapYet
<1> QED
  BY <1>1, <1>2, <1>3, <1>4, <1>5, <1>6, <1>7, <1>8, <1>9, <1>10
     DEF Next, LifecycleNext, ServiceNext

\* The invariant holds in every run of the node, restarts and failing writes included.
THEOREM TopomapInvariant == Spec => []IInv
BY InitIInv, NextIInv, PTL DEF Spec

\* The state has the types of the members, and every file is a map, empty or damaged.
THEOREM TopomapTypeOK == Spec => []TypeOK
<1>1. IInv => TypeOK BY DEF IInv
<1> QED BY <1>1, TopomapInvariant, PTL

\* No map is saved over the file of another building.
THEOREM TopomapFilesNotMixed == Spec => []FilesNotMixed
<1>1. IInv => FilesNotMixed BY DEF IInv
<1> QED BY <1>1, TopomapInvariant, PTL

\* topomap_file_ is the file of the map in memory.
THEOREM TopomapGraphMatchesFile == Spec => []GraphMatchesFile
<1>1. IInv => GraphMatchesFile BY DEF IInv
<1> QED BY <1>1, TopomapInvariant, PTL

\* A reusable path never loses its cost, whatever is saved, loaded, cleared or updated.
THEOREM TopomapReusableHasCost == Spec => []ReusableHasCost
<1>1. IInv => ReusableHasCost BY DEF IInv, AllPriced, Priced, ReusableHasCost
<1> QED BY <1>1, TopomapInvariant, PTL


-----------------------------------------------------------------------------
(* The GPP-BIM node and the topomap server *)

CopyMaps == UNION {[building : {f}, plan : [EdgesOf[f] -> CopyPlans]] : f \in Files}

\* The copy is a map, and what a query may reuse has a cost.
CopyOK == map = Empty \/ (map \in CopyMaps /\ Priced(map.plan))

\* The rest of the state has its type.
NodeOK ==
  /\ gpp \in {"unconfigured", "inactive", "active", "cleaned", "crashed"}
  /\ loads \in 0..MaxLoads
  /\ topomap_loaded \in BOOLEAN /\ topomap_load_timer \in BOOLEAN
  /\ query \in {NoQuery} \cup (0..MaxLoads)
  /\ preplan \in [phase : {"idle", "plan", "done"}, todo : SUBSET EdgeIds,
                  failed : BOOLEAN, stored : BOOLEAN]
  /\ disturbed \in BOOLEAN

\* A path of m is on g too.
Reaches(m, g) ==
  \A e \in DOMAIN m.plan : m.plan[e].path # "none" => g.plan[e].path # "none"

\* The copy was taken from the map the server has.
CopyOfServer ==
  map # Empty => graph # Empty /\ DOMAIN map.plan = DOMAIN graph.plan /\ Reaches(map, graph)

\* What is left to pre-plan is on the server, and what is done was stored or reported.
PrePlanOK ==
  /\ preplan.phase = "plan" => graph # Empty /\ preplan.todo \subseteq DOMAIN graph.plan
  /\ preplan.failed \/ preplan.stored

Undisturbed == ~disturbed => CopyOfServer /\ PrePlanOK

GppInv == IInv /\ CopyOK /\ NodeOK /\ Undisturbed

-----------------------------------------------------------------------------
\* What the planner returns is a plan with a path; a path to reuse has a cost.
LEMMA ResultFacts ==
  ASSUME NEW p \in PlannerResults
  PROVE  p \in Plans /\ p.path # "none" /\ (p.path = "path" => p.cost = "positive")
BY DEF PlannerResults, Plans

\* A plan of the server is one the copy may hold, and so is a failure.
LEMMA CopyPlanFacts == Plans \subseteq CopyPlans /\ Failed \in CopyPlans /\ Failed.path = "none"
BY DEF CopyPlans, Failed

\* A copy is a record of a building and a plan for its edges.
LEMMA CopyFields ==
  ASSUME NEW m \in CopyMaps
  PROVE  /\ m.building \in Files /\ m.plan \in [EdgesOf[m.building] -> CopyPlans]
         /\ m = [building |-> m.building, plan |-> m.plan]
         /\ DOMAIN m.plan \subseteq EdgeIds
BY DEF CopyMaps, EdgeIds

\* A map of the server is a copy.
LEMMA MapIsCopy == Maps \subseteq CopyMaps
BY CopyPlanFacts DEF Maps, CopyMaps

\* Storing a plan on an edge of the copy.
LEMMA CopyWithPlan ==
  ASSUME NEW m \in CopyMaps, Priced(m.plan), NEW e \in DOMAIN m.plan, NEW p \in CopyPlans,
         p.path = "path" => p.cost = "positive"
  PROVE  LET n == [m EXCEPT !.plan[e] = p]
         IN  /\ n \in CopyMaps /\ Priced(n.plan)
             /\ n.plan = [m.plan EXCEPT ![e] = p]
<1> DEFINE pl == [m.plan EXCEPT ![e] = p]
<1>1. /\ m.building \in Files /\ m.plan \in [EdgesOf[m.building] -> CopyPlans]
      /\ m = [building |-> m.building, plan |-> m.plan]
  BY CopyFields
<1>2. pl \in [EdgesOf[m.building] -> CopyPlans] /\ Priced(pl)
  BY <1>1 DEF Priced
<1>3. [m EXCEPT !.plan[e] = p] = [building |-> m.building, plan |-> pl]
  BY <1>1
<1> HIDE DEF pl
<1>4. [building |-> m.building, plan |-> pl] \in CopyMaps
  BY <1>1, <1>2 DEF CopyMaps
<1> QED BY <1>2, <1>3, <1>4 DEF pl

\* Storing an accepted plan on the server keeps its edges and the other plans.
LEMMA ServerWithPlan ==
  ASSUME MapOK(graph, topomap_file), NEW e, Accepted(e), NEW p \in PlannerResults
  PROVE  /\ WithPlan(e, p) # Empty
         /\ WithPlan(e, p).plan = [graph.plan EXCEPT ![e] = p]
<1>1. graph \in Maps
  BY DEF MapOK, Accepted
<1>2. graph = [building |-> graph.building, plan |-> graph.plan]
      /\ graph.plan \in [EdgesOf[graph.building] -> Plans]
  BY <1>1, MapFields
<1>3. WithPlan(e, p).plan = [graph.plan EXCEPT ![e] = p]
  BY <1>2 DEF WithPlan
<1>4. MapOK(WithPlan(e, p), topomap_file)
  BY WithPlanMapOK
<1>5. WithPlan(e, p) = [graph EXCEPT !.plan = [graph.plan EXCEPT ![e] = p]]
  BY <1>2 DEF WithPlan
<1>6. [graph.plan EXCEPT ![e] = p] \in [EdgesOf[graph.building] -> Plans]
  BY <1>2, ResultFacts, Zenon
<1>7. WithPlan(e, p) \in Maps
  BY <1>1, <1>5, <1>6, NewPlan, Zenon
<1> QED BY <1>3, <1>7, ServerAssumption

-----------------------------------------------------------------------------
\* The invariant holds when the two nodes start.
LEMMA InitGppInv == GppInit => GppInv
<1> SUFFICES ASSUME GppInit PROVE GppInv
  OBVIOUS
<1>1. IInv
  BY InitIInv DEF GppInit
<1>2. CopyOK /\ CopyOfServer
  BY DEF GppInit, CopyOK, CopyOfServer
<1>3. preplan \in [phase : {"idle", "plan", "done"}, todo : SUBSET EdgeIds,
                   failed : BOOLEAN, stored : BOOLEAN]
      /\ preplan.phase # "plan" /\ preplan.stored
  BY DEF GppInit, IdlePrePlan
<1>4. NodeOK
  <2>1. topomap_loaded \in BOOLEAN /\ topomap_load_timer \in BOOLEAN /\ disturbed \in BOOLEAN
    BY Zenon DEF GppInit
  <2>2. loads \in 0..MaxLoads
    BY GppAssumption DEF GppInit
  <2> QED BY <1>3, <2>1, <2>2 DEF GppInit, NodeOK
<1> QED BY <1>1, <1>2, <1>3, <1>4 DEF GppInv, Undisturbed, PrePlanOK

\* A step of either node is a step of the server, or leaves it alone.
LEMMA SystemIsServerStep == [SystemNext]_vars => [Next]_serverVars
<1> SUFFICES ASSUME [SystemNext]_vars PROVE [Next]_serverVars
  OBVIOUS
<1>1. CASE ServerNext
  BY <1>1 DEF ServerNext, Next, LifecycleNext, ServiceNext
<1>2. CASE GppConfigure \/ GppActivate \/ GppDeactivate \/ GppCleanup \/ loadTopologicalMap
  BY <1>2 DEF GppConfigure, GppActivate, GppDeactivate, GppCleanup, loadTopologicalMap
<1>3. CASE QueryBegin \/ QueryEnd \/ PrePlanCrash
  BY <1>3 DEF QueryBegin, QueryEnd, PrePlanCrash
<1>4. ASSUME NEW e \in EdgeIds, NEW p \in PlannerResults, QueryPlans(e, p) \/ PrePlanEdge(e, p)
      PROVE  Next
  BY <1>4 DEF QueryPlans, PrePlanEdge, Next, ServiceNext
<1>5. ASSUME NEW e \in EdgeIds, QueryPlanFails(e) \/ PrePlanEdgeFails(e)
      PROVE  UNCHANGED serverVars
  BY <1>5 DEF QueryPlanFails, PrePlanEdgeFails
<1>6. ASSUME NEW force \in BOOLEAN, PrePlanBegin(force) PROVE UNCHANGED serverVars
  BY <1>6 DEF PrePlanBegin
<1>7. CASE PrePlanEnd
  BY <1>7 DEF PrePlanEnd, Next, ServiceNext
<1>8. CASE UNCHANGED vars
  BY <1>8 DEF vars
<1> QED BY <1>1, <1>2, <1>3, <1>4, <1>5, <1>6, <1>7, <1>8 DEF SystemNext, GppNext

\* Every step of the two nodes keeps the invariant.
LEMMA NextGppInv == GppInv /\ [SystemNext]_vars => GppInv'
<1> SUFFICES ASSUME GppInv, [SystemNext]_vars PROVE GppInv'
  OBVIOUS
<1>0. IInv /\ CopyOK /\ NodeOK /\ Undisturbed
  BY DEF GppInv
<1>s. IInv'
  BY <1>0, SystemIsServerStep, NextIInv
<1>m. MapOK(graph, topomap_file) /\ NoMapYet
  BY <1>0, IInvParts
<1> SUFFICES (CopyOK /\ NodeOK /\ Undisturbed)'
  BY <1>s DEF GppInv
<1> DEFINE Kept == (CopyOK /\ NodeOK /\ Undisturbed)'
<1>p. UNCHANGED <<map, preplan, disturbed, graph>> => CopyOK' /\ Undisturbed'
  BY <1>0 DEF CopyOK, Undisturbed, CopyOfServer, PrePlanOK
<1>1. CASE ServerNext
  <2>1. CopyOK' /\ NodeOK'
    <3>1. UNCHANGED <<gpp, map, loads, topomap_loaded, topomap_load_timer, query, preplan>>
      BY <1>1, Zenon DEF ServerNext
    <3>2. disturbed' = disturbed \/ disturbed' = TRUE
      BY <1>1, Zenon DEF ServerNext
    <3>3. disturbed' \in BOOLEAN
      BY <1>0, <3>2, Zenon DEF NodeOK
    <3> QED BY <1>0, <3>1, <3>3, Zenon DEF CopyOK, NodeOK
  <2>2. CASE on_configure /\ UNCHANGED disturbed
    <3>1. lifecycle = "unconfigured"
      BY <2>2 DEF on_configure
    <3>2. graph = Empty
      BY <1>m, <3>1 DEF NoMapYet
    <3>3. ~disturbed => map = Empty /\ preplan.phase # "plan"
      BY <1>0, <3>2 DEF Undisturbed, CopyOfServer, PrePlanOK
    <3>4. Undisturbed'
      BY <1>0, <1>1, <2>2, <3>3 DEF ServerNext, Undisturbed, CopyOfServer, PrePlanOK
    <3> QED BY <2>1, <3>4
  <2>3. CASE on_activate /\ UNCHANGED disturbed
    BY <1>p, <1>1, <2>1, <2>3 DEF ServerNext, on_activate
  <2>4. CASE disturbed' = TRUE
    BY <2>1, <2>4 DEF Undisturbed
  <2> QED BY <1>1, <2>2, <2>3, <2>4, Zenon DEF ServerNext
<1>2. CASE GppConfigure \/ GppActivate \/ GppDeactivate
  BY <1>0, <1>2, <1>p, Zenon DEF GppConfigure, GppActivate, GppDeactivate, NodeOK, serverVars
<1>3. CASE GppCleanup
  BY <1>0, <1>3
     DEF GppCleanup, NodeOK, serverVars, CopyOK, Undisturbed, CopyOfServer, PrePlanOK
<1>4. CASE loadTopologicalMap
  <2>1. CASE Serving
    <3>1. map' = graph /\ loads' = loads + 1 /\ topomap_loaded' = TRUE /\ loads < MaxLoads
          /\ topomap_load_timer' = FALSE /\ graph' = graph
          /\ UNCHANGED <<gpp, query, preplan, disturbed>>
      BY <1>4, <2>1 DEF loadTopologicalMap, serverVars
    <3>2. CopyOK'
      BY <1>m, <3>1, MapIsCopy DEF MapOK, CopyOK
    <3>3. loads' \in 0..MaxLoads
      BY <1>0, <3>1, GppAssumption DEF NodeOK
    <3>4. NodeOK'
      BY <1>0, <3>1, <3>3, Zenon DEF NodeOK
    <3>5. CopyOfServer'
      BY <3>1 DEF CopyOfServer, Reaches
    <3> QED BY <1>0, <3>1, <3>2, <3>4, <3>5 DEF Undisturbed, PrePlanOK
  <2>2. CASE ~Serving
    BY <1>0, <1>4, <1>p, <2>2, Zenon DEF loadTopologicalMap, NodeOK, serverVars
  <2> QED BY <2>1, <2>2
<1>5. CASE QueryBegin
  BY <1>0, <1>5, <1>p DEF QueryBegin, NodeOK, serverVars
<1>6. CASE QueryEnd \/ PrePlanCrash
  BY <1>0, <1>6, <1>p DEF QueryEnd, PrePlanCrash, NodeOK, serverVars
<1>7. ASSUME NEW e \in EdgeIds, NEW p \in PlannerResults, QueryPlans(e, p) PROVE Kept
  <2>1. /\ map \in CopyMaps /\ Priced(map.plan) /\ e \in DOMAIN map.plan /\ map # Empty
        /\ map' = [map EXCEPT !.plan[e] = p] /\ updateEdgeData(e, p)
        /\ UNCHANGED <<gpp, loads, topomap_loaded, topomap_load_timer, query, preplan, disturbed>>
    BY <1>0, <1>7 DEF QueryPlans, CopyOK
  <2>2. p \in CopyPlans /\ p.path # "none" /\ (p.path = "path" => p.cost = "positive")
    BY ResultFacts, CopyPlanFacts
  <2>3. map' \in CopyMaps /\ Priced(map'.plan) /\ map'.plan = [map.plan EXCEPT ![e] = p]
    BY <2>1, <2>2, CopyWithPlan
  <2>4. NodeOK'
    BY <1>0, <2>1 DEF NodeOK
  <2>5. ASSUME ~disturbed PROVE CopyOfServer' /\ PrePlanOK'
    <3>1. /\ graph # Empty /\ DOMAIN map.plan = DOMAIN graph.plan /\ Reaches(map, graph)
          /\ PrePlanOK
      BY <1>0, <2>1, <2>5 DEF Undisturbed, CopyOfServer
    <3>2. Accepted(e)
      BY <2>1, <3>1 DEF Accepted
    <3>3. graph' # Empty /\ graph'.plan = [graph.plan EXCEPT ![e] = p]
      BY <1>m, <2>1, <3>2, ServerWithPlan DEF updateEdgeData
    <3>4. Reaches(map, graph)'
      BY <2>2, <2>3, <3>1, <3>3 DEF Reaches
    <3> QED BY <2>1, <2>3, <3>1, <3>3, <3>4 DEF CopyOfServer, PrePlanOK
  <2> QED BY <2>1, <2>3, <2>4, <2>5 DEF CopyOK, Undisturbed
<1>8. ASSUME NEW e \in EdgeIds, QueryPlanFails(e) PROVE Kept
  <2>1. /\ map \in CopyMaps /\ Priced(map.plan) /\ e \in DOMAIN map.plan /\ map # Empty
        /\ map' = [map EXCEPT !.plan[e] = Failed] /\ UNCHANGED serverVars
        /\ UNCHANGED <<gpp, loads, topomap_loaded, topomap_load_timer, query, preplan, disturbed>>
    BY <1>0, <1>8 DEF QueryPlanFails, CopyOK
  <2>2. map' \in CopyMaps /\ Priced(map'.plan) /\ map'.plan = [map.plan EXCEPT ![e] = Failed]
    BY <2>1, CopyPlanFacts, CopyWithPlan
  <2>3. NodeOK'
    BY <1>0, <2>1 DEF NodeOK
  <2>4. ASSUME ~disturbed PROVE CopyOfServer' /\ PrePlanOK'
    <3>1. /\ graph # Empty /\ DOMAIN map.plan = DOMAIN graph.plan /\ Reaches(map, graph)
          /\ PrePlanOK
      BY <1>0, <2>1, <2>4 DEF Undisturbed, CopyOfServer
    <3>2. Reaches(map, graph)'
      BY <2>1, <2>2, <3>1, CopyPlanFacts DEF Reaches, serverVars
    <3> QED BY <2>1, <2>2, <3>1, <3>2 DEF CopyOfServer, PrePlanOK, serverVars
  <2> QED BY <2>1, <2>2, <2>3, <2>4 DEF CopyOK, Undisturbed
<1>9. ASSUME NEW force \in BOOLEAN, PrePlanBegin(force) PROVE Kept
  <2> DEFINE todo == {e \in DOMAIN map.plan : needs_planning(e, force)}
  <2>1. /\ map # Empty /\ UNCHANGED serverVars
        /\ UNCHANGED <<gpp, map, loads, topomap_loaded, topomap_load_timer, query, disturbed>>
        /\ preplan' = [phase |-> "plan", todo |-> todo, failed |-> FALSE, stored |-> TRUE]
    BY <1>9, Zenon DEF PrePlanBegin, IdlePrePlan
  <2>2. todo \subseteq DOMAIN map.plan /\ DOMAIN map.plan \subseteq EdgeIds
    BY <1>0, <2>1, CopyFields DEF CopyOK
  <2> HIDE DEF todo
  <2>3. preplan' \in [phase : {"idle", "plan", "done"}, todo : SUBSET EdgeIds,
                      failed : BOOLEAN, stored : BOOLEAN]
    BY <2>1, <2>2
  <2>4. NodeOK'
    BY <1>0, <2>1, <2>3 DEF NodeOK
  <2>5. CopyOK'
    BY <1>0, <2>1 DEF CopyOK
  <2>6. Undisturbed'
    BY <1>0, <2>1, <2>2 DEF Undisturbed, CopyOfServer, PrePlanOK, serverVars
  <2> QED BY <2>4, <2>5, <2>6
<1>10. ASSUME NEW e \in EdgeIds, NEW p \in PlannerResults, PrePlanEdge(e, p) PROVE Kept
  <2>1. /\ e \in preplan.todo /\ preplan.phase = "plan" /\ updateEdgeData(e, p)
        /\ preplan' = [preplan EXCEPT !.todo = @ \ {e}, !.stored = @ /\ Accepted(e)]
        /\ UNCHANGED <<gpp, map, loads, topomap_loaded, topomap_load_timer, query, disturbed>>
    BY <1>10 DEF PrePlanEdge, PrePlanning
  <2>2. /\ preplan'.phase = "plan" /\ preplan'.todo = preplan.todo \ {e}
        /\ preplan'.failed = preplan.failed
        /\ preplan'.stored = (preplan.stored /\ Accepted(e))
        /\ preplan' \in [phase : {"idle", "plan", "done"}, todo : SUBSET EdgeIds,
                         failed : BOOLEAN, stored : BOOLEAN]
    BY <1>0, <2>1, Zenon DEF NodeOK
  <2>3. NodeOK' /\ CopyOK'
    BY <1>0, <2>1, <2>2 DEF NodeOK, CopyOK
  <2>4. ASSUME ~disturbed PROVE CopyOfServer' /\ PrePlanOK'
    <3>1. CopyOfServer /\ PrePlanOK
      BY <1>0, <2>4 DEF Undisturbed
    <3>2. Accepted(e) /\ preplan.todo \subseteq DOMAIN graph.plan
      BY <2>1, <3>1 DEF PrePlanOK, Accepted
    <3>3. graph' # Empty /\ graph'.plan = [graph.plan EXCEPT ![e] = p]
      BY <1>m, <2>1, <3>2, ServerWithPlan DEF updateEdgeData
    <3>4. map # Empty => Reaches(map, graph)'
      BY <2>1, <3>1, <3>3, ResultFacts DEF CopyOfServer, Reaches
    <3>5. CopyOfServer'
      BY <2>1, <3>1, <3>3, <3>4 DEF CopyOfServer
    <3>6. PrePlanOK'
      BY <2>2, <3>1, <3>2, <3>3 DEF PrePlanOK
    <3> QED BY <3>5, <3>6
  <2> QED BY <2>1, <2>3, <2>4 DEF Undisturbed
<1>11. ASSUME NEW e \in EdgeIds, PrePlanEdgeFails(e) PROVE Kept
  <2>1. /\ preplan' = [preplan EXCEPT !.todo = @ \ {e}, !.failed = TRUE, !.stored = FALSE]
        /\ preplan.phase = "plan" /\ UNCHANGED serverVars
        /\ UNCHANGED <<gpp, map, loads, topomap_loaded, topomap_load_timer, query, disturbed>>
    BY <1>11 DEF PrePlanEdgeFails, PrePlanning
  <2>2. /\ preplan'.phase = "plan" /\ preplan'.todo = preplan.todo \ {e}
        /\ preplan'.failed = TRUE
        /\ preplan' \in [phase : {"idle", "plan", "done"}, todo : SUBSET EdgeIds,
                         failed : BOOLEAN, stored : BOOLEAN]
    BY <1>0, <2>1, Zenon DEF NodeOK
  <2>3. NodeOK' /\ CopyOK'
    BY <1>0, <2>1, <2>2 DEF NodeOK, CopyOK
  <2> QED
    BY <1>0, <2>1, <2>2, <2>3 DEF Undisturbed, CopyOfServer, PrePlanOK, serverVars
<1>12. CASE PrePlanEnd
  <2>1. /\ preplan' = [preplan EXCEPT !.phase = "done"] /\ graph' = graph
        /\ UNCHANGED <<gpp, map, loads, topomap_loaded, topomap_load_timer, query, disturbed>>
    BY <1>12 DEF PrePlanEnd, saveTopologicalMap
  <2>2. /\ preplan'.phase = "done" /\ preplan'.failed = preplan.failed
        /\ preplan'.stored = preplan.stored
        /\ preplan' \in [phase : {"idle", "plan", "done"}, todo : SUBSET EdgeIds,
                         failed : BOOLEAN, stored : BOOLEAN]
    BY <1>0, <2>1 DEF NodeOK
  <2>3. NodeOK' /\ CopyOK'
    BY <1>0, <2>1, <2>2 DEF NodeOK, CopyOK
  <2> QED BY <1>0, <2>1, <2>2, <2>3 DEF Undisturbed, CopyOfServer, PrePlanOK
<1>13. CASE UNCHANGED vars
  BY <1>0, <1>p, <1>13 DEF vars, gppVars, serverVars, NodeOK
<1> QED
  BY <1>1, <1>2, <1>3, <1>4, <1>5, <1>6, <1>7, <1>8, <1>9, <1>10, <1>11, <1>12, <1>13
     DEF SystemNext, GppNext

-----------------------------------------------------------------------------
\* The invariant holds in every run of the two nodes, restarts of the server included.
THEOREM GppInvariant == GppSpec => []GppInv
BY InitGppInv, NextGppInv, PTL DEF GppSpec

\* The members of both nodes have their types.
THEOREM GppTypeCorrect == GppSpec => []GppTypeOK
<1>1. GppInv => GppTypeOK
  BY CopyFields DEF GppInv, IInv, CopyOK, NodeOK, GppTypeOK
<1> QED BY <1>1, GppInvariant, PTL

\* Whatever the two nodes do, no file gets the map of another building.
THEOREM GppFilesNotMixed == GppSpec => []FilesNotMixed
<1>1. GppInv => FilesNotMixed
  BY DEF GppInv, IInv
<1> QED BY <1>1, GppInvariant, PTL

\* A path that a query may reuse has a cost.
THEOREM GppCopyReusableHasCost == GppSpec => []CopyReusableHasCost
<1>1. GppInv => CopyReusableHasCost
  BY DEF GppInv, CopyOK, Priced, CopyReusableHasCost
<1> QED BY <1>1, GppInvariant, PTL

\* A pre-plan that reports success has stored a path for every edge it set out to plan.
THEOREM GppPrePlanHonest == GppSpec => []PrePlanHonest
<1>1. GppInv => PrePlanHonest
  BY DEF GppInv, Undisturbed, PrePlanOK, PrePlanHonest
<1> QED BY <1>1, GppInvariant, PTL

\* Every path of the node's copy is also on the server.
THEOREM GppUpdatesReachServer == GppSpec => []UpdatesReachServer
<1>1. GppInv => UpdatesReachServer
  BY DEF GppInv, Undisturbed, CopyOfServer, Reaches, UpdatesReachServer
<1> QED BY <1>1, GppInvariant, PTL

=============================================================================
