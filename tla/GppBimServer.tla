----------------------------- MODULE GppBimServer -----------------------------
(***************************************************************************)
(* The GPP-BIM node and the topological map it shares with the topomap     *)
(* server: it copies the map once after activation, plans queries on the   *)
(* copy (storing paths on both sides) and pre-plans edges in a detached    *)
(* thread.  The search inside a query is TopomapPlanner; here a query      *)
(* plans some edges of the copy.                                           *)
(***************************************************************************)
EXTENDS TopomapServer

CONSTANTS
  ReusePaths,    \* parameter reuse_paths
  MaxLoads       \* bound on copies of the map taken by this node

ASSUME GppAssumption == ReusePaths \in BOOLEAN /\ MaxLoads \in Nat

VARIABLES
  gpp,           \* lifecycle state; "cleaned" after on_cleanup, "crashed"
  map,           \* topological_map_
  loads,         \* how often the copy has been replaced
  topomap_loaded,
  topomap_load_timer,  \* the one-shot timer is pending
  query,         \* the running computePathToPose: idle, or the copy it plans on
  preplan,       \* the pre-plan thread
  disturbed      \* someone else has loaded, cleared or restarted the server

gppVars == <<gpp, map, loads, topomap_loaded, topomap_load_timer, query, preplan, disturbed>>
vars == <<serverVars, gppVars>>

NoQuery == -1
Failed == [cost |-> "infinite", path |-> "none"]
CopyPlans == Plans \cup {Failed}
IdlePrePlan == [phase |-> "idle", todo |-> {}, failed |-> FALSE, stored |-> TRUE]

-----------------------------------------------------------------------------
(* Lifecycle *)

GppConfigure ==
  /\ gpp = "unconfigured"
  /\ gpp' = "inactive"
  /\ UNCHANGED <<serverVars, map, loads, topomap_loaded, topomap_load_timer, query, preplan, disturbed>>

GppActivate ==
  /\ gpp = "inactive"
  /\ gpp' = "active"
  /\ topomap_load_timer' = TRUE
  /\ UNCHANGED <<serverVars, map, loads, topomap_loaded, query, preplan, disturbed>>

\* action_server_->deactivate waits for the running query.
GppDeactivate ==
  /\ gpp = "active" /\ query = NoQuery
  /\ gpp' = "inactive"
  /\ UNCHANGED <<serverVars, map, loads, topomap_loaded, topomap_load_timer, query, preplan, disturbed>>

\* The 10 ms timer is served before a clean-up request is.
GppCleanup ==
  /\ gpp = "inactive" /\ ~topomap_load_timer
  /\ gpp' = "cleaned"
  /\ map' = Empty
  /\ UNCHANGED <<serverVars, loads, topomap_loaded, topomap_load_timer, query, preplan, disturbed>>

\* The load timer fires: loadTopologicalMap copies what the server answers, also
\* when the answer is that there is no map, and takes no lock.
loadTopologicalMap ==
  /\ topomap_load_timer /\ loads < MaxLoads
  /\ topomap_load_timer' = FALSE
  /\ IF Serving
     THEN map' = graph /\ loads' = loads + 1 /\ topomap_loaded' = TRUE
     ELSE UNCHANGED <<map, loads, topomap_loaded>>
  /\ UNCHANGED <<serverVars, gpp, query, preplan, disturbed>>

-----------------------------------------------------------------------------
(* Queries: computePathToPose, under topological_map_mutex_ *)

QueryBegin ==
  /\ gpp = "active" /\ topomap_loaded /\ query = NoQuery
  /\ map # Empty
  /\ query' = loads
  /\ UNCHANGED <<serverVars, gpp, map, loads, topomap_loaded, topomap_load_timer, preplan, disturbed>>

should_reuse(e) ==
  map.plan[e].path = "path" /\ (ReusePaths \/ e \in Stairs \cup Ramps)

\* Mistake: the server is not told.
QueryPlansLocally(e, p) ==
  /\ query # NoQuery /\ map # Empty /\ e \in DOMAIN map.plan /\ ~should_reuse(e)
  /\ map' = [map EXCEPT !.plan[e] = p]
  /\ UNCHANGED <<serverVars, gpp, loads, topomap_loaded, topomap_load_timer, query, preplan, disturbed>>

\* An edge is planned: the server is told, then the copy gets the path.
QueryPlans(e, p) ==
  /\ query # NoQuery /\ map # Empty /\ e \in DOMAIN map.plan /\ ~should_reuse(e)
  /\ updateEdgeData(e, p)
  /\ map' = [map EXCEPT !.plan[e] = p]
  /\ UNCHANGED <<gpp, loads, topomap_loaded, topomap_load_timer, query, preplan, disturbed>>

QueryPlanFails(e) ==
  /\ query # NoQuery /\ map # Empty /\ e \in DOMAIN map.plan /\ ~should_reuse(e)
  /\ map' = [map EXCEPT !.plan[e] = Failed]
  /\ UNCHANGED <<serverVars, gpp, loads, topomap_loaded, topomap_load_timer, query, preplan, disturbed>>

QueryEnd ==
  /\ query # NoQuery
  /\ query' = NoQuery
  /\ UNCHANGED <<serverVars, gpp, map, loads, topomap_loaded, topomap_load_timer, preplan, disturbed>>

-----------------------------------------------------------------------------
(* executePrePlanImpl, in a thread of its own and without the mutex; its action  *)
(* server is not part of the lifecycle                                           *)

needs_planning(e, force) ==
  e \notin Stairs /\ (force \/ map.plan[e].cost = "unplanned")

PrePlanBegin(force) ==
  /\ preplan.phase # "plan" /\ gpp # "unconfigured" /\ map # Empty
  /\ preplan' = [IdlePrePlan EXCEPT !.phase = "plan",
                   !.todo = {e \in DOMAIN map.plan : needs_planning(e, force)}]
  /\ UNCHANGED <<serverVars, gpp, map, loads, topomap_loaded, topomap_load_timer, query, disturbed>>

PrePlanning == preplan.phase = "plan" /\ gpp \notin {"cleaned", "crashed"}

\* The edge counts as planned whatever the server answers to the update.
PrePlanEdge(e, p) ==
  /\ PrePlanning /\ e \in preplan.todo
  /\ updateEdgeData(e, p)
  /\ preplan' = [preplan EXCEPT !.todo = @ \ {e}, !.stored = @ /\ Accepted(e)]
  /\ UNCHANGED <<gpp, map, loads, topomap_loaded, topomap_load_timer, query, disturbed>>

\* Mistake: the failure is not counted.
PrePlanEdgeFailsQuietly(e) ==
  /\ PrePlanning /\ e \in preplan.todo
  /\ preplan' = [preplan EXCEPT !.todo = @ \ {e}, !.stored = FALSE]
  /\ UNCHANGED <<serverVars, gpp, map, loads, topomap_loaded, topomap_load_timer, query, disturbed>>

PrePlanEdgeFails(e) ==
  /\ PrePlanning /\ e \in preplan.todo
  /\ preplan' = [preplan EXCEPT !.todo = @ \ {e}, !.failed = TRUE, !.stored = FALSE]
  /\ UNCHANGED <<serverVars, gpp, map, loads, topomap_loaded, topomap_load_timer, query, disturbed>>

\* on_cleanup has reset the clients the thread goes on to use.
PrePlanCrash ==
  /\ preplan.phase = "plan" /\ gpp = "cleaned"
  /\ gpp' = "crashed"
  /\ UNCHANGED <<serverVars, map, loads, topomap_loaded, topomap_load_timer, query, preplan, disturbed>>

\* The map is saved at the end (invoke waits for the service); the result does not
\* depend on it.
PrePlanEnd ==
  /\ PrePlanning /\ preplan.todo = {}
  /\ \E ok \in BOOLEAN : saveTopologicalMap(ok)
  /\ preplan' = [preplan EXCEPT !.phase = "done"]
  /\ UNCHANGED <<gpp, map, loads, topomap_loaded, topomap_load_timer, query, disturbed>>

-----------------------------------------------------------------------------
GppInit ==
  /\ Init
  /\ gpp = "unconfigured" /\ map = Empty /\ loads = 0
  /\ topomap_loaded = FALSE /\ topomap_load_timer = FALSE
  /\ query = NoQuery /\ preplan = IdlePrePlan /\ disturbed = FALSE

\* What happens to the server besides the calls of this node.
ServerNext ==
  /\ \/ (on_configure \/ on_activate) /\ UNCHANGED disturbed
     \/ /\ \/ (\E f \in Files : loadTopomap(f)) \/ clearTopologicalMapPaths
           \/ on_shutdown \/ Restart
        /\ disturbed' = TRUE
  /\ UNCHANGED <<gpp, map, loads, topomap_loaded, topomap_load_timer, query, preplan>>

GppNext ==
  \/ GppConfigure \/ GppActivate \/ GppDeactivate \/ GppCleanup \/ loadTopologicalMap
  \/ QueryBegin \/ QueryEnd
  \/ \E e \in EdgeIds, p \in PlannerResults : QueryPlans(e, p) \/ PrePlanEdge(e, p)
  \/ \E e \in EdgeIds : QueryPlanFails(e) \/ PrePlanEdgeFails(e)
  \/ \E force \in BOOLEAN : PrePlanBegin(force)
  \/ PrePlanEnd \/ PrePlanCrash

SystemNext == ServerNext \/ GppNext

GppSpec == GppInit /\ [][SystemNext]_vars

-----------------------------------------------------------------------------
(* Properties *)

\* Type correctness of this node, on top of the server's.
GppTypeOK ==
  /\ TypeOK
  /\ gpp \in {"unconfigured", "inactive", "active", "cleaned", "crashed"}
  /\ map = Empty \/ (DOMAIN map.plan \subseteq EdgeIds
                     /\ \A e \in DOMAIN map.plan : map.plan[e] \in CopyPlans)
  /\ loads \in 0..MaxLoads
  /\ topomap_loaded \in BOOLEAN /\ topomap_load_timer \in BOOLEAN
  /\ query \in {NoQuery} \cup (0..MaxLoads)
  /\ preplan \in [phase : {"idle", "plan", "done"}, todo : SUBSET EdgeIds,
                  failed : BOOLEAN, stored : BOOLEAN]
  /\ disturbed \in BOOLEAN

\* A pre-plan that reports success ("Successfully pre-planned all ... transition
\* edges") has stored a path for every edge it set out to plan, unless the server got
\* another map in the meantime.
PrePlanHonest ==
  preplan.phase = "done" /\ ~preplan.failed /\ ~disturbed => preplan.stored

\* Every path of this node's copy is also on the server, whichever of the query and
\* the pre-plan thread stored it, so that a later activation finds it.
UpdatesReachServer ==
  map # Empty /\ ~disturbed =>
    /\ graph # Empty
    /\ \A e \in DOMAIN map.plan : map.plan[e].path # "none" =>
         e \in DOMAIN graph.plan /\ graph.plan[e].path # "none"

\* A path that a query may reuse has a cost, whatever was loaded, saved, cleared or
\* planned before: the search would take the mark -1 for a negative cost.
CopyReusableHasCost ==
  map # Empty => \A e \in DOMAIN map.plan :
    map.plan[e].path = "path" => map.plan[e].cost = "positive"

=============================================================================
