---------------------------- MODULE TopomapPlanner ----------------------------
(***************************************************************************)
(* planTopomapPath: the edge-expanding A* over the topological map, and    *)
(* the queries that run it one after another on the map the GPP-BIM server *)
(* keeps.  Expanding an edge plans (or reuses) the metric path through it; *)
(* what the planner stores on an edge stays there for later queries.       *)
(*                                                                         *)
(* A building is a record: links (edges between transition nodes), virtual *)
(* (the edge sets START and GOAL can be connected with), disabled (nodes   *)
(* filtered out), est (straight-line cost of an edge), toGoal (straight-   *)
(* line cost to GOAL), real (cost the room planner finds, Inf if there is  *)
(* no path), short (edges whose path is a single pose), stairs (edges of   *)
(* subtype stair or ramp), stored (costs the loaded map has; -1 is "not    *)
(* planned").  An edge is a set of two vertices, a vertex its descriptor.  *)
(***************************************************************************)
EXTENDS Integers, FiniteSets, Sequences, FiniteSetsExt

CONSTANTS
  Vertices, Start, Goal,
  Buildings,    \* the buildings considered
  ReusePaths,   \* parameter reuse_paths
  MaxQueries,   \* bound on the number of queries
  MaxFaults,    \* bound on room planner calls that fail without a reason in the map
  Inf,          \* std::numeric_limits<double>::infinity()
  None          \* no came_from entry

Edges == {e \in SUBSET Vertices : \E u, v \in Vertices : u # v /\ e = {u, v}}
Costs == Nat \cup {Inf}
Unplanned == -1

ASSUME VertexAssumption ==
  Vertices \subseteq Int /\ Start \in Vertices /\ Goal \in Vertices /\ Start # Goal
ASSUME ValueAssumption == Inf \notin Int /\ None \notin Vertices

IsBuilding(b) ==
  /\ b.links \subseteq Edges
  /\ \A vl \in b.virtual : vl \subseteq Edges
  /\ b.disabled \subseteq Vertices \ {Start, Goal}
  /\ b.est \in [Edges -> Nat]
  /\ b.toGoal \in [Vertices -> Nat]
  /\ b.real \in [Edges -> Costs]
  /\ b.short \subseteq Edges /\ b.stairs \subseteq Edges
  /\ b.stored \in [Edges -> Nat \cup {Unplanned}]

ASSUME BuildingAssumption == \A b \in Buildings : IsBuilding(b)

VARIABLES
  building,   \* the building this run is about
  cost,       \* planned_cost of every edge
  path,       \* the path stored on every edge: none, a single pose, or longer
  phase,      \* between queries, searching, or search over
  edges,      \* edges of the filtered graph of the running query
  g,          \* g_score
  came_from,
  closed,     \* closed_set
  open,       \* open_heap: f-score of each edge in it
  best,       \* best_score
  queries, faults  \* bounded counters

graphVars  == <<cost, path>>
searchVars == <<edges, g, came_from, closed, open, best>>
vars == <<building, graphVars, phase, searchVars, queries, faults>>

-----------------------------------------------------------------------------
(* Costs: doubles that are non-negative or infinite *)

Plus(a, b) == IF a = Inf \/ b = Inf THEN Inf ELSE a + b
\* inf - inf is NaN and x - inf is negative; both are outside Costs
Minus(a, b) == IF a = Inf \/ b = Inf THEN Unplanned ELSE a - b
Less(a, b) == a # Inf /\ (b = Inf \/ a < b)
LessEq(a, b) == b = Inf \/ (a # Inf /\ a <= b)
Lower(a, b) == IF Less(b, a) THEN b ELSE a

Other(e, v) == CHOOSE w \in e : w # v
\* std::min of the two descriptors
MinEnd(e) == CHOOSE u \in e : \A v \in e : u <= v

-----------------------------------------------------------------------------
(* The search, as functions of the g-scores gs and planned costs cs *)

h1_score(e, cs) == IF cs[e] # Unplanned THEN cs[e] ELSE building.est[e]
h2_score(v) == building.toGoal[v]

FScore(gs, cs, from, e) ==
  Plus(Plus(gs[from], h1_score(e, cs)), h2_score(Other(e, from)))

\* pre is the end with the smaller g-score, the smaller descriptor on a tie.
Pre(gs, e) ==
  LET u == MinEnd(e) IN IF LessEq(gs[u], gs[Other(e, u)]) THEN u ELSE Other(e, u)

\* The route through the expanded edge is a better one.
Improves(tentative, old) == Less(tentative, old)

\* Mistake: only the direct successor is updated.
DescendantsNone(cf, s) == {s}

\* The vertices update_g_score_recursively reaches from s: the least set that
\* contains s and every vertex whose came_from is in the set.
Descendants(cf, s) ==
  {v \in Vertices :
     \A S \in SUBSET Vertices :
       (s \in S /\ \A w \in Vertices : cf[w] \in S => w \in S) => v \in S}

\* Mistake: the heap is not reordered.
TouchedNone(updated, cf, e) == FALSE

\* Edges of the open set whose f-score is recomputed when updated nodes changed:
\* those with an updated end, unless they lead back to that end's predecessor.
Touched(updated, cf, e) == \E n \in updated \cap e : cf[n] # Other(e, n)

MinF(o) == {e \in DOMAIN o : \A e2 \in DOMAIN o : LessEq(o[e], o[e2])}

\* Mistake: the first route to GOAL ends the search.
ExhaustedAtGoal(o, b) == DOMAIN o = {} \/ b # Inf

\* The loop stops when the heap is empty or its minimum is no better than best.
Exhausted(o, b) == \A e \in DOMAIN o : LessEq(b, o[e])

-----------------------------------------------------------------------------
Init ==
  /\ building \in Buildings
  /\ cost = building.stored
  /\ path = [e \in Edges |-> IF building.stored[e] = Unplanned THEN "none" ELSE "path"]
  /\ phase = "idle"
  /\ edges = {}
  /\ g = [v \in Vertices |-> Inf]
  /\ came_from = [v \in Vertices |-> None]
  /\ closed = {} /\ open = [e \in {} |-> Inf] /\ best = Inf
  /\ queries = 0 /\ faults = 0

NewSearch == closed' = {} /\ best' = Inf /\ came_from' = [v \in Vertices |-> None]

\* createVirtualNodes, ScopedGraphMaterialization and the set-up of the search:
\* START and GOAL get fresh edges, and the edges of START open the search.
BeginQuery ==
  /\ phase = "idle" /\ queries < MaxQueries
  /\ queries' = queries + 1
  /\ \E vl \in building.virtual :
       LET es == {e \in building.links \cup vl : e \cap building.disabled = {}}
           cs == [e \in Edges |-> IF e \in vl THEN Unplanned ELSE cost[e]]
           gs == [v \in Vertices |-> IF v = Start THEN 0 ELSE Inf]
           os == [e \in {e \in es : Start \in e} |-> FScore(gs, cs, Start, e)]
       IN /\ edges' = es
          /\ cost' = cs
          /\ path' = [e \in Edges |-> IF e \in vl THEN "none" ELSE path[e]]
          /\ g' = gs
          /\ open' = os
          /\ phase' = IF DOMAIN os = {} THEN "done" ELSE "search"
  /\ NewSearch
  /\ UNCHANGED <<building, faults>>

\* Mistake: the expanded edge is not marked.
CloseForgotten(e) == closed

Close(e) == closed \cup {e}

\* The successor's edges that are neither closed nor in the heap.
Pushed(suc, pre, o) ==
  {e \in edges : suc \in e /\ pre \notin e /\ e \notin closed /\ e \notin DOMAIN o}

\* The rest of the loop body once the cost of the popped edge e is in cs: close
\* the edge, improve the g-score of its successor and of everything reached
\* through it, reorder the heap, add the successor's edges, decide whether to stop.
Relax(e, cs) ==
  LET pre == Pre(g, e)
      suc == Other(e, pre)
      tentative == Plus(g[pre], cs[e])
      better == Improves(tentative, g[suc])
      cf == IF better THEN [came_from EXCEPT ![suc] = pre] ELSE came_from
      updated == IF better THEN Descendants(cf, suc) ELSE {}
      diff == Minus(g[suc], tentative)
      gs == [v \in Vertices |->
               IF v = suc /\ better THEN tentative
               ELSE IF v \in updated THEN Minus(g[v], diff) ELSE g[v]]
      rest == [e2 \in DOMAIN open \ {e} |->
                 IF Touched(updated, cf, e2)
                 THEN Lower(open[e2], FScore(gs, cs, Pre(gs, e2), e2)) ELSE open[e2]]
      os == [e2 \in DOMAIN rest \cup Pushed(suc, pre, rest) |->
               IF e2 \in DOMAIN rest THEN rest[e2] ELSE FScore(gs, cs, suc, e2)]
      bs == IF suc = Goal THEN Lower(best, gs[suc]) ELSE best
  IN /\ closed' = Close(e)
     /\ came_from' = cf
     /\ g' = gs
     /\ open' = os
     /\ best' = bs
     /\ phase' = IF Exhausted(os, bs) THEN "done" ELSE "search"
     /\ UNCHANGED <<building, edges, queries>>

should_reuse(e) == path[e] = "path" /\ (ReusePaths \/ e \in building.stairs)

\* The planned cost c is stored on the edge before the loop goes on.
Store(e, c) ==
  LET cs == [cost EXCEPT ![e] = c] IN cost' = cs /\ Relax(e, cs)

\* The popped edge has a path that may be reused.
ExpandReuse(e) ==
  /\ should_reuse(e)
  /\ Relax(e, cost)
  /\ UNCHANGED <<graphVars, faults>>

\* Mistake: a path of a single pose is taken for no path.
ExpandPlannedTwoPoses(e) ==
  /\ ~should_reuse(e)
  /\ building.real[e] # Inf
  /\ path' = [path EXCEPT ![e] = IF e \in building.short THEN "none" ELSE "path"]
  /\ Store(e, IF e \in building.short THEN Inf ELSE building.real[e])
  /\ UNCHANGED faults

\* The room planner found a path; it is stored on the edge.
ExpandPlanned(e) ==
  /\ ~should_reuse(e)
  /\ building.real[e] # Inf
  /\ path' = [path EXCEPT ![e] = IF e \in building.short THEN "point" ELSE "path"]
  /\ Store(e, building.real[e])
  /\ UNCHANGED faults

\* The room planner returned nothing, because there is no path (real = Inf) or
\* because it timed out, was preempted or was unavailable.
ExpandFailed(e) ==
  /\ ~should_reuse(e)
  /\ IF building.real[e] = Inf
     THEN UNCHANGED faults
     ELSE faults < MaxFaults /\ faults' = faults + 1
  /\ path' = [path EXCEPT ![e] = "none"]
  /\ Store(e, Inf)

\* update_edge_client->invoke threw: the exception leaves planTopomapPath before
\* the edge is stored, computePathToPose reports it and the query is over.
ExpandThrows(e) ==
  /\ ~should_reuse(e)
  /\ building.real[e] # Inf /\ Start \notin e /\ Goal \notin e
  /\ faults < MaxFaults
  /\ faults' = faults + 1
  /\ phase' = "idle"
  /\ UNCHANGED <<building, graphVars, searchVars, queries>>

Expand ==
  /\ phase = "search"
  /\ \E e \in MinF(open) :
       ExpandReuse(e) \/ ExpandPlanned(e) \/ ExpandFailed(e) \/ ExpandThrows(e)

\* The result is returned and START and GOAL leave the graph.
EndQuery ==
  /\ phase = "done"
  /\ phase' = "idle"
  /\ UNCHANGED <<building, graphVars, searchVars, queries, faults>>

Next == BeginQuery \/ Expand \/ EndQuery

Spec == Init /\ [][Next]_vars

-----------------------------------------------------------------------------
(* Properties *)

\* Type correctness.  In particular no g-score becomes negative or NaN: the
\* recursive update never subtracts an infinite difference.
TypeOK ==
  /\ IsBuilding(building)
  /\ cost \in [Edges -> Costs \cup {Unplanned}]
  /\ path \in [Edges -> {"none", "point", "path"}]
  /\ phase \in {"idle", "search", "done"}
  /\ edges \subseteq Edges
  /\ g \in [Vertices -> Costs]
  /\ came_from \in [Vertices -> Vertices \cup {None}]
  /\ closed \subseteq edges
  /\ DOMAIN open \subseteq edges /\ \A e \in DOMAIN open : open[e] \in Costs
  /\ best \in Costs
  /\ queries \in Nat /\ faults \in Nat

\* came_from is a forest: every non-empty set of vertices has one whose
\* predecessor is outside.  A cycle would make update_g_score_recursively and the
\* path reconstruction loop run for ever.
Acyclic ==
  \A S \in SUBSET Vertices : S # {} => \E v \in S : came_from[v] \notin S

\* The search tree is consistent: START is its root with g-score 0, every vertex
\* reached has a predecessor, the edge to the predecessor is closed and has a
\* path, and the g-score is the predecessor's plus the planned cost of that edge,
\* also after an improvement has been passed on to a whole subtree.
TreeConsistent ==
  phase # "idle" =>
    /\ g[Start] = 0 /\ came_from[Start] = None
    /\ \A v \in Vertices \ {Start} : g[v] # Inf <=> came_from[v] # None
    /\ \A v \in Vertices : came_from[v] # None =>
         LET e == {came_from[v], v} IN
           /\ e \in closed
           /\ path[e] # "none"
           /\ g[v] = Plus(g[came_from[v]], cost[e])

\* An edge is planned at most once per query: a closed edge is not open again.
NotReopened == phase # "idle" => closed \cap DOMAIN open = {}

\* What update_g_score_recursively and the reconstruction of the route rely on.
SearchTree == Acyclic /\ TreeConsistent /\ NotReopened

\* "No path found" is right: when the search ends without reaching GOAL, the
\* vertices it reached are cut off from the rest by edges whose planning failed.
FailureIsCut ==
  phase = "done" /\ best = Inf =>
    LET reached == {v \in Vertices : g[v] # Inf} IN
      /\ Start \in reached /\ Goal \notin reached
      /\ \A e \in edges : (\E u, v \in e : u \in reached /\ v \notin reached) =>
           cost[e] = Inf

-----------------------------------------------------------------------------
(* A reference for the cost of the best route *)

\* The routes from START to GOAL that visit no vertex twice, in a complete graph.
Routes ==
  {r \in UNION {[1..n -> Vertices] : n \in 2..Cardinality(Vertices)} :
     /\ r[1] = Start /\ r[Len(r)] = Goal
     /\ \A i, j \in DOMAIN r : r[i] = r[j] => i = j}

\* The cost of a route in the graph of the query, edge e costing w[e].
RouteCost(w, r) ==
  FoldSet(LAMBDA i, c : IF {r[i], r[i + 1]} \in edges THEN Plus(w[{r[i], r[i + 1]}], c) ELSE Inf,
          0, 1..Len(r) - 1)

ShortestRoute(w) == CHOOSE c \in {RouteCost(w, r) : r \in Routes} :
                      \A r \in Routes : LessEq(c, RouteCost(w, r))

\* The cost an edge has once it is expanded in this query.
ActualCost == [e \in Edges |-> IF cost[e] # Unplanned THEN cost[e] ELSE building.real[e]]

\* No edge costs less than the straight line the heuristic takes it for.
NoCheapEdges == \A e \in edges : LessEq(building.est[e], ActualCost[e])

\* The route returned is the cheapest one ("a single optimal output path"), also when
\* vertices are improved after their edges were expanded, as long as no edge is
\* cheaper than its estimate.
Optimal == phase = "done" /\ NoCheapEdges => g[Goal] = ShortestRoute(ActualCost)

\* If the building has a route a query finds one, whatever earlier queries stored on
\* the edges, as long as no room planner call has failed without a reason.
FindsExistingRoute ==
  phase = "done" /\ faults = 0 /\ ShortestRoute(building.real) # Inf => best # Inf

\* Every search ends: an iteration of the loop closes one more of the finitely
\* many edges of the query's graph, which do not change while it searches.
SearchEnds ==
  [][phase = "search" =>
       \/ phase' = "idle"
       \/ edges' = edges /\ closed' \subseteq edges /\ \E e \in edges \ closed : e \in closed']_vars

=============================================================================
