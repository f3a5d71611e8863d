----------------------------- MODULE RouteGraph -----------------------------
(***************************************************************************)
(* nav2_route: routes on a given graph of nodes and directed edges.        *)
(***************************************************************************)
EXTENDS CostmapAlgorithms, Routes

-----------------------------------------------------------------------------
(***************************************************************************)
(* RoutePlanner with the pruning of GoalIntentExtractor: two requests, one *)
(* after the other, to one planner, whose queue_ is a member and survives  *)
(* an exception.  An iteration of Dijkstra's search is a step.             *)
(*                                                                         *)
(* An edge is [id, s, e, cost]: cost is what the scorers or the graph give *)
(* (0: none that is valid, the search throws), -1 an edge a scorer refuses.*)
(*                                                                         *)
(*   queue    <<cost, node, request>>: what is pushed and not yet popped   *)
(*   search   per node: integrated_cost, parent_edge, traversal_cost       *)
(***************************************************************************)

CONSTANTS
  GrNodes,       \* the nodes are 1 .. GrNodes
  GrPlaces,      \* the place of each node
  GrEdges,       \* the graphs: sequences of edges
  GrRequests,    \* [start, goal, from, to, blocked]: nodes, poses and blocked ids
  GrIterations   \* max_iterations

Infinite == 1000000
NoEdge == 0
Unsearched == [cost |-> Infinite, parent |-> NoEdge, traversal |-> 0]
resetSearchStates == [n \in 1 .. GrNodes |-> Unsearched]

\* The cost of an edge, -1 if it is not to be expanded, 0 if the search throws.
getTraversalCost(edge, blocked) ==
  IF edge.id \in blocked \/ edge.e \in blocked THEN -1 ELSE edge.cost

\* The edges of the popped node, in their order, up to one that throws.
relaxed(edges, node, blocked, request, before) ==
  FoldLeft(
    LAMBDA acc, k :
      LET edge == edges[k]
          cost == getTraversalCost(edge, blocked)
          potential == acc.search[node].cost + cost IN
      IF edge.s # node \/ acc.thrown \/ cost = -1 THEN acc
      ELSE IF cost = 0 THEN [acc EXCEPT !.thrown = TRUE]
      ELSE IF potential < acc.search[edge.e].cost
      THEN [acc EXCEPT !.search[edge.e] = [cost |-> potential, parent |-> k, traversal |-> cost],
                       !.queue = @ \cup {<<potential, edge.e, request>>}]
      ELSE acc,
    before, [k \in DOMAIN edges |-> k])

\* findRoute begins: graph and poses are there, start and goal differ.
RouteRequested ==
  /\ In({"route"}, "idle") /\ part' = part
  /\ st.requests < 2
  /\ \E r \in GrRequests :
       /\ r.start # r.goal
       /\ st' = [st EXCEPT
                   !.at = "search", !.requests = @ + 1, !.request = r, !.iterations = 0,
                   !.search = [resetSearchStates EXCEPT ![r.start].cost = 0],
                   !.queue = @ \cup {<<0, r.start, st.requests + 1>>}]

\* An iteration: the cheapest entry (of several as cheap, any) is popped; one that is no
\* longer the cost of its node is skipped; the goal ends the search.
findShortestGraphTraversal ==
  /\ In({"route"}, "search") /\ part' = part
  /\ st.queue # {} /\ st.iterations < GrIterations
  /\ \E next \in st.queue :
       /\ \A other \in st.queue : next[1] <= other[1]
       /\ LET popped == [st EXCEPT !.queue = @ \ {next}, !.iterations = @ + 1]
              here == [search |-> st.search, queue |-> popped.queue, thrown |-> FALSE]
              after == relaxed(st.edges, next[2], st.request.blocked, st.requests, here) IN
          st' = IF next[1] # st.search[next[2]].cost THEN popped
                ELSE IF next[2] = st.request.goal
                THEN [popped EXCEPT !.queue = {}, !.at = "trace"]
                ELSE [popped EXCEPT !.search = after.search, !.queue = after.queue,
                                    !.at = IF after.thrown THEN "NO_VALID_GRAPH" ELSE "search"]
\* The queue is empty, or the iterations are used up.
SearchIsOver ==
  /\ In({"route"}, "search") /\ part' = part
  /\ st.queue = {} \/ st.iterations = GrIterations
  /\ st' = IF st.iterations = GrIterations
           THEN [st EXCEPT !.queue = {}, !.at = "TIMEOUT"] ELSE [st EXCEPT !.at = "trace"]

\* Back along the parent edges, at most over every node once.
tracedFrom(edges, search, goal) ==
  LET back[n \in 0 .. GrNodes] ==
        IF n = 0 THEN <<>>
        ELSE LET rest == back[n - 1]
                 at == IF rest = <<>> THEN goal ELSE edges[Head(rest)].s
                 parent == search[at].parent IN
             IF parent = NoEdge THEN rest ELSE <<parent>> \o rest
  IN  back[GrNodes]
\* findRoute: no parent edge at the goal is no route.
findRoute ==
  /\ In({"route"}, "trace") /\ part' = part
  /\ LET goal == st.request.goal IN
     st' = IF st.search[goal].parent = NoEdge THEN [st EXCEPT !.at = "NO_VALID_ROUTE"]
           ELSE [st EXCEPT !.at = "found", !.start = st.request.start,
                           !.route = tracedFrom(st.edges, st.search, goal),
                           !.cost = st.search[goal].cost]

\* The distance of a pose to the edge a-b is at most d (closest point of the segment).
Length2(v) == Dot(v, v)
findClosestPoint(pose, a, b) ==
  LET along == Dot(Minus(b, a), Minus(pose, a)) IN
  IF Minus(b, a) = Still \/ along <= 0 THEN "start"
  ELSE IF along >= Length2(Minus(b, a)) THEN "end" ELSE "between"
CloseToEdge(pose, a, b, d) ==
  LET v == Minus(b, a)
      u == Minus(pose, a)
      cross == (v[1] * u[2]) - (v[2] * u[1]) IN
  CASE findClosestPoint(pose, a, b) = "start" -> Length2(u) <= d * d
    [] findClosestPoint(pose, a, b) = "end" -> Length2(Minus(pose, b)) <= d * d
    [] OTHER -> cross * cross <= d * d * Length2(v)
\* Poses are places; a pose prunes an end node if it is past it along the edge, farther
\* than 0 from it and within 1 of the edge.
pruneStartandGoal ==
  /\ In({"route"}, "found") /\ part' = part
  /\ LET edges == st.edges
         place(n) == GrPlaces[n]
         first == edges[Head(st.route)]
         cutStart == /\ Dot(Minus(place(first.e), place(st.start)), Minus(st.request.from, place(st.start))) > 0
                     /\ CloseToEdge(st.request.from, place(st.start), place(first.e), 1)
         kept == IF cutStart THEN Tail(st.route) ELSE st.route
         last == edges[Last(kept)]
         cutGoal == /\ kept # <<>>
                    /\ Dot(Minus(place(last.e), place(last.s)), Minus(st.request.to, place(last.e))) < 0
                    /\ CloseToEdge(st.request.to, place(last.s), place(last.e), 1)
     IN  st' = [st EXCEPT
                  !.at = "pruned",
                  !.start = IF cutStart THEN first.e ELSE @,
                  !.route = IF cutGoal THEN Front(kept) ELSE kept,
                  !.cost = @ - (IF cutStart THEN st.search[first.e].traversal ELSE 0)
                             - (IF cutGoal THEN st.search[last.e].traversal ELSE 0)]

Answered == {"pruned", "NO_VALID_GRAPH", "NO_VALID_ROUTE", "TIMEOUT"}
RouteAnswered ==
  \E answer \in Answered : In({"route"}, answer) /\ part' = part /\ st' = [st EXCEPT !.at = "idle"]

RouteInit ==
  part = "route" /\
    st \in {[at |-> "idle", edges |-> g, queue |-> {}, search |-> resetSearchStates, requests |-> 0,
             request |-> r, iterations |-> 0, start |-> 1, route |-> <<>>, cost |-> 0] :
              g \in GrEdges, r \in {CHOOSE q \in GrRequests : TRUE}}
RouteNext ==
  \/ RouteRequested \/ findShortestGraphTraversal \/ SearchIsOver \/ findRoute
  \/ pruneStartandGoal \/ RouteAnswered

\* The walks along edges that may be expanded, without a node twice.
OpenEdges(edges, blocked) == {k \in DOMAIN edges : getTraversalCost(edges[k], blocked) > 0}
Walks(edges, blocked, from, to) ==
  { w \in UNION {[1 .. n -> OpenEdges(edges, blocked)] : n \in 1 .. GrNodes - 1} :
      /\ edges[w[1]].s = from /\ edges[Last(w)].e = to
      /\ \A i \in 1 .. Len(w) - 1 : edges[w[i]].e = edges[w[i + 1]].s }
WalkCost(edges, walk) == FoldLeft(LAMBDA sum, k : sum + edges[k].cost, 0, walk)

\* Whatever the request before it left in the planner's queue, a request is answered with
\* a cheapest route along edges that are open, and refused only if there is none; the
\* search throws only if an edge without a valid cost is there.
RouteIsCheapest ==
  part = "route" =>
    LET r == st.request
        walks == Walks(st.edges, r.blocked, r.start, r.goal) IN
    /\ st.at = "found" => /\ st.route \in walks
                          /\ st.cost = WalkCost(st.edges, st.route)
                          /\ \A w \in walks : st.cost <= WalkCost(st.edges, w)
    /\ st.at = "NO_VALID_ROUTE" => walks = {}
    /\ st.at = "NO_VALID_GRAPH" => \E k \in DOMAIN st.edges : st.edges[k].cost = 0

\* What is left of a route after pruning is a walk from the node it now starts at, and the
\* cost told with it is that of the edges that are left.
PrunedCostIsRest ==
  In({"route"}, "pruned") =>
    /\ st.cost = WalkCost(st.edges, st.route)
    /\ st.route # <<>> => st.edges[Head(st.route)].s = st.start
    /\ \A i \in 1 .. Len(st.route) - 1 : st.edges[st.route[i]].e = st.edges[st.route[i + 1]].s

-----------------------------------------------------------------------------
(***************************************************************************)
(* EdgeScorer and its plugins.  An edge as they see it:                    *)
(*   length, dyaw      its length and its angle to the pose                *)
(*   type, poses       "START", "END" or "NONE"; the request has poses     *)
(*   speed, penalty, time, class    its metadata; 0 or "" where not set    *)
(*   cells             the costs of the costmap along it, <<>> if an end   *)
(*                     is off the costmap; NoCostmap if none was received  *)
(*   closed, adjusted  what the service of the dynamic scorer was told     *)
(* A plugin refuses the edge, throws, or adds a cost (in hundredths).      *)
(***************************************************************************)

CONSTANTS ScEdges, ScPlugins

NoCostmap == <<-1>>
Refused == [ok |-> FALSE, thrown |-> FALSE, cost |-> 0]
Thrown == [ok |-> FALSE, thrown |-> TRUE, cost |-> 0]
Scored(cost) == [ok |-> TRUE, thrown |-> FALSE, cost |-> cost]

\* max_cost is 253, collisions and edges off the map are invalid and every second cell is
\* looked at, as configured by default.  An unknown cell (255) is above max_cost.
CostmapScorer(e, use_max) ==
  LET seen == {k \in DOMAIN e.cells : k % 2 = 1}
      sum == FoldLeft(LAMBDA acc, k : acc + e.cells[k], 0, SetToSeq(seen)) IN
  IF e.cells = NoCostmap \/ e.cells = <<>> THEN Refused
  ELSE IF \E k \in seen : e.cells[k] >= 253 THEN Refused
  ELSE IF use_max THEN Scored((100 * Max({e.cells[k] : k \in seen})) \div 253)
  ELSE Scored((100 * sum) \div (253 * Cardinality(seen)))
DistanceScorer(e) == Scored((100 * e.length) \div (IF e.speed = 0 THEN 1 ELSE e.speed))
DynamicEdgesScorer(e) == IF e.closed THEN Refused ELSE Scored(100 * e.adjusted)
\* use_orientation_threshold makes an edge with an angle above the tolerance invalid.
GoalOrientationScorer(e, threshold) ==
  IF ~e.poses THEN Thrown
  ELSE IF e.type # "END" THEN Scored(0)
  ELSE IF threshold /\ e.dyaw > 2 THEN Refused ELSE Scored(100 * e.dyaw)
StartPoseOrientationScorer(e, threshold) ==
  IF ~e.poses THEN Thrown
  ELSE IF e.type # "START" THEN Scored(0)
  ELSE IF threshold /\ e.dyaw > 2 THEN Refused ELSE Scored(100 * e.dyaw)
PenaltyScorer(e) == Scored(100 * e.penalty)
SemanticScorer(e) == Scored(IF e.class = "slow" THEN 300 ELSE 0)
\* A time that was measured before the speed limit, and that before the largest speed.
TimeScorer(e) ==
  IF e.time > 0 THEN Scored(100 * e.time)
  ELSE Scored((100 * e.length) \div (IF e.speed = 0 THEN 2 ELSE e.speed))

pluginScore(plugin, e) ==
  CASE plugin \in {"costmap", "costmapMean"} -> CostmapScorer(e, plugin = "costmap")
    [] plugin = "distance" -> DistanceScorer(e)
    [] plugin = "dynamic" -> DynamicEdgesScorer(e)
    [] plugin \in {"goal", "goalStrict"} -> GoalOrientationScorer(e, plugin = "goalStrict")
    [] plugin \in {"start", "startStrict"} -> StartPoseOrientationScorer(e, plugin = "startStrict")
    [] plugin = "penalty" -> PenaltyScorer(e)
    [] plugin = "semantic" -> SemanticScorer(e)
    [] plugin = "time" -> TimeScorer(e)
\* EdgeScorer::score: the plugins in their order, up to one that refuses or throws.
edgeScore(plugins, e) ==
  FoldLeft(LAMBDA total, plugin :
             IF ~total.ok THEN total
             ELSE LET one == pluginScore(plugin, e) IN
                  IF one.ok THEN Scored(total.cost + one.cost) ELSE one,
           Scored(0), plugins)
scoresEdge == Returns("edgeScore", edgeScore(st.in[1], st.in[2]))

\* An edge has a cost only if no plugin refuses it and none throws, however they are
\* ordered, and in any order it has the same one; it is never negative, as the search
\* needs it.
ScoreIgnoresOrder ==
  Done("edgeScore") =>
    LET plugins == st.in[1]
        e == st.in[2]
        all == {pluginScore(plugins[k], e) : k \in DOMAIN plugins} IN
    /\ st.out.ok <=> \A one \in all : one.ok
    /\ st.out.ok => edgeScore(Reverse(plugins), e) = st.out /\ st.out.cost >= 0
    /\ st.out.thrown => \E one \in all : one.thrown

-----------------------------------------------------------------------------
(***************************************************************************)
(* A graph in a file: GraphSaver with the GeoJSON saver, then GraphLoader  *)
(* with the GeoJSON loader.  A node is [id, frame, x, ops], an edge is     *)
(* [id, s, e, cost, ops]; s and e are indices of nodes in memory and ids   *)
(* of nodes in the file.  An operation is [type, data].  The frame "other" *)
(* is one to the left of the frame of the route.                           *)
(***************************************************************************)

CONSTANTS RfGraphs

DeletedId == 2147483647
\* A JSON object with a member per type: a later operation replaces one of its type, and
\* the members come in the order of their names.
convertOperationsToJson(ops) ==
  LET lastOf(type) == Max({k \in DOMAIN ops : ops[k].type = type})
      types == SetToSortSeq({ops[k].type : k \in DOMAIN ops}, <)
  IN  [k \in DOMAIN types |-> ops[lastOf(types[k])]]
\* A number that is not negative comes back as unsigned.
convertMetaData(data) == IF data.kind = "int" /\ data.value >= 0 THEN [data EXCEPT !.kind = "unsigned"] ELSE data
loadNodesFromGraph(g) ==
  [k \in 1 .. Len(SelectSeq(g.nodes, LAMBDA n : n.id # DeletedId)) |->
     LET n == SelectSeq(g.nodes, LAMBDA m : m.id # DeletedId)[k]
     IN  [n EXCEPT !.ops = convertOperationsToJson(n.ops)]]
\* Node by node, the edges that start there.
loadEdgesFromGraph(g) ==
  FlattenSeq([n \in DOMAIN g.nodes |->
    LET at == SelectSeq(g.edges, LAMBDA e : e.s = n)
    IN  [k \in DOMAIN at |-> [at[k] EXCEPT !.s = g.nodes[at[k].s].id, !.e = g.nodes[at[k].e].id,
                                           !.ops = convertOperationsToJson(@)]]])
saveGraphToFile(g) == [nodes |-> loadNodesFromGraph(g), edges |-> loadEdgesFromGraph(g)]

\* The transform to the frame of the route; it fails if the frame is not known.
transformGraph(nodes) ==
  [k \in DOMAIN nodes |->
     IF nodes[k].frame = "other" THEN [nodes[k] EXCEPT !.frame = "map", !.x = @ + 1] ELSE nodes[k]]
convertOperationsFromJson(ops) == [k \in DOMAIN ops |-> [ops[k] EXCEPT !.data = convertMetaData(@)]]
addNodesToGraph(file) ==
  [k \in DOMAIN file.nodes |-> [file.nodes[k] EXCEPT !.ops = convertOperationsFromJson(@)]]
\* Of two nodes with one id the later is the one that edges mean.
indexOf(nodes, id) == Max({k \in DOMAIN nodes : nodes[k].id = id})
addEdgesToGraph(file) ==
  [k \in DOMAIN file.edges |->
     [file.edges[k] EXCEPT !.s = indexOf(file.nodes, @), !.e = indexOf(file.nodes, @),
                           !.ops = convertOperationsFromJson(@)]]
\* No nodes or no edges is a refusal, an edge at a node that is not there an exception.
loadGraphFromFile(file) ==
  IF file.nodes = <<>> \/ file.edges = <<>> THEN "refused"
  ELSE IF \E k \in DOMAIN file.edges :
            {file.edges[k].s, file.edges[k].e} \ {file.nodes[n].id : n \in DOMAIN file.nodes} # {}
  THEN "thrown"
  ELSE IF \E n \in DOMAIN file.nodes : file.nodes[n].frame = "unknown" THEN "refused"
  ELSE "loaded"
loadedGraph(file) ==
  IF loadGraphFromFile(file) # "loaded" THEN [nodes |-> <<>>, edges |-> <<>>]
  ELSE [nodes |-> transformGraph(addNodesToGraph(file)), edges |-> addEdgesToGraph(file)]
\* A graph that was loaded, saved and loaded again.
reloads ==
  Returns("routeFile", LET g == loadedGraph(st.in) IN [first |-> g, again |-> loadedGraph(saveGraphToFile(g))])

\* A graph that was loaded is loaded as it was after it was saved, with its edges grouped
\* by the node they start at, if no node or edge has two operations of one type, no two
\* nodes share an id and none has the one that marks a deleted node.
RouteGraphIsKept ==
  Done("routeFile") =>
    LET first == st.out.first
        again == st.out.again
        types(ops) == Cardinality({ops[k].type : k \in DOMAIN ops}) = Len(ops)
        plain == /\ \A k \in DOMAIN first.nodes : types(first.nodes[k].ops)
                 /\ \A k \in DOMAIN first.edges : types(first.edges[k].ops)
                 /\ Cardinality({first.nodes[k].id : k \in DOMAIN first.nodes}) = Len(first.nodes)
                 /\ \A k \in DOMAIN first.nodes : first.nodes[k].id # DeletedId
        asSet(x) == [x EXCEPT !.ops = ToSet(@)] IN
    plain =>
      /\ Len(again.nodes) = Len(first.nodes) /\ Len(again.edges) = Len(first.edges)
      /\ \A k \in DOMAIN first.nodes : asSet(again.nodes[k]) = asSet(first.nodes[k])
      /\ \A n \in DOMAIN first.nodes :
           LET from(g) == SelectSeq(g.edges, LAMBDA e : e.s = n) IN
           /\ Len(from(again)) = Len(from(first))
           /\ \A k \in DOMAIN from(first) : asSet(from(again)[k]) = asSet(from(first)[k])

-----------------------------------------------------------------------------
(***************************************************************************)
(* GoalIntentExtractor: the node a pose is taken for.  Of the nearest      *)
(* nodes it is the first, unless an obstacle is in between: then the one   *)
(* that a breadth-first search of the costmap reaches first.  The costmap  *)
(* has GiWidth x GiHeight cells of side 1; lethal is its set of cells that *)
(* are in collision.                                                       *)
(***************************************************************************)

CONSTANTS
  GiWidth, GiHeight,
  GiGraphs,    \* the graphs: sequences of places of nodes
  GiNearest    \* num_nearest_nodes

GiCells == (0 .. GiWidth - 1) \X (0 .. GiHeight - 1)

\* knnSearch, nearest first; a graph with fewer nodes leaves zeros, the first node.
findNearestGraphNodesToPose(graph, pose) ==
  LET far(n) == Length2(Minus(graph[n], pose))
      sorted == SetToSortSeq(DOMAIN graph, LAMBDA m, n : far(m) < far(n) \/ (far(m) = far(n) /\ m < n))
  IN  [k \in 1 .. GiNearest |-> IF k <= Len(sorted) THEN sorted[k] ELSE 1]

isInCollision(lethal, from, to) == \E k \in DOMAIN LineIterator(from, to) : LineIterator(from, to)[k] \in lethal

\* The neighbours of a cell that are on the costmap and free, in the order of the offsets.
bfsNeighbors(lethal, cell) ==
  LET offsets == <<<<-1, 0>>, <<1, 0>>, <<0, -1>>, <<0, 1>>, <<-1, -1>>, <<1, -1>>, <<-1, 1>>, <<1, 1>>>>
      all == [k \in DOMAIN offsets |-> <<cell[1] + offsets[k][1], cell[2] + offsets[k][2]>>]
  IN  SelectSeq(all, LAMBDA c : c \in GiCells \ lethal)
\* BreadthFirstSearch::search: the place among the candidates on the map of the first that
\* is reached (0: none).
bfsSearch(lethal, pose, candidates) ==
  LET onMap == SelectSeq(candidates, LAMBDA c : c \in GiCells)
      RECURSIVE walk(_, _)
      walk(queue, visited) ==
        IF queue = <<>> THEN 0
        ELSE LET here == Head(queue)
                 new == SelectSeq(bfsNeighbors(lethal, here), LAMBDA c : c \notin visited) IN
             IF here \in ToSet(onMap)
             THEN CHOOSE k \in DOMAIN onMap : onMap[k] = here /\ \A j \in 1 .. k - 1 : onMap[j] # here
             ELSE walk(Tail(queue) \o new, visited \cup ToSet(new))
  IN  IF pose \notin GiCells THEN 0 ELSE walk(<<pose>>, {pose})
\* The index into the candidates on the map is used for all of them.
findStartandGoal(graph, lethal, pose) ==
  LET near == findNearestGraphNodesToPose(graph, pose)
      candidates == [k \in DOMAIN near |-> graph[near[k]]]
      found == bfsSearch(lethal, pose, candidates) IN
  IF Len(near) > 1 /\ {candidates[1], pose} \subseteq GiCells /\ isInCollision(lethal, candidates[1], pose)
       /\ found # 0
  THEN near[found] ELSE near[1]
findsNode == Returns("goalIntent", findStartandGoal(st.in.graph, st.in.lethal, st.in.pose))

\* The cells within n steps of a pose.
RECURSIVE Around(_, _, _)
Around(lethal, pose, n) ==
  IF n = 0 THEN {pose}
  ELSE LET inner == Around(lethal, pose, n - 1)
       IN  inner \cup {c \in GiCells \ lethal : \E i \in inner : Abs(c[1] - i[1]) <= 1 /\ Abs(c[2] - i[2]) <= 1}
StepsTo(lethal, pose, cell) ==
  LET n == {k \in 0 .. GiWidth * GiHeight : cell \in Around(lethal, pose, k)}
  IN  IF n = {} THEN Infinite ELSE Min(n)

\* The node taken is the nearest, or no other of the nearest nodes is fewer steps away.
NodeIsNearest(graph, lethal, pose, node) ==
  LET near == findNearestGraphNodesToPose(graph, pose) IN
  \/ node = near[1]
     /\ \/ {graph[node], pose} \ GiCells # {}
        \/ ~isInCollision(lethal, graph[node], pose)
        \/ \A k \in DOMAIN near : StepsTo(lethal, pose, graph[near[k]]) >= StepsTo(lethal, pose, graph[node])
  \/ \A k \in DOMAIN near :
       StepsTo(lethal, pose, graph[node]) <= StepsTo(lethal, pose, graph[near[k]])
\* Among nodes that are all on the costmap, a pose is taken for the nearest in sight and
\* otherwise for one that can be reached in the fewest steps.
IntentIsNearest ==
  Done("goalIntent") /\ (\A n \in DOMAIN st.in.graph : st.in.graph[n] \in GiCells) =>
    NodeIsNearest(st.in.graph, st.in.lethal, st.in.pose, st.out)
\* The same with nodes off the costmap.  It does not hold: README, Disagreements.
IntentIsNearestAnywhere ==
  Done("goalIntent") => NodeIsNearest(st.in.graph, st.in.lethal, st.in.pose, st.out)

-----------------------------------------------------------------------------
(***************************************************************************)
(* PathConverter::densify with CornerArc: poses along the route, rounding  *)
(* corners if asked to.  A route is given by the directions and lengths of *)
(* its edges on a rectangular grid; a pose is where it lies along the path *)
(* (s), on an edge or an arc.  The arc of a right angle with radius r cuts *)
(* r off both edges and is 157 / 100 r long.                               *)
(***************************************************************************)

CONSTANTS
  DnDensity, DnRadius,
  DnRoutes     \* sequences of [dir, len], dir \in 0 .. 3: quarter turns

Ceiling(n, d) == (n + d - 1) \div d
ArcLength == (157 * DnRadius) \div 100

\* n poses from s on, the last one step before the end.
interpolateEdge(s, length) ==
  LET num == Ceiling(length, DnDensity)
  IN  [i \in 1 .. num |-> s + ((i - 1) * length) \div num]
\* From s on, both ends included.
interpolateArc(s) ==
  LET num == Greatest(1, Ceiling(ArcLength, DnDensity))
  IN  [i \in 1 .. num + 1 |-> s + ((i - 1) * ArcLength) \div num]
\* The corner between an edge of which `left' is left and the next one: no arc at a
\* straight line or a turning back, nor where an edge is too short.
CornerArc(left, edge, next) ==
  /\ left > 0 /\ next.len > 0
  /\ (next.dir - edge.dir) % 2 = 1
  /\ DnRadius < left /\ DnRadius < next.len

\* partial: the rest of the edge the robot is on, after rerouting.
densify(route, partial, smooth) ==
  LET before == [poses |-> interpolateEdge(0, partial), s |-> partial, cut |-> 0]
      edge(acc, k) ==
        LET left == route[k].len - acc.cut IN
        IF k < Len(route) /\ smooth /\ CornerArc(left, route[k], route[k + 1])
        THEN LET bend == acc.s + left - DnRadius IN
             [poses |-> acc.poses \o interpolateEdge(acc.s, left - DnRadius) \o interpolateArc(bend),
              s |-> bend + ArcLength, cut |-> DnRadius]
        ELSE [poses |-> acc.poses \o interpolateEdge(acc.s, left), s |-> acc.s + left, cut |-> 0]
      all == FoldLeft(edge, before, [k \in DOMAIN route |-> k])
  IN  [poses |-> Append(all.poses, all.s), length |-> all.s]
densifies == Returns("densify", densify(st.in.route, st.in.partial, st.in.smooth))

\* The poses go from the start to the end of the route, never back, and no gap between two
\* is wider than the density; where no corner is rounded no pose comes twice, so that each
\* has a heading, the direction to the next.
PathIsDense ==
  Done("densify") =>
    LET poses == st.out.poses
        steps == {poses[k + 1] - poses[k] : k \in 1 .. Len(poses) - 1} IN
    /\ poses[1] = 0 /\ Last(poses) = st.out.length
    /\ \A d \in steps : 0 <= d /\ d <= DnDensity
    /\ ~st.in.smooth => 0 \notin steps
\* No pose comes twice.  It does not hold: README, Disagreements.
PosesHaveHeadings ==
  Done("densify") => \A k \in 1 .. Len(st.out.poses) - 1 : st.out.poses[k] # st.out.poses[k + 1]

-----------------------------------------------------------------------------
RouteGraphInit ==
  \/ RouteInit
  \/ Call("edgeScore", ScPlugins \X ScEdges)
  \/ Call("routeFile", RfGraphs)
  \/ Call("goalIntent", [graph : GiGraphs, lethal : SUBSET GiCells, pose : GiCells])
  \/ Call("densify", [route : DnRoutes, partial : {0, DnDensity - 10}, smooth : BOOLEAN])
RouteGraphNext == RouteNext \/ scoresEdge \/ reloads \/ findsNode \/ densifies
=============================================================================
