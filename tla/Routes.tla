------------------------------- MODULE Routes -------------------------------
(***************************************************************************)
(* Routes through a building: the graph of rooms that is searched, and the *)
(* path that is put together from its edges.                               *)
(***************************************************************************)
EXTENDS Component, SequencesExt, FiniteSetsExt

-----------------------------------------------------------------------------
(***************************************************************************)
(* From a building to a route through it: the topological map that         *)
(* TopologyManager generates from the rooms, doors and stairs of the IFC   *)
(* model, the START and GOAL nodes GppBimServer adds to its copy, the      *)
(* pruning of the graph, the detailed path put together along the route    *)
(* and its floor segments.  Geometry is reduced to "touches"; the place of *)
(* a pose is the node it is at, or the edge it is inside.                  *)
(***************************************************************************)

CONSTANTS RgRooms, RgDoors, RgStairs

Rooms == 1 .. RgRooms
\* Floor 1 is below floor 2; a room lies on one of them.
RgFloors == {f \in [Rooms -> {1, 2}] : f[1] = 1}
\* What stands in the building: which rooms a door touches, which rooms the
\* lower and the upper end of the stair touch, and where START and GOAL lie.
\* The elements of the IFC file come in any order: the stair first or last.
Buildings ==
  { [floor |-> f, doors |-> d, stair |-> s, first |-> b, from |-> r, to |-> q] :
      f \in RgFloors, d \in [1 .. RgDoors -> SUBSET Rooms \ {{}}], s \in RgStairs,
      b \in BOOLEAN, r \in Rooms, q \in Rooms }
RoomGraphs ==
  { in \in Buildings :
      /\ \A k \in 1 .. RgDoors : \A r, q \in in.doors[k] : in.floor[r] = in.floor[q]
      /\ in.first => in.stair # <<>> }

-----------------------------------------------------------------------------
(* TopologyManager *)

\* The geometric tests answer with the rooms given as touching: a buffer around
\* the end of a stair, and a door pushed out to both of its sides.
check_adjacency(in, end) == in.stair[end]
check_adjacency_perpendicular(in, k) == in.doors[k]
\* The room an end of the stair is given: the last one that touches it on the
\* floor of that end (0: none).
find_spatial_relationships(in, end) ==
  LET near == {r \in check_adjacency(in, end) : in.floor[r] = end}
  IN  IF near = {} THEN 0 ELSE CHOOSE r \in near : \A q \in near : q <= r
\* A stair that has both ends is three nodes.
add_to_topology_graph(in) ==
  IF in.stair = <<>> THEN <<>> ELSE <<"stair", "stair_start", "stair_end">>
\* Two floors, the rooms, then the elements, those a robot cannot use among them.
topologyNodes(in) ==
  LET doors == [k \in 1 .. RgDoors |-> "door"]
  IN  <<"floor", "floor">> \o [r \in Rooms |-> "room"] \o <<"wall">>
        \o IF in.first THEN add_to_topology_graph(in) \o doors
           ELSE doors \o add_to_topology_graph(in)
remove_unnecessary_nodes_and_attributes(nodes) == SelectSeq(nodes, LAMBDA t : t # "wall")
\* The id of a node is its place among those that are left.
convert_to_integer_ids(in) == remove_unnecessary_nodes_and_attributes(topologyNodes(in))
NodeOf(names, type) == CHOOSE n \in DOMAIN names : names[n] = type
RoomNode(r) == r + 2
DoorNode(in, k) == 2 + RgRooms + k + IF in.first THEN 3 ELSE 0
\* The edges of type "room".
build_topology_graph(in) ==
  LET names == convert_to_integer_ids(in)
      end(e) == NodeOf(names, IF e = 1 THEN "stair_start" ELSE "stair_end")
  IN  UNION { { {DoorNode(in, k), RoomNode(r)} : r \in check_adjacency_perpendicular(in, k) } : k \in 1 .. RgDoors }
      \cup IF in.stair = <<>> THEN {}
           ELSE UNION { { {end(e), NodeOf(names, "stair")} }
                        \cup { {end(e), RoomNode(r)} : r \in {find_spatial_relationships(in, e)} \ {0} }
                        : e \in {1, 2} }

Transition(type) == type \in {"door", "stair_start", "stair_end", "start", "goal"}
\* Two transitions of one room, stair or ramp are joined, once: the first room
\* that has them both gives the edge its room_id.
add_transition_edges(names, roomEdges) ==
  LET shared(t, u) == {r \in DOMAIN names : {r, t} \in roomEdges /\ {r, u} \in roomEdges}
      pairs == { p \in SUBSET {n \in DOMAIN names : Transition(names[n])} :
                   Cardinality(p) = 2 /\ \E t, u \in p : t # u /\ shared(t, u) # {} }
  IN  [p \in pairs |-> CHOOSE r \in DOMAIN names :
         LET s == {q \in DOMAIN names : \A t \in p : {q, t} \in roomEdges}
         IN  r \in s /\ \A q \in s : r <= q]
\* A node's floors: a stair has none of its own.
FloorOf(in, names, n) ==
  CASE names[n] = "room" -> {in.floor[n - 2]}
    [] names[n] = "door" -> UNION { {in.floor[r] : r \in in.doors[k]} :
                                      k \in {j \in 1 .. RgDoors : DoorNode(in, j) = n} }
    [] names[n] = "stair_start" -> {1}
    [] names[n] = "stair_end" -> {2}
    [] names[n] = "start" -> {in.floor[in.from]}
    [] names[n] = "goal" -> {in.floor[in.to]}
    [] OTHER -> {}

-----------------------------------------------------------------------------
(* createVirtualNodes, materializeGraphInPlace, pruneGraph *)

\* START and GOAL are the last vertices and have the two largest ids.
materialized(in) == convert_to_integer_ids(in) \o <<"start", "goal">>
Start(names) == Len(names) - 1
Goal(names) == Len(names)
\* Their edges: to every transition of their room, to the room, and to each
\* other in the same room.
createVirtualNodes(in, roomEdges) ==
  LET names == materialized(in)
      of(v, r) == { {v, t} : t \in {u \in DOMAIN names : Transition(names[u]) /\ {u, RoomNode(r)} \in roomEdges} }
  IN  of(Start(names), in.from) \cup of(Goal(names), in.to)
      \cup IF in.from = in.to THEN { {Start(names), Goal(names)} } ELSE {}
virtualRoomEdges(in) ==
  { {Start(materialized(in)), RoomNode(in.from)}, {Goal(materialized(in)), RoomNode(in.to)} }

Graph(in) ==
  LET roomEdges == build_topology_graph(in)
  IN  [names |-> materialized(in),
       room |-> roomEdges \cup virtualRoomEdges(in),
       transition |-> DOMAIN add_transition_edges(convert_to_integer_ids(in), roomEdges)
                        \cup createVirtualNodes(in, roomEdges)]
\* The component of v among the enabled vertices (boost::connected_components).
RECURSIVE Component_(_, _, _)
Component_(edges, enabled, reached) ==
  LET next == {v \in enabled : \E u \in reached : {u, v} \in edges} \ reached
  IN  IF next = {} THEN reached ELSE Component_(edges, enabled, reached \cup next)
Reach(edges, enabled, v) == IF v \in enabled THEN Component_(edges, enabled, {v}) ELSE {}

\* Mistake: whatever falls off with the transition is cut, the goal included.
pruneTransitionBlind(g, disabled, v) ==
  LET rest == DOMAIN g.names \ (disabled \cup {v})
      kept == Reach(g.room \cup g.transition, rest, Start(g.names))
  IN  IF v \in disabled \/ kept = rest THEN disabled
      ELSE disabled \cup {v} \cup (rest \ kept)
\* One turn of the loop over the transitions that were enabled before it.
pruneTransition(g, disabled, v) ==
  LET all == DOMAIN g.names
      edges == g.room \cup g.transition
      rooms == {r \in all \ disabled : {v, r} \in g.room}
      rest == all \ (disabled \cup {v})
      kept == Reach(edges, rest, Start(g.names))
  IN  IF v \in disabled THEN disabled
      ELSE IF Cardinality(rooms) < 2 THEN disabled \cup {v}
      ELSE IF kept # rest /\ Goal(g.names) \in kept THEN disabled \cup {v} \cup (rest \ kept)
      ELSE disabled
\* On one floor, the others go if the goal stays within reach.
pruneFloors(in, g, disabled) ==
  LET here == FloorOf(in, g.names, Start(g.names))
      others == {v \in DOMAIN g.names : FloorOf(in, g.names, v) \cap here = {}}
      kept == Reach(g.room \cup g.transition, DOMAIN g.names \ (disabled \cup others), Start(g.names))
  IN  IF FloorOf(in, g.names, Goal(g.names)) \cap here # {} /\ Goal(g.names) \in kept
      THEN disabled \cup others ELSE disabled
pruneGraph(in, g) ==
  LET all == DOMAIN g.names
      edges == g.room \cup g.transition
      floors == {v \in all : g.names[v] = "floor"}
      other == pruneFloors(in, g, floors)
      alone == other \cup ((all \ other) \ Reach(edges, all \ other, Start(g.names)))
      loop == SelectSeq([v \in 1 .. Len(g.names) |-> v],
                        LAMBDA v : v \notin alone /\ g.names[v] \in {"door", "stair_start", "stair_end"})
  IN  IF Goal(g.names) \notin Reach(edges, all \ floors, Start(g.names))
         \/ {Start(g.names), Goal(g.names)} \in g.transition
      THEN floors
      ELSE FoldLeft(LAMBDA acc, v : pruneTransition(g, acc, v), alone, loop)
\* The vertices the search may not use: everything that is no transition, and
\* what was pruned when the distance makes pruning worth while.
disabledVertices(in, g, prune) ==
  {v \in DOMAIN g.names : ~Transition(g.names[v])} \cup IF prune THEN pruneGraph(in, g) ELSE {}

-----------------------------------------------------------------------------
(* planTopomapPath: what is done with the route, and calculateFloorSegments *)

\* The pruned graph; then any route the search may come back with.
Routed == In({"roomGraph"}, "routed")
PrunesGraph ==
  /\ In({"roomGraph"}, "call") /\ part' = part
  /\ \E prune \in BOOLEAN :
       st' = [at |-> "pruned", in |-> st.in,
              off |-> disabledVertices(st.in, Graph(st.in), prune)]
\* A path stored at an edge leads from its lower vertex to its upper one: that
\* is how the second level is asked, and how a stair's walking line runs.
SegmentOf(u, v) == <<{Least(u, v)}, {u, v}, {Greatest(u, v)}>>
\* The order of the vertices is that of the nodes in the file; the assembly
\* compares the ids, which were given in that order.
idOf(names, v) == v - 1
assembled(names, route) ==
  FoldLeft(LAMBDA acc, k :
             acc \o (IF idOf(names, route[k]) < idOf(names, route[k + 1])
                     THEN SegmentOf(route[k], route[k + 1])
                     ELSE Reverse(SegmentOf(route[k], route[k + 1]))),
           <<>>, [k \in 1 .. Len(route) - 1 |-> k])
Stairs(names, u, v) == {names[u], names[v]} = {"stair_start", "stair_end"}
\* One floor segment per stretch between stairs; the edges of a stair end one.
RECURSIVE floorStretches(_, _, _, _)
floorStretches(names, route, k, open) ==
  IF k >= Len(route) THEN <<>>
  ELSE IF Stairs(names, route[k], route[k + 1]) THEN floorStretches(names, route, k + 1, FALSE)
  ELSE LET rest == floorStretches(names, route, k + 1, TRUE)
           joined == k + 1 < Len(route) /\ ~Stairs(names, route[k + 1], route[k + 2])
           end == IF joined THEN Head(rest).to ELSE route[k + 1]
       IN  <<[from |-> route[k], to |-> end]>> \o (IF joined THEN Tail(rest) ELSE rest)
firstAt(path, n) == CHOOSE k \in 1 .. Len(path) : path[k] = {n} /\ \A j \in 1 .. k - 1 : path[j] # {n}
calculateFloorSegments(in, names, route, path) ==
  LET stretches == floorStretches(names, route, 1, FALSE)
  IN  [k \in 1 .. Len(stretches) |->
         [floor |-> FloorOf(in, names, stretches[k].from),
          from |-> firstAt(path, stretches[k].from),
          to |-> IF k = Len(stretches) THEN Len(path) ELSE firstAt(path, stretches[k].to)]]
\* The simple paths from START to GOAL.
Routes(g, off) ==
  LET inner == {v \in DOMAIN g.names : v \notin off} \ {Start(g.names), Goal(g.names)}
  IN  { r \in { <<Start(g.names)>> \o s \o <<Goal(g.names)>> : s \in UNION {[1 .. n -> inner] : n \in 0 .. Least(4, Cardinality(inner))} } :
          /\ IsInjective(r)
          /\ \A k \in 1 .. Len(r) - 1 : {r[k], r[k + 1]} \in g.transition }
AssemblesPath ==
  /\ In({"roomGraph"}, "pruned") /\ part' = part
  /\ LET g == Graph(st.in)
     IN  \E route \in Routes(g, st.off) :
           LET path == assembled(g.names, route)
           IN  st' = [at |-> "routed", in |-> st.in, route |-> route, path |-> path,
                      segments |-> calculateFloorSegments(st.in, g.names, route, path)]

RoomGraphInit == Call("roomGraph", RoomGraphs)
RoomGraphNext == PrunesGraph \/ AssemblesPath

-----------------------------------------------------------------------------
\* Pruning never takes away the last way from START to GOAL (pruneGraph, over
\* all floors, doors that touch several rooms and stairs).
PruneKeepsRoute ==
  In({"roomGraph"}, "pruned") =>
    LET g == Graph(st.in)
        open(off) == Reach(g.transition, DOMAIN g.names \ off, Start(g.names))
    IN  Goal(g.names) \in open(disabledVertices(st.in, g, FALSE)) => Goal(g.names) \in open(st.off)

\* The detailed path has no jump: each pose is at the node or on the edge next
\* to the pose before it, from START to GOAL.
PathHasNoJump ==
  Routed =>
    /\ st.path[1] = {Start(Graph(st.in).names)} /\ Last(st.path) = {Goal(Graph(st.in).names)}
    /\ \A k \in 1 .. Len(st.path) - 1 : st.path[k] \cap st.path[k + 1] # {}

\* The floor segments handed on with the path are in order, each pose in one is
\* on its floor, and every pose that is not on a stair is in one.
SegmentsFollowFloors ==
  Routed =>
    LET g == Graph(st.in)
        onFloor(pose, f) == \A n \in pose : FloorOf(st.in, g.names, n) \cap f # {}
    IN  /\ \A k \in 1 .. Len(st.segments) :
             /\ st.segments[k].from <= st.segments[k].to
             /\ k > 1 => st.segments[k - 1].to < st.segments[k].from
             /\ \A j \in st.segments[k].from .. st.segments[k].to :
                  onFloor(st.path[j], st.segments[k].floor)
        /\ \A j \in 1 .. Len(st.path) :
             (\E k \in 1 .. Len(st.segments) : j \in st.segments[k].from .. st.segments[k].to)
             \/ {g.names[n] : n \in st.path[j]} \subseteq {"stair_start", "stair_end"}

-----------------------------------------------------------------------------
(***************************************************************************)
(* What is computed from the poses of a path: its directional segments and *)
(* the headings along them (nav2_smoother, the Smac smoother), the shift   *)
(* of floor segments and their smoothing one by one (navbim_gpp_bim), and  *)
(* the clearance of a path (the clearance server).                         *)
(*                                                                         *)
(* Positions are integers; a heading is the vector it points along.        *)
(***************************************************************************)

CONSTANTS
  PgPoints,   \* positions of the poses of a path
  PgLine,     \* 0 .. PgLine: positions along a corridor
  ClSize,     \* the cells of a floor's costmap are ClSize x ClSize
  ClRadius    \* the largest ring of cells that is searched

Minus(a, b) == <<a[1] - b[1], a[2] - b[2]>>
Dot(a, b) == a[1] * b[1] + a[2] * b[2]
Still == <<0, 0>>
Step(path, i) == Minus(path[i + 1].p, path[i].p)

-----------------------------------------------------------------------------
(* Directional segments: [from, to] pairs of indices.                      *)

isCusp(path, i) == Dot(Step(path, i - 1), Step(path, i)) < 0
turnsInPlace(path, i) == Step(path, i) = Still /\ path[i].yaw # path[i + 1].yaw

findDirectionalPathSegments(path) ==
  LET cuts == {i \in 2 .. Len(path) - 1 : isCusp(path, i) \/ turnsInPlace(path, i)}
      ends == SetToSortSeq(cuts \cup {Len(path)}, <)
  IN  [k \in 1 .. Len(ends) |-> <<IF k = 1 THEN 1 ELSE ends[k - 1], ends[k]>>]
smacDirectionalPathSegments(path, holonomic) ==
  IF holonomic THEN <<<<1, Len(path)>>>> ELSE findDirectionalPathSegments(path)

\* An atan2 of no step is 0: the heading <<1, 0>>.
Along(step) == IF step = Still THEN <<1, 0>> ELSE step
isReversing(path) == Dot(path[2].yaw, Along(Step(path, 2))) < 0
Oriented(path, reversing) ==
  [i \in DOMAIN path |->
     IF i = Len(path) \/ (i < Len(path) /\ Step(path, i) = Still) THEN path[i]
     ELSE [path[i] EXCEPT !.yaw = IF reversing THEN Minus(Still, Step(path, i)) ELSE Step(path, i)]]
updateApproximatePathOrientations(path) == Oriented(path, isReversing(path))
smacApproximatePathOrientations(path, holonomic) == Oriented(path, ~holonomic /\ isReversing(path))

Yaws == {<<1, 0>>, <<-1, 0>>}
Paths == {[i \in 1 .. 4 |-> [p |-> f[i], yaw |-> g[i]]] :
            f \in [1 .. 4 -> PgPoints], g \in [1 .. 4 -> Yaws]}
directional ==
  LET path == st.in[2]
      segments == IF st.in[1] = "smoother" THEN findDirectionalPathSegments(path)
                  ELSE smacDirectionalPathSegments(path, st.in[1] = "holonomic")
      headings(s) == IF st.in[1] = "smoother" THEN updateApproximatePathOrientations(s)
                     ELSE smacApproximatePathOrientations(s, st.in[1] = "holonomic")
  IN  Returns("directional",
              [k \in DOMAIN segments |->
                 LET s == SubSeq(path, segments[k][1], segments[k][2])
                 IN  [s |-> segments[k], poses |-> IF Len(s) > 2 THEN headings(s) ELSE s]])

-----------------------------------------------------------------------------
(* applySegmentShift: a floor segment grows along the path at both ends.   *)

Within(path, i, j, shift) == Abs(path[i] - path[j]) <= shift
shiftedStart(path, start, shift) ==
  IF start = 1 THEN 1
  ELSE LET near == {i \in 1 .. start : \A j \in i .. start : Within(path, j, start, shift)}
       IN  Greatest(1, Min(near) - 1)
shiftedEnd(path, end, shift) ==
  LET near == {i \in end .. Len(path) : \A j \in end .. i : Within(path, j, end, shift)}
  IN  Least(Len(path), Max(near) + 1)
applySegmentShift(path, segments, shift) ==
  [k \in DOMAIN segments |->
     <<shiftedStart(path, segments[k][1], shift), shiftedEnd(path, segments[k][2], shift)>>]

Lines == [1 .. 4 -> 0 .. PgLine]
Spans == {<<1, 2>>, <<1, 4>>, <<2, 2>>, <<2, 4>>, <<3, 4>>}
segmentShift ==
  Returns("segmentShift", applySegmentShift(st.in.path, <<st.in.first, st.in.second>>, st.in.shift))

-----------------------------------------------------------------------------
(* The smoothing service of the room planner.  A request names floors and  *)
(* the first and last pose of each; the smoother succeeds, fails or throws *)
(* on a floor, or the floor has no costmap.  Indices count from 0.         *)

validSegments(r) ==
  SelectSeq([k \in DOMAIN r.floors |-> <<r.floors[k], r.from[k], r.to[k]>>],
            LAMBDA s : s[2] < Len(r.path) /\ s[3] < Len(r.path) /\ s[3] > s[2] + 1)
smoothFloorSegments(path, segments) ==
  FoldLeft(LAMBDA smoothed, s :
             IF s[1] # "smooths" THEN smoothed
             ELSE [i \in DOMAIN smoothed |-> IF i - 1 \in s[2] + 1 .. s[3] - 1
                                             THEN "moved" ELSE smoothed[i]],
           path, segments)
smoothPathWithFloorCostmaps(r) ==
  IF r.floors = <<>> \/ r.path = <<>> \/ Len(r.from) # Len(r.floors) \/ Len(r.to) # Len(r.floors)
  THEN [success |-> FALSE, path |-> r.path]
  ELSE [success |-> TRUE, path |-> smoothFloorSegments(r.path, validSegments(r))]

Floors == UNION {[1 .. n -> {"smooths", "fails", "throws", "noCostmap"}] : n \in 0 .. 2}
Ends == {<<0>>, <<0, 2>>, <<2, 0>>, <<4, 3>>, <<2, 9>>, <<1, 4>>}
Requests == [path : {<<>>, [i \in 1 .. 5 |-> "given"]}, floors : Floors, from : Ends, to : Ends]
floorSmoothing == Returns("floorSmoothing", smoothPathWithFloorCostmaps(st.in))

-----------------------------------------------------------------------------
(* Clearance, in half cells; the centre of cell c is at 2c + 1.  -1 is a   *)
(* pose off the map, Far the answer when no ring holds an obstacle.        *)

Far == 16 * ClSize * ClSize
Squared(p, cell) == (p[1] - 2 * cell[1] - 1) * (p[1] - 2 * cell[1] - 1)
                    + (p[2] - 2 * cell[2] - 1) * (p[2] - 2 * cell[2] - 1)
InMap(cell) == cell[1] \in 0 .. ClSize - 1 /\ cell[2] \in 0 .. ClSize - 1
Ring(cell, r) == {<<x, y>> \in (cell[1] - r .. cell[1] + r) \X (cell[2] - r .. cell[2] + r) :
                    Abs(x - cell[1]) = r \/ Abs(y - cell[2]) = r}
Blocking(lethal, cells) == {c \in cells : ~InMap(c) \/ c \in lethal}

\* After ring r the search ends if the nearest is closer than r - 1 cells.
searchRing(p, lethal, found, r) ==
  IF found.ended THEN found
  ELSE LET seen == {Squared(p, c) : c \in Blocking(lethal, Ring(<<p[1] \div 2, p[2] \div 2>>, r))}
           nearest == Min(seen \cup {found.nearest})
       IN  [nearest |-> nearest, ended |-> nearest < 4 * (r - 1) * (r - 1)]
calculateClearanceAtPose(p, lethal) ==
  LET cell == <<p[1] \div 2, p[2] \div 2>>
  IN  IF ~InMap(cell) THEN -1
      ELSE IF cell \in lethal THEN 0
      ELSE FoldLeft(LAMBDA found, r : searchRing(p, lethal, found, r),
                    [nearest |-> Far, ended |-> FALSE], [r \in 1 .. ClRadius |-> r]).nearest

Cells == (0 .. ClSize - 1) \X (0 .. ClSize - 1)
clearanceAtPose == Returns("clearanceAtPose", calculateClearanceAtPose(st.in[1], st.in[2]))

\* A request: per pose its clearance, per floor whether it has a costmap and
\* its first and last pose.  The answer is the smallest and the mean.
calculateSegmentClearance(poses, from, to) ==
  SelectSeq(SubSeq(poses, from + 1, to + 1), LAMBDA c : c >= 0)
Refusal == [success |-> FALSE]
calculatePathClearance(r) ==
  LET n == Len(r.poses)
      segment(k) == calculateSegmentClearance(r.poses, r.from[k], r.to[k])
      all == FlattenSeq([k \in DOMAIN r.floors |-> segment(k)])
  IN  IF \/ r.poses = <<>> \/ r.floors = <<>>
         \/ Len(r.from) # Len(r.floors) \/ Len(r.to) # Len(r.floors)
      THEN Refusal
      ELSE IF \E k \in DOMAIN r.floors :
                r.from[k] >= n \/ r.to[k] >= n \/ r.from[k] > r.to[k]
      THEN Refusal
      ELSE IF \E k \in DOMAIN r.floors : ~r.floors[k] \/ segment(k) = <<>>
      THEN Refusal
      ELSE [success |-> TRUE, min |-> Min(ToSet(all)), avg |-> <<FoldLeft(+, 0, all), Len(all)>>]

ClearanceRequests ==
  [poses : UNION {[1 .. n -> {-1, 0, 3}] : n \in {0, 3}},
   floors : UNION {[1 .. n -> BOOLEAN] : n \in 0 .. 2},
   from : {<<0>>, <<0, 2>>, <<2, 1>>}, to : {<<0>>, <<2>>, <<1, 2>>, <<3, 1>>}]
pathClearance == Returns("pathClearance", calculatePathClearance(st.in))

-----------------------------------------------------------------------------
PathGeometryInit ==
  \/ Call("directional", {"smoother", "holonomic", "turning"} \X Paths)
  \/ Call("segmentShift", [path : Lines, first : Spans, second : Spans, shift : 0 .. 2])
  \/ Call("floorSmoothing", Requests)
  \/ Call("clearanceAtPose",
          ((-1 .. 2 * ClSize) \X (-1 .. 2 * ClSize)) \X {{a, b} : a, b \in Cells})
  \/ Call("pathClearance", ClearanceRequests)
PathGeometryNext ==
  directional \/ segmentShift \/ floorSmoothing \/ clearanceAtPose \/ pathClearance

\* The directional segments follow one another from the first pose to the
\* last; inside one the path neither turns back nor turns in place, and the
\* headings that a smoother gives it all point along the motion or all against
\* it: a smoothed segment never asks for a change of gear.
SegmentsAreMonotone ==
  Done("directional") /\ st.in[1] # "holonomic" =>
    LET path == st.in[2]
    IN  /\ st.out[1].s[1] = 1 /\ Last(st.out).s[2] = Len(path)
        /\ \A k \in 1 .. Len(st.out) - 1 : st.out[k].s[2] = st.out[k + 1].s[1]
        /\ \A k \in DOMAIN st.out : \A i \in st.out[k].s[1] + 1 .. st.out[k].s[2] - 1 :
             Dot(Step(path, i - 1), Step(path, i)) >= 0
        /\ \A k \in DOMAIN st.out :
             LET poses == st.out[k].poses
                 moving == {i \in 1 .. Len(poses) - 1 : Step(poses, i) # Still}
             IN  Len(poses) > 2 =>
                   \/ \A i \in moving : Dot(poses[i].yaw, Step(poses, i)) > 0
                   \/ \A i \in moving : Dot(poses[i].yaw, Step(poses, i)) < 0

\* A shifted floor segment holds the one it came from and all poses within the
\* shift distance of its ends that the path reaches first, and one more.
ShiftedSegmentCovers ==
  Done("segmentShift") =>
    \A k \in 1 .. 2 :
      LET old == IF k = 1 THEN st.in.first ELSE st.in.second
          new == st.out[k]
          far(i, j) == Abs(st.in.path[i] - st.in.path[j]) > st.in.shift
      IN  /\ new[1] \in 1 .. old[1] /\ new[2] \in old[2] .. Len(st.in.path)
          /\ new[1] = 1 \/ far(new[1], old[1])
          /\ new[2] = Len(st.in.path) \/ far(new[2], old[2])
          /\ \A i \in new[1] + 1 .. old[1] : ~far(i, old[1])
          /\ \A i \in old[2] .. new[2] - 1 : ~far(i, old[2])

\* The smoothing service keeps the number of poses, whatever the segments of
\* the request are and whichever of them fail, and moves only poses strictly
\* inside a segment of a floor that was smoothed.
SmoothedKeepsRest ==
  Done("floorSmoothing") =>
    /\ Len(st.out.path) = Len(st.in.path)
    /\ \A i \in DOMAIN st.out.path :
         st.out.path[i] = "moved" =>
           /\ st.out.success
           /\ \E k \in DOMAIN st.in.floors : /\ st.in.floors[k] = "smooths"
                                            /\ st.in.from[k] + 1 < i /\ i < st.in.to[k] + 1

\* The early end of the ring search never misses a nearer obstacle: the answer
\* is the distance to the nearest lethal cell or cell off the map in reach.
ClearanceIsNearest ==
  Done("clearanceAtPose") /\ st.out > 0 =>
    LET p == st.in[1]
        cell == <<p[1] \div 2, p[2] \div 2>>
        reach == (cell[1] - ClRadius .. cell[1] + ClRadius) \X (cell[2] - ClRadius .. cell[2] + ClRadius)
    IN  st.out = Min({Squared(p, c) : c \in Blocking(st.in[2], reach)} \cup {Far})

\* A clearance that is reported holds for every pose of the named segments
\* that is on its floor's map, and every segment has at least one such pose.
ClearanceCoversSegments ==
  Done("pathClearance") /\ st.out.success =>
    \A k \in DOMAIN st.in.floors :
      LET named == st.in.from[k] + 1 .. st.in.to[k] + 1
      IN  /\ st.in.floors[k]
          /\ \E i \in named : st.in.poses[i] >= 0
          /\ \A i \in named : st.in.poses[i] >= 0 => st.out.min <= st.in.poses[i]
          /\ st.out.min * st.out.avg[2] <= st.out.avg[1]
=============================================================================
