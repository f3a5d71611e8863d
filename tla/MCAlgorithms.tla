----------------------------- MODULE MCAlgorithms -----------------------------
(* The families of inputs for TLC. *)
EXTENDS Algorithms

\* Grids.
MCShapes == {<<3, 3>>, <<1, 5>>, <<5, 1>>, <<2, 3>>}
MCFixed == {<<1, 4>>}
MCWindows == {<<0, 0, 5, 5>>, <<0, 0, 1, 1>>, <<2, 1, 4, 3>>}
MCUnknown == {<<2, 2>>, <<3, 2>>, <<0, 1>>}

\* Samples and searches.
MCKeys == {<<0, 0, 0>>, <<1, 1, 0>>, <<2, 0, 0>>, <<0, 2, 1>>, <<-2, 0, 0>>, <<4, 1, 0>>}
MCNavEnds == {<<<<6, 2>>, <<3, 5>>>>}
MCThetaEnds == {<<<<0, 1>>, <<3, 1>>>>, <<<<3, 0>>, <<0, 1>>>>}
MCCostly == {<<1, 1>>}
MCSmacEnds == {<<<<0, 0>>, <<2, 2>>>>, <<<<0, 1>>, <<2, 1>>>>}
MCQueries == {<<<<0, 0>>, <<2, 0>>>>, <<<<1, 1>>, <<0, 0>>>>, <<<<2, 0>>, <<0, 1>>>>}
MCArcs == {<<1, 2>>, <<1, 3>>, <<2, 3>>, <<3, 4>>}

\* Rooms and paths.
MCStairs == {<<>>, <<{1, 2}, {2, 3}>>}
MCPoints == {<<0, 0>>, <<1, 0>>, <<2, 0>>, <<1, 1>>}

\* Map files: costs with the bounds of every class, thresholds in and out of range.
MCCosts == {-2, -1, 0, 25, 26, 45, 64, 65, 99, 100, 101, 127}
MCThresholds == {<<0, 0>>, <<250, 650>>, <<650, 650>>, <<-100, 500>>, <<100, 1200>>}

\* Hash functions of keys 1 .. 5 and a seed: spread, colliding, and wrapping round.
Hash(f(_), g(_)) == [x \in (1 .. 5) \X {0, 1} |-> IF x[2] = 0 THEN f(x[1]) ELSE g(x[1])]
MCHashes == {
  Hash(LAMBDA k : k, LAMBDA k : 4 * k),
  Hash(LAMBDA k : 15, LAMBDA k : k),
  Hash(LAMBDA k : 12 + (k % 4) + (16 * (k \div 4)), LAMBDA k : 15),
  Hash(LAMBDA k : (4 * k) + 3, LAMBDA k : 2 * k),
  Hash(LAMBDA k : 28 + (k % 3), LAMBDA k : k)}

\* Topological maps: two floors and one without height, rooms with and without box and
\* ring, a door, links with and without room and path.
N(i, t, n, z, b, p, f) ==
  [id |-> i, type |-> t, name |-> n, zs |-> z, bbox |-> b, polygon |-> p, floor |-> f]
F1 == N(1, "floor", "F1", {<<0, 30>>}, {}, {}, <<>>)
F2 == N(2, "floor", "F2", {<<10, 40>>}, {}, {}, <<>>)
F3 == N(3, "floor", "F3", {}, {}, {}, <<>>)
Rings == {{}, {<<>>}, {<<<<2, 6>>>>}, {<<<<5, 14>>, <<8, 9>>>>}}
RoomR == {N(4, "room", "R", {}, b, p, <<"F1">>) : b \in {{<<0, 0, 0>>}, {<<1, 6, 2>>}}, p \in Rings}
RoomS == {N(50, "room", "S", {}, {<<1, 6, 2>>}, p, <<"F1", "F2">>) : p \in Rings}
Door == N(60, "transition", "T", {}, {<<6, 6, 1>>}, {<<<<6, 7>>>>}, <<"F1">>)
L(i, a, b, r, p) == [id |-> i, source |-> a, target |-> b, room |-> r, path |-> p]
Links == {
  <<L(0, 1, 4, {}, {}), L(1, 4, 60, {4}, {<<<<1, 1, 1>>, <<2, 2>>>>}), L(2, 60, 50, {50}, {<<>>})>>,
  <<L(3, 4, 60, {4}, {}), L(5, 50, 99, {}, {}), L(4, 50, 60, {}, {})>>}
MCMapFiles == {
  [nodes |-> ns, links |-> ls] :
    ns \in {<<>>} \cup {<<F1, F2, a, b, Door>> : a \in RoomR, b \in RoomS}
             \cup {<<F3, F2, F1, a>> : a \in RoomR},
    ls \in Links}
MCPositions == (0..3) \X (0..2)

\* Buildings: storeys, stairs and landings by height; walls on the cells of a floor; and
\* walking lines by height.
MCStoreys == {<<>>, <<<<1, "A">>, <<5, "A">>>>, <<<<0, "A">>, <<0, "B">>>>}
MCStairHeights == {<<>>, <<0, 7>>, <<0, 4>>}
MCLandings == {{}, {4}}
Outer == {c \in (0..3) \X (0..2) : c[1] \in {0, 3} \/ c[2] \in {0, 2}}
MCWalls == {{<<1, 1>>}, {<<0, 0>>, <<1, 0>>}}
  \cup {(Outer \ gap) \cup inner : gap \in {{}} \cup {{c} : c \in Outer}
                                     \cup {{c, <<0, 1>>} : c \in Outer},
                                  inner \in {{}, {<<1, 1>>}, {<<1, 1>>, <<2, 1>>}}}
MCLines == {<<>>, <<2>>, <<3, 3>>, <<0, 8>>, <<0, 4, 5>>, <<9, 4, 2>>, <<0, 7, 3>>}

\* Route graphs: a square of four nodes with two ways and edges of several costs, one of
\* them without a valid cost or refused; poses at nodes and beside them.
MCPlaces == <<<<0, 0>>, <<2, 0>>, <<0, 2>>, <<2, 2>>>>
E(k, a, b, c) == [id |-> 10 + k, s |-> a, e |-> b, cost |-> c]
MCRouteGraphs ==
  {<<E(1, 1, 2, a), E(2, 1, 3, b), E(3, 2, 3, c), E(4, 3, 2, 1), E(5, 2, 4, d), E(6, 3, 4, 2), E(7, 4, 1, e)>> :
     a \in {1, 4}, b \in {1, 3}, c \in {1, -1}, d \in {0, 1, 3}, e \in {0, 2}}
R(a, b, p, q, x) == [start |-> a, goal |-> b, from |-> p, to |-> q, blocked |-> x]
MCRouteRequests ==
  {R(1, 4, <<0, 0>>, <<2, 2>>, x) : x \in {{}, {15}, {2}, {15, 16}}}
  \cup {R(1, 4, <<1, 0>>, <<2, 1>>, {}), R(4, 2, <<2, 2>>, <<3, 0>>, {}), R(1, 4, <<0, 1>>, <<2, 2>>, {12})}
\* Edges as the scorers see them, and orders of the scorers.
MCScoredEdges ==
  {[length |-> l, dyaw |-> y, type |-> t, poses |-> p, speed |-> v, penalty |-> 3, time |-> m,
    class |-> "slow", cells |-> c, closed |-> x, adjusted |-> 2] :
     l \in {0, 4}, y \in {1, 3}, t \in {"START", "END", "NONE"}, p \in BOOLEAN, v \in {0, 2}, m \in {0, 5},
     c \in {NoCostmap, <<>>, <<0, 254, 90>>, <<0, 0, 255>>}, x \in BOOLEAN}
MCPluginOrders ==
  {<<>>, <<"distance", "dynamic">>, <<"goal", "dynamic", "costmap">>, <<"costmapMean", "startStrict", "time">>,
   <<"goalStrict", "semantic", "penalty", "start">>}
\* Files: two or three nodes in three frames, one of them deleted or with the id of
\* another, edges in two orders, with operations of one and of two types.
O(t, k, v) == [type |-> t, data |-> [kind |-> k, value |-> v]]
Ops == {<<>>, <<O(1, "int", -4)>>, <<O(2, "float", 0), O(1, "unsigned", 7)>>, <<O(1, "bool", 1), O(1, "string", 1)>>}
MCRouteFiles ==
  {[nodes |-> <<[id |-> 5, frame |-> f, x |-> 0, ops |-> o], [id |-> 7, frame |-> "map", x |-> 3, ops |-> <<>>],
                [id |-> i, frame |-> g, x |-> 8, ops |-> <<>>]>>,
    edges |-> es] :
     f \in {"map", "other"}, g \in {"map", "other", "unknown"}, i \in {7, 9, DeletedId}, o \in Ops,
     es \in {<<>>} \cup {<<[id |-> 1, s |-> a, e |-> 5, cost |-> 2, ops |-> p],
                           [id |-> 2, s |-> 5, e |-> b, cost |-> 0, ops |-> <<>>],
                           [id |-> 3, s |-> a, e |-> 7, cost |-> 1, ops |-> <<>>]>> :
                           a \in {7, 9}, b \in {7, 4}, p \in Ops}}
\* Nodes on and off a costmap, and routes with corners, short and empty edges.
MCIntentGraphs == {<<<<0, 0>>, <<2, 0>>, <<3, 1>>>>, <<<<0, 1>>, <<4, 0>>, <<2, 1>>>>}
D(d, l) == [dir |-> d, len |-> l]
MCDenseRoutes ==
  UNION {[1 .. n -> {D(0, 600), D(1, 1200), D(1, 200), D(2, 600), D(3, 0)}] : n \in 0 .. 3}
=============================================================================
