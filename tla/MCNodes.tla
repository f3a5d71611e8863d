------------------------------- MODULE MCNodes -------------------------------
(* Small instances of the nodes, for TLC. *)
EXTENDS Nodes

\* Costmaps of three cells: an empty map and one with a wall, three masks, one of them aside.
MCMaps == {[c \in Row |-> 0], [c \in Row |-> IF c = 2 THEN 254 ELSE 0]}
MCMasks == {[c \in 0..1 |-> IF c = 1 THEN 254 ELSE 0], [c \in 0..2 |-> IF c = 2 THEN 254 ELSE 0],
            [c \in {2} |-> 254]}
MCScales == {<<TRUE, 1>>, <<FALSE, 1>>, <<TRUE, -1>>}
MCPlaces == {-1, -2, -3, 0, 40, 60}

\* A building of two floors with a room, a door and a stair.
MCTopoNodes == {
  [id |-> 1, type |-> "floor", name |-> "F1", floor |-> {}],
  [id |-> 2, type |-> "floor", name |-> "F2", floor |-> {}],
  [id |-> 3, type |-> "room", name |-> "R", floor |-> {"F1"}],
  [id |-> 4, type |-> "transition", name |-> "T", floor |-> {"F1"}],
  [id |-> 5, type |-> "stair", name |-> "S", floor |-> {"F1", "F2"}]}
MCTopoEdges == {
  [id |-> 1, type |-> "floor", source |-> 1, target |-> 3],
  [id |-> 2, type |-> "room", source |-> 3, target |-> 4],
  [id |-> 3, type |-> "room", source |-> 4, target |-> 5]}
MCFiles == {<<"a">>, <<"a", "b">>, <<"b", "a">>}

\* A floor of two rooms: the second may come with a later message.
CONSTANTS a1, a2, fa
OneFloor == [r \in {a1, a2} |-> fa]
Growing == {{a1}, {a1, a2}}
OneMessage == {{a1, a2}}

\* Two environments files that share a floor.
Building == <<[name |-> "A", maps |-> {"m1", "m2"}], [name |-> "B", maps |-> {"m1"}]>>
Extension == <<[name |-> "A", maps |-> {"m2"}], [name |-> "B", maps |-> {"m1", "m2"}]>>
TwoFiles == {Building, Extension}

MCPoses == {<<1, 2, 0>>, <<0, 1, 3>>}
MCSpeeds == {<<0, 0, 0>>, <<1, 0, 0>>, <<1, 0, 1>>}
MCServers == {{"wp"}, {"nav"}}
MCPlugins == {{"GridBased"}, {"GridBased", "smac"}, {"theta", "ompl"}}
\* Three nodes on a line, two edges between the first two; plans that end where they
\* begin, turn round, and begin with a gap.
MCLine == <<0, 2, 3>>
MCEdges == [e \in 0..2 |-> [start |-> 1 + (e \div 2), end |-> 2 + (e \div 2)]]
MCPlans == {<<0>>, <<0, 1, 2, 3>>, <<0, 1, 0>>, <<0, 3>>}
MCLocalPlans == {<<0, 1, 2>>, <<2>>}
MCBackwards == -1
MCIds == <<"a", "b">>
=============================================================================
