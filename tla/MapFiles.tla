------------------------------ MODULE MapFiles ------------------------------
(***************************************************************************)
(* Maps and topological maps as files and as messages.                     *)
(***************************************************************************)
EXTENDS Component, SequencesExt

-----------------------------------------------------------------------------
(***************************************************************************)
(* The map files: map_io.cpp of nav2_map_server and its copy in            *)
(* navbim_multimap_server, whose origins have a z coordinate, with the     *)
(* command line of the map savers.  Thresholds are in thousandths, origins *)
(* in ten thousandths of a metre; a pixel is 0 .. 255 with a flag for      *)
(* opaque; a map is a function of its cells <<x, y>> with row 0 below.     *)
(***************************************************************************)

CONSTANTS
  MfCosts,        \* values of cells, as int8
  MfThresholds,   \* <<free, occupied>> thresholds a user asks for, 0 for none
  MfTokens        \* arguments on the command line

MfUnknown == -1
Rounded(n, d) == (2 * n + d) \div (2 * d)     \* for n >= 0
\* to_string_with_precision(v, 3): the last of four decimals is rounded away.
to_string_with_precision(v) == IF v >= 0 THEN 10 * Rounded(v, 10) ELSE -(10 * Rounded(-v, 10))

-----------------------------------------------------------------------------
(* Saving. *)

\* checkSaveParameters: thresholds of zero are replaced, bad ones refused; the format follows the
\* mode when none is given, and one that cannot be written becomes png.
checkSaveParameters(p) ==
  LET occ == IF p.occ = 0 THEN 650 ELSE p.occ
      free == IF p.free = 0 THEN 250 ELSE p.free
      format == IF p.format = "" THEN IF p.mode = "scale" THEN "png" ELSE "pgm"
                ELSE IF p.format \in {"png", "pgm", "bmp"} THEN p.format ELSE "png" IN
  [p EXCEPT !.occ = occ, !.free = free, !.format = format,
            !.ok = ~(occ > 1000 \/ free < 0 \/ occ <= free)]

\* tryWriteMapToFile: the pixel of a cell.
pixelOf(p, cell) ==
  LET off == cell < 0 \/ cell > 100 IN
  CASE p.mode = "trinary" ->
         [v |-> IF off THEN 205 ELSE IF cell * 10 <= p.free THEN 254
                ELSE IF p.occ <= cell * 10 THEN 0 ELSE 205, opaque |-> TRUE]
    [] p.mode = "scale" ->
         [v |-> IF off THEN 128 ELSE Rounded((100 - cell) * 255, 100), opaque |-> ~off \/ p.format = "pgm"]
    [] p.mode = "raw" -> [v |-> IF off THEN 255 ELSE cell, opaque |-> TRUE]
\* Mistake: rows are written from below.
tryWriteMapToFileUpside(n, map, p) ==
  [image |-> [c \in DOMAIN map.cells |-> pixelOf(p, map.cells[c])],
   mode |-> p.mode, origin |-> [i \in 1 .. n |-> map.origin[IF i = n THEN 4 ELSE i]],
   resolution |-> to_string_with_precision(map.resolution),
   occ |-> IF p.mode = "trinary" THEN 650 ELSE p.occ, free |-> IF p.mode = "trinary" THEN 196 ELSE p.free,
   negate |-> FALSE]
\* tryWriteMapToFile: image (first row on top) and metadata, whose origin has n elements and the
\* yaw last; trinary maps get thresholds of their own.
tryWriteMapToFile(n, map, p) ==
  LET top == map.height - 1
      short(i) == IF i = n THEN map.origin[4] ELSE to_string_with_precision(map.origin[i]) IN
  [image |-> [c \in DOMAIN map.cells |-> pixelOf(p, map.cells[<<c[1], top - c[2]>>])],
   mode |-> p.mode, origin |-> [i \in 1 .. n |-> short(i)],
   resolution |-> to_string_with_precision(map.resolution),
   occ |-> IF p.mode = "trinary" THEN 650 ELSE p.occ, free |-> IF p.mode = "trinary" THEN 196 ELSE p.free,
   negate |-> FALSE]
NoFile == [none |-> TRUE]
saveMapToFile(n, map, asked) ==
  LET p == checkSaveParameters(asked) IN
  IF p.ok THEN tryWriteMapToFile(n, map, p) ELSE NoFile
multimapSaveMapToFile(map, asked) == saveMapToFile(4, map, asked)

-----------------------------------------------------------------------------
(* Loading. *)

\* loadMapYaml: every tag but mode must be there, with n elements in the origin.
loadMapYaml(n, yaml) ==
  /\ yaml.image # "empty" /\ Len(yaml.origin) = n
  /\ yaml.mode \in {"none", "trinary", "scale", "raw"} /\ ~yaml.lacksTag
\* loadMapFromFile: the value of a pixel.
cellOf(f, pixel) ==
  LET shade == IF f.negate THEN pixel.v ELSE 255 - pixel.v
      free == shade * 1000 <= f.free * 255
      occupied == shade * 1000 >= f.occ * 255
      scaled == Rounded((shade * 1000 - f.free * 255) * 100, (f.occ - f.free) * 255) IN
  IF f.mode = "raw" THEN IF pixel.v \in 0 .. 100 THEN pixel.v ELSE MfUnknown
  ELSE IF ~pixel.opaque THEN MfUnknown
  ELSE IF free THEN 0 ELSE IF occupied THEN 100 ELSE IF f.mode = "scale" THEN scaled ELSE MfUnknown
\* The rows are turned upside down again; nav2_map_server sets z to 0.
loadMapFromFile(n, f, height) ==
  [cells |-> [c \in DOMAIN f.image |-> cellOf(f, f.image[<<c[1], height - 1 - c[2]>>])],
   height |-> height, resolution |-> f.resolution,
   origin |-> <<f.origin[1], f.origin[2], IF n = 4 THEN f.origin[3] ELSE 0, f.origin[n]>>]
multimapLoadMapFromFile(f, height) == loadMapFromFile(4, f, height)
loadMapFromYaml(n, yaml) ==
  CASE yaml.file = "" -> "MAP_DOES_NOT_EXIST"
    [] yaml.file # "" /\ (yaml.file = "absent" \/ ~loadMapYaml(n, yaml)) -> "INVALID_MAP_METADATA"
    [] OTHER -> IF yaml.image = "absent" THEN "INVALID_MAP_DATA" ELSE "LOAD_MAP_SUCCESS"
multimapLoadMapFromYaml(yaml) == loadMapFromYaml(4, yaml)

-----------------------------------------------------------------------------
(* map_saver_cli *)

Commands == {"-t", "-f", "--occ", "--free", "--mode", "--fmt"}
\* parse_arguments: a command takes the argument after it, whatever that is.
parse_arguments(args) ==
  LET parse[i \in 1 .. Len(args) + 2] ==
        IF i > Len(args) \/ args[i] = "--ros-args" THEN "ARGUMENTS_VALID"
        ELSE IF args[i] = "-h" THEN "HELP_MESSAGE"
        ELSE IF args[i] \notin Commands \/ i = Len(args) THEN "ARGUMENTS_INVALID"
        ELSE parse[i + 2] IN
  IF args = <<>> THEN "ARGUMENTS_VALID" ELSE parse[1]

-----------------------------------------------------------------------------
MfMaps ==
  {[cells |-> [c \in (0 .. 1) \X (0 .. 1) |->
                 CASE c = <<0, 0>> -> a [] c = <<1, 1>> -> b [] c = <<0, 1>> -> 0 [] OTHER -> MfUnknown],
    height |-> 2, resolution |-> r, origin |-> <<12340, -12346, 25000, 3>>] :
     a \in MfCosts, b \in {0, 45, 100, MfUnknown}, r \in {500, 125}}
MfParameters ==
  {[mode |-> m, format |-> f, free |-> t[1], occ |-> t[2], ok |-> TRUE] :
     m \in {"trinary", "scale", "raw"}, f \in {"", "pgm", "png", "gif"}, t \in MfThresholds}
MfYamls ==
  [file : {"", "absent", "there"}, image : {"empty", "absent", "there"}, origin : {<<1, 2, 3>>, <<1, 2, 3, 4>>},
   mode : {"none", "trinary", "scale", "raw", "other"}, lacksTag : BOOLEAN]
MfLoaded(n, in) ==
  IF n = 3
  THEN LET f == saveMapToFile(3, in[1], in[2]) IN IF f = NoFile THEN f ELSE loadMapFromFile(3, f, in[1].height)
  ELSE LET f == multimapSaveMapToFile(in[1], in[2]) IN
       IF f = NoFile THEN f ELSE multimapLoadMapFromFile(f, in[1].height)
MapFilesInit ==
  \/ Call("saveLoad", MfMaps \X MfParameters)
  \/ Call("multimapSaveLoad", MfMaps \X MfParameters)
  \/ Call("loadMapFromYaml", MfYamls)
  \/ Call("multimapLoadMapFromYaml", MfYamls)
  \/ Call("parse_arguments", UNION {[1 .. k -> MfTokens] : k \in 0 .. 4})
MapFilesNext ==
  \/ In({"saveLoad"}, "call") /\ Returns("saveLoad", MfLoaded(3, st.in))
  \/ In({"multimapSaveLoad"}, "call") /\ Returns("multimapSaveLoad", MfLoaded(4, st.in))
  \/ In({"loadMapFromYaml"}, "call") /\ Returns("loadMapFromYaml", loadMapFromYaml(3, st.in))
  \/ In({"multimapLoadMapFromYaml"}, "call") /\ Returns("multimapLoadMapFromYaml", multimapLoadMapFromYaml(st.in))
  \/ In({"parse_arguments"}, "call") /\ Returns("parse_arguments", parse_arguments(st.in))

-----------------------------------------------------------------------------
\* A map that was saved and loaded again is the map: a raw one value by value, a trinary one with
\* every cell free, occupied or unknown by the thresholds it was saved with, a scaled one (in a
\* format with transparency) with its unknown cells unknown and the order of the others kept.
SavedMapIsLoaded ==
  \A p \in {"saveLoad", "multimapSaveLoad"} :
    Done(p) /\ st.out # NoFile =>
      LET map == st.in[1]
          q == checkSaveParameters(st.in[2])
          known(v) == v \in 0 .. 100
          was(c) == map.cells[c]
          is(c) == st.out.cells[c] IN
      \A c \in DOMAIN map.cells :
        /\ q.mode = "raw" => is(c) = IF known(was(c)) THEN was(c) ELSE MfUnknown
        /\ q.mode = "trinary" =>
             is(c) = IF ~known(was(c)) THEN MfUnknown
                     ELSE IF was(c) * 10 <= q.free THEN 0 ELSE IF was(c) * 10 >= q.occ THEN 100 ELSE MfUnknown
        /\ q.mode = "scale" /\ q.format = "png" =>
             /\ (is(c) = MfUnknown) = ~known(was(c))
             /\ \A d \in DOMAIN map.cells : known(was(c)) /\ known(was(d)) /\ was(c) <= was(d) => is(c) <= is(d)
\* The metadata of a saved map are the map's: its resolution and the place of its origin.
\* It does not hold: README, Disagreements.
SavedMapIsPlaced ==
  \A p \in {"saveLoad", "multimapSaveLoad"} :
    Done(p) /\ st.out # NoFile => st.out.resolution = st.in[1].resolution
\* The origins of the two packages do not mix: a file that one of them loads the other refuses.
OriginsAreToldApart ==
  /\ Done("loadMapFromYaml") /\ st.out = "LOAD_MAP_SUCCESS" => multimapLoadMapFromYaml(st.in) # st.out
  /\ Done("multimapLoadMapFromYaml") /\ st.out = "LOAD_MAP_SUCCESS" => loadMapFromYaml(3, st.in) # st.out
\* Arguments are taken in pairs up to --ros-args.
ArgumentsArePaired ==
  Done("parse_arguments") /\ st.out = "ARGUMENTS_VALID" =>
    LET end == {i \in DOMAIN st.in : st.in[i] = "--ros-args" /\ i % 2 = 1}
        n == IF end = {} THEN Len(st.in) ELSE (CHOOSE i \in end : \A j \in end : i <= j) - 1 IN
    n % 2 = 0 /\ \A i \in 1 .. n : i % 2 = 1 => st.in[i] \in Commands

-----------------------------------------------------------------------------
(***************************************************************************)
(* How the topological map travels: the JSON file the generator writes,    *)
(* the graph the topomap server parses from it, the message it answers     *)
(* with, the graph a client builds from the message, and what the server's *)
(* query services and the planner's own finders answer on these graphs.    *)
(* An optional value is a set of at most one element.  Rooms lie on a      *)
(* line: a ring is the interval <<a, b>> in tenths of a metre.             *)
(***************************************************************************)

CONSTANTS
  MmFiles,      \* parsed JSON documents, [nodes, links]
  MmHeights,    \* heights asked about
  MmReach,      \* positions asked about are 0 .. MmReach
  MmPositions,  \* node positions for the distances
  MmPenalty     \* largest penalize_z_movement

ZeroBox == <<0, 0, 0>>

(* topological_map_loader.cpp *)

\* The first ring only: the holes of the file's polygon are not read.
parsePolygon(p) == IF p = {} \/ \A rings \in p : rings = <<>> THEN {} ELSE {rings[1] : rings \in p}

\* A bounding box is <<min x, max x, min z>>.
parseBoundingBox(b) == b

parseNodeProperties(j) ==
  [id |-> j.id, type |-> j.type, name |-> j.name, zs |-> j.zs,
   bbox |-> parseBoundingBox(j.bbox), polygon |-> parsePolygon(j.polygon),
   floor |-> IF j.floor = <<>> THEN {} ELSE {j.floor}]

\* A waypoint with fewer than three coordinates is skipped; a path that is
\* not an array leaves the null pointer.
parseEdgeProperties(j) ==
  [id |-> j.id, room |-> j.room,
   path |-> {SelectSeq(p, LAMBDA w : Len(w) >= 3) : p \in j.path}]

\* id_to_vertex: of two nodes with one id the later one is found.
LastWith(nodes, i) == {v \in DOMAIN nodes : nodes[v].id = i /\ \A w \in DOMAIN nodes : w > v => nodes[w].id # i}

\* A link whose end is no node is skipped.
loadLinks(links, nodes) ==
  LET known == SelectSeq(links, LAMBDA l : LastWith(nodes, l.source) # {} /\ LastWith(nodes, l.target) # {})
  IN  [i \in DOMAIN known |->
        [props |-> parseEdgeProperties(known[i]),
         ends |-> <<CHOOSE v \in LastWith(nodes, known[i].source) : TRUE,
                    CHOOSE v \in LastWith(nodes, known[i].target) : TRUE>>]]

parsedGraph(file) ==
  LET nodes == [i \in DOMAIN file.nodes |-> parseNodeProperties(file.nodes[i])]
  IN  [nodes |-> nodes, edges |-> loadLinks(file.links, nodes)]

(* Strings that hold numbers are sequences of character codes. *)

to_string(n) == IF n < 10 THEN <<48 + n>> ELSE <<48 + (n \div 10), 48 + (n % 10)>>
Digit(c) == c \in 48 .. 57
\* stoi reads the leading digits and throws when there is none.
stoi(s) ==
  IF Len(s) >= 2 /\ Digit(s[1]) /\ Digit(s[2]) THEN {10 * (s[1] - 48) + s[2] - 48}
  ELSE IF s # <<>> /\ Digit(s[1]) THEN {s[1] - 48} ELSE {}

(* topomap_server.cpp: the answer of get_topological_map *)

OrZero(opt, zero) == IF opt = {} THEN zero ELSE CHOOSE x \in opt : TRUE

convertToTopomapNodeMsg(n) ==
  [id |-> to_string(n.id), name |-> n.name, type |-> n.type, zs |-> OrZero(n.zs, <<0, 0>>),
   floor |-> OrZero(n.floor, <<>>), bbox |-> OrZero(n.bbox, ZeroBox), outer |-> OrZero(n.polygon, <<>>)]

convertToTopomapEdgeMsg(e, g) ==
  [id |-> to_string(e.props.id), source |-> to_string(g.nodes[e.ends[1]].id),
   target |-> to_string(g.nodes[e.ends[2]].id),
   room |-> IF e.props.room = {} THEN <<>> ELSE to_string(OrZero(e.props.room, 0)),
   path |-> OrZero(e.props.path, <<>>)]

getTopologicalMap(g) ==
  [success |-> g.nodes # <<>>,
   nodes |-> [i \in DOMAIN g.nodes |-> convertToTopomapNodeMsg(g.nodes[i])],
   edges |-> [i \in DOMAIN g.edges |-> convertToTopomapEdgeMsg(g.edges[i], g)]]

(* navbim_util/src/topological_map.cpp: the client's copy *)

\* A polygon is a closed ring; an interval is closed by its two ends.
convertPolygonFromMessage(outer) == outer

\* Heights are read for floors only, boxes for rooms and transitions whose
\* x extent is not the zero of an unset message, polygons for rooms only.
nodeFromMessage(m) ==
  [id |-> OrZero(stoi(m.id), -1), name |-> m.name, type |-> m.type,
   zs |-> {z \in {m.zs} : m.type = "floor"},
   floor |-> {f \in {m.floor} : f # <<>>},
   bbox |-> {b \in {m.bbox} : m.type \in {"room", "transition"} /\ (b[1] # 0 \/ b[2] # 0)},
   polygon |-> {convertPolygonFromMessage(p) : p \in {q \in {m.outer} : m.type = "room" /\ q # <<>>}}]

Vertices(m, i) == {v \in DOMAIN m.nodes : m.nodes[v].id = i /\ \A w \in DOMAIN m.nodes : w > v => m.nodes[w].id # i}

edgesFromMessage(m) ==
  LET known == SelectSeq(m.edges, LAMBDA e : Vertices(m, e.source) # {} /\ Vertices(m, e.target) # {})
  IN  [i \in DOMAIN known |->
        [props |-> [id |-> OrZero(stoi(known[i].id), -1), room |-> stoi(known[i].room),
                    path |-> {p \in {known[i].path} : p # <<>>}],
         ends |-> <<CHOOSE v \in Vertices(m, known[i].source) : TRUE,
                    CHOOSE v \in Vertices(m, known[i].target) : TRUE>>]]

\* std::stoi on an id or a room id that is no number.
Unreadable(m) ==
  \/ \E i \in DOMAIN m.nodes : stoi(m.nodes[i].id) = {}
  \/ \E i \in DOMAIN m.edges :
       /\ Vertices(m, m.edges[i].source) # {} /\ Vertices(m, m.edges[i].target) # {}
       /\ stoi(m.edges[i].id) = {} \/ (m.edges[i].room # <<>> /\ stoi(m.edges[i].room) = {})

\* Of several nodes with one id or one name the last is found.
buildLookupMaps(nodes) ==
  [id |-> [i \in {nodes[v].id : v \in DOMAIN nodes} |-> CHOOSE v \in LastWith(nodes, i) : TRUE],
   name |-> [n \in {nodes[v].name : v \in DOMAIN nodes} \ {""} |->
              CHOOSE v \in DOMAIN nodes :
                nodes[v].name = n /\ \A w \in DOMAIN nodes : w > v => nodes[w].name # n]]

Largest(S) == CHOOSE n \in S \cup {-1} : \A m \in S : m <= n
updateMaxIds(g) ==
  [node |-> Largest({g.nodes[v].id : v \in DOMAIN g.nodes}),
   edge |-> Largest({g.edges[e].props.id : e \in DOMAIN g.edges}),
   floors |-> {v \in DOMAIN g.nodes : g.nodes[v].type = "floor"}]

clearedMap == [ok |-> FALSE, graph |-> [nodes |-> <<>>, edges |-> <<>>],
               lookup |-> buildLookupMaps(<<>>), ids |-> [node |-> -1, edge |-> -1, floors |-> {}]]

loadFromMessage(m) ==
  LET g == [nodes |-> [i \in DOMAIN m.nodes |-> nodeFromMessage(m.nodes[i])], edges |-> edgesFromMessage(m)]
  IN  IF Unreadable(m) THEN clearedMap
      ELSE [ok |-> TRUE, graph |-> g, lookup |-> buildLookupMaps(g.nodes), ids |-> updateMaxIds(g)]

findVertexById(map, i) == IF i \in DOMAIN map.lookup.id THEN {map.lookup.id[i]} ELSE {}
findVertexByName(map, n) == IF n \in DOMAIN map.lookup.name THEN {map.lookup.name[n]} ELSE {}
getVerticesByType(g, t) == SelectSeq([v \in DOMAIN g.nodes |-> v], LAMBDA v : g.nodes[v].type = t)

\* The graph sent on: room_id, an int, is assigned to a string as one
\* character with that code.
nodeToMessage(n) ==
  [id |-> to_string(n.id), name |-> n.name, type |-> n.type,
   zs |-> IF n.type = "floor" THEN OrZero(n.zs, <<0, 0>>) ELSE <<0, 0>>,
   floor |-> OrZero(n.floor, <<>>), bbox |-> OrZero(n.bbox, ZeroBox), outer |-> OrZero(n.polygon, <<>>)]
edgeToMessage(e, g) ==
  [id |-> to_string(e.props.id), source |-> to_string(g.nodes[e.ends[1]].id),
   target |-> to_string(g.nodes[e.ends[2]].id),
   room |-> IF e.props.room = {} THEN <<>> ELSE <<OrZero(e.props.room, 0)>>,
   path |-> OrZero(e.props.path, <<>>)]
convertGraphToMessage(g) ==
  [nodes |-> [i \in DOMAIN g.nodes |-> nodeToMessage(g.nodes[i])],
   edges |-> [i \in DOMAIN g.edges |-> edgeToMessage(g.edges[i], g)]]

(* topological_map_utils.cpp: the server's finders *)

\* Of the floors that span the height, the one with the highest bottom; the
\* first of equals.
findFloorByHeight(g, z) ==
  LET spans == {v \in DOMAIN g.nodes : g.nodes[v].type = "floor" /\ \E s \in g.nodes[v].zs : s[1] <= z /\ z < s[2]}
      bottom(v) == OrZero(g.nodes[v].zs, <<0, 0>>)[1]
  IN  {v \in spans : \A w \in spans : bottom(w) < bottom(v) \/ (bottom(w) = bottom(v) /\ v <= w)}

isPointInPolygon(p, x) == p[1] < x /\ x < p[2]

\* A polygon buffered by r tenths of a metre; within excludes the boundary.
InBuffered(p, r, x) == IF r = 0 THEN isPointInPolygon(p, x) ELSE p[1] - r < x /\ x < p[2] + r

\* Buffers grow from 0.0 to 0.5; the first room in vertex order wins.
findRoomByCoordinates(g, x, z) ==
  LET onFloor_ == {v \in DOMAIN g.nodes : /\ g.nodes[v].type = "room" /\ g.nodes[v].polygon # {}
                                          /\ \E f \in findFloorByHeight(g, z), fs \in g.nodes[v].floor :
                                               \E i \in DOMAIN fs : fs[i] = g.nodes[f].name}
      hit(r) == {v \in onFloor_ : \E p \in g.nodes[v].polygon : InBuffered(p, r, x)}
      radii == {r \in 0 .. 5 : hit(r) # {}}
  IN  UNION {{v \in hit(r) : \A w \in hit(r) : v <= w} : r \in {q \in radii : \A s \in radii : q <= s}}

getVertexById(g, i) == {v \in DOMAIN g.nodes : to_string(g.nodes[v].id) = i /\ \A w \in DOMAIN g.nodes : w < v => to_string(g.nodes[w].id) # i}
getVertexByName(g, n) == {v \in DOMAIN g.nodes : g.nodes[v].name = n /\ \A w \in DOMAIN g.nodes : w < v => g.nodes[w].name # n}
Adjacent(g, v) == {w \in DOMAIN g.nodes : \E e \in DOMAIN g.edges : g.edges[e].ends \in {<<v, w>>, <<w, v>>}}
OfType(g, t) == {v \in DOMAIN g.nodes : g.nodes[v].type = t}

getFloorNodes(g) == OfType(g, "floor")
getRoomNodes(g) == OfType(g, "room")
getRoomNodesOnFloor(g, n) ==
  {v \in OfType(g, "room") : \E fs \in g.nodes[v].floor : \E i \in DOMAIN fs : fs[i] = n}

\* Rooms behind a transition of the room; for a transition, its rooms.
getRoomNeighbors(g, i) ==
  UNION {CASE g.nodes[v].type = "room" ->
                (UNION {Adjacent(g, t) : t \in Adjacent(g, v) \cap OfType(g, "transition")} \ {v}) \cap OfType(g, "room")
           [] g.nodes[v].type = "transition" -> Adjacent(g, v) \cap OfType(g, "room")
           [] OTHER -> {} : v \in getVertexById(g, i)}

getAdjacentTransitionNodes(g, n) ==
  UNION {Adjacent(g, v) \cap OfType(g, "transition") : v \in getVertexByName(g, n) \cap OfType(g, "room")}

\* Floors count with their own height, rooms and transitions with their box.
Bottoms(g) == UNION {IF g.nodes[v].type = "floor" THEN {s[1] : s \in g.nodes[v].zs}
                     ELSE {b[3] : b \in g.nodes[v].bbox} : v \in DOMAIN g.nodes}
getMinZ(g) == {z \in Bottoms(g) : \A y \in Bottoms(g) : z <= y}
Tops(g) == UNION {IF g.nodes[v].type = "floor" THEN {s[2] : s \in g.nodes[v].zs}
                  ELSE {b[3] + 1 : b \in g.nodes[v].bbox} : v \in DOMAIN g.nodes}
getMaxZ(g) == {z \in Tops(g) : \A y \in Tops(g) : y <= z}

(* topomap_server.cpp: the query services, [success, answer] *)

Answer(g, found, emptyIsSuccess) ==
  [success |-> g.nodes # <<>> /\ (found # {} \/ emptyIsSuccess), nodes |-> IF g.nodes = <<>> THEN {} ELSE found]
getFloorNodesCallback(g) == Answer(g, getFloorNodes(g), FALSE)
getRoomNodesCallback(g) == Answer(g, getRoomNodes(g), FALSE)
getRoomNeighborsCallback(g, i) == Answer(g, getRoomNeighbors(g, i), FALSE)
getAdjacentTransitionNodesCallback(g, n) == Answer(g, getAdjacentTransitionNodes(g, n), TRUE)
getRoomByCoordinatesCallback(g, x, z) ==
  IF findRoomByCoordinates(g, x, z) = {} THEN [success |-> FALSE, floor |-> {}, room |-> {}]
  ELSE [success |-> TRUE, floor |-> findFloorByHeight(g, z), room |-> findRoomByCoordinates(g, x, z)]
getMinZCallback(g, n) ==
  LET z == UNION {IF g.nodes[v].type = "floor" THEN {s[1] : s \in g.nodes[v].zs}
                  ELSE {b[3] : b \in g.nodes[v].bbox} : v \in getVertexByName(g, n)}
  IN  [success |-> z # {}, min_z |-> OrZero(z, 0)]
isPointInRoomPolygonCallback(g, n, x) ==
  LET rooms == {v \in getVertexByName(g, n) : g.nodes[v].type = "room" /\ g.nodes[v].polygon # {}}
  IN  [success |-> rooms # {}, is_inside |-> \E v \in rooms : \E p \in g.nodes[v].polygon : isPointInPolygon(p, x)]

(* graph_utils.cpp: the planner's finders, on the client's graph *)

gppFindVertexById(g, i) == {v \in DOMAIN g.nodes : g.nodes[v].id = i /\ \A w \in DOMAIN g.nodes : w < v => g.nodes[w].id # i}
gppFindFloorByHeight(g, z) ==
  FoldLeft(LAMBDA best, v :
             IF /\ g.nodes[v].type = "floor" /\ g.nodes[v].zs # {}
                /\ LET s == OrZero(g.nodes[v].zs, <<0, 0>>)
                   IN  /\ s[1] <= z /\ z < s[2]
                       /\ \A b \in best : z - s[1] < z - OrZero(g.nodes[b].zs, <<0, 0>>)[1]
             THEN {v} ELSE best,
           {}, [v \in DOMAIN g.nodes |-> v])
gppFindRoomByCoordinates(g, x, z) ==
  LET inRoom(v, f, r) == /\ g.nodes[v].type = "room"
                         /\ \E fs \in g.nodes[v].floor : \E i \in DOMAIN fs : fs[i] = g.nodes[f].name
                         /\ \E p \in g.nodes[v].polygon : InBuffered(p, r, x)
      tries(f) == SelectSeq([k \in 1 .. 6 * Len(g.nodes) |-> <<((k - 1) % Len(g.nodes)) + 1, (k - 1) \div Len(g.nodes)>>],
                            LAMBDA t : inRoom(t[1], f, t[2]))
  IN  {tries(f)[1][1] : f \in {h \in gppFindFloorByHeight(g, z) : tries(h) # <<>>}}

(* Distances, squared: costBetweenNodes stretches the height difference. *)

euclideanDistanceBetweenNodes(p, q) == (p[1] - q[1]) * (p[1] - q[1]) + (p[2] - q[2]) * (p[2] - q[2])
costBetweenNodes(p, q, penalty) ==
  (p[1] - q[1]) * (p[1] - q[1]) + (p[2] - q[2]) * penalty * ((p[2] - q[2]) * penalty)
isOnSameFloor(f, g) == \E a \in f, b \in g : \E i \in DOMAIN a, j \in DOMAIN b : a[i] = b[j]
isApproximatelyEqual(a, b, tolerance) == Abs(a - b) <= tolerance

-----------------------------------------------------------------------------

MapMessagesInit ==
  \/ Call("transfer", MmFiles)
  \/ Call("finders", [file : MmFiles, x : 0 .. MmReach, z : MmHeights])
  \/ Call("queries", MmFiles)
  \/ Call("distances", [from : MmPositions, to : MmPositions, penalty : 1 .. MmPenalty])

transfer ==
  /\ part = "transfer"
  /\ LET server == parsedGraph(st.in)
         client == loadFromMessage(getTopologicalMap(server))
     IN  Returns("transfer", [server |-> server, client |-> client,
                              again |-> loadFromMessage(convertGraphToMessage(client.graph))])

finders ==
  /\ part = "finders"
  /\ LET server == parsedGraph(st.in.file)
         client == loadFromMessage(getTopologicalMap(server)).graph
     IN  Returns("finders", [graph |-> server, answer |-> getRoomByCoordinatesCallback(server, st.in.x, st.in.z),
                             planner |-> gppFindRoomByCoordinates(client, st.in.x, st.in.z)])

queries ==
  /\ part = "queries"
  /\ LET g == parsedGraph(st.in)
         ids == {g.nodes[v].id : v \in DOMAIN g.nodes}
         names == {g.nodes[v].name : v \in DOMAIN g.nodes}
     IN  Returns("queries",
           [graph |-> g, floors |-> getFloorNodesCallback(g), rooms |-> getRoomNodesCallback(g),
            onFloor |-> [n \in names |-> getRoomNodesOnFloor(g, n)],
            neighbors |-> [i \in ids |-> getRoomNeighborsCallback(g, to_string(i))],
            transitions |-> [n \in names |-> getAdjacentTransitionNodesCallback(g, n)],
            bottom |-> [n \in names |-> getMinZCallback(g, n)],
            inside |-> [n \in names |-> {x \in 0 .. MmReach : isPointInRoomPolygonCallback(g, n, x).is_inside}],
            shared |-> {<<v, w>> \in (DOMAIN g.nodes) \X (DOMAIN g.nodes) : isOnSameFloor(g.nodes[v].floor, g.nodes[w].floor)},
            lowest |-> getMinZ(g), highest |-> getMaxZ(g)])

distances ==
  /\ part = "distances"
  /\ Returns("distances", [distance |-> euclideanDistanceBetweenNodes(st.in.from, st.in.to),
                           back |-> euclideanDistanceBetweenNodes(st.in.to, st.in.from),
                           cost |-> costBetweenNodes(st.in.from, st.in.to, st.in.penalty),
                           level |-> isApproximatelyEqual(st.in.from[2], st.in.to[2], 1)])

MapMessagesNext == transfer \/ finders \/ queries \/ distances

-----------------------------------------------------------------------------

UniqueIds(g) == \A v, w \in DOMAIN g.nodes : v # w => g.nodes[v].id # g.nodes[w].id /\ g.nodes[v].name # g.nodes[w].name

\* The planner's copy of the map is the server's: the same nodes with the
\* same floors, the same room outlines and floor heights, the same edges with
\* the same ends, rooms and paths; its lookup tables find each node, and its
\* new ids lie above every id in use (topomap_server.cpp
\* getTopologicalMapCallback, topological_map.cpp loadFromMessage).
TransferKeepsMap ==
  Done("transfer") =>
    LET s == st.out.server  c == st.out.client
        shown(n) == [id |-> n.id, name |-> n.name, type |-> n.type, floor |-> n.floor,
                     polygon |-> {p \in n.polygon : n.type = "room"}]
    IN  /\ c.ok
        /\ [v \in DOMAIN s.nodes |-> shown(s.nodes[v])] = [v \in DOMAIN c.graph.nodes |-> shown(c.graph.nodes[v])]
        /\ \A v \in DOMAIN s.nodes : s.nodes[v].type = "floor" => s.nodes[v].zs \subseteq c.graph.nodes[v].zs
        /\ Len(s.edges) = Len(c.graph.edges)
        /\ \A e \in DOMAIN s.edges :
             LET a == s.edges[e]  b == c.graph.edges[e]
             IN  /\ a.props.id = b.props.id /\ a.props.room = b.props.room /\ a.ends = b.ends
                 /\ {p \in a.props.path : p # <<>>} = b.props.path
                 /\ b.props.id <= c.ids.edge
        /\ c.ids.floors = Range(getVerticesByType(c.graph, "floor"))
        /\ \A v \in DOMAIN c.graph.nodes :
             /\ c.graph.nodes[v].id <= c.ids.node
             /\ UniqueIds(s) => /\ findVertexById(c, s.nodes[v].id) = {v}
                                /\ findVertexByName(c, s.nodes[v].name) = {v}
                                /\ gppFindVertexById(c.graph, s.nodes[v].id) = {v}

\* The server and the planner put a point in the same room, and it is the
\* room the point lies in or, within half a metre, the one it is nearest to
\* (findRoomByCoordinates of topological_map_utils.cpp and graph_utils.cpp).
RoomIsNearest ==
  Done("finders") =>
    LET g == st.out.graph
        beside(v) == LET p == OrZero(g.nodes[v].polygon, <<0, 0>>)
                     IN  IF p[1] < st.in.x /\ st.in.x < p[2] THEN 0
                         ELSE Greatest(p[1] - st.in.x, st.in.x - p[2]) + 1
    IN  /\ st.out.planner = st.out.answer.room
        /\ st.out.answer.success => Cardinality(st.out.answer.room) = 1 /\ Cardinality(st.out.answer.floor) = 1
        /\ \A v \in st.out.answer.room, f \in st.out.answer.floor :
             /\ beside(v) <= 5
             /\ \A w \in getRoomNodesOnFloor(g, g.nodes[f].name) : g.nodes[w].polygon # {} => beside(v) <= beside(w)

\* Two rooms are each other's neighbours or neither's, a transition between
\* them is adjacent to both, a point is inside the room the room query
\* names, and no node lies below the lowest height
\* (TopologicalMapUtils, topomap_server.cpp query callbacks).
QueriesAgree ==
  Done("queries") /\ UniqueIds(st.out.graph) =>
    LET g == st.out.graph  o == st.out
        id(v) == g.nodes[v].id  name(v) == g.nodes[v].name
    IN  /\ \A v, w \in o.rooms.nodes :
             /\ w \in o.neighbors[id(v)].nodes <=> v \in o.neighbors[id(w)].nodes
             /\ w \in o.neighbors[id(v)].nodes =>
                  \E t \in o.transitions[name(v)].nodes \cap o.transitions[name(w)].nodes :
                    {v, w} \subseteq o.neighbors[id(t)].nodes
        /\ \A n \in DOMAIN o.bottom : o.bottom[n].success => \A z \in o.lowest : z <= o.bottom[n].min_z
        /\ \A z \in o.lowest, y \in o.highest : z <= y
        /\ \A f \in o.floors.nodes : o.onFloor[name(f)] \X o.onFloor[name(f)] \subseteq o.shared
        /\ \A v \in o.rooms.nodes : \A x \in o.inside[name(v)] :
             \E p \in g.nodes[v].polygon : p[1] < x /\ x < p[2]

\* The distance the planner's heuristic uses never exceeds the cost it
\* searches with, in either direction (topological_map.cpp
\* euclideanDistanceBetweenNodes, costBetweenNodes).
EstimateIsBelowCost ==
  Done("distances") =>
    /\ st.out.distance <= st.out.cost /\ st.out.distance = st.out.back
    /\ st.out.cost = 0 <=> st.in.from = st.in.to

\* A graph sent on as a message can be read again and is the same graph
\* (topological_map.hpp "Convert topological graph to Topomap message").
\* It does not hold: README, Disagreements.
SentOnIsReadable ==
  Done("transfer") => st.out.again.graph = st.out.client.graph
=============================================================================
