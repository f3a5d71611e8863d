--------------------------- MODULE BuildingModel ----------------------------
(***************************************************************************)
(* From the elements of a building model to floors, stairs, grids and      *)
(* rooms.                                                                  *)
(***************************************************************************)
EXTENDS Component, SequencesExt

-----------------------------------------------------------------------------
(***************************************************************************)
(* How the generator of navigation models reads a building: the elements   *)
(* in batches, the floors from storeys and slabs, the floors of every      *)
(* element, the floors no stair reaches, and the rooms of a floor.         *)
(* Heights are integers; of polygons only areas and overlaps are kept.     *)
(***************************************************************************)

CONSTANTS
  FlTolerance,  \* vertical_tolerance
  FlCeiling,    \* how far below the top of its floor a ceiling slab may begin
  FlLevels,     \* the heights slabs may have
  FlStoreys,    \* the storeys of the models: sequences of <<elevation, name>>
  FlStairs,     \* the flights: <<lowest, highest>> point, or <<>>
  FlLandings,   \* the slabs of stairs: sets of heights
  FlTop,        \* the highest point of a building
  FlElements    \* the most elements of a model

Sorted(S) == SetToSortSeq(S, <)

-----------------------------------------------------------------------------
(* ResourceMonitor and the batches of IfcManager *)

get_optimal_element_processes_and_batches(in) ==
  LET processes == Greatest(1, Least(in.memory, Least(Least(in.total, in.cpu), Greatest(1, in.cpu))))
      size == Greatest(10, Least(50, in.total \div (2 * processes)))
      batches == (in.total + size - 1) \div size
  IN  [processes |-> processes, batches |-> batches,
       size |-> Greatest(1, IF batches < processes THEN Greatest(1, in.total \div processes) ELSE size)]
\* The loop that cuts the elements into batches; they shrink as soon as the
\* announced number of batches suffices with smaller ones.  It never needs more
\* than four turns per processor.
BatchLoop(in, s, turn) ==
  LET i == Greatest(0, s.i)
      next == i + s.size
      left == in.plan.batches - (s.j + 1)
  IN  IF s.done \/ i >= in.total THEN s
      ELSE IF i + s.size >= in.total
      THEN [s EXCEPT !.out = Append(@, <<i, in.total>>), !.done = TRUE]
      ELSE [s EXCEPT !.out = Append(@, <<i, next>>), !.i = next, !.j = @ + 1,
                     !.size = IF (@ - 1) * left >= in.total - next THEN @ - 1 ELSE @]
process_elements_parallel(in) ==
  LET plan == get_optimal_element_processes_and_batches(in)
      start == [out |-> <<>>, i |-> 0, j |-> 0, size |-> plan.size, done |-> FALSE]
      loop(s, turn) == BatchLoop([total |-> in.total, plan |-> plan], s, turn)
      batches == FoldLeft(loop, start, [k \in 1 .. Least(in.total, 4 * in.cpu) |-> k]).out
  IN  [batches |-> batches, processes |-> Least(plan.processes, Len(batches)), planned |-> plan.processes]
\* The processes for floors, rooms and meshes: what memory allows, but not more
\* than processors or tasks, and at least one.
get_optimal_floor_processes(in) ==
  LET byMemory == Least(Greatest(1, in.memory \div Greatest(1, in.average)), Greatest(1, in.memory \div in.largest))
  IN  Least(byMemory, Least(Greatest(1, in.cpu), Greatest(1, Least(in.total, in.cpu))))
get_optimal_room_processes(in) ==
  LET byMemory == IF in.total = 0 THEN Greatest(1, in.cpu \div 2)
                  ELSE Least(Greatest(1, in.memory \div Greatest(1, in.average)), Greatest(1, in.memory \div in.largest))
  IN  Least(byMemory, Least(Greatest(1, in.cpu), Greatest(1, Least(in.total, in.cpu))))
get_optimal_mesh_processes(in) ==
  Least(Greatest(1, in.memory \div in.largest), Least(Least(in.total, in.cpu), Greatest(1, in.cpu)))

\* Names: an umlaut is spelled with two letters, every other character that is
\* not a letter, a digit or "_" becomes "_", and a digit does not come first.
validCharacter(c) ==
  CASE c = "umlaut" -> <<"u", "e">> [] c \in {"u", "e", "1", "_"} -> <<c>> [] OTHER -> <<"_">>
valid_name(name) ==
  LET plain == FlattenSeq([k \in DOMAIN name |-> validCharacter(name[k])])
  IN  IF plain # <<>> /\ plain[1] = "1" THEN <<"_">> \o plain ELSE plain

-----------------------------------------------------------------------------
(* FloorManager *)

\* The elements of the building: its slabs, a flight, the landings, an outer
\* wall, an inner wall of the top floor, the roof and a space.
Element(id, type, lo, hi, inStair, inRoof) ==
  [id |-> id, type |-> type, lo |-> lo, hi |-> hi, stair |-> inStair, roof |-> inRoof]
ElementsOf(in) ==
  SetToSeq(
    { Element(<<"slab", z>>, "IfcSlab", z - 1, z, FALSE, FALSE) : z \in DOMAIN in.slabs }
    \cup { Element(<<"landing", z>>, "IfcSlab", z - 1, z, TRUE, FALSE) : z \in in.landings }
    \cup IF in.stair = <<>> THEN {}
         ELSE {Element(<<"flight", 0>>, "IfcStairFlight", in.stair[1], in.stair[2], TRUE, FALSE)})
  \o << Element(<<"wall", 0>>, "IfcWall", 0, FlTop, FALSE, FALSE),
        Element(<<"wall", 1>>, "IfcWall", FlTop - 2, FlTop, FALSE, FALSE),
        Element(<<"roof", 0>>, "IfcRoof", FlTop - 1, FlTop, FALSE, TRUE),
        Element(<<"space", 0>>, "IfcSpace", 0, 2, FALSE, FALSE) >>

physical_part_of_stair_or_ramp(e) == e.stair
physical_part_of_roof(e) == e.roof
is_ceiling(e, top) == e.type = "IfcSlab" /\ e.lo >= top - FlCeiling

\* Of two storeys at one elevation the later one is kept.
ifc_storeys(in) ==
  [z \in {s[1] : s \in Range(in.storeys)} |->
     LET last == CHOOSE k \in DOMAIN in.storeys :
                   in.storeys[k][1] = z /\ \A j \in DOMAIN in.storeys : in.storeys[j][1] = z => j <= k
     IN  in.storeys[last][2]]

\* The floors among the slabs, from below: a slab close above the one before
\* lifts the last floor when it is large enough - unless that floor is at 0.
slabStep(in, s, z) ==
  LET last == Max(s.floors)
  IN  IF s.stop \/ z + FlTolerance > FlTop THEN [s EXCEPT !.stop = TRUE]
      ELSE IF s.floors = {} THEN [s EXCEPT !.previous = z, !.floors = {z}]
      ELSE IF z - s.previous < FlTolerance
      THEN [s EXCEPT !.previous = z,
                     !.floors = IF last # 0 /\ 10 * in.slabs[z] > in.slabs[last]
                                THEN (@ \ {last}) \cup {z} ELSE @]
      ELSE [s EXCEPT !.previous = z, !.floors = @ \cup {z}]
analyze_slab_elevations(in) ==
  LET step(s, z) == slabStep(in, s, z)
  IN  FoldLeft(step, [floors |-> {}, previous |-> 0, stop |-> FALSE], Sorted(DOMAIN in.slabs)).floors

\* The higher of a floor and the first storey close to it; the floors without a
\* storey and the storeys without a floor stay.
combine_floor_elevations(storeys, floors) ==
  LET near(z, s) == Abs(z - s) <= FlTolerance
      first(z) == Min({s \in storeys : near(z, s)})
      placed(z) == IF \E s \in storeys : near(z, s) THEN Greatest(z, first(z)) ELSE z
  IN  {placed(z) : z \in floors} \cup {s \in storeys : \A z \in floors : ~near(z, s)}

\* A dictionary in the order of insertion: a second value under a name replaces
\* the first one in its place.
Stored(dict, f) ==
  IF \E k \in DOMAIN dict : dict[k].name = f.name
  THEN [k \in DOMAIN dict |-> IF dict[k].name = f.name THEN f ELSE dict[k]]
  ELSE Append(dict, f)
Named(dict, name) == CHOOSE f \in Range(dict) : f.name = name
Names(dict) == {f.name : f \in Range(dict)}

create_stair_slab_floors(in, mains) ==
  LET parents(z) == SelectSeq(mains, LAMBDA f : f.lo <= z /\ z < f.hi)
      placed == {z \in in.landings : /\ \A f \in Range(mains) : Abs(z - f.lo) > FlTolerance
                                     /\ parents(z) # <<>>}
      number(z) == Cardinality({y \in placed : y < z /\ parents(y)[1] = parents(z)[1]})
      make(dict, z) == Stored(dict, [name |-> Append(parents(z)[1].name, ToString(number(z))),
                                     lo |-> z, hi |-> parents(z)[1].hi, stair |-> TRUE])
  IN  FoldLeft(make, mains, Sorted(placed))
extract_floors(in) ==
  LET storeys == ifc_storeys(in)
      heights == Sorted(combine_floor_elevations(DOMAIN storeys, analyze_slab_elevations(in)))
      near(z) == {s \in DOMAIN storeys : 0 <= z - s /\ z - s < FlTolerance}
      name(k) == IF near(heights[k]) = {} THEN <<"Floor", ToString(k)>>
                 ELSE <<storeys[Min(near(heights[k]))]>>
      make(dict, k) == Stored(dict, [name |-> name(k), lo |-> heights[k],
                                     hi |-> IF k < Len(heights) THEN heights[k + 1] ELSE FlTop, stair |-> FALSE])
  IN  create_stair_slab_floors(in, FoldLeft(make, <<>>, [k \in DOMAIN heights |-> k]))

calculate_overlap(lo, hi, bottom, top) ==
  IF lo <= bottom
  THEN CASE hi <= bottom -> 0 [] hi > bottom /\ hi >= top -> top - bottom [] OTHER -> hi - bottom
  ELSE CASE lo >= top -> 0 [] lo < top /\ hi <= top -> hi - lo [] OTHER -> top - lo
find_nearest_floor(floors, z) ==
  LET diff(k) == Abs(floors[k].lo - z)
  IN  floors[CHOOSE k \in DOMAIN floors :
               \A j \in DOMAIN floors : diff(k) < diff(j) \/ (diff(k) = diff(j) /\ k <= j)].name

onFloor(e, f) ==
  LET overlap == calculate_overlap(e.lo, e.hi, f.lo, f.hi)
      slab == e.type = "IfcSlab" /\ (overlap > 0 \/ (f.lo - FlTolerance <= e.hi /\ e.hi < f.hi))
  IN  slab \/ (overlap > 0 /\ e.lo < f.hi - FlTolerance)
onStairFloor(e, f) ==
  /\ physical_part_of_stair_or_ramp(e)
  /\ \/ f.lo <= e.lo /\ e.lo < f.hi
     \/ f.lo <= e.hi /\ e.hi < f.hi
     \/ e.lo <= f.lo /\ e.hi >= f.hi
hasMesh(e, f) ==
  IF e.type = "IfcSlab" THEN ~is_ceiling(e, f.hi) ELSE ~physical_part_of_roof(e) /\ e.type # "IfcSpace"
\* The first pass: the floors of every element, their meshes, the flights' ends.
assignFloors(elements, floors) ==
  LET on(e) == {f.name : f \in {g \in Range(floors) : IF g.stair THEN onStairFloor(e, g) ELSE onFloor(e, g)}}
      listed(f) == {e \in Range(elements) : ~f.stair /\ onFloor(e, f) /\ hasMesh(e, f)}
  IN  [floors |-> floors,
       on |-> [e \in Range(elements) |-> on(e)],
       meshes |-> [n \in Names(floors) |-> listed(Named(floors, n))],
       ends |-> IF floors = <<>> THEN {}
                ELSE UNION { {find_nearest_floor(floors, e.lo), find_nearest_floor(floors, e.hi)} :
                             e \in {d \in Range(elements) : d.type = "IfcStairFlight"} }]
\* A floor no flight begins or ends on gives its elements to the next floor
\* below that stays, or drops them.
removeFloor(unreached, s, name) ==
  LET removed == Named(s.floors, name)
      below == {f \in Range(s.floors) : f.name \notin unreached /\ f.lo < removed.lo}
      heir == CHOOSE f \in below : \A g \in below : g.lo <= f.lo
      moved == {e \in DOMAIN s.on : name \in s.on[e] /\ heir.name \notin s.on[e]}
      left == SelectSeq(s.floors, LAMBDA f : f.name # name)
      gone == [s EXCEPT !.floors = left, !.on = [e \in DOMAIN @ |-> @[e] \ {name}],
                        !.meshes = [n \in DOMAIN @ \ {name} |-> @[n]]]
  IN  IF below = {} THEN gone
      ELSE [gone EXCEPT !.floors = Stored(@, [heir EXCEPT !.hi = Greatest(@, removed.hi)]),
                        !.on = [e \in DOMAIN @ |-> IF name \in s.on[e] THEN @[e] \cup {heir.name} ELSE @[e]],
                        !.meshes[heir.name] =
                           @ \cup {e \in moved : ~physical_part_of_roof(e) /\ e.type # "IfcSpace"}]
assign_elements_to_floors(elements, floors) ==
  LET first == assignFloors(elements, floors)
      several == Cardinality({f \in Range(floors) : ~f.stair}) > 1
      remove == SelectSeq([k \in DOMAIN floors |-> floors[k].name], LAMBDA n : several /\ n \notin first.ends)
      step(s, n) == removeFloor(Range(remove), s, n)
  IN  FoldLeft(step, first, remove)
readBuilding(in) == assign_elements_to_floors(ElementsOf(in), extract_floors(in))

-----------------------------------------------------------------------------
(* RoomManager *)

\* The spaces get names of their own: a name that is taken is numbered.
detect_ifc_spaces(names) ==
  LET taken(named, n) == \E k \in DOMAIN named : named[k] = n
      free(named, n) == CHOOSE k \in 1 .. Len(names) + 1 :
                          /\ ~taken(named, Append(n, ToString(k)))
                          /\ \A j \in 1 .. k - 1 : taken(named, Append(n, ToString(j)))
      step(named, n) == Append(named, IF taken(named, n) THEN Append(n, ToString(free(named, n))) ELSE n)
  IN  FoldLeft(step, <<>>, names)
\* How a space covers an enclosure of the walls: alike, inside it, around it.
calculate_overlap_percentage(in, space, enclosure) == in[enclosure][space]
coveringSpaces(in, enclosure) ==
  LET kind(s) == calculate_overlap_percentage(in, s, enclosure)
      stop == {s \in DOMAIN in[enclosure] : kind(s) \in {"alike", "around"}}
  IN  {s \in DOMAIN in[enclosure] : kind(s) # "apart" /\ \A t \in stop : s <= t}
\* An enclosure without a space is a room of its own; several spaces are
\* combined and contained in the new room, of which the last one counts.
detect_rooms_from_walls(in) ==
  LET spaces == DOMAIN in[1]
      combined == {k \in DOMAIN in : Cardinality(coveringSpaces(in, k)) > 1}
      in_(s) == {k \in combined : s \in coveringSpaces(in, k)}
  IN  [detected |-> {k \in DOMAIN in : coveringSpaces(in, k) = {}},
       combined |-> [k \in combined |-> coveringSpaces(in, k)],
       contained_in |-> [s \in spaces |-> IF in_(s) = {} THEN 0 ELSE Max(in_(s))]]
\* The rooms that get a grid and a map.
rooms_without_contained(out) == {s \in DOMAIN out.contained_in : out.contained_in[s] = 0}

-----------------------------------------------------------------------------
Buildings_ ==
  { [storeys |-> s, slabs |-> [z \in {y \in FlLevels : a[y] # 0} |-> a[z]], stair |-> t, landings |-> l] :
      s \in FlStoreys, a \in [FlLevels -> {0, 1, 20}], t \in FlStairs, l \in FlLandings }
Machines ==
  [total : 0 .. FlElements, cpu : 1 .. 4, memory : {1, 3, 8}]
Shares ==
  { in \in [total : 0 .. 4, cpu : 1 .. 4, memory : {1, 3, 8}, average : 0 .. 2, largest : 1 .. 4] :
      in.average <= in.largest }
BimFloorsInit ==
  \/ Call("batches", Machines)
  \/ Call("processes", Shares)
  \/ Call("validName", BoundedSeq({"u", "umlaut", "1", "_", "-"}, 3))
  \/ Call("overlap", [lo : 0 .. 3, hi : 0 .. 4, bottom : 0 .. 3, top : 1 .. 4])
  \/ Call("building", Buildings_)
  \/ Call("spaceNames", BoundedSeq({<<"X">>, <<"X", "1">>, <<"Y">>}, 4))
  \/ Call("walls", [1 .. 2 -> [1 .. 3 -> {"alike", "inside", "around", "apart"}]])
BimFloorsNext ==
  \/ part = "batches" /\ Returns("batches", process_elements_parallel(st.in))
  \/ part = "processes" /\ Returns("processes",
       <<get_optimal_floor_processes(st.in), get_optimal_room_processes(st.in), get_optimal_mesh_processes(st.in)>>)
  \/ part = "validName" /\ Returns("validName", valid_name(st.in))
  \/ part = "overlap" /\ Returns("overlap", calculate_overlap(st.in.lo, st.in.hi, st.in.bottom, st.in.top))
  \/ part = "building" /\ Returns("building", readBuilding(st.in))
  \/ part = "spaceNames" /\ Returns("spaceNames", detect_ifc_spaces(st.in))
  \/ part = "walls" /\ Returns("walls", detect_rooms_from_walls(st.in))

-----------------------------------------------------------------------------
\* Cutting the elements into batches loses none and doubles none, whatever the
\* announced number of batches, and gives every planned process one
\* (IfcManager.process_elements_parallel).
BatchesPartition ==
  Done("batches") /\ st.in.total > 0 =>
    LET b == st.out.batches
    IN  /\ b[1][1] = 0 /\ b[Len(b)][2] = st.in.total
        /\ \A k \in DOMAIN b : b[k][1] < b[k][2] /\ (k > 1 => b[k][1] = b[k - 1][2])
        /\ st.out.processes = st.out.planned

\* A pool always has a worker and never more than there are processors
\* (ResourceMonitor); valid names stay as they are; overlaps are intersections.
HelpersAreExact ==
  /\ Done("processes") => \A k \in 1 .. 2 : st.out[k] \in 1 .. st.in.cpu
  /\ Done("validName") => /\ valid_name(st.out) = st.out
                          /\ st.in # <<>> => st.out # <<>> /\ st.out[1] # "1"
  /\ Done("overlap") /\ st.in.lo <= st.in.hi /\ st.in.bottom < st.in.top =>
       st.out = Greatest(0, Least(st.in.hi, st.in.top) - Greatest(st.in.lo, st.in.bottom))

\* After floors were removed every element, mesh list and end of a flight names
\* floors that are left; a listed mesh belongs to an element of the floor; and
\* two floors that are left never overlap (FloorManager).
FloorsAreConsistent ==
  Done("building") =>
    LET names == Names(st.out.floors)
        mains == {f \in Range(st.out.floors) : ~f.stair}
    IN  /\ \A e \in DOMAIN st.out.on : st.out.on[e] \subseteq names
        /\ DOMAIN st.out.meshes = names
        /\ \A n \in names : \A e \in st.out.meshes[n] : n \in st.out.on[e]
        /\ Cardinality(mains) > 1 => names \subseteq st.out.ends
        /\ \A f, g \in mains : f.lo < g.lo => f.hi <= g.lo

\* Every space keeps a name of its own, every enclosure has a room that is not
\* contained in another one, and a contained space is part of the room it is
\* said to be contained in (RoomManager).
RoomsAreTold ==
  /\ Done("spaceNames") => IsInjective(st.out)
  /\ Done("walls") =>
       /\ \A s \in DOMAIN st.out.contained_in :
            st.out.contained_in[s] # 0 => s \in st.out.combined[st.out.contained_in[s]]
       /\ \A k \in DOMAIN st.in :
            \/ k \in st.out.detected \/ k \in DOMAIN st.out.combined
            \/ \E s \in coveringSpaces(st.in, k) :
                 s \in rooms_without_contained(st.out) \/ st.out.contained_in[s] \in DOMAIN st.out.combined

-----------------------------------------------------------------------------
(***************************************************************************)
(* The grids of the generator of navigation models: voxels and their       *)
(* centres, the filled grid of a mesh, the element type that colours a     *)
(* voxel, the cells of an occupancy map, the growth of a room's free space *)
(* into its doors, and the two ends of a stair.                            *)
(***************************************************************************)

CONSTANTS
  BgWidth, BgHeight,  \* the size of the grids
  BgNodes,            \* the nodes of a skeleton
  BgHeights           \* the heights of the vertices at the ends of a stair

Plane == (0 .. BgWidth - 1) \X (0 .. BgHeight - 1)
Beside(c) == {d \in Plane : Abs(c[1] - d[1]) + Abs(c[2] - d[2]) = 1}

-----------------------------------------------------------------------------
(* VoxelGrid: a voxel is two units wide *)

get_voxel_center_from_index(origin, i) == origin + 2 * i + 1
get_index_from_coordinates(origin, x) == Truncated(x - origin, 2)

\* A sample point is inside when the rays in every direction hit the surface;
\* only the points between the outermost voxels are sampled.
hitsEverywhere(surface, c) ==
  /\ \E d \in surface : d[1] > c[1] /\ d[2] = c[2]
  /\ \E d \in surface : d[1] < c[1] /\ d[2] = c[2]
  /\ \E d \in surface : d[2] > c[2] /\ d[1] = c[1]
  /\ \E d \in surface : d[2] < c[2] /\ d[1] = c[1]
create_filled_voxel_grid(surface) ==
  LET within(c, k) == Min({d[k] : d \in surface}) <= c[k] /\ c[k] <= Max({d[k] : d \in surface})
  IN  IF surface = {} THEN {}
      ELSE surface \cup {c \in Plane : within(c, 1) /\ within(c, 2) /\ hitsEverywhere(surface, c)}

\* The elements of a voxel: their type's priority (14 without an entry), and
\* whether they are ceiling or roof.
typePriority(type) ==
  CASE type = "IfcDoor" -> 1 [] type = "IfcWall" -> 3 [] type = "IfcSlab" -> 4 [] OTHER -> 14
colorStep(best, e) ==
  IF e.hidden \/ typePriority(e.type) >= best.priority THEN best
  ELSE [type |-> e.type, priority |-> typePriority(e.type)]
create_colored_voxel_grid(guids) ==
  LET best == FoldLeft(colorStep, [type |-> "Unknown", priority |-> 999], guids)
  IN  [type |-> best.type, shown |-> best.type # "Unknown" \/ guids = <<>>]

-----------------------------------------------------------------------------
(* OccupancyMapManager: one cell of the map, heights above the floor *)

\* The robot is 5 high and climbs 1; doors may stand up to 2 above the floor.
RobotHeight == 5
RobotStep == 1
Tolerance == 2
\* Doors above the floor raise the heights by the highest of them.
doorsElevated(doors) ==
  LET raised == {z \in doors : 0 < z /\ z < Tolerance} IN IF raised = {} THEN 0 ELSE Max(raised)
\* The sets of cells a voxel puts its cell into.
markVoxel(v, raised) ==
  IF ~(-Tolerance < v.z /\ v.z < raised + RobotHeight) THEN {}
  ELSE CASE v.kind = "walkable" -> {"slab"}
         [] v.kind = "door" -> {"door"}
         [] v.kind = "stair" /\ v.z >= RobotStep -> {"stairObstacle"}
         [] v.kind = "wall" /\ v.z > raised + RobotStep -> {"obstacle"}
         [] OTHER -> {}
create_occupancy_map(in) ==
  LET raised == doorsElevated(in.doors)
      marks == UNION {markVoxel(v, raised) : v \in in.voxels}
  IN  CASE "obstacle" \in marks -> 0
        [] "obstacle" \notin marks /\ "door" \in marks -> 255
        [] "obstacle" \notin marks /\ "door" \notin marks /\ "slab" \in marks /\ "stairObstacle" \notin marks -> 255
        [] "obstacle" \notin marks /\ "door" \notin marks
             /\ ("slab" \notin marks \/ "stairObstacle" \in marks) /\ in.stairEnd -> 255
        [] OTHER -> IF in.outside THEN 100 ELSE 0

\* The cells a polygon given by its bounds marks: those with a corner inside.
mark_stair_polygon_cells(lo, hi) ==
  { c \in Plane : \E x \in {c[1], c[1] + 1}, y \in {c[2], c[2] + 1} :
                    lo[1] < x /\ x < hi[1] /\ lo[2] < y /\ y < hi[2] }

\* The free cells of a room grow through free cells into the doors, up to the
\* width of its walls; breadth first, with the distances found so far.
RECURSIVE grow(_, _, _, _)
grow(free, reach, queue, distance) ==
  IF queue = <<>> THEN DOMAIN distance
  ELSE LET c == Head(queue)
           next == {d \in Beside(c[1]) \cap free : c[2] + 1 <= reach /\ d \notin DOMAIN distance}
           order == [k \in 1 .. Cardinality(next) |-> <<SetToSeq(next)[k], c[2] + 1>>]
       IN  grow(free, reach, Tail(queue) \o order,
                [d \in DOMAIN distance \cup next |-> IF d \in next THEN c[2] + 1 ELSE distance[d]])
bfs_dilation(in) ==
  LET marked == in.free \cap in.polygon
      seq == SetToSeq(marked)
      grown == grow(in.free, in.reach + 1, [k \in DOMAIN seq |-> <<seq[k], 0>>], [c \in marked |-> 0])
      cell(c) == CASE c \in grown -> 255
                   [] c \notin grown /\ c \in in.buffered /\ c \in in.occupied -> 0
                   [] OTHER -> 100
  IN  IF marked = {} THEN [c \in Plane |-> IF c \in in.free THEN 255 ELSE IF c \in in.occupied THEN 0 ELSE 100]
      ELSE [c \in Plane |-> cell(c)]

-----------------------------------------------------------------------------
(* IFCStairRampElement *)

SkeletonNodes == 1 .. BgNodes
Degree(edges, n) == Cardinality({e \in edges : n \in e})
\* Edges are one long: the length of a shortest path, -1 without one.
RECURSIVE layers(_, _, _, _)
layers(edges, seen, target, k) ==
  LET next == seen \cup {n \in SkeletonNodes : \E m \in seen : {m, n} \in edges}
  IN  CASE target \in seen -> k [] target \notin seen /\ next = seen -> -1
        [] OTHER -> layers(edges, next, target, k + 1)
shortest_path(edges, a, b) == layers(edges, {a}, b, 0)
\* The longest shortest path between two of the nodes; {} without one.
longest(edges, nodes) ==
  LET pairs == {p \in SUBSET nodes : Cardinality(p) = 2}
      length(p) == LET a == Min(p) IN shortest_path(edges, a, Max(p))
      joined == {p \in pairs : length(p) > 0}
  IN  IF joined = {} THEN {} ELSE CHOOSE p \in joined : \A q \in joined : length(q) <= length(p)
\* The ends of the centre line ({}: none was found).
get_centerline_of_polygon(edges) ==
  LET nodes == UNION edges
      endpoints == {n \in nodes : Degree(edges, n) = 1}
      inner == {n \in nodes : Degree(edges, n) >= 2}
      trimmed == {e \in edges : e \cap endpoints = {}}
      found == IF Cardinality(inner) < 2 THEN longest(edges, nodes)
               ELSE longest(trimmed, {n \in inner : Degree(trimmed, n) = 1})
  IN  IF edges = {} \/ Cardinality(endpoints) < 2 THEN {}
      ELSE IF found = {} THEN CHOOSE e \in edges : TRUE ELSE found

\* The line reaches the boundary at both ends, or stays as it is.
extend_centerline_to_boundary(in) == in.line /\ in.crossings >= 2 /\ in.onBoundary
\* A line shorter than the cut has no direction beyond it: no polygon.
cut_polygon_at_distance(in) ==
  CASE in.length = 0 -> "raises" [] in.length > 0 /\ in.length <= 4 -> "none" [] OTHER -> "polygon"
Mean(S) == (12 * FoldSet(LAMBDA z, sum : z + sum, 0, S)) \div Cardinality(S)
\* The end whose vertices are lower on average is the start; it takes its lowest
\* vertex, the other end its highest one.
get_stair_ramp_start_and_end(in) ==
  LET a == in.first
      b == in.last
  IN  CASE ~in.line \/ cut_polygon_at_distance(in) # "polygon" \/ a = {} \/ b = {} -> <<>>
        [] in.line /\ cut_polygon_at_distance(in) = "polygon" /\ a # {} /\ b # {} /\ Mean(a) <= Mean(b) ->
             <<[z |-> Min(a), of |-> "first"], [z |-> Max(b), of |-> "last"]>>
        [] OTHER -> <<[z |-> Min(b), of |-> "last"], [z |-> Max(a), of |-> "first"]>>

-----------------------------------------------------------------------------
Rectangles == { {c \in Plane : c[1] \in x[1] .. x[2] /\ c[2] \in y[1] .. y[2]} :
                  x \in {<<0, 1>>, <<1, 2>>}, y \in {<<1, 1>>} }
Cells_ == [doors : SUBSET {0, 1, 3}, stairEnd : BOOLEAN, outside : BOOLEAN,
           voxels : {s \in SUBSET [kind : {"walkable", "door", "stair", "wall"}, z : {-2, 0, 1, 2, 5}] :
                       Cardinality(s) <= 2}]
VoxelElements == [type : {"IfcDoor", "IfcWall", "IfcSlab", "IfcPipe"}, hidden : BOOLEAN]
Growths ==
  { [free |-> f, occupied |-> Plane \ (f \cup {<<0, 0>>}), polygon |-> p, buffered |-> {c \in Plane : c[1] > 0}, reach |-> n] :
      f \in SUBSET Plane, p \in Rectangles, n \in {0, 1} }
StairEnds ==
  [line : BOOLEAN, crossings : 0 .. 2, onBoundary : BOOLEAN, length : {0, 3, 9},
   first : SUBSET BgHeights, last : SUBSET BgHeights]
BimGridsInit ==
  \/ Call("voxelIndex", [origin : -3 .. 3, index : 0 .. 3])
  \/ Call("filled", SUBSET Plane)
  \/ Call("colored", BoundedSeq(VoxelElements, 3))
  \/ Call("cell", Cells_)
  \/ Call("stairCells", {<<0, 1>>} \X (Plane \cup {<<BgWidth, BgHeight>>}))
  \/ Call("dilation", Growths)
  \/ Call("skeleton", SUBSET {e \in SUBSET SkeletonNodes : Cardinality(e) = 2})
  \/ Call("stairEnds", StairEnds)
BimGridsNext ==
  \/ part = "voxelIndex" /\ Returns("voxelIndex",
       get_index_from_coordinates(st.in.origin, get_voxel_center_from_index(st.in.origin, st.in.index)))
  \/ part = "filled" /\ Returns("filled", create_filled_voxel_grid(st.in))
  \/ part = "colored" /\ Returns("colored", create_colored_voxel_grid(st.in))
  \/ part = "cell" /\ Returns("cell", create_occupancy_map(st.in))
  \/ part = "stairCells" /\ Returns("stairCells", mark_stair_polygon_cells(<<0, 0>>, st.in[2]))
  \/ part = "dilation" /\ Returns("dilation", bfs_dilation(st.in))
  \/ part = "skeleton" /\ Returns("skeleton", get_centerline_of_polygon(st.in))
  \/ part = "stairEnds" /\ Returns("stairEnds",
       [ends |-> get_stair_ramp_start_and_end(st.in), extended |-> extend_centerline_to_boundary(st.in)])

-----------------------------------------------------------------------------
\* The cells that can be left towards the border without crossing S.
RECURSIVE open(_, _)
open(S, seen) ==
  LET next == seen \cup {c \in Plane \ S : Beside(c) \cap seen # {}}
  IN  IF next = seen THEN seen ELSE open(S, next)
GridBorder == {c \in Plane : c[1] \in {0, BgWidth - 1} \/ c[2] \in {0, BgHeight - 1}}

\* The grid of an element keeps its surface and has no hole an obstacle could be
\* missed in: every cell the surface encloses is filled; and a voxel's centre
\* lies in the voxel (VoxelGrid).
GridsAreFilled ==
  /\ Done("voxelIndex") => st.out = st.in.index
  /\ Done("filled") => /\ st.in \subseteq st.out
                       /\ Plane \ open(st.in, GridBorder \ st.in) \subseteq st.out

\* A voxel shows the visible element that matters most, in whatever order its
\* elements are listed, and is left out only when ceilings and roofs are all it
\* has (create_colored_voxel_grid).
VoxelShowsMostImportant ==
  Done("colored") =>
    LET visible == {typePriority(st.in[k].type) : k \in {j \in DOMAIN st.in : ~st.in[j].hidden}}
    IN  /\ st.out.shown <=> st.in = <<>> \/ visible # {}
        /\ visible # {} => typePriority(st.out.type) = Min(visible)

\* A free cell of an occupancy map has a floor, a door or the end of a stair and
\* nothing of a wall in the robot's height; a room's free space is what can be
\* reached from inside it (create_occupancy_map, bfs_dilation).
FreeCellsAreFree ==
  /\ Done("cell") /\ st.out = 255 =>
       /\ st.in.stairEnd \/ \E v \in st.in.voxels : v.kind \in {"walkable", "door"}
       /\ \A v \in st.in.voxels :
            v.kind = "wall" => ~(doorsElevated(st.in.doors) + RobotStep < v.z /\ v.z < RobotHeight)
  /\ Done("dilation") =>
       LET free == {c \in Plane : st.out[c] = 255}
       IN  /\ free \subseteq st.in.free
           /\ st.in.free \cap st.in.polygon \subseteq free
           /\ st.in.free \cap st.in.polygon # {} =>
                \A c \in free \ st.in.polygon : \E d \in Beside(c) : d \in free
  /\ Done("stairCells") => \A c \in st.out : c[1] < st.in[2][1] /\ c[2] < st.in[2][2]

\* A stair begins at its lower end, whichever way its centre line runs, and the
\* line joins two nodes of the skeleton (get_stair_ramp_start_and_end).
StairsGoUp ==
  /\ Done("stairEnds") /\ st.out.ends # <<>> =>
       st.out.ends[1].z <= st.out.ends[2].z /\ st.out.ends[1].of # st.out.ends[2].of
  /\ Done("skeleton") /\ st.out # {} =>
       \E a, b \in st.out : a # b /\ shortest_path(st.in, a, b) > 0

-----------------------------------------------------------------------------
(***************************************************************************)
(* How the navigation model generator turns BIM geometry into rooms and    *)
(* element outlines: the spaces the walls of a floor enclose, the rooms of *)
(* stair slabs, the footprint and position of an element, and the path     *)
(* along a stair.  Walls are cells of a small grid; of a triangle only the *)
(* reason for which it is dropped is kept.                                 *)
(***************************************************************************)

CONSTANTS
  BrWidth, BrHeight,  \* the grid the walls lie on
  BrWalls,            \* the layouts of walls tried
  BrMinArea,          \* min_area, in halves of a cell
  BrLines,            \* 2D walking lines, sequences of positions
  BrResolution        \* resolution, in steps of the rounding

(* room_manager.py *)

\* merge_elements and floor_bounds: the walls' box, padded on every side.
Padded == (-1 .. BrWidth) \X (-1 .. BrHeight)
NextTo(c) == {<<c[1] + 1, c[2]>>, <<c[1] - 1, c[2]>>, <<c[1], c[2] + 1>>, <<c[1], c[2] - 1>>}
RECURSIVE Spread(_, _)
Spread(S, within) == LET T == S \cup (UNION {NextTo(c) : c \in S} \cap within) IN IF T = S THEN S ELSE Spread(T, within)
Components(S) == {Spread({c}, S) : c \in S}
Area(S) == 2 * Cardinality(S)
Outside(walls) == Spread({<<-1, -1>>}, Padded \ walls)
\* The wall clusters that are holes of a polygon.
Holes(poly, walls) == {w \in Components(walls) : UNION {NextTo(c) : c \in w} \subseteq poly \cup w}

remove_small_holes(poly, walls) == poly \cup UNION {h \in Holes(poly, walls) : Area(h) < BrMinArea}

\* One polygon left: it is the outside itself.  touches(floor_bounds) is
\* false for it, because their interiors meet.
singlePolygon(poly, walls) ==
  LET cleaned == remove_small_holes(poly, walls)
  IN  IF Area(cleaned) > BrMinArea /\ cleaned # Padded THEN {cleaned} ELSE {}

\* Several: the large ones away from the boundary.
validPolys(polys, walls) ==
  {remove_small_holes(p, walls) : p \in {q \in polys : Area(q) > BrMinArea /\ <<-1, -1>> \notin q}}

\* By falling area, each takes the later ones it covers as its holes.
nested(valid) ==
  LET covered == {q \in valid : \E p \in valid : Area(p) > Area(q) /\ q \subseteq p}
  IN  {p \ UNION {q \in covered : q # p /\ q \subseteq p} : p \in valid \ covered}

find_enclosed_spaces(walls) ==
  LET polys == Components(Padded \ walls)
  IN  IF Cardinality(polys) = 1 THEN UNION {singlePolygon(p, walls) : p \in polys}
      ELSE nested(validPolys(polys, walls))

\* The walls of a floor: none for a stair slab floor; the others take the
\* walls of the floor that begin at most two metres above it.
wallsOf(f, elements) ==
  {e \in elements : /\ ~f.stair /\ e.type = "wall" /\ e.polygon
                    /\ f.name \in e.floor /\ e.minz <= f.minz + 2}
\* A slab of a stair is a room of its stair slab floor, numbered there.
create_rooms_for_stair_slabs(f, elements) ==
  LET slabs == {e \in elements : f.stair /\ e.type = "slab" /\ e.polygon /\ f.name \in e.floor}
  IN  {[name |-> <<f.name, Cardinality({d \in slabs : d.guid < e.guid})>>, of |-> e.guid, floor |-> f.name] : e \in slabs}

(* ifc_manager.py *)

extract_bbox(e) == e.vertices

\* merge_polygons may join the pieces of a footprint; else the largest is kept.
DroppedFor == {"index", "height", "degenerate", "thin"}
extract_2d_polygon(e) ==
  LET valid == {f \in e.faces : f \notin DroppedFor \/ (f = "height" /\ ~e.limited)}
  IN  /\ e.vertices /\ valid # {} /\ e.union # "raises"
      /\ e.area

calculate_position(bbox, polygon, type) ==
  IF ~(bbox /\ polygon) THEN "none" ELSE IF type = "stair" THEN "middle" ELSE "bottom"

\* The worker's plain data becomes an element again; a stair that is itself
\* solid gets its ends, unless finding them raises.
reconstruct_ifc_element(e) ==
  LET bbox == extract_bbox(e)
      polygon == extract_2d_polygon(e)
  IN  [bbox |-> bbox, polygon |-> polygon /\ e.readable,
       position |-> calculate_position(bbox, polygon, e.type),
       mesh |-> e.vertices /\ e.meshable,
       ends |-> e.type = "stair" /\ e.vertices /\ e.solid /\ e.found]

(* topology_manager.py: interpolate_walking_line_3d *)

\* Rounded to the nearest step of the rounding.
Nearest(n, d) == (2 * n + d) \div (2 * d)
Run(line, k) == FoldLeft(LAMBDA s, i : s + Abs(line[i + 1] - line[i]), 0, [i \in 1 .. k - 1 |-> i])
lifted(line, z0, z1) ==
  [i \in DOMAIN line |-> <<line[i], Nearest(z0 * Run(line, Len(line)) + (z1 - z0) * Run(line, i), Run(line, Len(line)))>>]
\* ceil(segment_distance / resolution), and one point when that is at most 1.
Pieces(p, q) ==
  LET d2 == (q[1] - p[1]) * (q[1] - p[1]) + (q[2] - p[2]) * (q[2] - p[2])
  IN  CHOOSE n \in 1 .. 20 : n * n * BrResolution * BrResolution >= d2
                             /\ (n = 1 \/ (n - 1) * (n - 1) * BrResolution * BrResolution < d2)
Densified(p, q) ==
  [j \in 1 .. Pieces(p, q) |->
    IF j = 1 THEN p
    ELSE <<Nearest(p[1] * Pieces(p, q) + (j - 1) * (q[1] - p[1]), Pieces(p, q)),
           Nearest(p[2] * Pieces(p, q) + (j - 1) * (q[2] - p[2]), Pieces(p, q))>>]
interpolate_walking_line_3d(line, z0, z1) ==
  IF Len(line) < 2 \/ Run(line, Len(line)) = 0 THEN <<>>
  ELSE LET path == lifted(line, z0, z1)
       IN  FoldLeft(LAMBDA s, i : s \o Densified(path[i], path[i + 1]), <<>>, [i \in 1 .. Len(path) - 1 |-> i])
           \o <<path[Len(path)]>>

-----------------------------------------------------------------------------

BrElements == [guid : {1, 2}, type : {"wall", "slab"}, polygon : BOOLEAN, floor : {{"f"}, {"s"}, {"f", "s"}}, minz : {1, 3}]
BrShapes ==
  [type : {"wall", "stair"}, vertices : BOOLEAN, faces : SUBSET {"index", "height", "degenerate", "good"},
   limited : BOOLEAN, union : {"raises", "polygon"}, area : BOOLEAN, readable : BOOLEAN, meshable : BOOLEAN,
   solid : BOOLEAN, found : BOOLEAN]

BimRoomsInit ==
  \/ Call("enclosed", BrWalls)
  \/ Call("floorRooms", {{}} \cup {{e} : e \in BrElements}
                        \cup {{a, b} : a \in {e \in BrElements : e.guid = 1}, b \in {e \in BrElements : e.guid = 2}})
  \/ Call("element", BrShapes)
  \/ Call("walkingLine", [line : BrLines, from : 0 .. 3, to : 0 .. 7])

enclosed == part = "enclosed" /\ Returns("enclosed", find_enclosed_spaces(st.in))
floorRooms ==
  /\ part = "floorRooms"
  /\ LET flat == [name |-> "f", stair |-> FALSE, minz |-> 0]
         steps == [name |-> "s", stair |-> TRUE, minz |-> 1]
     IN  Returns("floorRooms",
           [walls |-> [f \in {"f", "s"} |-> wallsOf(IF f = "f" THEN flat ELSE steps, st.in)],
            rooms |-> create_rooms_for_stair_slabs(flat, st.in) \cup create_rooms_for_stair_slabs(steps, st.in)])
element == part = "element" /\ Returns("element", reconstruct_ifc_element(st.in))
walkingLine ==
  /\ part = "walkingLine"
  /\ Returns("walkingLine", interpolate_walking_line_3d(st.in.line, st.in.from, st.in.to))
BimRoomsNext == enclosed \/ floorRooms \/ element \/ walkingLine

-----------------------------------------------------------------------------

\* Where the walls enclose a space, the rooms are exactly the large enclosed
\* spaces, each once, and never the outside (room_manager.py
\* find_enclosed_spaces); every slab of a stair is one room with its own name
\* on its stair floor, and a stair floor takes no walls.
RoomsAreEnclosed ==
  /\ Done("enclosed") /\ Cardinality(Components(Padded \ st.in)) > 1 =>
       /\ \A r \in st.out : r \cap Outside(st.in) = {}
       /\ \A r, s \in st.out : r # s => r \cap s = {}
       /\ \A c \in Components(Padded \ st.in) \ {Outside(st.in)} :
            Area(c) > BrMinArea <=> \E r \in st.out : c \subseteq r
  /\ Done("floorRooms") =>
       /\ st.out.walls["s"] = {}
       /\ \A r, s \in st.out.rooms : r.name = s.name => r = s
       /\ {r.of : r \in st.out.rooms} = {e.guid : e \in {d \in st.in : d.type = "slab" /\ d.polygon /\ "s" \in d.floor}}

\* The outside of a building is no room: the comment in find_enclosed_spaces
\* (room_manager.py) says "Add a strict check that polygon doesn't touch the
\* boundary".
\* It does not hold: README, Disagreements.
OutsideIsNoRoom == Done("enclosed") => \A r \in st.out : r \cap Outside(st.in) = {}

\* An element that gets a position has the outline and the box it is placed
\* by, and an outline only from a face that is kept (ifc_manager.py
\* extract_2d_polygon, calculate_position, reconstruct_ifc_element).
PositionIsGrounded ==
  Done("element") =>
    /\ st.out.position # "none" <=> (st.out.bbox /\ extract_2d_polygon(st.in))
    /\ st.out.polygon => st.out.position # "none" /\ (st.in.faces \cap {"good", "height"} # {})
    /\ st.out.ends => st.out.bbox

\* The path along a stair begins and ends at the stair's ends, climbs
\* without turning back, and leaves no gap wider than the resolution and the
\* rounding (topology_manager.py interpolate_walking_line_3d).
WalkingLineIsDense ==
  Done("walkingLine") /\ st.out # <<>> =>
    LET p == st.out  line == st.in.line  up == st.in.to >= st.in.from
    IN  /\ p[1] = <<line[1], st.in.from>> /\ p[Len(p)] = <<line[Len(line)], st.in.to>>
        /\ \A i \in 1 .. Len(p) - 1 :
             /\ IF up THEN p[i][2] <= p[i + 1][2] ELSE p[i][2] >= p[i + 1][2]
             /\ LET dx == p[i + 1][1] - p[i][1]  dz == p[i + 1][2] - p[i][2]
                IN  dx * dx + dz * dz <= (BrResolution + 2) * (BrResolution + 2)
=============================================================================
