----------------------------- MODULE RoomNodes ------------------------------
(***************************************************************************)
(* The nodes of navbim that work with rooms: planning in a room, tracking  *)
(* the room of the robot, and generating the navigation model of a         *)
(* building.                                                               *)
(***************************************************************************)
EXTENDS Component, Integers, Sequences, FiniteSets

-----------------------------------------------------------------------------
(***************************************************************************)
(* How a path through a building is put together: computePlanInRoom of the *)
(* room planner, which lends a planner plugin the costmap of the goal's    *)
(* room (or floor); createPlan of the OMPL wrapper; and the last part of   *)
(* GppBimServer::computePathToPose, which makes a path and its floor       *)
(* segments of what the planners returned.                                 *)
(*                                                                         *)
(* A plugin is named after its kind; "GridBased" is the default id, here   *)
(* of a NavFn wrapper.  A costmap is "main" or the name of a room.         *)
(***************************************************************************)

CONSTANTS
  RpRooms,    \* rooms with a costmap
  RpPlugins   \* sets of plugin ids that may be configured

Wrapped == {"GridBased", "theta", "ompl"}
PlannerIds == {"", "GridBased", "theta", "ompl", "smac", "missing"}
NoRoomId == "none"

RoomPlanInit ==
  {[at |-> "idle", planners |-> p, costmap |-> [id \in p |-> "main"], goal |-> <<>>,
    original |-> NoRoomId, lent |-> "", plannedOn |-> NoRoomId, from |-> "", code |-> "", warned |-> FALSE] :
     p \in RpPlugins}

-----------------------------------------------------------------------------
(* computePlanInRoom, one goal after another.                              *)

RoomEnds(code) == [st EXCEPT !.at = "answered", !.code = code]

Rp_goal ==
  /\ In({"roomPlan"}, "idle") \/ In({"roomPlan"}, "answered")
  /\ \E room \in RpRooms \cup {NoRoomId}, id \in PlannerIds, use \in BOOLEAN :
       Become([st EXCEPT !.at = "pose", !.goal = [room |-> room, id |-> id, use |-> use],
                         !.original = NoRoomId, !.lent = "", !.plannedOn = NoRoomId, !.from = "",
                         !.warned = FALSE])

\* Without use_start the robot must be localised; its pose is not used.
Rp_robotPose ==
  /\ In({"roomPlan"}, "pose")
  /\ \/ ~st.goal.use /\ Become(RoomEnds("TF_ERROR"))
     \/ Become([st EXCEPT !.at = "costmap"])

\* An empty id is looked up as the default one.
Rp_planner == IF st.goal.id = "" THEN "GridBased" ELSE st.goal.id
Rp_costmap ==
  /\ In({"roomPlan"}, "costmap")
  /\ Become(IF st.goal.room = NoRoomId THEN RoomEnds("ROOM_NOT_FOUND")
            ELSE IF Rp_planner \notin st.planners THEN RoomEnds("INVALID_PLANNER")
            ELSE [st EXCEPT !.at = "lend"])

\* getCostmap and setCostmap of a wrapper; another plugin keeps its own map.
setCostmap(id, room) == [st.costmap EXCEPT ![id] = room]
\* Mistake: the wrapper plans on the costmap it has.
Rp_lendNothing == In({"roomPlan"}, "lend") /\ Become([st EXCEPT !.at = "plan"])

Rp_lend ==
  /\ In({"roomPlan"}, "lend")
  /\ Become(IF Rp_planner \in Wrapped
            THEN [st EXCEPT !.at = "plan", !.lent = Rp_planner, !.original = st.costmap[Rp_planner],
                            !.costmap = setCostmap(Rp_planner, st.goal.room)]
            ELSE [st EXCEPT !.at = "plan"])

\* getPlan looks the id of the goal up again, and an empty one only serves
\* when there is a single planner.  An exception leaves the callback.
planThrows == RoomEnds("UNKNOWN")
getPlan ==
  /\ In({"roomPlan"}, "plan")
  /\ LET use(id) == \/ \E found \in {"path", "empty"} :
                         Become([st EXCEPT !.at = "restore", !.plannedOn = st.costmap[id],
                                           !.from = "goal.start",
                                           !.code = IF found = "path" THEN "NONE" ELSE "NO_VALID_PATH"])
                    \/ Become(planThrows)
     IN  CASE st.goal.id \in st.planners -> use(st.goal.id)
           [] st.goal.id = "" /\ st.planners = {Rp_planner} -> use(Rp_planner)
           [] OTHER -> Become(planThrows)

Rp_restore ==
  /\ In({"roomPlan"}, "restore")
  /\ Become([st EXCEPT !.at = "smooth",
                       !.costmap = IF st.lent = "" THEN @ ELSE setCostmap(st.lent, st.original)])

\* A smoother that fails or throws only adds a warning.
Rp_smooth ==
  /\ In({"roomPlan"}, "smooth")
  /\ \E warned \in (IF st.code = "NONE" THEN BOOLEAN ELSE {FALSE}) :
       Become([st EXCEPT !.at = "answered", !.warned = warned])

RoomPlanNext ==
  Rp_goal \/ Rp_robotPose \/ Rp_costmap \/ Rp_lend \/ getPlan \/ Rp_restore \/ Rp_smooth

-----------------------------------------------------------------------------
(* OMPLPlannerWrapper::createPlan.  start, goal and end say what is at the *)
(* pose: "free", "costly", "lethal", "unknown" or "outside".               *)

OmplPlaces == {"free", "costly", "lethal", "unknown", "outside"}
OmplTypes == {"BITstar", "RRTstar", "InformedRRTstar", "RRTConnect", "PRMstar", "other"}
\* configure: the parameters, and the costmap of the node.
OmplInit ==
  [at : {"create"}, costmap : BOOLEAN, type : OmplTypes, first : BOOLEAN, allow_unknown : BOOLEAN,
   simplify : {TRUE}, start : OmplPlaces, goal : OmplPlaces, planner : {""}, near : {TRUE},
   path : {<<>>}]

isStateValid(place) ==
  CASE place = "outside" -> FALSE
    [] place = "unknown" -> st.allow_unknown
    [] place = "lethal"  -> FALSE
    [] OTHER -> TRUE
Om_returns(path) == [st EXCEPT !.at = "planned", !.path = path]

setupPlanner == IF st.type = "other" THEN "BITstar" ELSE st.type
Om_create ==
  /\ In({"omplPlan"}, "create")
  /\ \/ Become(Om_returns(<<>>))  \* cancelled
     \/ Become(IF ~st.costmap THEN Om_returns(<<>>)
               ELSE IF ~isStateValid(st.start) \/ ~isStateValid(st.goal)
               THEN [Om_returns(<<>>) EXCEPT !.planner = setupPlanner]
               ELSE [st EXCEPT !.at = "solve", !.planner = setupPlanner])

\* solve() of the chosen planner: nothing, an approximate or an exact solution.
Om_solve ==
  /\ In({"omplPlan"}, "solve")
  /\ \E found \in {"none", "empty", "approximate", "exact"} :
       Become(CASE found \in {"none", "empty"} -> Om_returns(<<>>)
                [] found = "approximate" -> Om_returns(<<>>)  \* ends too far from the goal
                [] OTHER -> [st EXCEPT !.at = "convert"])

\* Interpolation, and a heading along the path for each pose; the last has
\* the heading of the one before it.  z is 0 in every pose.
headings(n) == [i \in 1 .. n |-> IF i < n THEN "along" ELSE IF n > 1 THEN "before" ELSE "none"]
omplPathToRosPath ==
  /\ In({"omplPlan"}, "convert")
  /\ \E n \in 1 .. 3 : Become(Om_returns(headings(n)))

OmplNext == Om_create \/ Om_solve \/ omplPathToRosPath

-----------------------------------------------------------------------------
(* The end of computePathToPose.  The planner's path has st.n poses; the   *)
(* smoothing service answers with as many, or does not answer.             *)

GppResultInit ==
  [at : {"planned"}, two : BOOLEAN, smoothing : BOOLEAN, sameFloor : BOOLEAN, floors : BOOLEAN,
   n : {0}, path : {"none"}, segments : {{}}, published : {FALSE}, code : {""}]

Gp_ends(code) == [st EXCEPT !.at = "ended", !.code = code]
Gp_timeout == {"NO_VALID_PATH", "TIMEOUT", "UNKNOWN"}

\* Two levels: a failed search ends with the error of its cause.
waypointsToPath(n) == [st EXCEPT !.n = n, !.path = "planned"]
Gp_twoLevel ==
  /\ In({"gppResult"}, "planned") /\ st.two
  /\ \/ \E code \in Gp_timeout : Become(Gp_ends(code))
     \/ \E n \in 1 .. 4, s \in SUBSET (0 .. 3) :
          /\ s # {} => n - 1 \in s
          /\ \A i \in s : i < n
          /\ Become([waypointsToPath(n) EXCEPT !.at = "smooth", !.segments = s])

\* Indices that calculateFloorSegments gave are reported for the path that the
\* service smoothed; a service that fails or is late leaves the path as it was.
Gp_smooth ==
  /\ In({"gppResult"}, "smooth")
  /\ \/ st.smoothing /\ st.segments # {} /\ Become([st EXCEPT !.at = "report", !.path = "smoothed"])
     \/ Become([st EXCEPT !.at = "report"])
Gp_report ==
  /\ In({"gppResult"}, "report")
  /\ Become([Gp_ends("NONE") EXCEPT !.published = TRUE])

\* One level: only within a floor, on the floor's costmap.
Gp_oneLevel ==
  /\ In({"gppResult"}, "planned") /\ ~st.two
  /\ Become(IF ~st.floors \/ ~st.sameFloor THEN Gp_ends("NO_VALID_PATH")
            ELSE [st EXCEPT !.at = "floor"])
Gp_onFloor ==
  /\ In({"gppResult"}, "floor")
  /\ \/ Become(Gp_ends("NO_VALID_PATH")) \/ Become(Gp_ends("UNKNOWN"))
     \/ \E n \in 0 .. 4 :
          Become(IF n = 0 THEN Gp_ends("NO_VALID_PATH")
                 ELSE [waypointsToPath(n) EXCEPT !.at = "ended", !.segments = {0, n - 1}, !.code = "NONE",
                                                 !.published = TRUE])

GppResultNext == Gp_twoLevel \/ Gp_smooth \/ Gp_report \/ Gp_oneLevel \/ Gp_onFloor

RoomPlanningParts == {"roomPlan", "omplPlan", "gppResult"}
RoomPlanningInit ==
  \/ part = "roomPlan" /\ st \in RoomPlanInit
  \/ part = "omplPlan" /\ st \in OmplInit
  \/ part = "gppResult" /\ st \in GppResultInit
RoomPlanningNext == RoomPlanNext \/ OmplNext \/ GppResultNext

-----------------------------------------------------------------------------
\* A path that a wrapped planner found was searched on the costmap of the
\* goal's room, also after calls that ended with an exception and left another
\* room's costmap in a plugin.
PlanUsesRoomCostmap ==
  In({"roomPlan"}, "answered") /\ st.code = "NONE" /\ Rp_planner \in Wrapped =>
    st.plannedOn = st.goal.room

\* What room_planner_server.cpp:631 says of the plugin: the costmap that it had
\* before the call is back in it when the goal is answered.
\* It does not hold: README, Disagreements.
CostmapIsRestored ==
  In({"roomPlan"}, "answered") => \A id \in st.planners : st.costmap[id] = "main"

\* What the action definition says of use_start: a goal without it is planned
\* from the pose of the robot.
\* It does not hold: README, Disagreements.
StartsAtRobot ==
  In({"roomPlan"}, "answered") /\ st.code = "NONE" /\ ~st.goal.use => st.from = "robot"

\* A path is given out only with indices of floor segments that lie in it, and
\* is published exactly when the goal succeeds; OMPL gives a path only between
\* valid poses of a costmap.
PlanIsUsable ==
  /\ In({"gppResult"}, "ended") =>
       /\ st.published <=> st.code = "NONE"
       /\ st.published => st.n > 0 /\ \A i \in st.segments : i < st.n
  /\ In({"omplPlan"}, "planned") /\ st.path # <<>> =>
       /\ st.costmap /\ st.planner # "other"
       /\ {st.start, st.goal} \cap {"lethal", "outside"} = {}

-----------------------------------------------------------------------------
(***************************************************************************)
(* navbim_room_tracker: a timer asks the topomap server for the room the   *)
(* robot is in, and the answers, which come later and in order, decide     *)
(* what is published.  A single-threaded executor runs all callbacks.      *)
(*                                                                         *)
(*   at         lifecycle state of the node                                *)
(*   robot      where the robot is, moves  how often it moved              *)
(*   available  service_available_                                         *)
(*   asked      positions of the requests under way, oldest first          *)
(*   known      last_known_room_ (NoRoomKnown: empty)                      *)
(*   since      time since last_publish_time_, up to one past the interval *)
(*   topic      the room a subscriber of current_room was told last        *)
(***************************************************************************)

CONSTANTS
  RtRooms,      \* rooms of the building, strings
  RtMoves,      \* bound: moves of the robot
  RtPending,    \* bound: requests under way
  RtHeartbeat,  \* HEARTBEAT_INTERVAL
  RtFaults      \* bound: requests lost or answered without a map

ASSUME RoomTrackerAssumption == {RtMoves, RtPending, RtHeartbeat, RtFaults} \subseteq Nat

RoomTrackers == {"room_tracker"}
NoRoomKnown == ""
RobotPlaces == RtRooms \cup {NoRoomKnown}

RoomTrackerInit ==
  [at : {"unconfigured"}, robot : RobotPlaces, moves : {0}, available : {FALSE}, asked : {<<>>},
   known : {NoRoomKnown}, since : {0}, topic : {NoRoomKnown}, faults : {0}]

-----------------------------------------------------------------------------
\* last_known_room_ and service_available_ survive a cleanup; the requests of the old
\* client do not.
tracker_on_configure ==
  In(RoomTrackers, "unconfigured") /\ Become([st EXCEPT !.at = "inactive", !.since = 0])
tracker_on_activate ==
  /\ In(RoomTrackers, "inactive")
  /\ \E found \in BOOLEAN : Become([st EXCEPT !.at = "active", !.available = found])
tracker_on_deactivate == In(RoomTrackers, "active") /\ Become([st EXCEPT !.at = "inactive"])
tracker_on_cleanup ==
  In(RoomTrackers, "inactive") /\ Become([st EXCEPT !.at = "unconfigured", !.asked = <<>>])

\* updateCurrentRoom: without the transforms, or a server, nothing is asked.
updateCurrentRoom ==
  /\ In(RoomTrackers, "active") /\ Len(st.asked) < RtPending
  /\ Become([st EXCEPT !.available = TRUE, !.asked = Append(@, st.robot)])

\* A publisher that is not active drops what it is given.
Told(room) == IF st.at = "active" THEN room ELSE st.topic

heartbeat_needed == st.since > RtHeartbeat

\* The callback of the request, with a room ...
roomAnswered(room) ==
  IF room # st.known \/ heartbeat_needed \/ st.known = NoRoomKnown
  THEN [st EXCEPT !.known = room, !.since = 0, !.topic = Told(room), !.asked = Tail(@)]
  ELSE [st EXCEPT !.asked = Tail(@)]
\* ... and without one, which is published each time.
noRoomAnswered == [st EXCEPT !.known = NoRoomKnown, !.topic = Told(NoRoomKnown), !.asked = Tail(@)]

roomResponse ==
  /\ part \in RoomTrackers /\ st.asked # <<>>
  /\ Become(IF Head(st.asked) = NoRoomKnown THEN noRoomAnswered ELSE roomAnswered(Head(st.asked)))

\* The topomap server has no map, or goes down with the request.
roomResponseFails ==
  /\ part \in RoomTrackers /\ st.asked # <<>> /\ st.faults < RtFaults
  /\ \/ Become([noRoomAnswered EXCEPT !.faults = @ + 1])
     \/ Become([st EXCEPT !.asked = Tail(@), !.faults = @ + 1])

robotMoves ==
  /\ part \in RoomTrackers /\ st.moves < RtMoves
  /\ \E p \in RobotPlaces \ {st.robot} : Become([st EXCEPT !.robot = p, !.moves = @ + 1])
trackerClock ==
  part \in RoomTrackers /\ st.since <= RtHeartbeat /\ Become([st EXCEPT !.since = @ + 1])

RoomTrackerNext ==
  \/ tracker_on_configure \/ tracker_on_activate \/ tracker_on_deactivate \/ tracker_on_cleanup
  \/ updateCurrentRoom \/ roomResponse \/ roomResponseFails \/ robotMoves \/ trackerClock

-----------------------------------------------------------------------------
\* Subscribers learn where the robot is: when it stays and the tracker stays active, the
\* room published last is in the end the one it is in, though answers that came while
\* the node was inactive were remembered and not published, requests were lost and the
\* memory outlived a cleanup (updateCurrentRoom, the heartbeat).
RoomIsTold ==
  \A p \in RobotPlaces :
    <>[](part \in RoomTrackers /\ st.at = "active" /\ st.robot = p)
      => <>[](part \in RoomTrackers /\ st.topic = p)

-----------------------------------------------------------------------------
(***************************************************************************)
(* The generator of navigation models as a whole, and the BIM server.      *)
(*                                                                         *)
(* GeneratorManager runs its steps in order; four of them hand tasks to a  *)
(* pool of processes whose results come back in any order and may be       *)
(* failures.  Files are what the steps share: "none", "old" (left from an  *)
(* earlier generation), "new" or "empty".                                  *)
(***************************************************************************)

CONSTANTS GmElements, GmFloors

ASSUME NavModelGenAssumption == IsFiniteSet(GmElements) /\ IsFiniteSet(GmFloors)

\* The rooms a model may get: none, one, or two spaces in a combined room.
Layouts == {{}, {"detected"}, {"space1", "space2", "combined"}}
Contained == {"space1", "space2"}
GmOptions == [delete_previous : BOOLEAN, generate_floor_maps : BOOLEAN, two_d : BOOLEAN, export_meshes : BOOLEAN]
GmRooms == UNION Layouts
GmFiles(kind) == [n \in GmElements \cup GmFloors \cup GmRooms |-> kind]

GeneratorInit ==
  { [at |-> "prepare", opts |-> o, grid |-> GmFiles(k), map |-> GmFiles(k), todo |-> {},
     elements |-> {}, rooms |-> {}, handles |-> {}, listed |-> {}, yaml |-> k] :
      o \in GmOptions, k \in {"none", "old"} }
BimServerInit ==
  { [at |-> "idle", state |-> "unconfigured", file |-> "none", model |-> "none", cache |-> "none",
     services |-> FALSE, answer |-> [of |-> "none", from |-> "none", while |-> "unconfigured"]] }
NavModelGenInit ==
  \/ part = "generator" /\ st \in GeneratorInit
  \/ part = "bimServer" /\ st \in BimServerInit

Gm(place) == In({"generator"}, place)
To_(place, s) == Become([s EXCEPT !.at = place])
raised == To_("raised", st)

\* With delete_previous every file but rviz's goes; a folder that keeps one
\* cannot be removed.
prepare_folders ==
  /\ Gm("prepare")
  /\ \/ /\ st.opts.delete_previous
        /\ \/ To_("elements", [st EXCEPT !.grid = GmFiles("none"), !.map = GmFiles("none"), !.yaml = "none",
                                         !.todo = GmElements])
           \/ raised
     \/ ~st.opts.delete_previous /\ To_("elements", [st EXCEPT !.todo = GmElements])

\* An IFC file that does not open ends the generation before it begins; without
\* elements the pool has no workers.
load_ifc_file == Gm("prepare") /\ raised
noElements == Gm("elements") /\ st.todo = GmElements /\ To_("raised", [st EXCEPT !.todo = {}])

\* One task of the pool is done.
PoolTask(place) == Gm(place) /\ \E t \in st.todo : Become([st EXCEPT !.todo = @ \ {t}])
PoolDone(place) == Gm(place) /\ st.todo = {}

\* An element of a batch: it is lost when the model does not open in the worker,
\* when it is missing or raises; without a shape it has no grid; a grid that
\* cannot be made is only reported, its path stays.
extract_shape_data(t) == {"none", "shape"}
create_voxel_grid(t) == {"new", st.grid[t]}
process_element_batch ==
  Gm("elements") /\ \E t \in st.todo :
    \/ Become([st EXCEPT !.todo = @ \ {t}])
    \/ \E shape \in extract_shape_data(t) : \E file \in create_voxel_grid(t) :
         Become([st EXCEPT !.todo = @ \ {t}, !.elements = @ \cup {t},
                           !.handles = IF shape = "shape" THEN @ \cup {t} ELSE @,
                           !.grid[t] = IF shape = "shape" THEN file ELSE @])
process_elements ==
  /\ PoolDone("elements")
  /\ IF st.opts.export_meshes /\ st.handles # {}
     THEN To_("meshes", [st EXCEPT !.todo = st.handles]) ELSE To_("floors", st)
\* IfcConvert may fail, time out or be missing; the mesh is only counted.
save_mesh_worker == PoolTask("meshes")
save_meshes == PoolDone("meshes") /\ To_("floors", st)

\* Floors, rooms and the topological map, whose file may silently not be written.
detect_rooms == Gm("floors") /\ \E r \in Layouts : To_("graph", [st EXCEPT !.rooms = r])
save_topological_map ==
  /\ Gm("graph")
  /\ To_("floorGrids", [st EXCEPT !.todo = IF st.opts.generate_floor_maps THEN GmFloors ELSE {}])

\* The worker merges the grids of the elements that have one and can be loaded.
save_voxel_grid(t, merged) == {merged, st.grid[t]}
load_voxel_grid(t) == t \in st.handles /\ st.grid[t] \notin {"none", "empty"}
mergedGrid == IF \E e \in GmElements : load_voxel_grid(e) THEN "new" ELSE "empty"
gridWorker(place) ==
  Gm(place) /\ \E t \in st.todo :
    \/ Become([st EXCEPT !.todo = @ \ {t}])
    \/ \E file \in save_voxel_grid(t, mergedGrid) :
         Become([st EXCEPT !.todo = @ \ {t}, !.handles = @ \cup {t}, !.grid[t] = file])
generate_floor_voxel_grid_worker == gridWorker("floorGrids")
generate_room_voxel_grid_worker == gridWorker("roomGrids")
\* Without rooms the tasks of the second pool are never defined.
generate_voxel_grids ==
  /\ PoolDone("floorGrids")
  /\ LET rooms == st.rooms \ Contained
     IN  IF rooms = {} THEN raised ELSE To_("roomGrids", [st EXCEPT !.todo = rooms])

\* Tasks for the floors and rooms whose grid was made and can be loaded.
floorTasks == IF st.opts.generate_floor_maps THEN {f \in GmFloors : load_voxel_grid(f)} ELSE {}
roomTasks == {r \in st.rooms \ Contained : load_voxel_grid(r)}
voxelGridsDone ==
  /\ PoolDone("roomGrids")
  /\ IF st.opts.two_d THEN To_("floorMaps", [st EXCEPT !.todo = floorTasks]) ELSE To_("done", st)
\* The worker reports success even when the image or its yaml was not written.
save_map(t) == {st.grid[t], st.map[t]}
mapWorker(place) ==
  Gm(place) /\ \E t \in st.todo :
    \/ Become([st EXCEPT !.todo = @ \ {t}])
    \/ \E file \in save_map(t) :
         Become([st EXCEPT !.todo = @ \ {t}, !.map[t] = file, !.listed = @ \cup {t}])
process_floor_occupancy_worker == mapWorker("floorMaps")
process_room_occupancy_worker == mapWorker("roomMaps")
floorMapsDone == PoolDone("floorMaps") /\ To_("roomMaps", [st EXCEPT !.todo = roomTasks])
create_occupancy_maps == PoolDone("roomMaps") /\ To_("done", [st EXCEPT !.yaml = "new"])

GeneratorNext ==
  \/ prepare_folders \/ load_ifc_file \/ noElements \/ process_element_batch \/ process_elements
  \/ save_mesh_worker \/ save_meshes \/ detect_rooms \/ save_topological_map
  \/ generate_floor_voxel_grid_worker \/ generate_voxel_grids \/ generate_room_voxel_grid_worker
  \/ voxelGridsDone \/ process_floor_occupancy_worker \/ floorMapsDone
  \/ process_room_occupancy_worker \/ create_occupancy_maps

-----------------------------------------------------------------------------
(* BimServer *)

Bim == In({"bimServer"}, "idle")
_build_element_cache(m) == {m, "none"}
Bim_on_configure ==
  /\ Bim /\ st.state = "unconfigured"
  /\ \/ UNCHANGED componentVars
     \/ \E f \in {"house", "tower"} :
          \/ Become([st EXCEPT !.model = f, !.file = f, !.cache = "none"])
          \/ \E c \in _build_element_cache(f) :
               Become([st EXCEPT !.model = f, !.file = f, !.cache = c, !.state = "inactive"])
Bim_on_activate == Bim /\ st.state = "inactive" /\ Become([st EXCEPT !.state = "active", !.services = TRUE])
Bim_on_deactivate == Bim /\ st.state = "active" /\ Become([st EXCEPT !.state = "inactive", !.services = FALSE])
Bim_on_cleanup ==
  /\ Bim /\ st.state = "inactive"
  /\ Become([st EXCEPT !.state = "unconfigured", !.model = "none", !.file = "none", !.cache = "none"])
\* The services of an active server outlive its shutdown.
Bim_on_shutdown ==
  /\ Bim /\ st.state # "finalized"
  /\ Become([st EXCEPT !.state = "finalized", !.model = "none", !.file = "none", !.cache = "none"])
\* An element is taken from the cache or the model; a pose that cannot be read
\* is the origin; an element without a type or a name fails the answer.
get_element_info_callback ==
  /\ Bim /\ st.services
  /\ LET loaded == st.model # "none" /\ st.cache # "none"
     IN  \E found \in BOOLEAN :
           Become([st EXCEPT !.answer = [of |-> "info", from |-> IF loaded /\ found THEN st.model ELSE "none",
                                         while |-> st.state]])
get_elements_by_type_callback ==
  /\ Bim /\ st.services
  /\ LET loaded == st.model # "none" /\ st.cache # "none"
     IN  \E raises \in BOOLEAN :
           Become([st EXCEPT !.answer = [of |-> "list", from |-> IF loaded /\ ~raises THEN st.model ELSE "none",
                                         while |-> st.state]])
BimServerNext ==
  \/ Bim_on_configure \/ Bim_on_activate \/ Bim_on_deactivate \/ Bim_on_cleanup \/ Bim_on_shutdown
  \/ get_element_info_callback \/ get_elements_by_type_callback
NavModelGenNext == GeneratorNext \/ BimServerNext

-----------------------------------------------------------------------------
\* In a folder that was emptied first, a map is drawn from a grid of this
\* generation, only rooms that are not part of another one are listed, and the
\* list is written only after every pool is done - whatever workers failed and in
\* whatever order they finished (GeneratorManager).
ListedMapsAreNew ==
  part = "generator" =>
    /\ st.listed \cap Contained = {}
    /\ \A t \in st.listed : st.grid[t] \in {"new", "old"} /\ t \in st.handles
    /\ st.opts.delete_previous /\ st.at # "prepare" =>
         \A t \in DOMAIN st.map : st.map[t] = "new" => t \in st.listed
    /\ st.yaml = "new" => st.todo = {} /\ st.rooms # {}

\* What the BIM server answers successfully comes from a model it had loaded,
\* while it was active (BimServer).
BimAnswersWhenActive ==
  part = "bimServer" /\ st.answer.from # "none" => st.answer.while = "active"
=============================================================================
