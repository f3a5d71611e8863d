# A verification of navbim

TLA+ models of navbim: path planning over building models (BIM) in the `navbim_*` packages,
on top of a fork of Nav2 (`nav2_*`). The modules keep the control flow of the code (what a
handler tests, changes and returns, and where threads interleave) and abstract the data
(geometry, grids, messages). TLC checks them on small instances; for the action servers, the
behavior tree, the map services and part of the other nodes TLAPS proves the safety
properties for all values of the constants.

## 1. The system

A query "plan a path from here to that pose in the building" goes through these parts:

| part | package | role |
|---|---|---|
| GPP-BIM server | `navbim_gpp_bim` | searches the topological map with an edge-expanding A*, asks the room planner for the metric path of each edge it expands, joins the pieces; pre-plans all edges in a detached thread |
| topomap server | `navbim_topomap_server` | owns the topological map (rooms, doors, stairs; planned cost and path of an edge), loads it from and saves it to JSON, serves copies and updates |
| room planner server | `navbim_gpp_bim` | runs a planner plugin on the costmap of one room or floor |
| multi-room costmap | `navbim_multi_costmap_2d` | a layered costmap per room, created in threads as the environments message lists rooms, and a merged costmap per floor |
| multimap server | `navbim_multimap_server` | the occupancy maps of the rooms and the index of them |
| room tracker | `navbim_room_tracker` | says in which room the robot is |
| model generator, BIM server | `navbim_nav_model_gen`, `navbim_bim_server` | derive floors, rooms, grids and the topological map from an IFC model; serve its elements |
| RViz panels, commander | `navbim_rviz_plugins`, `nav2_rviz_plugins`, `nav2_simple_commander` | what a user works with |

Below them is Nav2: planner, controller, smoother, behavior, docking, route and waypoint
servers and the BT navigator, all on `nav2_util::SimpleActionServer`; the behavior tree
nodes that call them; costmap, AMCL, map servers, velocity smoother, collision monitor and
lifecycle manager; and the planner, smoother and controller plugins.

Concurrency comes from the worker thread of each action server, the detached pre-plan
thread, the threads that create room costmaps, update threads and timers, executor threads,
the lifecycle manager and the processes of other nodes.

## 2. The modules

Action servers:

| module | models |
|---|---|
| `ActionProtocol` | what an action server promises its clients (abstract) |
| `SimpleActionServer` | `simple_action_server.hpp`: both goal slots, flags, worker thread, lifecycle |
| `ExecuteCallback` | what the execute callbacks share: place, goal in hand, last command |
| `PathServers`, `DriveServers`, `Navigators` | the execute callbacks of planner, room planner, smoother and route server; of controller, behaviors and docking server; of the navigators and the waypoint follower |
| `NavServers` | all of them against the action server, its clients and lifecycle |
| `SecondLevelPlanner` | `secondLevelPlanner`, called by a query and by the pre-plan thread, with the room planner server |
| `BtControlNodes`, `BehaviorTree` | control, decorator and condition nodes; action, service and cancel nodes; all under any parent and above any children, servers and topics |

The building:

| module | models |
|---|---|
| `TopomapPlanner` | `planTopomapPath` and the queries that run it one after another |
| `TopomapServer`, `GppBimServer` | the map in memory and on disk; the GPP-BIM node with its copy, queries and pre-plan thread (EXTENDS `TopomapServer`) |
| `MultiCostmap` | `MultiCostmap2DROS` with the locks it shares with the room planner |
| `RoomNodes` | planning in a room, the room tracker, the stages of the model generator, the BIM server |
| `Routes`, `BuildingModel`, `MapFiles` | graph of rooms, pruning, assembly of the path, floor segments, clearance; floors, rooms, grids and stairs from a model; map files, topological maps as files and messages |

Nodes, plugins and algorithms:

| module | models |
|---|---|
| `Component` | an object with its environment: `part` names it, `st` is the record of its members |
| `LifecycleNodes` | lifecycle manager; configuration and lifecycle of the server nodes |
| `Costmap2D`, `ObservationBuffer` | costmap node, layered costmap, filters, voxel layer, publisher and subscriber; observation buffer |
| `MapNodes` | map server, multimap server, map savers, filter info server, AMCL |
| `MotionNodes` | velocity smoother, collision monitor and detector, dock plugin, database and controller, loopback simulator |
| `PlannerPlugins` | what the planner plugins keep between calls; the smoothers |
| `PathFollowing` | route tracker, regulated pure pursuit, rotation shim, DWB |
| `UserInterfaces` | navigation, docking, BIM and topological map panels, element markers, the Python commander |
| `Nodes` | the sum of these nodes and of `MultiCostmap`; fairness and liveness |
| `CostmapAlgorithms`, `ParticleFilter`, `GridSearch`, `RouteGraph` | cells, denoising, inflation; the filter of AMCL; NavFn, Theta*, Smac and its hash table; routes on a route graph, its files and scorers |
| `Algorithms` | the sum of the algorithms |

`MC*` modules give constants their values for TLC. `*Proofs` modules hold the theorems
(section 4). A sum (`NavServers`, `BehaviorTree`, `Nodes`, `Algorithms`) chooses one server,
node or algorithm in the initial state and then takes only its steps: the parts do not
interact there, they share a specification, a run and properties that say what is at stake.
Where parts do interact they are composed: `SecondLevelPlanner` with the room planner,
`GppBimServer` with the topomap server, every callback with the action server, `MultiCostmap`
with the planner that holds its locks.

### Correspondence with the code

Actions and operators carry the name of the function they model where it is one step (with
a short prefix of the node where names would clash, as `Np_` for the navigation panel), and
of the part of it otherwise. The granularity is that of the locks: what a handler does
between taking and releasing a mutex is one action; where it lets the mutex go, the model
has two. `map` in `PROJECT.json` gives the source lines of every definition.

**SimpleActionServer.** `SendGoal`, `HandleGoal`, `HandleCancel` and `HandleAccepted` are the
rclcpp_action callbacks. The worker loop `work()` is `WorkTest`, the callback,
`WorkReturned` and `WorkExit`; `worker = "exit"` is a thread that has left its last critical
section and whose future is not ready yet. `CallbackCall` lets the callback call the
operations in any order. `deactivate()` has three steps, because it waits, with a deadline,
for the worker. Left out: feedback, thread priority, logging.

**Execute callbacks.** `cb` has the place in the callback, the goal whose data it works with,
the last command on `cmd_vel` and members of its own. Every call into the action server is a
step, since the mutex is free between two calls. What a plugin computes is a choice between
its outcomes and its exceptions. A result carries the goal it was computed for.

**SecondLevelPlanner.** Each call polls for acceptance and for the result with a deadline,
which may pass at any time. `timeout_occurred` is the member both threads write;
`own_timeout` is a history variable.

**TopomapPlanner.** One action per iteration of the search loop: pop an edge of least f-score
(any of them on a tie), reuse or plan it, store the cost, close it, improve the successor and
its subtree, reorder the heap, add the successor's edges, stop or go on. Costs are natural
numbers, `Inf` or the mark -1. Planning an edge gives the real cost, no path, a spurious
failure, or an exception of the update service.

**TopomapServer, GppBimServer.** A map is the building it describes and, for each edge, a cost
(unplanned, zero, positive) and a path (none, one pose, longer), which is all that decides
reuse. `toJson` and `loadFromJson` do what the loader does to these: a cost of zero is not
written, a missing one is read as unplanned. `saveToFile` truncates the file before it
writes. `Restart` ends the process in any state. The node's copy is taken by a one-shot
timer; the search of a query is "edges are planned in some order". `disturbed` is a history
variable: another client has loaded, cleared, shut down or restarted the server.

**Behavior tree.** A parent ticks and halts a node at any time and a child, server or topic
answers anything; `heard`, `recoveries`, `unseen` are history of the activation. `at` is the
place in a tick that can be interrupted by the executor.

**MultiCostmap.** `exec` is where the executor thread is: one callback at a time, in steps
between locks. `reader` is the room or floor the room planner plans in, during which it holds
`costmap_mutex_` shared and the mutex of the grid. `gen` tells apart the objects created for
one room. A grid is blank, or has data since its map arrived and `updateMap` ran.

**Nodes.** The members of an object are the fields of `st`; the header of each section says
which is which. Threads of one object are places in its record (`at`, `caller`, `cancel`);
lengths, speeds and times are small integers in units the section names, one axis of a
velocity, quarter turns for angles. The environment (messages, answers, transforms, time,
processes that die) is part of the module, restricted to what can happen outside.

**Algorithms.** A call has an input in `st.in` and ends with `st.out`; a search is a step per
iteration. The property compares the answer with a definition that does not follow the
algorithm: nearest obstacle, reachable set, cheapest route, set of elements.

## 3. Runs

| run | distinct states | what it shows |
|---|---|---|
| `SimpleActionServer` | 55 831 | an active goal is in a slot or on its way to one, slots and flag agree, and the server implements `ActionProtocol` (a goal is answered once, only the goal in hand succeeds, the newest goal wins) |
| `SecondLevelPlanner` | 364 696 | each call returns whatever the room planner does; a query on two levels that timed out is not reported as having no path |
| `SecondLevelWrongRoom` | violation | `PathIsForThisCall` (section 5) |
| `TopomapPlanner` | 77 747 | the search tree is a tree with consistent g-scores, a failure is a cut of failed edges, routes are cheapest ones and found where they exist, searches end |
| `GppBimServer` | 1 937 563 | no file gets another building's map, a reusable path has a cost, a reported success of pre-planning is one and updates reach the server |
| `TopomapShutdown` | violation | `MapSurvives` (section 5) |
| `NavServers` | 356 864 | for every server: no null goal while active, a success is the goal's own, the robot is driven only for a goal, what is taken is given back, it is an action server (`Spec`), goals and deactivations end |
| `BehaviorTree` | 182 028 | no child or goal is left behind, a node gives up only when done, it reports on its own last request, conditions hold when reported |
| `HaltCancels` | violation | `HaltCancels` (section 5) |
| `Nodes` | 902 838 | motion, maps, floors, lifecycle, paths and what a user is told, one invariant each; no step spoils a planner's grid or a fresh observation |
| `Progress` | 76 984 | floors without a costmap get one (but for `FloorMissed`), dead nodes are noticed, stale commands stopped, costmaps start, rooms are told |
| `Algorithms` | 437 414 | grids, searches, routes, data structures, and the way from the building to files, against their definitions |

Every property of a passing run has a mutant: an operator marked "Mistake" that stands for a
plausible error in the code and makes TLC find the property violated.

### Bounds, and why they are enough

- `SimpleActionServer`: three goals are one in each slot and one on top; two deactivations
  let a goal live from one activation into the next. `NavServers` has two goals (one in hand,
  one that preempts it) and one deactivation, two legs and waypoints, one retry, one late
  answer; `follow_waypoints` and `backup` are left out of the run because
  `follow_gps_waypoints` and `drive_on_heading` take the same steps, and loops are 0. The
  proofs have all servers and none of these bounds.
- `SecondLevelPlanner`: two goals are one per thread, or two calls of one thread.
- `TopomapPlanner`: five vertices (three transition nodes, START, GOAL) are the fewest in
  which a vertex is improved after its own edges were expanded, so that a subtree is updated.
  The family has every placement of the three nodes on two positions, detours, blocked edges
  and a stair cheaper or dearer than the straight line; the second query runs on what the
  first stored; one spurious failure or exception at any point.
- `GppBimServer`: two buildings, a stair and a ramp, two copies of the map, no failing write
  (the proofs have those).
- `BehaviorTree`: two retries, three goals (one left behind, one replaced, one current), two
  requests, queues of two.
- `Nodes`: for each node the smallest instance in which its parts meet: two managed nodes and
  two faults, three cells and two maps, two rooms of one floor with the second listed later,
  two environments files that disagree, two goals of the commander, clocks of a few ticks
  past the timeouts. `Progress` has two environments messages, of which the second adds a room
  to a floor that exists, an activation wait that may run out, one fault (a creation that
  fails or a room whose region does not fit), no stops and no tracked room; `FloorServed` also
  holds with one stop and one message, and with a tracked room and no fault, which together
  would take TLC hours.
- `Algorithms`: grids of 3 to 6 cells a side with every or many placements of obstacles,
  graphs of up to five nodes with every choice of costs from a small set, hash functions that
  spread, collide and wrap round, tables and arrays small enough to fill up.

### What the properties assume of the parameters

A parameter is a choice in the initial state, or at the step that reads it. Where a property
needs one of its values, it says so, and for the others:

- `TimeoutNotHidden` is about `use_two_level`; on one level it does not hold (section 5).
- `SuccessIsOwn`: waypoints before `goal_index` are skipped in the first round of a goal that
  did not preempt another; an index past the last waypoint reads past the end of the vector.
- `DrivenForAGoal`: with `publish_zero_velocity` off the controller server leaves the last
  command standing when a goal ends.
- `MotionIsSafe`: a source whose `source_timeout` is 0 stops nothing when it is silent, and a
  source may be switched off.
- `NodesAreComplete`: with a `bond_timeout` of 0 the manager has no bonds, and does not notice a
  dead node (`WaitsEnd` is about managers with bonds).
- `PathsAreUsable`: regulated pure pursuit checks for obstacles with
  `use_collision_detection` on, which may change at run time.
- `MapsAreCurrent`: the filter mask begins where the costmap does and has its resolution, and
  the costmap does not roll; else its bounds are wrong (`MaskIsSeen`, section 5). A filter of
  AMCL that was made anew is where `init_pose_` is, and nothing is claimed of it until the next
  pose is told.
- `GridsAreExact`: inflation with all values of `inflate_unknown` and
  `inflate_around_unknown`; by default unknown cells stay unknown unless they are inscribed.
- `SearchesAreSound`: a search that was cancelled or ran out of `max_planning_time` says
  nothing about routes, nor does a NavFn search one of whose priority blocks was full: with
  blocks smaller than the wave front it misses goals that can be reached.
- `StructuresAreSound`: a resampled particle had a weight, unless it is a random pose, put in
  while `w_fast` is below `w_slow` (`recovery_alpha_*`).

Deadlock is checked in `TopomapShutdown` only: elsewhere the bounds on goals, messages and
time, or the end of an algorithm, end the runs.

### Fairness

- `NavServers`: the worker thread keeps running, an accepted goal reaches `handle_accepted`,
  and `deactivate` goes on once it has begun. These are running threads of the process, and
  a controller asked to cancel again and again comes to its end (strong fairness of
  `ControllerStops`). No client has to do anything and no plugin has to finish.
- `SecondLevelPlanner`: weak fairness for the polling loop of each caller only. Nothing is
  assumed of the room planner, which is the point of `CallReturns`.
- `TopomapPlanner`: none; `SearchEnds` says that each iteration closes one more of finitely
  many edges.
- `Progress`: the executor serves each kind of callback again and again (strong fairness,
  since callbacks exclude one another and timers recur); maps and z values are delivered,
  creation threads end, the planner lets go of its lock, the lifecycle manager activates the
  node; timers that run fire, a service call returns or times out, the update thread of a
  costmap goes on, requests of the room tracker are answered. Nobody has to send a message.

## 4. Proofs

The proof modules hold theorems for every value of the constants, from the assumptions named
in the modules that declare the constants (bounds are natural numbers, `None` is no goal,
waypoints and legs come in positive numbers, every room has a floor, and so on); TLC
evaluates them in the runs. `PROJECT.json` lists the results.

| module | what is proved |
|---|---|
| `ActionServerProofs` | types, `NoOrphanedGoal`, `SlotsConsistent`, one answer per goal, and that the server implements `ActionProtocol` |
| `NavDriveProofs`, `NavServersProofs` | `NullGoalOnlyAfterDeactivation`, `SuccessIsOwn`, `DrivenForAGoal`, `ResourcesReleased` for every server, that each is a `SimpleActionServer` (`Spec`) and hence keeps the protocol, and `TimeoutNotHidden` of the second-level planner |
| `BehaviorTreeProofs` | `NoChildLeftRunning`, `GivesUpOnlyWhenDone`, `GoalEndsWithNode`, `ReportIsOwn`, `ConditionHolds` |
| `GppBimServerProofs` | `FilesNotMixed`, `CopyReusableHasCost`, `PrePlanHonest`, `UpdatesReachServer` |
| `CostmapProofs` | the invariant of the multi-room costmap, its grids under a planner, the observation buffer |
| `ComponentProofs` | the nodes that move the robot and those a user looks at, each for itself |
| `NodesProofs` | `MotionIsSafe`, `FloorsAreTrue`, `UserIsToldTruth` and the action property `NoStepSpoils` of the sum of all nodes |

### The arguments

- *Action server.* No property is inductive alone: that an active goal is in a slot needs that
  the slots are distinct, that needs that a goal is accepted once, and that the flag is set
  with a pending goal needs where the worker is. `IInv` has the slots, the flag and the
  states of the handles together. The step simulation of `ActionProtocol` uses it to show
  that what the server answers is the goal in hand.
- *Servers.* `NavInv` is the action server's invariant, what the lifecycle of the node allows
  (`LifeInv`), and one invariant per kind of server saying, for each place in its callback,
  what is known of the goal, the muxer, the dock, the last command. Each server's steps are
  steps of the action server, by cases on the place.
- *Behavior tree.* `TreeInv` has one part per kind of node. `GivesUpOnlyWhenDone` needs a
  history: which children have been tried since the activation, and that the index and the
  retry counter are what that history says. `ReportIsOwn` needs that an answer still under way
  is the one to the last request or is known to be stale.
- *Topological map.* `FilesNotMixed` needs that the map in memory is that of the file it would
  go to, which needs that an unconfigured node has no map; reuse needs that prices survive
  `toJson` and `loadFromJson`. `GppInv` adds what the copy, the pending updates and the server
  know of each other.
- *Second level.* `CallInv` connects the flag of the class with the local result of the call
  that waits.
- *Costmaps.* `NoStaleFloor` needs the places of the executor (what is being collected or
  merged), that the creation threads only add rooms, that grids are not blank once their map
  came, and that a floor being merged lacks none of the maps that came since. The reader's
  lock (`ReaderInv`) then gives the action property.
- *Motion, user interface.* `RobotInv` and `UserInv` have for each node what its timers,
  clocks and members say of each other. The sum needs that a node's steps leave the other
  nodes alone (`Own`).

### What stays with TLC

- *Liveness* (`CurrentGoalAnswered`, `DeactivationEnds`, `CallReturns`, `FloorServed`,
  `WaitsEnd`): the prover has no rules for fairness and ENABLED.
- *Recursive definitions* (the `Algorithms` run, the search of `TopomapPlanner`, the choice of
  a trajectory in `PathsAreUsable`): what they compute for every input takes an induction over
  data the provers cannot instantiate.
- `MapsAreCurrent` and `NodesAreComplete`: their invariants range over some fifteen nodes with
  records of many fields, and the leaves of the step were not found in reasonable time.

## 5. Disagreements between code and documentation

Three are runs with `expect: violation`:

- `SecondLevelWrongRoom`: `getPreemptedGoalIfRequested` takes the goal by value
  (`room_planner_server.cpp:394`), so a preempting goal is answered with the path planned
  for the one it preempted. The query and the pre-plan thread preempt each other.
- `TopomapShutdown`: `on_cleanup` empties the graph but keeps the file name, and
  `on_shutdown` then saves the empty graph over the map (`topomap_server.cpp:177`).
- `HaltCancels`: a node of the tree halted before the response to its goal arrived does not
  cancel that goal (`bt_action_node.hpp:356`, against the comment at 309).

Others are definitions that say "It does not hold". To see one, put it in place of the
INVARIANTS of the run named first (`RemembersPose`, `PoseIsKept` and `FloorRegenerated` under
PROPERTIES).

`Nodes`:

- `RemembersPose` (`amcl_node.cpp:1598`, "remember the last robot pose so we don't start at
  0:0 again"): `on_configure` makes the filter before `initOdometry` renews the pose.
  `PoseIsKept` (`amcl_node.cpp:1371`): a change of certain parameters makes the filter anew
  around `init_pose_`, so that an active node forgets the pose it was told.
- `MaskIsSeen` (`keepout_filter.cpp:178`): the cells of the mask are converted with the origin
  and resolution of the costmap, so a mask that lies elsewhere is not in the window, although
  `process` (233) provides for such masks.
- `LostBondBringsAllDown` (`lifecycle_manager.cpp:493`, "if one is down, bring them all
  down"): the reset goes through the nodes in reverse and stops at the dead one, so the nodes
  before it stay active.
- `StartedIsUpdated` (`costmap_2d_ros.cpp:628` and 674, "meaning one update cycle has run"):
  an update under way when `stop` or `pause` clears `initialized_` sets it again.
- `CostmapIsRestored` (`room_planner_server.cpp:631`, "Restore original costmap in the
  planner"): not when the planner throws. `StartsAtRobot`
  (`NavbimComputePathToPoseInRoom.action:7`): `use_start` is not read, the goal's start is used.
- `CancelReachesTask`, `CompleteIsTask` (`robot_navigator.py:455`, 463): a rejected goal
  replaces the handle that `cancelTask` uses; `getPath` and the like replace the future that
  `isTaskComplete` waits for.
- `HiddenIsHidden` (`topomap_panel.cpp:687`): edge markers are named after the types of their
  ends and looked up after their own. `FloorLabelTrue` (`bim_panel.cpp`, `onBimModelsClicked`):
  the label is reset, the selected floor is not.
- `TurningRadiusKept` (smac `README.md:121`): downsampling switched off at run time computes
  the radius anew (`smac_planner_hybrid.cpp:720`), but the search that holds the old one is
  rebuilt for other parameters only.
- `RerouteGoesOn` (`route_tracker.cpp:226`): a second request before the first node of the new
  route has no last node and starts from anywhere.
- `CuspIsNotSkipped`, `PlanIsNotLeft` (`path_handler.cpp:85`): the closest pose is the last of
  equally close ones, and the pose before the previous one may lie before the plan.
  `TurnsOrReverses` (`parameter_handler.cpp:288`, "cannot be set to true"): the test is made
  when `allow_reversing` is set at run time, not when the other is, nor at the start.
- `EveryTurnIsChecked`: the rotation shim checks some of its commands for collisions only.
  `DwbKeepsSpeed` (`kinematic_parameters.cpp:200`): setting `max_speed_xy` leaves its square,
  which setting `min_speed_theta` computes. `DwbKeepsPlan`: a plan none of whose poses is near
  is erased.

`Algorithms`:

- `EnforcedIsInMap` (`costmap_2d.hpp:211`, "guaranteed to lie within the map"): a coordinate
  exactly at the upper edge gives the cell after the last. `LabelsSuffice`
  (`image_processing.hpp:482`): chequered images need more labels than `maxLabels`.
- `PyLineIsGapless` (`footprint_collision_checker.py:95`, "all the points along a line"): rows
  of a steep line are jumped over. `OutsideIsNoRoom` (`room_manager.py:240`): `touches` is
  false of two areas that overlap. `SavedMapIsPlaced` (`map_io.cpp:600`): three decimals are
  written. `SentOnIsReadable` (`topological_map.hpp:47`): the id of an edge's room, a number,
  is assigned to a string as one character, which the reader does not take for a number.
- `ThetaFindsRoute` (`theta_star.hpp:90`): the loop ends when the queue is empty, before it
  looks at the node it has just taken from it. `IntentIsNearestAnywhere` (`goal_intent_search.hpp:84`): nodes off
  the costmap shift the index of the answer. `PosesHaveHeadings` (`corner_smoothing.hpp:113`):
  a corner repeats the pose it starts from.

`NavServers`: `OneNavigator` (`behavior_tree_navigator.hpp:290`): the muxer is tested before
the tree is loaded and set afterwards. `RouteIsOfGraph` (`route_server.cpp:384`): the service
clears the graph while a route is being found on it. `SecondLevelPlanner`:
`OneLevelTimeoutNotHidden` (`gpp_bim_server.cpp:792`): on one level a plan that timed out is
reported as `NO_VALID_PATH`, the flag is not read. `BehaviorTree`: `DistanceIsTraveled`
(`distance_traveled_condition.cpp:57`): a failed lookup overwrites the start pose with the
origin (`robot_utils.cpp:34`), so the next tick may answer SUCCESS with nothing travelled.
`Progress`: `FloorRegenerated`
(`multi_costmap_2d_ros.hpp:53`, "False if needs regeneration"): `createFloorCostmap` returns
when the cache has an entry, valid or not (`multi_costmap_2d_ros.cpp:1273`); a room added by a
later message (1693), or one whose region did not fit (1574), makes it invalid for good.

The rest was met with TLC while the properties were being stated, or while reading the code
for a module. They are the reason for a condition in a property, or for a hazard's note:

- `topomap_planner.cpp:257`: an edge whose planning failed once keeps an infinite cost and
  is never tried again, also with `reuse_paths` off. `FindsExistingRoute` has `faults = 0`.
- `topological_map.hpp:270`: the heuristic penalises height more than the generator
  (`topology_manager.py:470`) does, so a stair may be cheaper than its estimate and the
  route not a cheapest one. `Optimal` has `NoCheapEdges`.
- `gpp_bim_server.cpp:885`: the pre-plan thread sets the timeout flag the query reads at
  616. `TimeoutNotHidden` claims one direction only.
- `simple_action_server.hpp:218` ("Shouldn't reach a state with a pending goal but no
  current one."): a goal accepted after the worker's last critical section, while its
  future is not ready, is pending with nobody to run it. `CurrentGoalAnswered` is about the
  current slot.
- `gpp_bim_server.cpp:321`: the load timer replaces the map without the mutex a query
  holds, and a server without a map counts as loaded. `gpp_bim_server.cpp:1265`: the answer to
  an edge update is not read; `PrePlanHonest` and `UpdatesReachServer` have `~disturbed`.
- `topomap_server.cpp:33`: parameters are declared in `on_configure`, so a cleaned-up node
  cannot be configured again. `topomap_server.cpp:963`: clearing the paths spares stairs,
  not ramps, which the planner reuses always (`topomap_planner.cpp:349`).
- `multi_costmap_2d_ros.cpp`: a room listed twice before its creation ends is created
  twice (669); a room inserted between the body of `on_activate` and the end of the
  transition stays silent (666); one may be inserted after `on_cleanup` (664);
  `publishCostmap` reads shared maps without the lock (774).
- `multimap_server.cpp`: one unreadable map keeps an environment out of the index while its
  other maps are served (250); `dump_map` takes a map out of the first environment of its
  name only (366).
- `topological_map_loader.cpp:258`: holes of a polygon are dropped; a bounding box with x 0..0
  is read as none (70).
- `room_planner_server.cpp:574`: an empty `planner_id` is replaced for the choice of the
  costmap, not in the call at 625.
- Routes: a closed edge whose cost may not be overridden is still traversed; the speed limit
  of the last edge stays after the route; a request to plan again made while no route is
  tracked takes effect in the next one.
- Controllers: setting `desired_linear_vel` drops an active speed limit, and cancelling while
  turning on the spot does not decelerate.

## 6. Not modelled

`PROJECT.json` lists every part with its status and the reason. Left out: the MPPI and
graceful controllers and the constrained smoother (what matters there is in numerical
optimisation), message definitions, bring-up, robot descriptions and tools, the
system tests, and START and GOAL as vertices of the graph the pre-plan thread iterates.
Throughout, floating point and geometry are reduced to small integers, so rounding is not
examined where a section does not say so; and what plugins compute is a choice between their
outcomes wherever a plugin has no section of its own.
