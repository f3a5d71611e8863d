------------------------------- MODULE Nodes --------------------------------
(***************************************************************************)
(* The nodes of the system that are not action servers, and the plugins    *)
(* and panels whose state outlives a call: one specification, one set of   *)
(* initial states per node.  What a node needs of the others (topics,      *)
(* transforms, service answers, time, processes that die) is its           *)
(* environment and part of its module.                                     *)
(***************************************************************************)
EXTENDS LifecycleNodes, MotionNodes, Costmap2D, ObservationBuffer, MapNodes, PlannerPlugins,
        UserInterfaces, RoomNodes, MultiCostmap, PathFollowing

nodesVars == <<componentVars, costmapVars>>

MonitorParts == Monitors \cup Detectors
PluginParts == SmacPlugins \cup ThetaPlugins \cup NavfnPlugins
PanelParts == NavPanels \cup DockPanels
BimParts == BimPanelParts \cup TopoPanelParts \cup ElementParts
CommanderParts == {"commander", "bringup"}
Simulators == {"simulator"}
MapParts == MapServerParts \cup MapSavers \cup InfoServers
GeneratorParts == {"generator", "bimServer"}
DockParts == {"dock", "dockDatabase", "dockController"}
FloorParts == {"multiCostmap"}

\* The multi-room costmap has variables of its own, which no other part changes.
NodesInit ==
  /\ CostmapInit
  /\ \/ part \in LifecycleManagers /\ st \in LifecycleManagerInit
     \/ part \in VelocitySmoothers /\ st \in VelocitySmootherInit
     \/ part \in MonitorParts /\ st \in CollisionMonitorInit
     \/ part \in CostmapNodes /\ st \in CostmapNodeInit
     \/ part \in LayeredCostmaps /\ st \in LayeredCostmapInit
     \/ part \in Filters /\ st \in CostmapFilterInit
     \/ part \in VoxelLayers /\ st \in VoxelLayerInit
     \/ part \in CostmapTopics /\ st \in CostmapTopicInit
     \/ part \in ObservationBuffers /\ st \in ObservationBufferInit
     \/ part \in Amcls /\ st \in AmclInit
     \/ part \in PluginParts /\ st \in PlannerPluginsInit
     \/ part \in MultimapServers /\ st \in MultimapServerInit
     \/ part \in ServerParts /\ st \in ServerNodesInit
     \/ part \in Smoothers /\ st \in PathSmoothingInit
     \/ PanelsInit \/ BimPanelsInit \/ CommanderInit \/ MapNodesInit
     \/ RoomPlanningInit \/ NavModelGenInit \/ DocksInit
     \/ part \in Simulators /\ st = simulatorInit
     \/ part \in Trackers /\ st \in trackerInit
     \/ part \in Pursuits /\ st \in pursuitInit
     \/ part \in Shims /\ st \in shimInit
     \/ part \in Dwbs /\ st \in dwbInit
     \/ part \in Kinematics /\ st = kinematicsInit
     \/ part \in FloorParts /\ st = [at |-> "own"]

OfComponent ==
  \/ part \in LifecycleManagers /\ LifecycleManagerNext
  \/ part \in VelocitySmoothers /\ VelocitySmootherNext
  \/ part \in MonitorParts /\ CollisionMonitorNext
  \/ part \in CostmapNodes /\ CostmapNodeNext
  \/ part \in LayeredCostmaps /\ LayeredCostmapNext
  \/ part \in Filters /\ CostmapFilterNext
  \/ part \in VoxelLayers /\ VoxelLayerNext
  \/ part \in CostmapTopics /\ CostmapTopicNext
  \/ part \in ObservationBuffers /\ ObservationBufferNext
  \/ part \in Amcls /\ AmclNext
  \/ part \in PluginParts /\ PlannerPluginsNext
  \/ part \in PanelParts /\ PanelsNext
  \/ part \in BimParts /\ BimPanelsNext
  \/ part \in CommanderParts /\ CommanderNext
  \/ part \in MapParts /\ MapNodesNext
  \/ part \in MultimapServers /\ MultimapServerNext
  \/ part \in ServerParts /\ ServerNodesNext
  \/ part \in Smoothers /\ SmoothersNext
  \/ part \in RoomPlanningParts /\ RoomPlanningNext
  \/ part \in GeneratorParts /\ NavModelGenNext
  \/ part \in DockParts /\ DocksNext
  \/ part \in Simulators /\ SimulatorNext
  \/ part \in Trackers /\ TrackerNext
  \/ part \in Pursuits /\ PursuitNext
  \/ part \in Shims /\ ShimNext
  \/ part \in Dwbs /\ DwbNext
  \/ part \in Kinematics /\ KinematicsNext

NodesNext ==
  \/ part \notin FloorParts /\ OfComponent /\ UNCHANGED <<part, costmapVars>>
  \/ part \in FloorParts /\ CostmapNext /\ UNCHANGED componentVars

NodesSpec == NodesInit /\ [][NodesNext]_nodesVars

-----------------------------------------------------------------------------
(* Properties, by what is at stake *)

\* What moves the robot: the velocity smoother and the collision monitor fall silent
\* only after a zero, the monitor sends the slowest of what its polygons allow and
\* decides on data that is not too old, the docking controller has checked the
\* trajectory it drives against a pose that was detected recently, and the simulated
\* robot stands where it was put.
MotionIsSafe ==
  /\ SmootherSilentAtRest /\ SpeedIsSafest /\ MonitorSilentAtRest /\ DetectionIsCurrent
  /\ RefinedPoseIsRecent /\ DriveIsChecked /\ SimulatorStandsWhereTold

\* What the robot knows of its surroundings: an update of the layers reaches every cell
\* it should and none is served before the map is there, voxels, filters, published
\* copies and observations agree with what they were made from, the localisation uses
\* the map it has, and the map servers' index, answers and files name the same maps.
MapsAreCurrent ==
  /\ UpdateIsComplete /\ CurrentHasMap /\ VoxelsMatchCosts /\ FilterToldTruth /\ CopyIsCostmap
  /\ ObservationsAreFresh /\ LaserFollowsMap /\ PoseIsAsTold
  /\ ListedIsLoaded /\ LoadedIsListed /\ MapIsOneMap /\ ListedMapsAreNew

\* The floors of the multi-room costmap: a floor that is served is merged from the maps
\* of all its rooms, and lacks none that was published since and is not about to be
\* merged.
FloorsAreTrue == FloorHasRealData /\ NoStaleFloor

\* Configuration and lifecycle: a node that is reported or says it is active has all it
\* needs and one that is not serves and publishes nothing, through transitions that fail half-way,
\* and what a plugin computed from its parameters and its costmap fits the ones it
\* plans with, however they are changed between and during plans.
NodesAreComplete ==
  /\ ReportedActiveIsActive /\ StartedIsUpdatedOrLate /\ PublishesWhileActive
  /\ ActiveNodeIsComplete /\ GoalKeepsParameters /\ InactiveServesNothing
  /\ InactivePublishesNothing /\ InfoIsPublished /\ BimAnswersWhenActive /\ DockInUseStays
  /\ SmacPlansOnItsGrid /\ ThetaContainersFit /\ NavfnEndsInArrays

\* Paths: a plan in a room is made on the costmap of the room and can be used, and a
\* smoothed path is as long as the one given and crosses nothing that it avoided.  A path
\* that is followed keeps its goal, the commands made from it stay within their limits
\* and were checked for what they lead to, and the operations of a tracked route are
\* performed for the edges the robot is on, none of them reported as blocked.
PathsAreUsable ==
  /\ PlanUsesRoomCostmap /\ PlanIsUsable /\ SmoothedPathIsDrivable
  /\ PlanKeepsGoal /\ PursuitIsSafe /\ ShimTurnsSafely /\ HandedOverOnce
  /\ OperationsMatchEdges /\ BlockedEdgeIsLeft
  /\ DwbChoosesBest /\ DwbDoesNotOscillate /\ DwbStaysAtGoal /\ LimitsOnlyLower

\* What no step does: change the grid a planner holds, or drop an observation that is
\* not too old.
NoStepSpoils == UpdatesBlockedWhilePlanning /\ FreshObservationKept

\* What a user sees: the panels show the last command and the markers of the map that is
\* there, loops are counted down, and the commander reports the end of a task as it was.
UserIsToldTruth ==
  /\ RemainingLoops /\ ShowsLastCommand /\ SelectedFloorHasHeight /\ MarkersAreCurrent
  /\ CompleteIsReported

-----------------------------------------------------------------------------
(***************************************************************************)
(* What must happen in the end, under the fairness of the threads and      *)
(* timers that do it: the floors of the multi-room costmap, the lifecycle  *)
(* manager's bonds, the velocity smoother's timeout, the start of a        *)
(* costmap and the room tracker.  One specification; the part says which   *)
(* of them takes steps.                                                    *)
(***************************************************************************)

ProgressInit ==
  /\ CostmapInit
  /\ \/ part = "multiCostmap" /\ st = [at |-> "own"]
     \/ part \in LifecycleManagers /\ st \in LifecycleManagerInit
     \/ part \in VelocitySmoothers /\ st \in VelocitySmootherInit
     \/ part \in CostmapNodes /\ st \in CostmapNodeInit
     \/ part \in RoomTrackers /\ st \in RoomTrackerInit

\* A step of the multi-room costmap, and of a node.
OfCostmap(A) == part = "multiCostmap" /\ A /\ UNCHANGED componentVars
OfNode(A) == A /\ UNCHANGED costmapVars

ProgressNext ==
  \/ OfCostmap(CostmapNext)
  \/ OfNode(LifecycleManagerNext \/ VelocitySmootherNext \/ CostmapNodeNext \/ RoomTrackerNext)

\* The executor finishes its callbacks and serves each kind of callback again and again
\* (strongly fair, as they exclude each other); maps and z-coordinates are delivered; a
\* creation thread ends; the planner lets go of the lock, and the lifecycle manager
\* activates the node.  Nobody is obliged to send a message.
CostmapFairness ==
  /\ SF_nodesVars(OfCostmap(InCallback))
  /\ SF_nodesVars(OfCostmap(CollectRooms)) /\ SF_nodesVars(OfCostmap(CollectChanged))
  /\ SF_nodesVars(OfCostmap(\E r \in Rooms : MapArrives(r) \/ MinZArrives(r)))
  /\ SF_nodesVars(OfCostmap(\E d \in deferred : createRoomCostmapsDeferred(d)))
  /\ WF_nodesVars(OfCostmap(ActivateBegin)) /\ SF_nodesVars(OfCostmap(ActivateBody))
  /\ WF_nodesVars(OfCostmap(TransitionEnd)) /\ WF_nodesVars(OfCostmap(PlanEnd))

\* Timers that run fire, a service call of the lifecycle manager returns or times out,
\* the update thread of a costmap goes on, and requests of the room tracker are answered.
NodeFairness ==
  /\ WF_nodesVars(OfNode(LmChangeState \/ checkBondConnections))
  /\ WF_nodesVars(OfNode(smootherTimer))
  /\ WF_nodesVars(OfNode(Cr_mapUpdateLoop)) /\ WF_nodesVars(OfNode(Cr_started))
  /\ WF_nodesVars(OfNode(updateCurrentRoom)) /\ WF_nodesVars(OfNode(roomResponse))
  /\ WF_nodesVars(OfNode(trackerClock))

ProgressSpec ==
  ProgressInit /\ [][ProgressNext]_nodesVars /\ CostmapFairness /\ NodeFairness

-----------------------------------------------------------------------------
\* Nobody waits for ever: a node whose bond broke is noticed, a command that is not
\* renewed ends in a zero, a costmap that is started comes up once the robot can be
\* located, and subscribers learn the room the robot stays in.  The first three are of
\* different nodes, and only one of them takes steps: they share one formula.
WaitsEnd ==
  /\ (DeadNode \/ StaleCommand \/ StartWaits)
       ~> (DeadNodeNoticed \/ StaleCommandStops \/ StartEnds)
  /\ RoomIsTold
=============================================================================
