---------------------------- MODULE NodesProofs ----------------------------
(***************************************************************************)
(* The nodes: what the inductive invariants of the parts give for their    *)
(* sum.                                                                    *)
(***************************************************************************)
EXTENDS Nodes, CostmapProofs, ComponentProofs

-----------------------------------------------------------------------------
(* The sum of the parts *)

\* The part belongs to no other family than this one.
Own(family) ==
  /\ part \in LifecycleManagers => family = "LifecycleManagers"
  /\ part \in VelocitySmoothers => family = "VelocitySmoothers"
  /\ part \in MonitorParts => family = "MonitorParts"
  /\ part \in CostmapNodes => family = "CostmapNodes"
  /\ part \in LayeredCostmaps => family = "LayeredCostmaps"
  /\ part \in Filters => family = "Filters"
  /\ part \in VoxelLayers => family = "VoxelLayers"
  /\ part \in CostmapTopics => family = "CostmapTopics"
  /\ part \in ObservationBuffers => family = "ObservationBuffers"
  /\ part \in Amcls => family = "Amcls"
  /\ part \in PluginParts => family = "PluginParts"
  /\ part \in PanelParts => family = "PanelParts"
  /\ part \in BimParts => family = "BimParts"
  /\ part \in CommanderParts => family = "CommanderParts"
  /\ part \in MapParts => family = "MapParts"
  /\ part \in MultimapServers => family = "MultimapServers"
  /\ part \in ServerParts => family = "ServerParts"
  /\ part \in Smoothers => family = "Smoothers"
  /\ part \in RoomPlanningParts => family = "RoomPlanningParts"
  /\ part \in GeneratorParts => family = "GeneratorParts"
  /\ part \in DockParts => family = "DockParts"
  /\ part \in Simulators => family = "Simulators"
  /\ part \in Trackers => family = "Trackers"
  /\ part \in Pursuits => family = "Pursuits"
  /\ part \in Shims => family = "Shims"
  /\ part \in Dwbs => family = "Dwbs"
  /\ part \in Kinematics => family = "Kinematics"
  /\ part \in FloorParts => family = "FloorParts"

\* The families have no part in common.
LEMMA PartsAreOwn ==
  /\ part \in VelocitySmoothers => Own("VelocitySmoothers")
  /\ part \in MonitorParts => Own("MonitorParts")
  /\ part \in ObservationBuffers => Own("ObservationBuffers")
  /\ part \in DockParts => Own("DockParts")
  /\ part \in Simulators => Own("Simulators")
  /\ part \in PanelParts => Own("PanelParts")
  /\ part \in BimParts => Own("BimParts")
  /\ part \in CommanderParts => Own("CommanderParts")
<1> USE DEF LifecycleManagers, VelocitySmoothers, MonitorParts, Monitors, Detectors, CostmapNodes,
      LayeredCostmaps, Filters, SpeedFilters, BinaryFilters, VoxelLayers, CostmapTopics,
      ObservationBuffers, Amcls, PluginParts, SmacPlugins, ThetaPlugins, NavfnPlugins, PanelParts,
      NavPanels, DockPanels, BimParts, BimPanelParts, TopoPanelParts, ElementParts, CommanderParts,
      MapParts, MapServerParts, MapSavers, InfoServers, MultimapServers, ServerParts, MapServers,
      VectorServers, PlainServers, Smoothers, Gradual, Windowed, RoomPlanningParts, GeneratorParts,
      DockParts, Simulators, FloorParts, Trackers, Pursuits, Shims, Dwbs, Kinematics
<1>1. part \in VelocitySmoothers => Own("VelocitySmoothers")
  BY ZenonT(60) DEF Own
<1>2. part \in MonitorParts => Own("MonitorParts")
  BY ZenonT(60) DEF Own
<1>3. part \in ObservationBuffers => Own("ObservationBuffers")
  BY ZenonT(60) DEF Own
<1>4. part \in DockParts => Own("DockParts")
  BY ZenonT(60) DEF Own
<1>5. part \in Simulators => Own("Simulators")
  BY ZenonT(60) DEF Own
<1>6. part \in PanelParts => Own("PanelParts")
  BY ZenonT(60) DEF Own
<1>7. part \in BimParts => Own("BimParts")
  BY ZenonT(60) DEF Own
<1>8. part \in CommanderParts => Own("CommanderParts")
  BY ZenonT(60) DEF Own
<1> HIDE DEF LifecycleManagers, VelocitySmoothers, MonitorParts, Monitors, Detectors, CostmapNodes,
      LayeredCostmaps, Filters, SpeedFilters, BinaryFilters, VoxelLayers, CostmapTopics,
      ObservationBuffers, Amcls, PluginParts, SmacPlugins, ThetaPlugins, NavfnPlugins, PanelParts,
      NavPanels, DockPanels, BimParts, BimPanelParts, TopoPanelParts, ElementParts, CommanderParts,
      MapParts, MapServerParts, MapSavers, InfoServers, MultimapServers, ServerParts, MapServers,
      VectorServers, PlainServers, Smoothers, Gradual, Windowed, RoomPlanningParts, GeneratorParts,
      DockParts, Simulators, FloorParts, Trackers, Pursuits, Shims, Dwbs, Kinematics
<1> QED BY <1>1, <1>2, <1>3, <1>4, <1>5, <1>6, <1>7, <1>8, Zenon

\* Each part only takes steps of its own family, and the multi-room costmap's variables
\* change in its own steps only.
LEMMA StepsAreOwn ==
  ASSUME [NodesNext]_nodesVars
  PROVE  /\ [CostmapNext]_costmapVars /\ RobotNext /\ UserNext
         /\ part \in ObservationBuffers => ObservationBufferNext \/ st' = st
<1>1. part' = part
  BY Zenon DEF NodesNext, nodesVars, componentVars
<1>2. [CostmapNext]_costmapVars
  BY Zenon DEF NodesNext, nodesVars
<1>3. st' = st \/ (part \notin FloorParts /\ OfComponent)
  BY Zenon DEF NodesNext, nodesVars, componentVars
<1>4. part \in VelocitySmoothers => VelocitySmootherNext \/ st' = st
  BY <1>3, PartsAreOwn, Zenon DEF OfComponent, Own
<1>5. part \in MonitorParts => CollisionMonitorNext \/ st' = st
  BY <1>3, PartsAreOwn, Zenon DEF OfComponent, Own
<1>6. part \in ObservationBuffers => ObservationBufferNext \/ st' = st
  BY <1>3, PartsAreOwn, Zenon DEF OfComponent, Own
<1>7. part \in DockParts => DocksNext \/ st' = st
  BY <1>3, PartsAreOwn, Zenon DEF OfComponent, Own
<1>8. part \in Simulators => SimulatorNext \/ st' = st
  BY <1>3, PartsAreOwn, Zenon DEF OfComponent, Own
<1>9. part \in PanelParts => PanelsNext \/ st' = st
  BY <1>3, PartsAreOwn, Zenon DEF OfComponent, Own
<1>10. part \in BimParts => BimPanelsNext \/ st' = st
  BY <1>3, PartsAreOwn, Zenon DEF OfComponent, Own
<1>11. part \in CommanderParts => CommanderNext \/ st' = st
  BY <1>3, PartsAreOwn, Zenon DEF OfComponent, Own
<1>12. RobotNext
  BY <1>1, <1>4, <1>5, <1>7, <1>8, Zenon DEF RobotNext, MonitorParts, DockParts, Simulators
<1>13. UserNext
  BY <1>1, <1>9, <1>10, <1>11, Zenon DEF UserNext, PanelParts, BimParts, CommanderParts
<1> QED BY <1>2, <1>6, <1>12, <1>13, Zenon

\* Each part starts as its own family does.
LEMMA PartsStartOwn ==
  ASSUME NodesInit
  PROVE  /\ RobotInit /\ UserInit
         /\ part \in ObservationBuffers => st \in ObservationBufferInit
<1>1. /\ PanelsInit => part \in PanelParts
      /\ BimPanelsInit => part \in BimParts
      /\ CommanderInit => part \in CommanderParts
      /\ MapNodesInit => part \in MapParts
  BY Zenon DEF PanelsInit, PanelParts, BimPanelsInit, BimParts, CommanderInit, CommanderParts,
               MapNodesInit, MapParts
<1>2. /\ RoomPlanningInit => part \in RoomPlanningParts
      /\ NavModelGenInit => part \in GeneratorParts
      /\ DocksInit => part \in DockParts
  BY Zenon DEF RoomPlanningInit, RoomPlanningParts, NavModelGenInit, GeneratorParts, DocksInit, DockParts
<1>3. part \in VelocitySmoothers => st \in VelocitySmootherInit
  BY <1>1, <1>2, PartsAreOwn, Zenon DEF NodesInit, Own
<1>4. part \in MonitorParts => st \in CollisionMonitorInit
  BY <1>1, <1>2, PartsAreOwn, Zenon DEF NodesInit, Own
<1>5. part \in ObservationBuffers => st \in ObservationBufferInit
  BY <1>1, <1>2, PartsAreOwn, Zenon DEF NodesInit, Own
<1>6. part \in DockParts => DocksInit
  BY <1>1, <1>2, PartsAreOwn, Zenon DEF NodesInit, Own
<1>7. part \in Simulators => st = simulatorInit
  BY <1>1, <1>2, PartsAreOwn, Zenon DEF NodesInit, Own
<1>8. part \in PanelParts => PanelsInit
  BY <1>1, <1>2, PartsAreOwn, Zenon DEF NodesInit, Own
<1>9. part \in BimParts => BimPanelsInit
  BY <1>1, <1>2, PartsAreOwn, Zenon DEF NodesInit, Own
<1>10. part \in CommanderParts => CommanderInit
  BY <1>1, <1>2, PartsAreOwn, Zenon DEF NodesInit, Own
<1>11. RobotInit
  BY <1>3, <1>4, <1>6, <1>7, Zenon DEF RobotInit, MonitorParts, DockParts, Simulators
<1>12. UserInit
  BY <1>8, <1>9, <1>10, Zenon DEF UserInit, PanelParts, BimParts, CommanderParts
<1> QED BY <1>5, <1>11, <1>12, Zenon

\* Every part has its invariant, and the multi-room costmap its own.
NodesInv ==
  /\ CostmapInv /\ RobotInv /\ UserInv
  /\ part \in ObservationBuffers => BufferInv

\* NodesInv holds however the nodes start.
LEMMA NodesInitInv == NodesInit => NodesInv
<1> SUFFICES ASSUME NodesInit PROVE NodesInv
  OBVIOUS
<1>1. CostmapInv
  BY CostmapInitInv, Zenon DEF NodesInit
<1> QED BY <1>1, PartsStartOwn, RobotInitInv, UserInitInv, BufferInitInv, Zenon DEF NodesInv

\* Every step of a node keeps NodesInv.
LEMMA NodesNextInv ==
  ASSUME NodesInv, [NodesNext]_nodesVars
  PROVE  NodesInv'
<1>1. part' = part
  BY StepsAreOwn, Zenon DEF RobotNext
<1>2. CostmapInv' /\ RobotInv' /\ UserInv'
  BY CostmapNextInv, RobotNextInv, UserNextInv, StepsAreOwn, Zenon DEF NodesInv
<1>3. part \in ObservationBuffers => BufferInv'
  BY BufferNextInv, StepsAreOwn, Zenon DEF NodesInv
<1>4. part' \in ObservationBuffers' => part \in ObservationBuffers
  BY <1>1, Zenon DEF ObservationBuffers
<1> QED BY <1>2, <1>3, <1>4, Zenon DEF NodesInv

\* NodesInv is an invariant of the sum.
THEOREM NodesInvariant == NodesSpec => []NodesInv
<1>1. NodesInv /\ [NodesNext]_nodesVars => NodesInv'
  BY NodesNextInv, Zenon
<1> QED BY <1>1, NodesInitInv, PTL DEF NodesSpec

\* What moves the robot is safe: for every speed limit, timeout, number of simulated steps,
\* clock and pose, the velocity smoother and the collision monitor fall silent only after a
\* zero, the monitor sends no more than the slowest of what its polygons and its sources with a
\* source_timeout allow, a refined
\* dock pose is recent, the docking controller has checked what it drives, and the simulated
\* robot stands where it was put.
THEOREM NodesMotionIsSafe == NodesSpec => []MotionIsSafe
<1>1. NodesInv => MotionIsSafe
  BY MotionFromInv, Zenon DEF NodesInv, MotionIsSafe
<1> QED BY <1>1, NodesInvariant, PTL

\* The floors of the multi-room costmap are true beside every other node: what is served was
\* merged from the maps of all rooms of the floor and lacks none that was published since.
THEOREM NodesFloorsAreTrue == NodesSpec => []FloorsAreTrue
<1>1. NodesInv => FloorsAreTrue
  BY FloorsFromInv, Zenon DEF NodesInv, FloorsAreTrue
<1> QED BY <1>1, NodesInvariant, PTL

\* What a user sees is true: for any number of waypoints, loops, floors, elements and goals,
\* the navigation panel counts its loops down and shows the last command, the floor that is
\* selected in the BIM panel has a height, the markers are those of the map that is there,
\* and a task the commander calls complete ended as its status says.
THEOREM NodesUserIsToldTruth == NodesSpec => []UserIsToldTruth
<1>1. NodesInv => UserIsToldTruth
  BY UserFromInv, Zenon DEF NodesInv, UserIsToldTruth
<1> QED BY <1>1, NodesInvariant, PTL

\* What no step of any node does: change the grid a planner holds, whatever arrives, or drop
\* an observation that is young enough to be kept while clouds come in order.
THEOREM NodesNoStepSpoils == NodesSpec => NoStepSpoils
<1>1. NodesInv /\ [NodesNext]_nodesVars =>
        [reader # NoRoom /\ reader' = reader =>
          IF reader \in Floors THEN floors'[reader] = floors[reader]
          ELSE /\ rooms'[reader].gen = rooms[reader].gen
               /\ rooms'[reader].map = rooms[reader].map
               /\ rooms'[reader].data = rooms[reader].data]_costmapVars
  BY PlannedGridUnchanged, StepsAreOwn, Zenon DEF NodesInv
<1>2. NodesInv /\ [NodesNext]_nodesVars =>
        [st.at = "run" /\ part \in ObservationBuffers /\ ~st'.disorder /\ st.keep > 0 =>
            \A i \in DOMAIN st.list : st'.now - st.list[i] <= st.keep =>
              \E j \in DOMAIN st'.list : st'.list[j] = st.list[i]]_componentVars
  BY FreshKept, StepsAreOwn, Zenon DEF NodesInv, RobotNext
<1> QED BY <1>1, <1>2, NodesInvariant, PTL DEF NodesSpec, NoStepSpoils, UpdatesBlockedWhilePlanning, FreshObservationKept
=============================================================================
