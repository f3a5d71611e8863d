------------------------------ MODULE Algorithms ------------------------------
(***************************************************************************)
(* The pure algorithms of the system, each called with every input of a    *)
(* bounded family and compared with a definition of what it should return. *)
(* A search or a data structure takes several steps; one specification,    *)
(* one set of initial states per algorithm.                                *)
(***************************************************************************)
EXTENDS CostmapAlgorithms, ParticleFilter, GridSearch, RouteGraph,
        MapFiles, BuildingModel

AlgorithmsInit ==
  \/ CostmapGeometryInit \/ DenoiseInit \/ InflationInit \/ ParticleFilterInit
  \/ NavFnInit \/ ThetaStarInit \/ SmacSearchInit \/ SmacHybridInit
  \/ RoomGraphInit \/ PathGeometryInit \/ PyCostmapInit \/ MapFilesInit \/ RobinHoodInit
  \/ MapMessagesInit \/ BimFloorsInit \/ BimGridsInit \/ BimRoomsInit \/ RouteGraphInit

AlgorithmsNext ==
  \/ CostmapGeometryNext \/ DenoiseNext \/ InflationNext \/ ParticleFilterNext
  \/ NavFnNext \/ ThetaStarNext \/ SmacSearchNext \/ SmacHybridNext
  \/ RoomGraphNext \/ PathGeometryNext \/ PyCostmapNext \/ MapFilesNext \/ RobinHoodNext
  \/ MapMessagesNext \/ BimFloorsNext \/ BimGridsNext \/ BimRoomsNext \/ RouteGraphNext

AlgorithmsSpec == AlgorithmsInit /\ [][AlgorithmsNext]_componentVars

-----------------------------------------------------------------------------
(* Properties, by what is computed *)

\* Grids: the cells of a line, of a polygon and of a footprint are the right ones in
\* nav2_costmap_2d and in its Python twin, a grid that moves or is converted keeps what
\* it shows of the world, denoising removes exactly the small groups, inflation and
\* clearance are those of the nearest obstacle, and a simulated scan ends at the first.
GridsAreExact ==
  /\ LinesAreStraight /\ PolygonIsFilled /\ FootprintCostIsLargest /\ WindowMoveKeepsWorld
  /\ ConversionsAgree /\ DenoiseExact /\ InflationIsNearest
  /\ PyLinesAreLines /\ PyFootprintIsDearest /\ ScanIsNearest
  /\ ClearanceIsNearest /\ ClearanceCoversSegments

\* Searches: a path is connected and free of obstacles, a route that exists is found
\* (NavFn, Smac) and the path is a cheapest one (Smac 2D), the heuristic tables hold the
\* costs they stand for; a route on a route graph is a cheapest one too, and its ends are
\* the nodes nearest to the poses.
SearchesAreSound ==
  /\ NavfnPlanIsDrivable /\ NavfnFindsRoute /\ ThetaPathIsSound
  /\ SmacPathIsBest /\ ObstacleHeuristicExact /\ SmacPathIsContinuous /\ SmacTablesAgree
  /\ RouteIsCheapest /\ IntentIsNearest /\ ScoreIgnoresOrder

\* Routes through a building: pruning the graph of rooms keeps a route, the detailed
\* path has no jump where edges meet, and the split into floors and segments, their
\* shift and their smoothing keep every pose in its place.  A route on a route graph that
\* is pruned, made a path, or saved with its graph and loaded is still the same.
RoutesHoldTogether ==
  /\ PruneKeepsRoute /\ PathHasNoJump /\ SegmentsFollowFloors
  /\ SegmentsAreMonotone /\ ShiftedSegmentCovers /\ SmoothedKeepsRest
  /\ PrunedCostIsRest /\ PathIsDense /\ RouteGraphIsKept

\* Structures and filters: the k-d tree of the particle filter and the hash table of the
\* Smac planners are the sets they stand for, resampling draws what it counts, and
\* odometry, map and beams are taken over as they are.
StructuresAreSound ==
  /\ TreeIsSet /\ ResampleIsSound /\ MotionIsOdometry /\ MapIsSound /\ BeamsAreInScan
  /\ TableIsSet /\ InfoIsDistance

\* From the building to the map: elements, floors, stairs, rooms and grids derived from
\* the model are consistent with each other, and maps and topological maps come back
\* from files and messages as they were.
BuildingIsKept ==
  /\ BatchesPartition /\ HelpersAreExact /\ FloorsAreConsistent /\ RoomsAreTold
  /\ GridsAreFilled /\ VoxelShowsMostImportant /\ FreeCellsAreFree /\ StairsGoUp
  /\ RoomsAreEnclosed /\ PositionIsGrounded /\ WalkingLineIsDense
  /\ SavedMapIsLoaded /\ OriginsAreToldApart /\ ArgumentsArePaired
  /\ TransferKeepsMap /\ RoomIsNearest /\ QueriesAgree /\ EstimateIsBelowCost
=============================================================================
