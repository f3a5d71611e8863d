\* One floor of two rooms, two managed nodes, two rooms to track.  The constants after
\* these belong to nodes that take no step here.
CONSTANTS
  LmNodes = 2
  LmCommands = 2
  LmFaults = 1
  VsMax = 3
  VsAccel = 1
  VsDecel = 2
  VsDeadband = 1
  VsTimeout = 2
  a1 = a1
  a2 = a2
  fa = fa
  NoRoom = NoRoom
  Rooms = {a1, a2}
  FloorOf <- OneFloor
  Environments <- Growing
  Tracked = {}
  Planned = {a1}
  MaxMessages = 2
  MaxFaults = 1
  MaxStops = 0
  ActivationTimeout = TRUE
  RtRooms = {"hall", "office"}
  RtMoves = 1
  RtPending = 2
  RtHeartbeat = 1
  RtFaults = 1
  CmSteps = 2
  CmStopTime = 1
  LcCells = 3
  LcMaps <- MCMaps
  LcMasks <- MCMasks
  LcHits = {1}
  LcInputs = 4
  FilterScales <- MCScales
  FilterPlaces <- MCPlaces
  VxCells = 3
  VxLevels = 2
  VxMark = 1
  VxUnknown = 1
  TpCells = 2
  TpMoves = 1
  TpDepth = 1
  ObTime = 4
  ObKeeps = {0, 1, 2}
  AmPoses = {1}
  AmFrames = {"front"}
  AmMaps = 1
  AmLasers = 2
  PlSizes = {4, 9}
  PlResizes = {4, 9}
  NpPoses = 1
  NpLoops = 1
  NpServers <- MCServers
  TopoNodes <- MCTopoNodes
  TopoEdges <- MCTopoEdges
  ElementFiles <- MCFiles
  CoGoals = 2
  SimTime = 4
  SimPoses <- MCPoses
  SimSpeeds <- MCSpeeds
  MnMaps = {1, 2}
  EnvNames = {"A", "B"}
  MapNames = {"m1", "m2"}
  Files <- TwoFiles
  ParameterFile <- Extension
  MaxLoads = 2
  MaxDumps = 1
  MaxBadLoads = 1
  PluginIds <- MCIds
  PluginBound = 2
  PsPoses = 4
  PsIterations = 3
  PsRefinements = 1
  RpRooms = {"r1", "r2"}
  RpPlugins <- MCPlugins
  GmElements = {"e1", "e2"}
  GmFloors = {"f1"}
  DkTime = 3
  DkTimeout = 1
  DkSteps = 3
  TrPlaces <- MCLine
  TrEdges <- MCEdges
  TrRadius = 1
  TrBoundary = 1
  TrMinDist = 0
  TrTime = 4
  TrRequests = 2
  PpPlans <- MCPlans
  PpObstacles = {3}
  PpDesired = 2
  PpMinSpeed = 1
  PpMinApproach = 1
  PpApproach = 2
  PpLookahead = 2
  PpSearch = 2
  PpExtent = 3
  PpTolerance = 1
  PpHorizon = 2
  PpDecel = 1
  RsCircle = 8
  RsEngage = 2
  RsDisengage = 1
  RsSpeed = 2
  RsAccel = 1
  RsAhead = 2
  RsBlocked = {3}
  DwPlans <- MCLocalPlans
  DwLength = 3
  DwBlocked = {3}
  DwMax = 2
  DwMin <- MCBackwards
  DwAccel = 1
  DwSim = 1
  DwPrune = 2
  DwForward = 2
  DwReset = 0
SPECIFICATION ProgressSpec
PROPERTIES
  FloorServed
  WaitsEnd
CHECK_DEADLOCK FALSE
