\* Every algorithm with a family of inputs of its own.
CONSTANTS
  GeoSize = 4
  GeoScale = 2
  DenoiseShapes <- MCShapes
  DenoiseCosts = {0, 254}
  InfSize = 5
  InfRadius = 3
  InfFixed <- MCFixed
  InfWindows <- MCWindows
  InfUnknown <- MCUnknown
  PfKeys <- MCKeys
  PfSamples = 4
  PfMap = 4
  PfBeams = 6
  NavSize = 5
  NavCost = 200
  NavBuffer = 2
  NavEnds <- MCNavEnds
  TsWidth = 4
  TsHeight = 2
  TsEnds <- MCThetaEnds
  TsCorners = {4, 8}
  SmWidth = 3
  SmHeight = 3
  SmCostly <- MCCostly
  SmEnds <- MCSmacEnds
  SmTolerances = {0, 1500}
  SmQueries <- MCQueries
  HyArcs <- MCArcs
  HyBins = 8
  HyLookup = 5
  HyCosts = {0, 100, 253, 254, 255}
  RgRooms = 3
  RgDoors = 2
  RgStairs <- MCStairs
  PgPoints <- MCPoints
  PgLine = 2
  ClSize = 3
  ClRadius = 3
  PySize = 5
  PyReach = 6
  MfCosts <- MCCosts
  MfThresholds <- MCThresholds
  MfTokens = {"-t", "--occ", "x", "-h", "--ros-args"}
  RhInitial = 4
  RhInfoInc = 4
  RhInfoMax = 7
  RhLargest = 16
  RhHashes <- MCHashes
  RhElements = 5
  PoolChunks = 2
  MmFiles <- MCMapFiles
  MmHeights = {20, 50}
  MmReach = 20
  MmPositions <- MCPositions
  MmPenalty = 3
  FlTolerance = 2
  FlCeiling = 3
  FlLevels = {0, 1, 2, 7}
  FlTop = 11
  FlElements = 60
  FlStoreys <- MCStoreys
  FlStairs <- MCStairHeights
  FlLandings <- MCLandings
  BgWidth = 4
  BgHeight = 3
  BgNodes = 5
  BgHeights = {0, 1, 5}
  BrWidth = 4
  BrHeight = 3
  BrWalls <- MCWalls
  BrMinArea = 3
  BrLines <- MCLines
  BrResolution = 3
  GrNodes = 4
  GrPlaces <- MCPlaces
  GrEdges <- MCRouteGraphs
  GrRequests <- MCRouteRequests
  GrIterations = 5
  ScEdges <- MCScoredEdges
  ScPlugins <- MCPluginOrders
  RfGraphs <- MCRouteFiles
  GiWidth = 4
  GiHeight = 2
  GiGraphs <- MCIntentGraphs
  GiNearest = 3
  DnDensity = 250
  DnRadius = 240
  DnRoutes <- MCDenseRoutes
SPECIFICATION AlgorithmsSpec
INVARIANTS
  GridsAreExact
  SearchesAreSound
  RoutesHoldTogether
  StructuresAreSound
  BuildingIsKept
CHECK_DEADLOCK FALSE
