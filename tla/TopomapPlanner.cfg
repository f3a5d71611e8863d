CONSTANTS
  Vertices <- MCVertices
  Start <- MCStart
  Goal <- MCGoal
  Buildings <- LineBuildings
  Positions = {0, 1}
  Detours = {0, 2}
  ReusePaths = TRUE
  MaxQueries = 2
  MaxFaults = 1
  Inf = Inf
  None = None
SPECIFICATION Spec
INVARIANTS
  SearchTree
  FailureIsCut
  Optimal
  FindsExistingRoute
PROPERTIES
  SearchEnds
CHECK_DEADLOCK FALSE
