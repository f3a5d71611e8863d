CONSTANTS
  Files <- MCFiles
  EdgesOf <- MCEdgesOf
  Stairs <- MCStairs
  Ramps <- MCRamps
  TopomapFile = "a"
  SaveAtShutdown = TRUE
  MaxFaults = 0
  NoFile = NoFile
  Empty = Empty
  Unreadable = Unreadable
  ReusePaths = TRUE
  MaxLoads = 2
SPECIFICATION GppSpec
INVARIANTS
  FilesNotMixed
  CopyReusableHasCost
  PrePlanHonest
  UpdatesReachServer
CHECK_DEADLOCK FALSE
