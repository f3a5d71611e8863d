CONSTANTS
  Files <- MCFiles
  EdgesOf <- MCSharedEdges
  Stairs <- MCStairs
  Ramps <- MCRamps
  TopomapFile = "a"
  SaveAtShutdown = TRUE
  MaxFaults = 0
  NoFile = NoFile
  Empty = Empty
  Unreadable = Unreadable
  ReusePaths = TRUE
  MaxLoads = 0
SPECIFICATION ServerAlone
PROPERTIES
  MapSurvives
