SPECIFICATION TreeSpec
CONSTANTS
  Nodes <- AllNodes
  Retries = 2
  MaxGoals = 3
  MaxRequests = 2
  Period = 2
  MaxQueue = 2
INVARIANTS
  NoChildLeftRunning
  GivesUpOnlyWhenDone
  GoalEndsWithNode
  ReportIsOwn
  ConditionHolds
CHECK_DEADLOCK FALSE
