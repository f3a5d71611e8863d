CONSTANTS
  g1 = g1
  g2 = g2
  Goals = {g1, g2}
  None = None
  Results <- NavResults
  EmptyResult <- NavEmptyResult
  MaxDeactivations = 1
  Servers <- MCServers
  MaxLegs = 2
  Waypoints = 2
  MaxLoops = 0
  MaxLate = 1
  MaxRetries = 1
  Trees <- MCTrees
  TreesOf <- MCTreesOf
SPECIFICATION LiveNavSpec
INVARIANTS
  NullGoalOnlyAfterDeactivation
  SuccessIsOwn
  DrivenForAGoal
  ResourcesReleased
PROPERTIES
  Spec
  CurrentGoalAnswered
  DeactivationEnds
CHECK_DEADLOCK FALSE
