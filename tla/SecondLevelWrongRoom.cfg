\* Two goals, one per thread; the room planner stays active.
CONSTANTS
  Goals = {g1, g2}
  None = None
  Results <- NavResults
  EmptyResult <- NavEmptyResult
  MaxLegs = 1
  MaxDeactivations = 0
SPECIFICATION SystemSpec
INVARIANT
  PathIsForThisCall
CHECK_DEADLOCK FALSE
