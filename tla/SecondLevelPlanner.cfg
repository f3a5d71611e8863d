\* Two goals: one per thread, or two calls of one thread.
CONSTANTS
  Goals = {g1, g2}
  None = None
  Results <- NavResults
  EmptyResult <- NavEmptyResult
  MaxLegs = 1
  MaxDeactivations = 1
SPECIFICATION LiveSystemSpec
INVARIANTS
  TimeoutNotHidden
PROPERTIES
  CallReturns
CHECK_DEADLOCK FALSE
