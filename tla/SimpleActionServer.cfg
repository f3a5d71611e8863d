\* Three goals fill both slots and have one waiting to replace the pending one;
\* two deactivations let a goal survive from one activation to the next.
CONSTANTS
  Goals = {g1, g2, g3}
  None = None
  Results = {"empty", "answer"}
  EmptyResult = "empty"
  MaxDeactivations = 2
SPECIFICATION Spec
INVARIANTS
  NoOrphanedGoal
  SlotsConsistent
PROPERTIES
  ImplementsProtocol
CHECK_DEADLOCK FALSE
