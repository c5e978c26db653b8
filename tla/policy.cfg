\* The decision tables over every state and a grid of instants.
SPECIFICATION Spec
CONSTANTS
  CANCELLATION_LEAD_TIME = 2
  MaxTime = 6
INVARIANTS DecisionShapes
PROPERTIES RefusalsAreStable
CHECK_DEADLOCK FALSE
