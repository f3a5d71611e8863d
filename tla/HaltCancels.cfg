SPECIFICATION TreeSpec
CONSTANTS
  Nodes = {"FollowPath"}
  Retries = 0
  MaxGoals = 1
  MaxRequests = 0
  Period = 1
  MaxQueue = 1
PROPERTY HaltCancels
CHECK_DEADLOCK FALSE
