CONSTANTS
  Orders = {o1}
  Workers = {w1}
  MaxAttempts = 1
  MaxRemote = 1
  MaxWebhooks = 1
  MaxActions = 2
  MaxSwitches = 1
  MaxCleanups = 0
  MaxMoves = 0
  Fixed = {TRUE}
  Live = {"PASS", "FAIL"}
  NoOrder = NoOrder
  NoWorker = NoWorker
SPECIFICATION BoundedSpec
PROPERTIES
  ReviewedByPolicy
CHECK_DEADLOCK FALSE
