CONSTANTS
  Orders = {o1}
  Workers = {w1, w2}
  MaxAttempts = 4
  MaxRemote = 1
  MaxWebhooks = 1
  MaxActions = 1
  MaxSwitches = 1
  MaxCleanups = 0
  MaxMoves = 1
  Fixed = {TRUE}
  Live = {"PASS"}
  NoOrder = NoOrder
  NoWorker = NoWorker
SPECIFICATION BoundedFairSpec
PROPERTIES
  RunningSettles
  StopDrains
  ProducedIsAcknowledged
CHECK_DEADLOCK FALSE
