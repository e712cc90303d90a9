CONSTANTS
  Orders = {o1}
  Workers = {w1}
  MaxAttempts = 4
  MaxRemote = 1
  MaxWebhooks = 2
  MaxActions = 0
  MaxSwitches = 1
  MaxCleanups = 0
  MaxMoves = 0
  Fixed = {TRUE}
  Live = {"PASS"}
  NoOrder = NoOrder
  NoWorker = NoWorker
SPECIFICATION BoundedSpec
PROPERTIES
  CancelledIsHeld
CHECK_DEADLOCK FALSE
