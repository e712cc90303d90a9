CONSTANTS
  Orders = {o1}
  Workers = {w1}
  MaxAttempts = 2
  MaxRemote = 1
  MaxWebhooks = 1
  MaxActions = 0
  MaxSwitches = 1
  MaxCleanups = 0
  MaxMoves = 0
  Fixed = {TRUE}
  Live = {"PASS"}
  NoOrder = NoOrder
  NoWorker = NoWorker
SPECIFICATION BoundedSpec
INVARIANTS
  NoJobStranded
CHECK_DEADLOCK FALSE
