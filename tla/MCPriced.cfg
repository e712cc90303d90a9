CONSTANTS
  Orders = {o1}
  Workers = {w1}
  MaxAttempts = 4
  MaxRemote = 2
  MaxWebhooks = 1
  MaxActions = 1
  MaxSwitches = 1
  MaxCleanups = 1
  MaxMoves = 0
  Fixed = {TRUE}
  Live = {"PASS"}
  NoOrder = NoOrder
  NoWorker = NoWorker
SPECIFICATION BoundedSpec
INVARIANTS
  PricedBeforeConfirm
CHECK_DEADLOCK FALSE
