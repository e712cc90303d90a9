CONSTANTS
  Orders = {o1}
  Workers = {w1}
  MaxAttempts = 4
  MaxRemote = 2
  MaxWebhooks = 2
  MaxActions = 2
  MaxSwitches = 2
  MaxCleanups = 2
  MaxMoves = 1
  Fixed = {TRUE}
  Live = {"PASS", "UNPAID"}
  NoOrder = NoOrder
  NoWorker = NoWorker
SPECIFICATION BoundedSpec
INVARIANTS
  LockColumns
  SubmittedIsProduced
  CancelledInTimeStaysOut
PROPERTIES
  StoppedQueueOnlyDrains
CHECK_DEADLOCK FALSE
