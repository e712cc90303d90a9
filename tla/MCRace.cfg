CONSTANTS
  Orders = {o1}
  Workers = {w1, w2}
  MaxAttempts = 4
  MaxRemote = 2
  MaxWebhooks = 2
  MaxActions = 1
  MaxSwitches = 1
  MaxCleanups = 1
  MaxMoves = 0
  Fixed = {TRUE}
  Live = {"PASS"}
  NoOrder = NoOrder
  NoWorker = NoWorker
SYMMETRY Interchangeable
SPECIFICATION BoundedSpec
INVARIANTS
  TypeOK
  ProducedIsRecorded
  OwnerSnapshotFresh
  UnvettedOnlyAfterCleanup
PROPERTIES
  RemoteIdNeverForgotten
CHECK_DEADLOCK FALSE
