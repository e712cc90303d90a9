CONSTANTS
  Events = {approved, unknown}
  Supported = {approved}
  Effective = {approved}
  Publishers = {p1, p2}
  MaxAttempts = 2
  MaxRequeues = 1
  NoEvent = NoEvent
  NoPublisher = NoPublisher
SPECIFICATION FairSpec
INVARIANTS
  TypeOK
  PublishedWasDelivered
  OwnerCountsFresh
  DeadLettersWereTried
PROPERTIES
  Delivers
  ActsAsTestQueue
  EventsSettle
CHECK_DEADLOCK FALSE
