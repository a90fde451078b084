\* nothing fails but Kafka; a message without a handler
CONSTANTS
  Messages <- ThreeMessages
  Handled <- AllButLast
  Admins <- NoAdmin
  Reasons <- DefaultReason
  Disruptions <- NoDisruption
  BatchSize = 2
  MaxRetries = 2
  DLQBatchSize = 2
  DLQMaxRetries = 2
SPECIFICATION FairSpec
INVARIANT NothingLost
PROPERTY Accounted
CHECK_DEADLOCK FALSE
