\* nothing fails but Kafka, an admin asks for a retry
CONSTANTS
  Messages <- OneMessage
  Handled <- OneMessage
  BatchSize = 1
  MaxRetries = 1
  Admins <- OneAdmin
  Reasons <- DefaultReason
  Disruptions <- NoDisruption
SPECIFICATION FairSpec
PROPERTY MarkedIsRetried
CHECK_DEADLOCK FALSE
