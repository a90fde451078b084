\* nobody interferes, the handler keeps failing
CONSTANTS
  Messages <- OneMessage
  Handled <- OneMessage
  BatchSize = 1
  MaxRetries = 2
  Admins <- NoAdmin
  Reasons <- DefaultReason
  Disruptions <- NoDisruption
SPECIFICATION Spec
PROPERTY ExhaustedIsDiscarded
CHECK_DEADLOCK FALSE
