\* both processors, an admin, every disruption
CONSTANTS
  Messages <- TwoMessages
  Handled <- TwoMessages
  Admins <- OneAdmin
  Reasons <- DefaultReason
  Disruptions <- AllDisruptions
  BatchSize = 1
  MaxRetries = 1
  DLQBatchSize = 2
  DLQMaxRetries = 1
SPECIFICATION Spec
INVARIANTS
  OneHolder
  ClosedIsUnused
  TotalDuplicates
