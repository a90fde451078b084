\* the batch runs out of time: the discard function uses the same context
CONSTANTS
  Messages <- TwoMessages
  Handled <- TwoMessages
  BatchSize = 2
  MaxRetries = 2
  UseDLQ = TRUE
  Disruptions <- TimeoutOnly
SPECIFICATION Spec
PROPERTY DiscardSettles
CHECK_DEADLOCK FALSE
