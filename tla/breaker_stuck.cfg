\* the probes end in client errors
CONSTANTS
  Threads <- OneThread
  FailureThreshold = 1
  ResetTimeout = 1
  HalfOpenMaxCalls = 1
SPECIFICATION FairSpec
PROPERTY HalfOpenIsLeft
