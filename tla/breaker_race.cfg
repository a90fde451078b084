\* two goroutines, admin resets
CONSTANTS
  Threads <- TwoThreads
  FailureThreshold = 2
  ResetTimeout = 2
  HalfOpenMaxCalls = 2
SPECIFICATION FairSpec
INVARIANTS
  TypeOK
  NoMissedTrip
  ProbesBounded
PROPERTIES
  StateMoves
  OpenIsLeft
