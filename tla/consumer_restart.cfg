\* two partitions, sessions that end, stops and crashes
CONSTANTS
  Partitions <- TwoPartitions
  Handled <- OneHandled
  MaxMessages = 2
  MaxDisturbances = 2
SPECIFICATION FairSpec
INVARIANTS
  TypeOK
  PassedWereTried
  PassedBySuccess
  BoundedRedelivery
PROPERTY CaughtUp
