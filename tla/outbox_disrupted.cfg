\* every disruption, again and again; a message without a handler
CONSTANTS
  Messages <- ThreeMessages
  Handled <- AllButLast
  BatchSize = 2
  MaxRetries = 2
  UseDLQ = TRUE
  Disruptions <- AllDisruptions
SPECIFICATION FairSpec
INVARIANTS
  TypeOK
  CompletedIsPublished
  ClaimedOnce
  BoundedDuplicates
  DeadLetteredOnce
PROPERTIES
  SettledIsFinal
  LifecycleSpec
  EventuallyClaimed
