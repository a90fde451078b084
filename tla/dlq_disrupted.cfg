\* every disruption, again and again; an admin, a message without a handler
CONSTANTS
  Messages <- TwoMessages
  Handled <- FirstOnly
  BatchSize = 2
  MaxRetries = 2
  Admins <- OneAdmin
  Reasons <- ShortAndLong
  Disruptions <- AllDisruptions
SPECIFICATION FairSpec
INVARIANTS
  TypeOK
  ResolvedIsPublished
  BoundedRepublish
  PublishedIsCounted
PROPERTY EventuallyClaimed
