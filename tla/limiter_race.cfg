\* two requests of a client, an endpoint; the rate adapts
CONSTANTS
  Requests <- TwoRequests
  IPs <- OneIP
  Endpoints <- OneEndpoint
  GlobalTokens = 2
  MinRate = 1
  MaxRate = 3
  IPTokens = 2
  IPRate = 1
  EndpointTokens = 1
  EndpointRate = 1
  Limits <- OneLimit
  Threshold = 7
  FullLoad = 10
  Loads <- FewLoads
  MaxTime = 2
  MaxSettings = 1
SPECIFICATION Spec
INVARIANTS
  TypeOK
  Conserved
PROPERTIES
  LimitStands
  RateFollowsLoad
