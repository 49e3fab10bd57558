\* Two calls in a pool that both can fill; every way a provider may answer.
CONSTANTS
  c1 = c1
  c2 = c2
  None = None
  Calls = {c1, c2}
  Configs <- MCConfigs
  Capacity = 2
  MaxRetries = 1
  Usages <- MCUsages
SPECIFICATION FairSpec
INVARIANTS
  RouterIInv
  RecordsTellTheStory
  CostsAreTracked
  ConnectionsAccounted
PROPERTIES
  ImplementsFailover
  RoutingEnds
CHECK_DEADLOCK FALSE
