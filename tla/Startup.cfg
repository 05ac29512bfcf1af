SPECIFICATION FairSpec
CONSTANTS
  NodeName = {n1, n2}
  PodName = {p1, p2}
  Informer = {pv, pvc}
  None = None
  MaxChanges = 3
INVARIANTS
  TypeOK
  CachesFilled
  ResidentsCounted
PROPERTIES
  ReturnsUnlessStarved
CHECK_DEADLOCK FALSE
